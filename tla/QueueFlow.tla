------------------------------ MODULE QueueFlow ------------------------------
(***************************************************************************)
(* Plans, the Queue that ranks them and the Findings they rest on:         *)
(* internal/queueflow, internal/ranking, the commands "idea qualify",      *)
(* "plan refresh", "policy" and "experiment close", the admission step of  *)
(* internal/controlplane and the inventory rules that relate the records.  *)
(*                                                                         *)
(* A command reads one snapshot of the records, prepares its changes (an   *)
(* agent may be asked for minutes meanwhile) and hands them to Transact,   *)
(* which compares the revisions the command names and validates the whole  *)
(* inventory that would result.  Transact itself is one step here; module  *)
(* Transaction shows why.                                                  *)
(***************************************************************************)
EXTENDS Integers, Sequences, FiniteSets

CONSTANTS
    Clients,      \* processes that run commands, the daemon among them
    Plans,        \* Plans, each with the Idea it came from
    Findings,     \* Findings that are or may be published
    Depends,      \* the Findings each Plan depends on
    Score,        \* the numeric score of each Plan
    Founding,     \* the Finding published at the start
    Underway,     \* a Plan whose Experiment has run and is still active
    Waiting,      \* the Plans in the Queue at the start, in order
    Idle,         \* a client without a command
    MaxCommands   \* bound on the commands begun

\* The Queue at the start names Plans once each, and not one under way.
Lined ==
    /\ Waiting \in Seq(Plans) /\ Underway \in Plans
    /\ \A i, k \in DOMAIN Waiting : Waiting[i] = Waiting[k] => i = k
    /\ \A i \in DOMAIN Waiting : Waiting[i] # Underway

VARIABLES
    docs,      \* Idea, Plan, Queue and Policy records: revision and value
    findings,  \* published Findings, and the ones each weakens or overturns
    ran,       \* Plans whose Run has a successful Attempt
    cmd,       \* the command each client has prepared
    begun      \* commands begun so far

queueVars == <<docs, findings, ran, cmd, begun>>

Idea(p) == <<"idea", p>>
Plan(p) == <<"plan", p>>
Queue == <<"queue">>
Policy == <<"policy">>
Docs == {Idea(p) : p \in Plans} \cup {Plan(p) : p \in Plans} \cup {Queue, Policy}

Entry(p, rev, pinned) == [plan |-> p, rev |-> rev, pinned |-> pinned]
Listed(q) == {q[i].plan : i \in DOMAIN q}
Ranks(q) == [i \in DOMAIN q |-> q[i].plan]
\* A listed Plan has one entry, so what is left is everything else.
Without(q, p) ==
    LET n == CHOOSE i \in DOMAIN q : q[i].plan = p
    IN  SubSeq(q, 1, n - 1) \o SubSeq(q, n + 1, Len(q))
Place(q, n, x) == SubSeq(q, 1, n) \o <<x>> \o SubSeq(q, n + 1, Len(q))

(***************************************************************************)
(* Beliefs and the diagnostics of an inventory                             *)
(***************************************************************************)
\* The belief digest of a Finding covers every edge that enters it.
BeliefDigest(f, fs) == {g \in DOMAIN fs : f \in fs[g]}
Pins(p, fs) == [f \in Depends[p] |-> BeliefDigest(f, fs)]

Stale(p, d, fs) ==
    d[Plan(p)].val.state = "queued" /\ d[Plan(p)].val.pins # Pins(p, fs)

\* Diagnostics that a later command may repair, and the Plan they are about.
Repairable(d, fs) ==
    LET q == d[Queue].val
    IN  {<<"plan.belief_stale", p>> : p \in {x \in Plans : Stale(x, d, fs)}}
        \cup {<<"queue.plan_stale", q[i].plan>> :
                i \in {n \in DOMAIN q : q[n].rev # d[Plan(q[n].plan)].rev}}
        \cup {<<"queue.cluster_saturated", q[i].plan>> :
                i \in {n \in DOMAIN q : ~q[n].pinned /\ d[Policy].val.saturated}}

\* Diagnostics that nothing may leave behind.
Broken(d) ==
    LET q == d[Queue].val
    IN  {<<"queue.plan_state", q[i].plan>> :
            i \in {n \in DOMAIN q : d[Plan(q[n].plan)].val.state # "queued"}}
        \cup {<<"queue.plan_duplicate", q[i].plan>> :
            i \in {n \in DOMAIN q : \E k \in DOMAIN q : k # n /\ q[k].plan = q[n].plan}}
        \cup {<<"idea.resulting_plan", p>> : p \in {x \in Plans :
            /\ d[Idea(x)].val \in {"qualified", "queued"}
            /\ d[Plan(x)].val.state = "absent"}}

Valid(d, fs) == Repairable(d, fs) = {} /\ Broken(d) = {}

\* The state changes an Idea may make.
MayTurn(old, new) ==
    \/ old = new
    \/ old = "proposed" /\ new \in {"qualified", "dismissed"}
    \/ old = "qualified" /\ new \in {"queued", "dismissed"}
    \/ old = "queued" /\ new \in {"qualified", "dismissed"}

\* One value to write, and two sets of them.
Value(k, v) == [x \in {k} |-> v]
Both(f, g) == [x \in DOMAIN f \cup DOMAIN g |-> IF x \in DOMAIN f THEN f[x] ELSE g[x]]

(***************************************************************************)
(* A prepared command: the values to write, the revisions they replace,    *)
(* a new Finding, and whether the result may be stale                      *)
(***************************************************************************)
NoBattle == [order |-> <<>>, at |-> 0, up |-> FALSE, audits |-> <<>>, ties |-> FALSE]

CommandButQueue(op, p, writes) ==
    [op |-> op, plan |-> p, writes |-> writes,
     expect |-> [k \in DOMAIN writes \ {Queue} |-> docs[k].rev],
     finding |-> <<>>, stale |-> FALSE, rank |-> NoBattle, asked |-> <<>>]

Command(op, p, writes) ==
    [op |-> op, plan |-> p, writes |-> writes,
     expect |-> [k \in DOMAIN writes |-> docs[k].rev],
     finding |-> <<>>, stale |-> FALSE, rank |-> NoBattle, asked |-> <<>>]

After(c) ==
    [k \in Docs |-> IF k \in DOMAIN cmd[c].writes
                    THEN [rev |-> docs[k].rev + 1, val |-> cmd[c].writes[k]]
                    ELSE docs[k]]
FindingsAfter(c) ==
    [f \in DOMAIN findings \cup DOMAIN cmd[c].finding |->
        IF f \in DOMAIN findings THEN findings[f] ELSE cmd[c].finding[f]]

Current(c) == \A k \in DOMAIN cmd[c].expect : docs[k].rev = cmd[c].expect[k]

Acceptable(c) ==
    /\ Current(c)
    /\ \A p \in Plans : MayTurn(docs[Idea(p)].val, After(c)[Idea(p)].val)
    /\ Broken(After(c)) = {}
    /\ cmd[c].stale \/ Repairable(After(c), FindingsAfter(c)) = {}

Begin(c, command) ==
    /\ cmd[c] = Idle /\ begun < MaxCommands
    /\ cmd' = [cmd EXCEPT ![c] = command]
    /\ begun' = begun + 1
    /\ UNCHANGED <<docs, findings, ran>>

QueueInit ==
    /\ findings = [f \in {Founding} |-> {}]
    /\ ran = {Underway}
    /\ docs = [k \in Docs |->
         CASE k = Queue -> [rev |-> 1, val |-> [i \in DOMAIN Waiting |-> Entry(Waiting[i], 1, FALSE)]]
           [] k = Policy -> [rev |-> 1, val |-> [auto |-> TRUE, saturated |-> FALSE]]
           [] k[1] = "idea" -> [rev |-> 1, val |->
                CASE k[2] = Underway \/ k[2] \in {Waiting[i] : i \in DOMAIN Waiting} -> "queued"
                  [] OTHER -> "proposed"]
           [] k[1] = "plan" ->
                CASE k[2] = Underway -> [rev |-> 2, val |-> [state |-> "started", pins |-> Pins(k[2], findings)]]
                  [] k[2] \in {Waiting[i] : i \in DOMAIN Waiting} ->
                        [rev |-> 1, val |-> [state |-> "queued", pins |-> Pins(k[2], findings)]]
                  [] OTHER -> [rev |-> 0, val |-> [state |-> "absent", pins |-> <<>>]]]
    /\ cmd = [c \in Clients |-> Idle]
    /\ begun = 0

(***************************************************************************)
(* Ideas, Plans and Policy                                                 *)
(***************************************************************************)
Qualify(c, p) ==
    /\ docs[Idea(p)].val = "proposed"
    /\ Begin(c, Command("qualify", p,
         Both(Value(Plan(p), [state |-> "queued", pins |-> Pins(p, findings)]),
              Value(Idea(p), "qualified"))))

\* A person may dismiss an Idea with a record transaction at any time.
Dismiss(c, p) ==
    /\ docs[Idea(p)].val # "dismissed"
    /\ Begin(c, Command("dismiss", p, Value(Idea(p), "dismissed")))

SetPolicy(c) ==
    \E value \in {[docs[Policy].val EXCEPT !.auto = ~@],
                  [docs[Policy].val EXCEPT !.saturated = ~@]} :
        Begin(c, Command("policy", Underway, Value(Policy, value)))

Requalified(p) == IF docs[Idea(p)].val = "queued" THEN Value(Idea(p), "qualified") ELSE <<>>

\* "plan refresh": the beliefs are pinned anew, the Plan leaves the Queue it
\* is seen in and its Idea is qualified again; the result may stay stale.
RefreshWrites(p) ==
    Both(Value(Plan(p), [state |-> "queued", pins |-> Pins(p, findings)]),
         Both(IF p \in Listed(docs[Queue].val) THEN Value(Queue, Without(docs[Queue].val, p)) ELSE <<>>,
              Requalified(p)))

Refresh(c, p) ==
    /\ docs[Plan(p)].val.state = "queued"
    /\ Broken(docs) = {}
    /\ Begin(c, [Command("refresh", p, RefreshWrites(p)) EXCEPT !.stale = TRUE])

(***************************************************************************)
(* Insertion                                                               *)
(***************************************************************************)
Insertable(p) ==
    /\ docs[Plan(p)].val.state = "queued"
    /\ p \notin Listed(docs[Queue].val)
    /\ Valid(docs, findings)

QueuedIdea(p) ==
    IF docs[Idea(p)].val = "qualified" THEN Value(Idea(p), "queued") ELSE <<>>

\* Without a position the Plan goes before the first lower score.
Positions(p) ==
    LET q == docs[Queue].val
        byScore == {n \in 0..Len(q) : /\ \A i \in 1..n : Score[p] <= Score[q[i].plan]
                                      /\ n < Len(q) => Score[p] > Score[q[n + 1].plan]}
    IN  byScore \cup 0..Len(q)

InsertWrites(p, position, pinned) ==
    Both(Value(Queue, Place(docs[Queue].val, position, Entry(p, docs[Plan(p)].rev, pinned))), QueuedIdea(p))

Insert(c, p, pinned) ==
    /\ Insertable(p)
    /\ \E n \in Positions(p) : Begin(c, Command("insert", p, InsertWrites(p, n, pinned)))

\* The agent ranks all candidates once; the Plan is put where it says and then
\* battles its neighbours.  The Queue document and its revision are those of
\* the snapshot, whatever happens while the agent answers.
Advise(c, p, pinned) ==
    /\ Insertable(p)
    /\ \E n \in 0..Len(docs[Queue].val), ties \in BOOLEAN :
         Begin(c, [Command("battle", p, Both(QueuedIdea(p), Value(Queue, docs[Queue].val))) EXCEPT
                     !.rank = [order |-> Place(Ranks(docs[Queue].val), n, p),
                               at |-> n + 1, up |-> TRUE, audits |-> <<>>, ties |-> ties],
                     !.asked = Append(docs[Queue].val, Entry(p, docs[Plan(p)].rev, pinned))])

OpponentAbove(r) == IF r.up /\ r.at > 1 THEN r.at - 1 ELSE 0
Opponent(r) ==
    IF r.up THEN (IF r.at > 1 THEN r.at - 1 ELSE 0)
            ELSE (IF r.at < Len(r.order) THEN r.at + 1 ELSE 0)
Switch(s, i, k) == [s EXCEPT ![i] = s[k], ![k] = s[i]]

\* The order of the plans, carried over to the entries they were read with.
FromRanking(command, order) ==
    [i \in DOMAIN order |->
        CHOOSE e \in {command.asked[n] : n \in DOMAIN command.asked} : e.plan = order[i]]

\* One neighbour is compared in both orders of presentation; disagreement or
\* low confidence needs a human, and so does a tie if Policy.tie_policy says
\* human_review; then only the audits are published.
Battle(c) ==
    /\ cmd[c] # Idle /\ cmd[c].op = "battle"
    /\ LET r == cmd[c].rank
           rival == Opponent(r)
       IN  \E outcome \in {"challenger", "incumbent", "tie", "needs_human"} :
             LET audited == [r EXCEPT !.audits = Append(@, <<r.order[rival], outcome>>)]
                 moved == [audited EXCEPT !.order = Switch(@, r.at, rival), !.at = rival]
                 Decided(rank) == [cmd EXCEPT ![c].rank = rank, ![c].op = "ranked",
                                   ![c].writes = Both(Value(Queue, FromRanking(cmd[c], rank.order)), cmd[c].writes)]
                 human == outcome = "needs_human" \/ (outcome = "tie" /\ r.ties)
                 stays == outcome = "incumbent" \/ (outcome = "tie" /\ ~r.ties)
             IN  \/ /\ rival = 0 /\ r.up
                    /\ cmd' = [cmd EXCEPT ![c].rank.up = FALSE]
                 \/ /\ rival = 0 /\ ~r.up
                    /\ cmd' = Decided(r)
                 \/ /\ rival # 0 /\ human
                    /\ cmd' = [cmd EXCEPT ![c].rank = audited, ![c].op = "audit",
                               ![c].writes = <<>>, ![c].expect = <<>>]
                 \/ /\ rival # 0 /\ r.up /\ outcome = "challenger"
                    /\ cmd' = [cmd EXCEPT ![c].rank = moved]
                 \/ /\ rival # 0 /\ r.up /\ stays
                    /\ cmd' = [cmd EXCEPT ![c].rank = [audited EXCEPT !.up = FALSE]]
                 \/ /\ rival # 0 /\ ~r.up /\ outcome = "challenger"
                    /\ cmd' = Decided(audited)
                 \/ /\ rival # 0 /\ ~r.up /\ stays
                    /\ cmd' = [cmd EXCEPT ![c].rank = moved]
    /\ UNCHANGED <<docs, findings, ran, begun>>

Remove(c, p) ==
    /\ p \in Listed(docs[Queue].val)
    /\ Begin(c, Command("remove", p,
         Both(Value(Queue, Without(docs[Queue].val, p)), Requalified(p))))

(***************************************************************************)
(* Admission, evidence and closure                                         *)
(***************************************************************************)
\* Nothing is dispatched from an inventory with any diagnostic, nor unless the
\* Policy grants autonomy.
Dispatchable == Valid(docs, findings) /\ docs[Policy].val.auto

\* The entry at the head of the (only) partition, and its Plan if it waits.
Frontier == {docs[Queue].val[i] : i \in DOMAIN docs[Queue].val \cap {1}}
Eligible == {p \in {e.plan : e \in Frontier} : docs[Plan(p)].val.state = "queued"}

\* Adapter.Prepare: the workspace is prepared before the transaction, which
\* guards Plan and Queue.
AdmitWrites(p) ==
    Both(Value(Plan(p), [state |-> "started", pins |-> docs[Plan(p)].val.pins]),
         Value(Queue, Tail(docs[Queue].val)))

Admit(c) ==
    /\ Dispatchable
    /\ \E p \in Eligible : Begin(c, Command("admit", p, AdmitWrites(p)))

\* The result of the Run is imported, once the inventory is valid.
Import(p) ==
    /\ docs[Plan(p)].val.state = "started" /\ p \notin ran
    /\ Valid(docs, findings)
    /\ ran' = ran \cup {p}
    /\ UNCHANGED <<docs, findings, cmd, begun>>

\* A Finding needs an included Run that succeeded; its identity is fresh.
Fresh(f) == f \notin DOMAIN findings /\ \A c \in Clients : cmd[c] # Idle => f \notin DOMAIN cmd[c].finding

Conclusions(p) ==
    {<<>>} \cup {Value(f, against) : f \in {x \in Findings : p \in ran /\ Fresh(x)},
                                    against \in SUBSET DOMAIN findings}

Close(c, p) ==
    /\ docs[Plan(p)].val.state = "started"
    /\ Valid(docs, findings)
    /\ \E finding \in Conclusions(p) :
         Begin(c, [Command("close", p, Value(Plan(p), [state |-> "completed", pins |-> docs[Plan(p)].val.pins]))
                     EXCEPT !.finding = finding, !.stale = TRUE])

(***************************************************************************)
(* Transact                                                                *)
(***************************************************************************)
Commit(c) ==
    /\ cmd[c] # Idle /\ cmd[c].op # "battle"
    /\ docs' = IF Acceptable(c) THEN After(c) ELSE docs
    /\ findings' = IF Acceptable(c) THEN FindingsAfter(c) ELSE findings
    /\ cmd' = [cmd EXCEPT ![c] = Idle]
    /\ UNCHANGED <<ran, begun>>

\* A refused agent answer, or a kill, ends the command without a trace.
Fail(c) ==
    /\ cmd[c] # Idle
    /\ cmd' = [cmd EXCEPT ![c] = Idle]
    /\ UNCHANGED <<docs, findings, ran, begun>>

QueueNext ==
    \/ \E c \in Clients :
         \/ \E p \in Plans :
              \/ Qualify(c, p) \/ Dismiss(c, p) \/ Refresh(c, p)
              \/ Remove(c, p) \/ Close(c, p)
              \/ \E pinned \in BOOLEAN : Insert(c, p, pinned) \/ Advise(c, p, pinned)
         \/ SetPolicy(c) \/ Battle(c) \/ Admit(c) \/ Commit(c) \/ Fail(c)
    \/ \E p \in Plans : Import(p)

QueueSpec == QueueInit /\ [][QueueNext]_queueVars

(***************************************************************************)
(* Properties                                                              *)
(***************************************************************************)
\* The revisions a command names protect the structure of the inventory: when
\* none of them changed, the result has no diagnostic but staleness, so the
\* validation of the whole inventory is never what keeps a Plan from being
\* queued twice, queued while it runs, or orphaned from its Idea.
GuardsSuffice ==
    \A c \in Clients :
        cmd[c] # Idle /\ cmd[c].op # "battle" /\ Current(c) => Broken(After(c)) = {}

\* An Idea is marked queued exactly while its Plan waits in the Queue or has
\* been taken from it, whatever commands raced (a dismissed Idea stays so).
IdeaFollowsQueue ==
    \A p \in Plans :
        LET taken == docs[Plan(p)].val.state \in {"started", "completed"}
        IN  /\ docs[Idea(p)].val = "queued" => p \in Listed(docs[Queue].val) \/ taken
            /\ p \in Listed(docs[Queue].val) => docs[Idea(p)].val \in {"queued", "dismissed"}

\* New evidence never wedges the inventory: for each stale Plan a refresh that
\* is not disturbed is accepted and clears it without making another stale.
RepairPossible ==
    \A p \in {x[2] : x \in Repairable(docs, findings)} :
        LET writes == RefreshWrites(p)
            after == [k \in Docs |-> IF k \in DOMAIN writes
                                     THEN [rev |-> docs[k].rev + 1, val |-> writes[k]] ELSE docs[k]]
        IN  /\ docs[Plan(p)].val.state = "queued"
            /\ Broken(after) = {}
            /\ Repairable(after, findings) \subseteq {x \in Repairable(docs, findings) : x[2] # p}

\* What changes of Queue, Ideas and Plans leave is consistent.
QueueSound == GuardsSuffice /\ IdeaFollowsQueue /\ RepairPossible

\* No change of the Queue swaps two Plans that are in it before and after.
OrderKept ==
    LET old == docs[Queue].val
        new == docs'[Queue].val
        At(q, p) == CHOOSE i \in DOMAIN q : q[i].plan = p
    IN  \A p, r \in Listed(old) \cap Listed(new) :
          At(old, p) < At(old, r) => At(new, p) < At(new, r)

\* A Plan an agent ranked enters the Queue between neighbours it has battled:
\* the last verdict put the one before it ahead, and it ahead of the one after.
Justified ==
    \A c \in Clients :
      cmd[c] # Idle /\ cmd[c].op = "ranked" /\ docs'[Queue].rev # docs[Queue].rev /\ cmd'[c] = Idle =>
        LET p == cmd[c].plan
            q == docs'[Queue].val
            i == CHOOSE n \in DOMAIN q : q[n].plan = p
            said == cmd[c].rank.audits
            Last(r, outcomes) == \E n \in DOMAIN said :
                /\ said[n][1] = r /\ said[n][2] \in outcomes
                /\ \A k \in n + 1 .. Len(said) : said[k][1] # r
        IN  /\ i > 1 => Last(q[i - 1].plan, {"incumbent", "tie"})
            /\ i < Len(q) => Last(q[i + 1].plan, {"challenger"})

\* What is admitted is the head of the Queue, at the revision it was ranked
\* with, and nothing else leaves or enters the Queue with it.
AdmittedAsRanked ==
    \A p \in Plans :
      docs[Plan(p)].val.state = "queued" /\ docs'[Plan(p)].val.state = "started" =>
        /\ docs[Queue].val # <<>>
        /\ Head(docs[Queue].val) = Entry(p, docs[Plan(p)].rev, Head(docs[Queue].val).pinned)
        /\ docs'[Queue].val = Tail(docs[Queue].val)

\* The order of the Queue is that of its rankings, from the battles that place
\* a Plan to its admission.
Ranked == OrderKept /\ Justified /\ AdmittedAsRanked
QueueRanked == [][Ranked]_queueVars

\* docs/design/autonomous-research-control-plane.md: "Stale Plans are invalid
\* inventory and cannot be dispatched".
StartsFresh ==
    \A p \in Plans :
        docs[Plan(p)].val.state = "queued" /\ docs'[Plan(p)].val.state = "started" =>
            ~Stale(p, docs, findings)
AdmittedFresh == [][StartsFresh]_queueVars

=============================================================================
