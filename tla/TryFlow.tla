------------------------------ MODULE TryFlow ------------------------------
(***************************************************************************)
(* Direct Tries: internal/tryflow over the operational store.  A command   *)
(* of "exp try" plans an Attempt in the canonical records, prepares its    *)
(* worktree, queues and claims a job, runs the workload itself and imports *)
(* the terminal marker; other commands resume, retry, reconcile, close and *)
(* clean up, while any of them may be killed at any step.                  *)
(*                                                                         *)
(* One Try and its Attempts, which are also the ids of their jobs.  Every  *)
(* access to the canonical records, the store, the marker directory or the *)
(* worktree is one step.  A canonical transaction is one step here (its    *)
(* own steps are those of Transaction): it succeeds only while every       *)
(* record the command replaces or guards is still the one it has seen.     *)
(* The worktree backend is reduced to the outcome of Prepare, Inspect and  *)
(* CleanupOrHandoff, which hold the workspace lock throughout.             *)
(***************************************************************************)
EXTENDS Operation

CONSTANTS
    Commands,      \* processes of "exp try"
    MaxAttempts,   \* bound: Attempts of the Try
    MaxKills,      \* bound: commands that are killed, or stop at an error
    Ops,           \* which of Operations this instance considers
    Trouble        \* which of Troubles

Operations == {"create", "run", "exec", "resume", "retry", "reconcile",
               "conclude", "abandon", "adopt", "cleanup"}

\* stall: the heartbeat of a command stops; lose: the operational store is
\* lost between commands; spoil: the workload leaves the allowed paths;
\* daemon: a daemon replays the marker.
Troubles == {"stall", "lose", "spoil", "daemon"}

ASSUME TryAssumption ==
    /\ MaxAttempts \in Nat \ {0} /\ MaxKills \in Nat
    /\ 1 .. MaxAttempts \subseteq Direct
    /\ Ops \subseteq Operations /\ Trouble \subseteq Troubles
    /\ None \notin Commands

Attempts == 1 .. MaxAttempts

VARIABLES
    try,        \* the state of the Try
    row,        \* row[a]: the canonical Attempt
    live,       \* live[a]: the claim of job a has not expired
    evidence,   \* evidence[a]: the terminal marker
    tree,       \* tree[a]: the managed worktree
    preparing,  \* preparing[a]: its private preparation marker exists
    wlock,      \* wlock[a]: who holds the workspace lock
    cmd,        \* cmd[c]: where command c is, and what it keeps
    invoked,    \* history: how often the workload of a was started
    loose,      \* workloads that outlive their killed command
    kills,      \* history: commands that were killed
    ideas       \* Ideas created by adoption

fileVars == <<evidence, tree, preparing, loose>>
tryVars == <<try, row, live, fileVars, wlock, cmd, invoked, kills, ideas>>
allVars == <<storeVars, tryVars>>

TryState == {"none", "open", "concluded", "abandoned", "adopted"}
Pending == {"planned", "queued", "starting", "running", "unknown"}
Row == [state : {"absent"} \cup Pending \cup JobTerminal,
        source : {"none", "direct", "human"},
        retryOf : 0 .. MaxAttempts, cleaned : BOOLEAN]
NoRow == [state |-> "absent", source |-> "none", retryOf |-> 0, cleaned |-> FALSE]

\* partial: its preparation was cut short; used: the workload changed allowed
\* files; spoiled: others too; gone: removed, but its branch is retained.
TreeState == {"absent", "partial", "ready", "used", "spoiled", "gone"}

\* The steps between claiming the job and the end of the run, all of which
\* the heartbeat covers; it holds the workspace lock in Locked.
Locked == {"check", "working", "publish", "finish"}
Beating == {"mark", "lock"} \cup Locked
Pc == {"idle", "plan", "close", "markers", "settle", "execute", "lookup",
       "prepare", "enqueue", "queue", "recover", "doubt", "repair", "start",
       "claim", "import", "ask", "cancel", "giveup", "tidy", "note"} \cup Beating
Command == [pc : Pc, op : Operations \cup {"none", "fenced"}, att : 0 .. MaxAttempts,
            todo : SUBSET Attempts, try : TryState, seen : [Attempts -> Row],
            fresh : BOOLEAN, won : BOOLEAN, outcome : JobTerminal \cup {"none"}]
Idle == [pc |-> "idle", op |-> "none", att |-> 0, todo |-> {}, try |-> "none",
         seen |-> [a \in Attempts |-> NoRow], fresh |-> FALSE, won |-> FALSE,
         outcome |-> "none"]

TryInit ==
    /\ StoreInit
    /\ try = "none"
    /\ row = [a \in Attempts |-> NoRow]
    /\ live = [a \in Attempts |-> FALSE]
    /\ evidence = [a \in Attempts |-> "none"]
    /\ tree = [a \in Attempts |-> "absent"]
    /\ preparing = [a \in Attempts |-> FALSE]
    /\ wlock = [a \in Attempts |-> None]
    /\ cmd = [c \in Commands |-> Idle]
    /\ invoked = [a \in Attempts |-> 0]
    /\ loose = {}
    /\ kills = 0
    /\ ideas = 0

----------------------------------------------------------------------------
(* What a command knows, and how it acts on it.                            *)

On(c, pc) == cmd[c].pc = pc
Att(c) == cmd[c].att
SeenRow(c) == cmd[c].seen[Att(c)]

To(c, pc) == cmd' = [cmd EXCEPT ![c].pc = pc]
Stop(c) == cmd' = [cmd EXCEPT ![c] = Idle]

Existing(rows) == {a \in Attempts : rows[a].state # "absent"}
Unfinished(rows) == {a \in Attempts : rows[a].state \in Pending}
\* At most one: the first and the last of a set of Attempts.
First(attempts) == {a \in attempts : \A b \in attempts : a <= b}
Latest(rows) == {a \in Existing(rows) : \A b \in Existing(rows) : b <= a}
Terminal(r) == r.state \in JobTerminal

keepStore == UNCHANGED storeVars
keepRecords == UNCHANGED <<try, row, ideas>>
keepFiles == UNCHANGED fileVars
keepRun == UNCHANGED <<live, wlock, invoked, kills>>

\* Faulty variant: only the record at hand is validated.
RowValid(t, rows) == TRUE

\* The whole-inventory rules every transaction is validated against, under
\* the canonical lock: a closed Try owns no unfinished Attempt, and a retry
\* follows a terminal Attempt that has no other successor.
InventoryValid(t, rows) ==
    /\ t \notin {"none", "open"} => Unfinished(rows) = {}
    /\ \A a \in Existing(rows) : rows[a].retryOf # 0 =>
         /\ Terminal(rows[rows[a].retryOf])
         /\ \A b \in Existing(rows) \ {a} : rows[b].retryOf # rows[a].retryOf

\* allowedAttemptTransition.
MayBecome(old, new) ==
    \/ old = "planned" /\ new \in {"queued", "starting", "running", "unknown"} \cup JobTerminal
    \/ old = "queued" /\ new \in {"starting", "running", "unknown"} \cup JobTerminal
    \/ old = "starting" /\ new \in {"running", "unknown"} \cup JobTerminal
    \/ old \in {"running", "unknown"} /\ new \in (Pending \ {"planned"}) \cup JobTerminal

\* Faulty variant: the record may have changed since it was read.
ReplaceBlind(a, seen, new) ==
    /\ MayBecome(seen.state, new.state)
    /\ InventoryValid(try, [row EXCEPT ![a] = new])

\* updateAttemptState succeeds: a no-op when nothing would change.
Replace(a, seen, new) ==
    /\ row[a] = seen
    /\ MayBecome(seen.state, new.state)
    /\ InventoryValid(try, [row EXCEPT ![a] = new])

\* Command c moves its Attempt to a state, going on at pc, or stops at the
\* error when the record has changed since c read it.
Update(c, state, source, pc) ==
    LET new == [SeenRow(c) EXCEPT !.state = state, !.source = source]
        next == IF pc = "idle" THEN Idle
                ELSE [cmd[c] EXCEPT !.pc = pc, !.seen[Att(c)] = new]
    IN  /\ IF new = SeenRow(c)
           THEN row' = row /\ cmd' = [cmd EXCEPT ![c] = next]
           ELSE IF Replace(Att(c), SeenRow(c), new)
           THEN row' = [row EXCEPT ![Att(c)] = new] /\ cmd' = [cmd EXCEPT ![c] = next]
           ELSE row' = row /\ Stop(c)
        /\ UNCHANGED <<try, ideas>>
        /\ keepStore /\ keepFiles /\ keepRun

\* The rows of rows that the command will use again.
Keep(rows, used) == [a \in Attempts |-> IF a \in used THEN rows[a] ELSE NoRow]

\* The command moves on without changing anything shared.
Note(c, next) ==
    /\ cmd' = [cmd EXCEPT ![c] = next]
    /\ keepStore /\ keepRecords /\ keepFiles /\ keepRun

----------------------------------------------------------------------------
(* Commands begin with a snapshot of the inventory.                        *)

StartWith(c, op, pc, a, todo) ==
    LET used == CASE op = "conclude" \/ op = "abandon" -> Attempts
                  [] op = "resume" -> todo \cup Latest(row)
                  [] OTHER -> todo \cup {a}
    IN  Note(c, [Idle EXCEPT !.pc = pc, !.op = op, !.att = a, !.todo = todo,
                             !.try = IF pc \in {"plan", "close"} THEN try ELSE "none",
                             !.seen = Keep(row, used)])

BeginRun(c) ==
    \E op \in Ops \cap {"create", "run", "exec"} :
        /\ On(c, "idle")
        /\ try = (IF op = "exec" THEN "open" ELSE "none")
        /\ StartWith(c, op, "plan", 0, {})

BeginResume(c) ==
    /\ "resume" \in Ops /\ On(c, "idle")
    /\ Existing(row) # {}
    /\ StartWith(c, "resume", "markers", 0, Unfinished(row))

\* Retry creates a successor of a terminal Attempt, and resumes any other.
BeginRetry(c) ==
    /\ "retry" \in Ops /\ On(c, "idle")
    /\ try = "open"
    /\ \E last \in Latest(row) :
         IF Terminal(row[last]) THEN StartWith(c, "retry", "plan", last, {})
         ELSE StartWith(c, "resume", "markers", 0, Unfinished(row))

BeginReconcile(c) ==
    /\ "reconcile" \in Ops /\ On(c, "idle")
    /\ try = "open"
    /\ \E a \in Existing(row) :
         StartWith(c, "reconcile", "markers", a, {a} \cap Unfinished(row))

\* Conclude, Abandon and Adopt; the same request again is only answered.
BeginClose(c) ==
    \E op \in Ops \cap {"conclude", "abandon", "adopt"} :
        /\ On(c, "idle")
        /\ IF op = "adopt" THEN try = "concluded"
           ELSE try = "open" /\ Unfinished(row) = {}
        /\ StartWith(c, op, "close", 0, {})

BeginCleanup(c) ==
    /\ "cleanup" \in Ops /\ On(c, "idle")
    /\ StartWith(c, "cleanup", "tidy", 0,
                {a \in Attempts : Terminal(row[a]) /\ ~row[a].cleaned})

----------------------------------------------------------------------------
(* Canonical plans and closures.                                           *)

\* Attempts are created one after the other.
NewAttempt(rows) ==
    {a \in Attempts : \A b \in Attempts : b \in Existing(rows) <=> b < a}
Extended(new, prior) ==
    [row EXCEPT ![new] = [NoRow EXCEPT !.state = "planned", !.retryOf = prior]]

\* The one transaction of a command that plans an Attempt after prior: it is
\* executed next.  The command stops if a record it guards has changed.
PlanAttempt(c, prior, guarded) ==
    /\ LET new == {a \in NewAttempt(row) : guarded /\ InventoryValid("open", Extended(a, prior))}
       IN  IF new # {}
           THEN \E a \in new :
                  /\ try' = "open"
                  /\ row' = Extended(a, prior)
                  /\ cmd' = [cmd EXCEPT ![c] = [Idle EXCEPT !.pc = "execute", !.att = a]]
           ELSE UNCHANGED <<try, row>> /\ Stop(c)
    /\ keepStore /\ keepFiles /\ keepRun /\ UNCHANGED ideas

\* Service.Create: a Try without an Attempt.
CreateTry(c) ==
    /\ On(c, "plan") /\ cmd[c].op = "create"
    /\ try' = IF try = cmd[c].try THEN "open" ELSE try
    /\ Stop(c)
    /\ keepStore /\ keepFiles /\ keepRun /\ UNCHANGED <<row, ideas>>

\* Run creates the Try with its first Attempt; with an existing Try ("exec")
\* it guards its revision.
Plan(c) ==
    /\ On(c, "plan") /\ cmd[c].op \in {"run", "exec"}
    /\ PlanAttempt(c, 0, try = cmd[c].try)

\* Retry also guards the predecessor, whose successor it creates.
PlanRetry(c) ==
    /\ On(c, "plan") /\ cmd[c].op = "retry"
    /\ PlanAttempt(c, Att(c), try = cmd[c].try /\ row[Att(c)] = SeenRow(c))

Closed(op) == CASE op = "conclude" -> "concluded"
                [] op = "abandon" -> "abandoned"
                [] op = "adopt" -> "adopted"

\* The Try is replaced and the Attempts it was judged by are guarded; an
\* adoption also creates its Idea.
Close(c) ==
    /\ On(c, "close")
    /\ LET new == Closed(cmd[c].op)
       IN  IF /\ try = cmd[c].try
              /\ new # "adopted" =>
                   \A a \in Existing(cmd[c].seen) : row[a] = cmd[c].seen[a]
              /\ InventoryValid(new, row)
           THEN try' = new /\ ideas' = ideas + (IF new = "adopted" THEN 1 ELSE 0)
           ELSE UNCHANGED <<try, ideas>>
    /\ Stop(c)
    /\ UNCHANGED row
    /\ keepStore /\ keepFiles /\ keepRun

----------------------------------------------------------------------------
(* Terminal markers: reconcileAttemptMarkers, for every Attempt on the     *)
(* list, before a Resume or a Reconcile does anything else.                *)

\* ValidateTerminalForJob; without a job the marker's identity is enough.
Agrees(a) == job[a].state \in {"absent", "running", evidence[a]}

\* completedAttemptDisposition, or that of importTerminal: a workspace that
\* left its policy fails the Attempt; one that is missing is an error.
Inspectable(a) == tree[a] \notin {"absent", "gone"}
Disposition(a) == IF tree[a] = "spoiled" THEN "failed" ELSE evidence[a]

ReadMarker(c) ==
    /\ On(c, "markers")
    /\ \E a \in First(cmd[c].todo) :
           Note(c, IF evidence[a] = "none" THEN [cmd[c] EXCEPT !.todo = @ \ {a}]
                   ELSE IF ~Agrees(a) \/ ~Inspectable(a) THEN Idle
                   ELSE [cmd[c] EXCEPT !.pc = "settle", !.att = a, !.won = TRUE,
                                       !.todo = @ \ {a}, !.outcome = Disposition(a)])

Settle(c) ==
    /\ On(c, "settle")
    /\ Update(c, cmd[c].outcome, "direct", "markers")

\* A Resume reads the inventory again if it imported anything, and goes on
\* with the latest Attempt.
ResumeLatest(c) ==
    /\ On(c, "markers") /\ cmd[c].todo = {} /\ cmd[c].op = "resume"
    /\ LET rows == IF cmd[c].won THEN row ELSE cmd[c].seen
       IN  \E last \in Latest(rows) :
             Note(c, IF Terminal(rows[last]) THEN Idle
                     ELSE [Idle EXCEPT !.pc = "execute", !.att = last])

\* A Reconcile is done if it found the marker after all.
ReconcileUnknown(c) ==
    /\ On(c, "markers") /\ cmd[c].todo = {} /\ cmd[c].op = "reconcile"
    /\ Note(c, IF cmd[c].won \/ SeenRow(c).state # "unknown" THEN Idle
               ELSE [cmd[c] EXCEPT !.pc = "ask"])

\* Nor found one after it lost the race for the job: only a cancelled or
\* unknown job may be given up.
ReconcileFenced(c) ==
    /\ On(c, "markers") /\ cmd[c].todo = {} /\ cmd[c].op = "fenced"
    /\ Note(c, IF cmd[c].won \/ job[Att(c)].state \notin {"cancelled", "unknown"}
               THEN Idle ELSE [cmd[c] EXCEPT !.pc = "giveup"])

----------------------------------------------------------------------------
(* execute: up to the claim of the job.                                    *)

\* The inventory is read again before anything is prepared.
Execute(c) ==
    /\ On(c, "execute")
    /\ Note(c, IF Terminal(row[Att(c)]) \/ try # "open" THEN Idle
               ELSE [cmd[c] EXCEPT !.pc = "lookup", !.seen = Keep(row, {Att(c)})])

\* Waiting or uncertain: the job runs, no marker, and its claim is alive.
InProgress(a) == job[a].state = "running" /\ evidence[a] = "none" /\ live[a]

\* A running workload owns the workspace lock, so the job is looked up first.
Lookup(c) ==
    /\ On(c, "lookup")
    /\ Note(c, IF InProgress(Att(c)) THEN Idle
               ELSE [cmd[c] EXCEPT !.pc = "prepare",
                                   !.fresh = job[Att(c)].state = "absent"])

\* The backend's Prepare.  A worktree whose bytes do not match is refused,
\* unless its private marker says that its preparation was cut short: then it
\* is removed and prepared again.  The refusal leaves that marker behind.
PrepareManaged(c) ==
    /\ On(c, "prepare") /\ wlock[Att(c)] = None
    /\ LET a == Att(c)
           again == preparing[a] /\ tree[a] # "spoiled"
           ok == tree[a] \in {"absent", "ready"} \/ again
       IN  /\ tree' = IF ok THEN [tree EXCEPT ![a] = "ready"] ELSE tree
           /\ preparing' = [preparing EXCEPT ![a] = ~ok]
           /\ IF ok THEN To(c, "enqueue") ELSE Stop(c)
    /\ keepStore /\ keepRecords /\ keepRun /\ UNCHANGED <<evidence, loose>>

\* Faulty variant: the canonical state is not asked.
EnqueueAnyway(c) ==
    /\ On(c, "enqueue")
    /\ IF job[Att(c)].state = "absent" THEN EnqueueJob(Att(c)) ELSE keepStore
    /\ To(c, IF SeenRow(c).state = "planned" THEN "queue" ELSE "recover")
    /\ keepRecords /\ keepFiles /\ keepRun

\* A job that was absent is only queued anew for an Attempt still planned, or
\* when there is a marker to replay: otherwise the store was lost after the
\* workload may have run.
Enqueue(c) ==
    /\ On(c, "enqueue")
    /\ IF cmd[c].fresh /\ SeenRow(c).state # "planned" /\ evidence[Att(c)] = "none"
       THEN keepStore /\ Stop(c)
       ELSE /\ IF job[Att(c)].state = "absent" THEN EnqueueJob(Att(c)) ELSE keepStore
            /\ To(c, IF SeenRow(c).state = "planned" THEN "queue" ELSE "recover")
    /\ keepRecords /\ keepFiles /\ keepRun

Queue(c) == On(c, "queue") /\ Update(c, "queued", "none", "recover")

----------------------------------------------------------------------------
(* claimOrRecover: the claim, the run and the import.                      *)

ClaimOrRecover(c) ==
    /\ On(c, "recover")
    /\ LET a == Att(c)
           state == job[a].state
           next == CASE InProgress(a) -> "idle"
                     [] state = "running" /\ evidence[a] = "none" -> "doubt"
                     [] state = "running" /\ evidence[a] # "none" -> "repair"
                     [] state \in JobTerminal /\ evidence[a] # "none" -> "import"
                     [] state = "queued" ->
                          IF SeenRow(c).state \in {"planned", "queued", "unknown"}
                          THEN "start" ELSE "claim"
                     [] OTHER -> "idle"
       IN  Note(c, IF next = "idle" THEN Idle ELSE [cmd[c] EXCEPT !.pc = next])

\* Faulty variant: only the operator is told.
DoubtInWords(c) == On(c, "doubt") /\ Note(c, Idle)

\* The claim expired without a marker: nobody can say whether it ran.
Doubt(c) == On(c, "doubt") /\ Update(c, "unknown", "none", "idle")

\* RunJob on a job with a marker only finishes the job; a job somebody else
\* finished is left alone.
Repair(c) ==
    /\ On(c, "repair")
    /\ IF job[Att(c)].state = "running" THEN FinishJob(Att(c), 1, evidence[Att(c)])
       ELSE keepStore
    /\ To(c, "import")
    /\ keepRecords /\ keepFiles /\ keepRun

Start(c) == On(c, "start") /\ Update(c, "starting", "none", "claim")

Claim(c) ==
    /\ On(c, "claim")
    /\ IF job[Att(c)].state = "queued"
       THEN /\ ClaimJobByID(Att(c))
            /\ live' = [live EXCEPT ![Att(c)] = TRUE]
            /\ To(c, "mark")
       ELSE keepStore /\ Stop(c) /\ UNCHANGED live
    /\ keepRecords /\ keepFiles /\ UNCHANGED <<wlock, invoked, kills>>

\* If the record changed meanwhile the claimed job is left to expire.
Mark(c) == On(c, "mark") /\ Update(c, "running", "none", "lock")

Lock(c) ==
    /\ On(c, "lock") /\ wlock[Att(c)] = None
    /\ wlock' = [wlock EXCEPT ![Att(c)] = c]
    /\ To(c, "check")
    /\ keepStore /\ keepRecords /\ keepFiles /\ UNCHANGED <<live, invoked, kills>>

\* RunJob: a marker found is replayed; the worktree is verified byte by byte,
\* and the workload starts, or is refused with a failure of its own.
Check(c) ==
    /\ On(c, "check")
    /\ LET a == Att(c)
       IN  IF evidence[a] # "none" \/ tree[a] # "ready"
           THEN /\ cmd' = [cmd EXCEPT
                     ![c].pc = IF evidence[a] = "none" THEN "publish" ELSE "finish",
                     ![c].outcome = IF evidence[a] = "none" THEN "failed" ELSE evidence[a]]
                /\ UNCHANGED invoked
           ELSE To(c, "working") /\ invoked' = [invoked EXCEPT ![a] = @ + 1]
    /\ keepStore /\ keepRecords /\ keepFiles /\ UNCHANGED <<live, wlock, kills>>

\* What a workload may have done to the worktree.
Touched == {"ready", "used"} \cup (IF "spoil" \in Trouble THEN {"spoiled"} ELSE {})

\* The workload ends, or is cancelled with its command's context.  (A failing
\* one takes the path of a succeeding one; failures come from refusals.)
Work(c, outcome) ==
    /\ On(c, "working")
    /\ \E t \in Touched : tree' = [tree EXCEPT ![Att(c)] = t]
    /\ cmd' = [cmd EXCEPT ![c].pc = "publish", ![c].outcome = outcome]
    /\ keepStore /\ keepRecords /\ keepRun /\ UNCHANGED <<evidence, preparing, loose>>

\* The cancelled context also stops the command before it can finish the job.
WriteTerminal(c) ==
    /\ On(c, "publish")
    /\ evidence' = [evidence EXCEPT ![Att(c)] = cmd[c].outcome]
    /\ IF cmd[c].outcome = "cancelled"
       THEN Stop(c) /\ wlock' = [wlock EXCEPT ![Att(c)] = None]
       ELSE To(c, "finish") /\ UNCHANGED wlock
    /\ keepStore /\ keepRecords
    /\ UNCHANGED <<tree, preparing, loose, live, invoked, kills>>

\* Fenced when the job was given up meanwhile: the command stops there.
Finish(c) ==
    /\ On(c, "finish")
    /\ IF job[Att(c)].state = "running"
       THEN FinishJob(Att(c), 1, cmd[c].outcome) /\ To(c, "import")
       ELSE keepStore /\ (IF job[Att(c)].state = cmd[c].outcome THEN To(c, "import") \/ Stop(c)
                          ELSE Stop(c))
    /\ wlock' = [wlock EXCEPT ![Att(c)] = None]
    /\ keepRecords /\ keepFiles /\ UNCHANGED <<live, invoked, kills>>

ImportTerminal(c) ==
    /\ On(c, "import")
    /\ IF Agrees(Att(c)) /\ job[Att(c)].state # "absent" /\ Inspectable(Att(c))
       THEN Update(c, Disposition(Att(c)), "direct", "idle")
       ELSE Note(c, Idle)

----------------------------------------------------------------------------
(* Status: how an Attempt that is not terminal is classified.              *)

Told(a) ==
    CASE Terminal(row[a]) -> "terminal"
      [] ~Terminal(row[a]) /\ evidence[a] # "none" -> "importable"
      [] OTHER ->
           CASE job[a].state = "absent" ->
                  IF row[a].state = "planned" THEN "unstarted" ELSE "missing"
             [] job[a].state = "queued" ->
                  IF row[a].state \in {"planned", "queued", "starting"}
                  THEN "resumable" ELSE "disagrees"
             [] job[a].state = "running" -> IF live[a] THEN "active" ELSE "expired"
             [] OTHER -> "uncertain"

----------------------------------------------------------------------------
(* Reconcile: an uncertain Attempt is given up by a human.                 *)

\* Faulty variant: an uncertain Attempt is given up, its job is not asked.
AskNothing(c) == On(c, "ask") /\ Note(c, [cmd[c] EXCEPT !.pc = "giveup"])

Ask(c) ==
    /\ On(c, "ask")
    /\ LET state == job[Att(c)].state
       IN  Note(c, IF state \in {"absent", "cancelled", "unknown"}
                   THEN [cmd[c] EXCEPT !.pc = "giveup"]
                   ELSE IF state = "running" /\ ~live[Att(c)]
                   THEN [cmd[c] EXCEPT !.pc = "cancel"] ELSE Idle)

\* Cancelling the job fences the command that still runs it; who finds it
\* finished looks for its marker once more.
Cancel(c) ==
    /\ On(c, "cancel")
    /\ IF job[Att(c)].state = "running"
       THEN FinishJob(Att(c), 1, "cancelled") /\ To(c, "giveup")
       ELSE /\ keepStore
            /\ cmd' = [cmd EXCEPT ![c].pc = "markers", ![c].op = "fenced",
                                  ![c].todo = {Att(c)}]
    /\ keepRecords /\ keepFiles /\ keepRun

Relinquish(c) == On(c, "giveup") /\ Update(c, "cancelled", "human", "idle")

----------------------------------------------------------------------------
(* Cleanup: one Attempt after the other.                                   *)

\* CleanupOrHandoff removes only a worktree that still is what was prepared.
Tidy(c) ==
    /\ On(c, "tidy")
    /\ \E a \in First(cmd[c].todo) :
         /\ wlock[a] = None
         /\ tree' = IF tree[a] = "ready" THEN [tree EXCEPT ![a] = "gone"] ELSE tree
         /\ cmd' = [cmd EXCEPT ![c].todo = @ \ {a}, ![c].att = a,
                               ![c].pc = IF tree[a] \in {"absent", "ready", "gone"}
                                         THEN "note" ELSE "tidy"]
    /\ keepStore /\ keepRecords /\ keepRun /\ UNCHANGED <<evidence, preparing, loose>>

MarkCleaned(c) ==
    /\ On(c, "note")
    /\ row' = IF row[Att(c)] = SeenRow(c)
              THEN [row EXCEPT ![Att(c)].cleaned = TRUE] ELSE row
    /\ To(c, "tidy")
    /\ keepStore /\ keepFiles /\ keepRun /\ UNCHANGED <<try, ideas>>

Tidied(c) == On(c, "tidy") /\ cmd[c].todo = {} /\ Note(c, Idle)

----------------------------------------------------------------------------
(* Failures, time and the daemon.                                          *)

\* A command dies, or stops at an error.  Its workload, in a process group of
\* its own, may go on; a preparation may be left half done.
KillCommand(c) ==
    /\ kills < MaxKills /\ ~On(c, "idle")
    /\ kills' = kills + 1
    /\ Stop(c)
    /\ wlock' = [a \in Attempts |-> IF wlock[a] = c THEN None ELSE wlock[a]]
    /\ IF On(c, "prepare") /\ tree[Att(c)] = "absent"
       THEN \E half \in BOOLEAN :
              /\ tree' = IF half THEN [tree EXCEPT ![Att(c)] = "partial"] ELSE tree
              /\ preparing' = [preparing EXCEPT ![Att(c)] = half]
       ELSE UNCHANGED <<tree, preparing>>
    /\ loose' = IF On(c, "working") THEN loose \cup {Att(c)} ELSE loose
    /\ keepStore /\ keepRecords /\ UNCHANGED <<evidence, live, invoked>>

\* The last writes of a workload that outlived its command.
LooseWrites(a) ==
    /\ a \in loose
    /\ loose' = loose \ {a}
    /\ tree' = IF tree[a] = "ready" THEN [tree EXCEPT ![a] = "used"] ELSE tree
    /\ keepStore /\ keepRecords /\ keepRun /\ UNCHANGED <<cmd, evidence, preparing>>

Tended(a) == \E c \in Commands : cmd[c].pc \in Beating /\ Att(c) = a

\* A claim expires when nobody renews it, or when its heartbeat stalls.
ExpireClaim(a) ==
    /\ live[a]
    /\ Tended(a) => "stall" \in Trouble
    /\ live' = [live EXCEPT ![a] = FALSE]
    /\ keepStore /\ keepRecords /\ keepFiles /\ UNCHANGED <<cmd, wlock, invoked, kills>>

\* RenewJobClaim, which looks at the fence only.
RenewJobClaim(a) ==
    /\ ~live[a] /\ Tended(a) /\ job[a].state = "running"
    /\ live' = [live EXCEPT ![a] = TRUE]
    /\ keepStore /\ keepRecords /\ keepFiles /\ UNCHANGED <<cmd, wlock, invoked, kills>>

LoseStore ==
    /\ "lose" \in Trouble
    /\ \A c \in Commands : On(c, "idle")
    /\ \E a \in Attempts : job[a].state # "absent"
    /\ job' = [j \in Jobs |-> AbsentJob]
    /\ live' = [a \in Attempts |-> FALSE]
    /\ keepRecords /\ keepFiles
    /\ UNCHANGED <<leaseVars, paused, outbox, units, taskVars, cmd, wlock, invoked, kills>>

\* A tick lists the running jobs of every kind and replays their markers.
DaemonReplays(a) ==
    /\ "daemon" \in Trouble
    /\ evidence[a] # "none" /\ FinishJob(a, 1, evidence[a])
    /\ keepRecords /\ keepFiles /\ keepRun /\ UNCHANGED cmd

Begin(c) ==
    \/ BeginRun(c) \/ BeginResume(c) \/ BeginRetry(c) \/ BeginReconcile(c)
    \/ BeginClose(c) \/ BeginCleanup(c)

Continue(c) ==
    \/ CreateTry(c) \/ Plan(c) \/ PlanRetry(c) \/ Close(c)
    \/ ReadMarker(c) \/ Settle(c)
    \/ ResumeLatest(c) \/ ReconcileUnknown(c) \/ ReconcileFenced(c)
    \/ Execute(c) \/ Lookup(c) \/ PrepareManaged(c) \/ Enqueue(c) \/ Queue(c)
    \/ ClaimOrRecover(c) \/ Doubt(c) \/ Repair(c) \/ Start(c) \/ Claim(c) \/ Mark(c)
    \/ Lock(c) \/ Check(c) \/ WriteTerminal(c) \/ Finish(c) \/ ImportTerminal(c)
    \/ \E outcome \in {"succeeded", "cancelled"} : Work(c, outcome)
    \/ Ask(c) \/ Cancel(c) \/ Relinquish(c)
    \/ Tidy(c) \/ MarkCleaned(c) \/ Tidied(c)

TryNext ==
    \/ \E c \in Commands : Begin(c) \/ Continue(c) \/ KillCommand(c)
    \/ \E a \in Attempts : LooseWrites(a) \/ ExpireClaim(a) \/ RenewJobClaim(a)
                             \/ DaemonReplays(a)
    \/ LoseStore

TrySpec == TryInit /\ [][TryNext]_allVars

----------------------------------------------------------------------------
(* Properties.                                                             *)

TryTypeOK ==
    /\ job \in [Jobs -> JobRow]
    /\ try \in TryState
    /\ row \in [Attempts -> Row]
    /\ live \in [Attempts -> BOOLEAN]
    /\ evidence \in [Attempts -> JobTerminal \cup {"none"}]
    /\ tree \in [Attempts -> TreeState]
    /\ preparing \in [Attempts -> BOOLEAN]
    /\ wlock \in [Attempts -> Commands \cup {None}]
    /\ cmd \in [Commands -> Command]
    /\ invoked \in [Attempts -> Nat]
    /\ loose \subseteq Attempts
    /\ kills \in 0 .. MaxKills
    /\ ideas \in Nat

(***************************************************************************)
(* The workload of an Attempt is started at most once, whatever is killed, *)
(* stalled, resumed, retried or lost in between: a store that was lost, or *)
(* a claim that expired, never lets a second command run it again.         *)
(***************************************************************************)
InvokedOnce == \A a \in Attempts : invoked[a] <= 1

(***************************************************************************)
(* A terminal Attempt has evidence: the durable marker says the same (or   *)
(* the workspace broke its policy), or a human gave it up and its job can  *)
(* not be claimed or finished as something else any more.                  *)
(***************************************************************************)
TerminalTruth ==
    \A a \in Attempts : Terminal(row[a]) =>
        \/ /\ row[a].source = "direct"
           /\ evidence[a] # "none"
           /\ row[a].state \in {evidence[a], "failed"}
        \/ /\ row[a].source = "human" /\ row[a].state = "cancelled"
           /\ job[a].state \in {"absent", "cancelled", "unknown"}

(***************************************************************************)
(* What "exp try status" calls unstarted or resumable was never started,   *)
(* also after the operational store was lost.                              *)
(***************************************************************************)
UnstartedTruth ==
    \A a \in Attempts : Told(a) \in {"unstarted", "resumable"} => invoked[a] = 0

(***************************************************************************)
(* The records, and the status a human decides by, tell what happened.     *)
(***************************************************************************)
RecordsTellTruth == TerminalTruth /\ UnstartedTruth

(***************************************************************************)
(* Whoever finishes an Attempt first has the last word: a stalled command  *)
(* that wakes up late, or a stale reader of the marker, never replaces the *)
(* terminal state, nor takes back that its worktree was cleaned up.        *)
(***************************************************************************)
FirstVerdictStays ==
    [][\A a \in Attempts : Terminal(row[a]) =>
         /\ row'[a].state = row[a].state /\ row'[a].source = row[a].source
         /\ row[a].cleaned => row'[a].cleaned]_allVars

(***************************************************************************)
(* A closed Try is quiet: concluding or abandoning races with commands     *)
(* that plan a further Attempt, and leaves none unfinished and no command  *)
(* that still runs a workload; it is adopted as one Idea.                  *)
(***************************************************************************)
ClosedIsQuiet ==
    /\ try \notin {"none", "open"} =>
         /\ Unfinished(row) = {}
         /\ \A c \in Commands : cmd[c].pc \in {"mark", "lock", "check", "working"} =>
              row[Att(c)].source = "human"
    /\ ideas = (IF try = "adopted" THEN 1 ELSE 0)

(***************************************************************************)
(* A worktree that was cleaned up does not come back.  (Not so with three  *)
(* commands: one that looked before the Attempt was settled prepares it    *)
(* again after the cleanup of another.)                                    *)
(***************************************************************************)
CleanedStaysGone ==
    \A a \in Attempts : row[a].cleaned => tree[a] \in {"absent", "gone"}

(***************************************************************************)
(* The uncommitted work of a workload is never destroyed: a worktree whose *)
(* preparation was completed is not removed while it holds changes.        *)
(***************************************************************************)
EditsKept ==
    [][\A a \in Attempts : tree[a] = "used" => tree'[a] # "ready"]_allVars

(***************************************************************************)
(* The workload of an Attempt a human gave up is not started any more.     *)
(***************************************************************************)
GivenUpUnstarted ==
    [][\A a \in Attempts : invoked'[a] # invoked[a] => row[a].source # "human"]_allVars

(***************************************************************************)
(* Every planned Attempt becomes terminal, wherever commands are killed:   *)
(* by its run, by the marker of an interrupted run, or by a human who      *)
(* gives up what stays uncertain.                                          *)
(***************************************************************************)
AttemptsSettle == \A a \in Attempts : row[a].state \in Pending ~> Terminal(row[a])

=============================================================================
