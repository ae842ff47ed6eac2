------------------------------- MODULE Trust --------------------------------
(***************************************************************************)
(* Layered configuration and the receipts that make it executable:         *)
(* internal/config, internal/trust, internal/localstate, the commands      *)
(* "exp config trust" and "exp config revoke", and two consumers, the      *)
(* MLflow profile and the runtime configuration of the dispatcher.         *)
(*                                                                         *)
(* Files of a repository are edited and repositories are replaced at their *)
(* path while commands run.  A load reads the layers one after the other   *)
(* and the receipts once, before the first check; no load takes a lock.    *)
(***************************************************************************)
EXTENDS Naturals, Sequences

CONSTANTS
    Users,       \* processes that run commands
    Versions,    \* contents of a configuration file
    Defines,     \* Defines[v]: the fields a layer of that content sets
    Malformed,   \* contents that are not decoded, or name another Project or Source
    Wants,       \* fields commands ask for
    Selections,  \* whether commands select the Source
    Resting,     \* a user without a command
    MaxTasks, MaxHands   \* bounds on commands, and on edits and replacements

VARIABLES
    content,      \* content[l]: the content of a layer, "absent" if there is none
    identity,   \* identity[r]: the directory at the path of a repository, 0 if none
    receipts,   \* the receipts of this host
    locked,     \* who holds the lock of the receipts
    task,       \* the command of each user
    decided,    \* history: what was last decided about a capability of a layer
    done        \* commands and hands so far

trustVars == <<content, identity, receipts, locked, task, decided, done>>

Fields == {"selector", "profile", "backend", "dispatch"}
Needs == [selector |-> "mlflow", profile |-> "mlflow",
          backend |-> "workspace", dispatch |-> "runtime"]
Capabilities == {"mlflow", "workspace", "runtime"}
InRepository == {"canonical", "source", "runtime"}
Repository == [canonical |-> "canon", source |-> "clone", runtime |-> "canon"]
Layers == InRepository \cup {"user"}

\* A layer of a repository is approved for one selected Source, or for none; the
\* runtime configuration knows no Source.
Subjects == ({"canonical"} \X Selections)
            \cup {<<"source", src>> : src \in Selections \ {FALSE}}
            \cup (IF "dispatch" \in Wants THEN {<<"runtime", FALSE>>} ELSE {})
Undecided == [digest |-> "none", id |-> 0]

\* Nobody is the absence of a user; commands ask for known fields of layers, and
\* what may be approved from the start is something they can ask for.
Sensible ==
    /\ Resting \notin Users
    /\ Wants \subseteq Fields
    /\ Selections \subseteq BOOLEAN
    /\ Defines \in [Versions -> SUBSET Fields]
    /\ TRUE \in Selections \/ "dispatch" \in Wants

Receipt(s, d, id, caps) == [subject |-> s, digest |-> d, id |-> id, caps |-> caps]

\* What the first content of the layers may already be approved for.
Approved == IF TRUE \in Selections THEN <<"canonical", TRUE>> ELSE <<"runtime", FALSE>>
First == IF TRUE \in Selections THEN "mlflow" ELSE "runtime"

TrustInit ==
    /\ \E now \in Versions \ Malformed, then \in Versions \ Malformed, c \in SUBSET {First} :
         /\ \E l \in {"absent", now} :
              content = [user |-> "absent", canonical |-> now, source |-> l, runtime |-> now]
         /\ receipts = {Receipt(Approved, then, 1, c) : k \in c}
         /\ decided = [s \in Subjects |-> [k \in Capabilities |->
                IF s = Approved /\ k \in c THEN [digest |-> then, id |-> 1] ELSE Undecided]]
    /\ identity = [r \in {"canon", "clone"} |-> 1]
    /\ locked = Resting
    /\ task = [u \in Users |-> Resting]
    /\ done = [commands |-> 0, hands |-> 0]

At(u, pc) == task[u] # Resting /\ task[u].pc = pc
Set(u, t) == task' = [task EXCEPT ![u] = t]
GoOn(u, pc) == Set(u, [task[u] EXCEPT !.pc = pc])
Quit(u) == Set(u, Resting)
Rested(u) == task[u] = Resting /\ done.commands < MaxTasks
Count == done' = [done EXCEPT !.commands = @ + 1]
places == <<content, identity>>

(***************************************************************************)
(* Receipts                                                                *)
(***************************************************************************)
SameLogicalSubject(r, s) == r.subject = s
SameSubject(r, s, id) == SameLogicalSubject(r, s) /\ r.id = id

ExactReceipt(r, s, id, d) == SameSubject(r, s, id) /\ r.digest = d

InspectReceipts(set, s, id, d, cap) ==
    \E r \in set : ExactReceipt(r, s, id, d) /\ cap \in r.caps

\* The subject is taken with the directory that is there now.
NormalizeSubject(s) == identity[Repository[s[1]]]
Exists(s) == NormalizeSubject(s) # 0

\* Faulty variant: receipts of other contents stay.
KeepOthers(set, s, id, d, caps) ==
    {r \in set : ~ExactReceipt(r, s, id, d)}
    \cup {Receipt(s, d, id,
            caps \cup UNION {r.caps : r \in {q \in set : ExactReceipt(q, s, id, d)}})}

\* Receipts of another directory go; those of another content lose what is now
\* approved; one of the same content is merged.
Approve(set, s, id, d, caps) ==
    LET same == {r \in set : ExactReceipt(r, s, id, d)}
        other == {r \in set : SameSubject(r, s, id) /\ r.digest # d}
    IN  {r \in set : ~SameLogicalSubject(r, s)}
        \cup {[r EXCEPT !.caps = @ \ caps] : r \in {q \in other : q.caps \ caps # {}}}
        \cup {Receipt(s, d, id, caps \cup UNION {r.caps : r \in same})}

\* No digest stands for every content, no capability for all of them; the
\* directory need not exist any more.
Revoke(set, s, d, caps) ==
    LET hit == {r \in set : SameLogicalSubject(r, s) /\ d \in {r.digest, "none"}}
        left(r) == IF caps = {} THEN {} ELSE r.caps \ caps
    IN  (set \ hit) \cup {[r EXCEPT !.caps = left(r)] : r \in {q \in hit : left(q) # {}}}

Available(u) == locked = Resting

\* Every receipt grants something and there is one for a subject and content;
\* what is read or is to be written otherwise is refused.
ValidateReceipts(set) ==
    /\ \A r \in set : r.subject \in Subjects /\ r.caps # {} /\ r.caps \subseteq Capabilities
    /\ \A r, q \in set : ExactReceipt(r, q.subject, q.id, q.digest) => r = q
List(set) == IF ValidateReceipts(set) THEN set ELSE {}

WithLockedFile(u) ==
    /\ At(u, "lock") /\ Available(u)
    /\ locked' = u
    /\ Set(u, [task[u] EXCEPT !.pc = "publish", !.basis = List(receipts)])
    /\ UNCHANGED <<places, receipts, decided, done>>

\* What the decision means, whatever the receipts say.
Decide(t) ==
    [decided EXCEPT ![t.subject] = [c \in Capabilities |->
        IF t.what = "approve"
        THEN IF c \in t.caps THEN [digest |-> t.digest, id |-> t.id]
             ELSE IF @[c].id = t.id THEN @[c] ELSE Undecided
        ELSE IF (t.caps = {} \/ c \in t.caps) /\ t.digest \in {@[c].digest, "none"}
             THEN Undecided ELSE @[c]]]

\* A load that is under way may have read the receipts before or after.
Standing(dec) == {[subject |-> s, cap |-> c, of |-> dec[s][c]] : s \in Subjects, c \in Capabilities}
Noticed(dec) == [w \in Users |->
    IF task[w] # Resting /\ task[w].what = "load"
    THEN [task[w] EXCEPT !.window = @ \cup {x \in Standing(dec) : x.of # Undecided}]
    ELSE task[w]]

Mutate(t) == IF t.what = "approve"
             THEN Approve(t.basis, t.subject, t.id, t.digest, t.caps)
             ELSE Revoke(t.basis, t.subject, t.digest, t.caps)

WriteRoot(u) ==
    /\ At(u, "publish")
    /\ ValidateReceipts(Mutate(task[u]))
    /\ receipts' = Mutate(task[u])
    /\ decided' = Decide(task[u])
    /\ task' = [Noticed(decided') EXCEPT ![u] = Resting]
    /\ locked' = IF locked = u THEN Resting ELSE locked
    /\ UNCHANGED <<places, done>>

(***************************************************************************)
(* Loading                                                                 *)
(***************************************************************************)
Decodes(v) == v \notin Malformed
NormalizeScope(src) == identity["canon"] # 0 /\ (src => identity["clone"] # 0)

Candidates(want, src) ==
    IF want = "dispatch" THEN <<"runtime">>
    ELSE <<"user", "canonical">> \o (IF src THEN <<"source">> ELSE <<>>)

LoadConfig(u, want, src) ==
    /\ Rested(u) /\ Count
    /\ IF want = "dispatch" THEN ~src ELSE src \in Selections
    /\ NormalizeScope(src)
    /\ Set(u, [pc |-> "read", what |-> "load", want |-> want, src |-> src,
               left |-> Candidates(want, src), layer |-> "user", bytes |-> "absent",
               asked |-> FALSE, known |-> {},
               field |-> [f \in Fields |-> [layer |-> "none", bytes |-> "none", id |-> 0,
                                            trusted |-> TRUE]],
               window |-> {x \in Standing(decided) : x.of # Undecided}])
    /\ UNCHANGED <<places, receipts, locked, decided>>

\* One bounded read of the bytes that are digested, decoded and applied.
ReadCandidate(u) ==
    /\ At(u, "read") /\ task[u].left # <<>>
    /\ LET l == Head(task[u].left)
           there == l = "user" \/ identity[Repository[l]] # 0
       IN  IF ~there \/ ~Decodes(content[l]) \/ (l = "runtime" /\ content[l] = "absent")
           THEN Quit(u)
           ELSE Set(u, [task[u] EXCEPT !.left = Tail(@), !.layer = l, !.bytes = content[l],
                            !.pc = IF content[l] = "absent" THEN "read" ELSE "apply"])
    /\ UNCHANGED <<places, receipts, locked, decided, done>>

Sets(t) == IF t.layer = "runtime" THEN {"dispatch"} ELSE Defines[t.bytes] \ {"dispatch"}
InherentlyTrusted(t) == t.layer = "user" \/ Sets(t) = {}
Subject(t) == <<t.layer, t.src>>

\* The receipts are read at the first check of the load, and once.
TrustSnapshot(u) ==
    /\ At(u, "apply") /\ ~task[u].asked /\ ~InherentlyTrusted(task[u])
    /\ Set(u, [task[u] EXCEPT !.asked = TRUE, !.known = List(receipts)])
    /\ UNCHANGED <<places, receipts, locked, decided, done>>

LayerTrusted(t, f) ==
    t.layer = "user" \/
    InspectReceipts(t.known, Subject(t), NormalizeSubject(Subject(t)), t.bytes, Needs[f])

\* A field comes from the last layer that sets it, trusted or not.
Apply(t) == [f \in Fields |->
    IF f \in Sets(t)
    THEN [layer |-> t.layer, bytes |-> t.bytes, trusted |-> LayerTrusted(t, f),
          id |-> IF t.layer = "user" THEN 0 ELSE NormalizeSubject(Subject(t))]
    ELSE t.field[f]]

ApplyLayer(u) ==
    /\ At(u, "apply") /\ (task[u].asked \/ InherentlyTrusted(task[u]))
    /\ IF ~InherentlyTrusted(task[u]) /\ ~Exists(Subject(task[u]))
       THEN Quit(u)
       ELSE Set(u, [task[u] EXCEPT !.field = Apply(task[u]), !.pc = "read"])
    /\ UNCHANGED <<places, receipts, locked, decided, done>>

IsSet(t, f) == t.field[f].layer # "none"
ValidateEffective(t) == IsSet(t, "selector") => IsSet(t, "profile")

\* The default of the MLflow profile is used with the profile it selects; a
\* profile that is named is used alone.
Required(t) ==
    CASE t.want = "selector" -> {f \in {"selector", "profile"} : IsSet(t, "selector")}
      [] OTHER -> {f \in {t.want} : IsSet(t, f)}

RequireTrusted(t) == \A f \in Required(t) : t.field[f].trusted

Use(u) ==
    /\ At(u, "read") /\ task[u].left = <<>>
    /\ IF ValidateEffective(task[u]) /\ RequireTrusted(task[u]) /\ Required(task[u]) # {}
       THEN GoOn(u, "used")
       ELSE Quit(u)
    /\ UNCHANGED <<places, receipts, locked, decided, done>>

EndTask(u) == At(u, "used") /\ Quit(u) /\ UNCHANGED <<places, receipts, locked, decided, done>>

(***************************************************************************)
(* Approving and revoking                                                  *)
(***************************************************************************)
Applied(l, src) == NormalizeScope(src) /\ content[l] # "absent" /\ Decodes(content[l])
Bears(l) == IF l = "runtime" THEN {"runtime"}
            ELSE {Needs[f] : f \in Defines[content[l]] \ {"dispatch"}}
RequireCapabilities(l, caps) == caps \subseteq Bears(l)
Decision(what, s, d, caps, pc) ==
    [what |-> what, subject |-> s, digest |-> d, caps |-> caps, pc |-> pc, id |-> 0,
     basis |-> {}, seen |-> {}]

\* The digest is the one an earlier "config explain" printed.
ConfigTrust(u, s, d, caps) ==
    /\ Rested(u) /\ Count
    /\ caps # {}
    /\ Applied(s[1], s[2])
    /\ content[s[1]] = d /\ RequireCapabilities(s[1], caps)
    /\ Set(u, Decision("approve", s, d, caps, "identify"))
    /\ UNCHANGED <<places, receipts, locked, decided>>

\* In a dialogue the layer and the receipts are shown, ...
GuidedTrust(u, s) ==
    /\ Rested(u) /\ Count
    /\ Applied(s[1], s[2]) /\ Bears(s[1]) # {}
    /\ Set(u, [Decision("approve", s, content[s[1]], Bears(s[1]), "confirm")
               EXCEPT !.seen = receipts, !.id = NormalizeSubject(s)])
    /\ UNCHANGED <<places, receipts, locked, decided>>

\* ... and once confirmed they must be the same; the command goes on as above.
SameLayer(t) == content[t.subject[1]] = t.digest
Revalidate(t) == Applied(t.subject[1], t.subject[2]) /\ receipts = t.seen
Confirm(u) ==
    /\ At(u, "confirm")
    /\ IF Revalidate(task[u]) /\ SameLayer(task[u]) THEN GoOn(u, "resolve") ELSE Quit(u)
    /\ UNCHANGED <<places, receipts, locked, decided, done>>

ResolveAgain(u) ==
    /\ At(u, "resolve")
    /\ IF Applied(task[u].subject[1], task[u].subject[2]) /\ SameLayer(task[u])
       THEN GoOn(u, "identify") ELSE Quit(u)
    /\ UNCHANGED <<places, receipts, locked, decided, done>>

NormalizeQuery(u) ==
    /\ At(u, "identify")
    /\ IF Exists(task[u].subject)
       THEN Set(u, [task[u] EXCEPT !.id = NormalizeSubject(task[u].subject), !.pc = "lock"])
       ELSE Quit(u)
    /\ UNCHANGED <<places, receipts, locked, decided, done>>

\* A layer that is gone is revoked by the receipts there are for it.
FindRevocable(s, caps) ==
    IF Applied(s[1], s[2]) THEN RequireCapabilities(s[1], caps)
    ELSE NormalizeScope(FALSE) /\ \E r \in receipts : SameLogicalSubject(r, s)

ConfigRevoke(u, s, d, caps) ==
    /\ Rested(u) /\ Count
    /\ FindRevocable(s, caps)
    /\ Set(u, Decision("revoke", s, d, caps, "lock"))
    /\ UNCHANGED <<places, receipts, locked, decided>>

(***************************************************************************)
(* The world                                                               *)
(***************************************************************************)
Hand == done.hands < MaxHands /\ done' = [done EXCEPT !.hands = @ + 1]

EditLayer(l, v) ==
    /\ Hand /\ content[l] # v
    /\ content' = [content EXCEPT ![l] = v]
    /\ UNCHANGED <<identity, receipts, locked, task, decided>>

\* A repository is moved away, or another one or the first stands at its path.
Replace(r, i) ==
    /\ Hand /\ identity[r] # i
    /\ identity' = [identity EXCEPT ![r] = i]
    /\ UNCHANGED <<content, receipts, locked, task, decided>>

Die(u) ==
    /\ At(u, "publish")
    /\ Quit(u)
    /\ locked' = IF locked = u THEN Resting ELSE locked
    /\ UNCHANGED <<places, receipts, decided, done>>

TrustNext ==
    \/ \E u \in Users :
         \/ \E w \in Wants, src \in Selections \cup {FALSE} : LoadConfig(u, w, src)
         \/ \E s \in Subjects, d \in Versions, c \in SUBSET Capabilities : ConfigTrust(u, s, d, c)
         \/ \E s \in Subjects : GuidedTrust(u, s)
         \/ \E s \in Subjects, d \in {"none"} \cup {r.digest : r \in receipts},
              c \in SUBSET {First} : ConfigRevoke(u, s, d, c)
         \/ ReadCandidate(u) \/ TrustSnapshot(u) \/ ApplyLayer(u) \/ Use(u) \/ EndTask(u)
         \/ Confirm(u) \/ ResolveAgain(u) \/ NormalizeQuery(u)
         \/ WithLockedFile(u) \/ WriteRoot(u) \/ Die(u)
    \/ \E l \in InRepository, v \in Versions \cup {"absent"} : EditLayer(l, v)
    \/ \E r \in {"canon", "clone"}, i \in 0 .. 2 : Replace(r, i)

TrustSpec == TrustInit /\ [][TrustNext]_trustVars

\* A value that is used comes from the user's own layer, or from bytes which the
\* last decision about that capability of the layer approved, for the selected
\* Source and the directory that stood at the path, at some time of the load:
\* neither content that comes back, nor a repository put in place of another,
\* nor a decision lost to a concurrent one makes an old approval count again
\* (trust.Store.Approve, Revoke, inspectReceipts; config.Loader.Load).
UsesApproved == \A u \in Users : At(u, "used") => \A f \in Required(task[u]) :
    LET v == task[u].field[f]
    IN  v.layer = "user" \/
        [subject |-> <<v.layer, task[u].src>>, cap |-> Needs[f],
         of |-> [digest |-> v.bytes, id |-> v.id]] \in task[u].window

=============================================================================
