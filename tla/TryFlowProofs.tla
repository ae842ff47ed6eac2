--------------------------- MODULE TryFlowProofs ---------------------------
(***************************************************************************)
(* Theorems about direct Tries, for any number of commands, Attempts and   *)
(* kills, and any mixture of operations and troubles.                      *)
(***************************************************************************)
EXTENDS TryFlow, TLAPS

-----------------------------------------------------------------------------
(* Types.  TryTypeOK alone is not inductive: a command that acts on an     *)
(* Attempt must have one, and evidence it will use must be there.          *)

\* The steps at which a command has chosen its Attempt.
Aimed == Pc \ {"idle", "plan", "close", "markers", "tidy"}

\* What a command at a step of its own knows of itself.
AimOf(r) ==
    /\ r.pc \in Aimed => r.att \in Attempts
    /\ r.pc = "markers" /\ r.op \in {"reconcile", "fenced"} => r.att \in Attempts
    /\ r.pc = "plan" =>
         /\ r.op \in {"create", "run", "exec", "retry"} /\ r.try \in {"none", "open"}
         /\ r.op = "retry" => r.att \in Attempts
    /\ r.pc = "close" =>
         \/ r.op = "adopt" /\ r.try = "concluded"
         \/ r.op \in {"conclude", "abandon"} /\ r.try = "open"
    /\ r.pc \in {"settle", "publish", "finish"} => r.outcome # "none"

Evident == {"repair", "import", "finish"}

Aim == \A c \in Commands :
    /\ AimOf(cmd[c])
    /\ cmd[c].pc \in Evident => evidence[Att(c)] # "none"

\* A job is claimed once: nothing puts it back into the queue.
Claimed(a) == job[a].state \notin {"absent", "queued"}
Tokens == \A a \in Attempts : job[a].token = IF Claimed(a) THEN 1 ELSE 0

TypeInv == TryTypeOK /\ Aim /\ Tokens

LEMMA AttemptsAreJobs ==
  Attempts \subseteq Jobs /\ Attempts \subseteq Nat \ {0} /\ Attempts \subseteq 0 .. MaxAttempts
  BY TryAssumption, DirectAssumption DEF Attempts

LEMMA KeepTypes ==
  ASSUME NEW rows \in [Attempts -> Row], NEW used
  PROVE  Keep(rows, used) \in [Attempts -> Row]
<1>1. NoRow \in Row
  BY TryAssumption DEF NoRow, Row
<1> QED BY <1>1 DEF Keep

LEMMA IdleTypes == Idle \in Command /\ AimOf(Idle) /\ Idle.pc = "idle"
<1>1. NoRow \in Row
  BY TryAssumption DEF NoRow, Row
<1>2. 0 \in 0 .. MaxAttempts
  BY TryAssumption
<1>3. Idle \in Command
  BY <1>1, <1>2 DEF Idle, Command, Pc, TryState
<1> QED BY <1>3 DEF Idle, AimOf, Aimed

\* Types of everything but the commands.
SharedTypes ==
    /\ job \in [Jobs -> JobRow]
    /\ try \in TryState
    /\ row \in [Attempts -> Row]
    /\ live \in [Attempts -> BOOLEAN]
    /\ evidence \in [Attempts -> JobTerminal \cup {"none"}]
    /\ tree \in [Attempts -> TreeState]
    /\ preparing \in [Attempts -> BOOLEAN]
    /\ wlock \in [Attempts -> Commands \cup {None}]
    /\ invoked \in [Attempts -> Nat]
    /\ loose \subseteq Attempts
    /\ kills \in 0 .. MaxKills
    /\ ideas \in Nat
    /\ Tokens

(* A step of command c that keeps evidence and leaves c with record r.     *)
LEMMA CommandTypes ==
  ASSUME TypeInv, SharedTypes', NEW c \in Commands,
         NEW r \in Command, AimOf(r), cmd' = [cmd EXCEPT ![c] = r],
         r.pc \in Evident => evidence'[r.att] # "none",
         \A a \in Attempts : evidence[a] # "none" => evidence'[a] # "none"
  PROVE  TypeInv'
<1> USE DEF TypeInv
<1>1. cmd \in [Commands -> Command]
  BY DEF TryTypeOK
<1>2. cmd' \in [Commands -> Command]
  BY <1>1
<1>3. cmd'[c] = r /\ \A d \in Commands \ {c} : cmd'[d] = cmd[d]
  BY <1>1
<1>4. Aim'
  <2>1. ASSUME NEW d \in Commands
        PROVE  AimOf(cmd[d])' /\ (cmd[d].pc \in Evident => evidence[Att(d)] # "none")'
    <3>1. CASE d = c
      BY <1>3, <3>1 DEF Att, AimOf
    <3>2. CASE d # c
      <4>1. cmd'[d] = cmd[d]
        BY <1>3, <3>2
      <4>2. AimOf(cmd[d]) /\ (cmd[d].pc \in Evident => evidence[cmd[d].att] # "none")
        BY DEF Aim, Att
      <4>3. AimOf(cmd'[d])
        BY <4>1, <4>2
      <4>4. cmd[d].pc \in Evident => cmd[d].att \in Attempts
        BY <4>2 DEF AimOf, Evident, Aimed, Pc, Beating, Locked
      <4>5. cmd'[d].pc \in Evident => evidence'[cmd'[d].att] # "none"
        BY <4>1, <4>2, <4>4
      <4> QED BY <4>3, <4>5 DEF Att, AimOf
    <3> QED BY <3>1, <3>2
  <2> QED BY <2>1 DEF Aim
<1> QED BY <1>2, <1>4 DEF TryTypeOK, SharedTypes

LEMMA TypeInit == TryInit => TypeInv
<1> SUFFICES ASSUME TryInit PROVE TypeInv
    OBVIOUS
<1>1. NoRow \in Row
  BY TryAssumption DEF NoRow, Row
<1>2. AbsentJob \in JobRow
  BY OperationBounds DEF AbsentJob, JobRow, JobState
<1>3. TryTypeOK
  BY <1>1, <1>2, IdleTypes, TryAssumption DEF TryInit, StoreInit, TryTypeOK, TryState, TreeState
<1>4. Aim
  BY IdleTypes DEF TryInit, Aim, Evident
<1>5. Tokens
  BY AttemptsAreJobs DEF TryInit, StoreInit, Tokens, Claimed, AbsentJob
<1> QED BY <1>3, <1>4, <1>5 DEF TypeInv

\* Nothing shared changes when a command only takes note.
LEMMA NoteTypes ==
  ASSUME TypeInv, NEW c \in Commands, NEW r \in Command, AimOf(r), Note(c, r),
         r.pc \in Evident => evidence[r.att] # "none"
  PROVE  TypeInv'
<1> USE DEF Note, keepStore, keepRecords, keepFiles, keepRun, storeVars, fileVars
<1>1. SharedTypes'
  BY DEF TypeInv, TryTypeOK, SharedTypes, Tokens, Claimed
<1> QED BY <1>1, CommandTypes

LEMMA NoteIdleTypes ==
  ASSUME TypeInv, NEW c \in Commands, Note(c, Idle)
  PROVE  TypeInv'
  BY IdleTypes, NoteTypes DEF Evident

LEMMA UpdateTypes ==
  ASSUME TypeInv, NEW c \in Commands, cmd[c].pc \in Aimed,
         NEW state \in Pending \cup JobTerminal,
         NEW source \in {"none", "direct", "human"}, NEW pc,
         pc \in {"idle", "recover", "claim", "lock", "markers"},
         Update(c, state, source, pc)
  PROVE  TypeInv'
<1> DEFINE new == [SeenRow(c) EXCEPT !.state = state, !.source = source]
           next == [cmd[c] EXCEPT !.pc = pc, !.seen[Att(c)] = new]
<1>1. Att(c) \in Attempts /\ cmd[c] \in Command /\ SeenRow(c) \in Row /\ AimOf(cmd[c])
  BY DEF TypeInv, TryTypeOK, Aim, AimOf, Att, SeenRow, Command
<1>2. new \in Row
  BY <1>1 DEF Row
<1>3. next \in Command
  <2>1. [cmd[c].seen EXCEPT ![Att(c)] = new] \in [Attempts -> Row]
    BY <1>1, <1>2 DEF Command
  <2>2. pc \in Pc
    BY DEF Pc, Beating, Locked
  <2> HIDE DEF new
  <2> QED BY <1>1, <2>1, <2>2 DEF Command
<1>4. pc # "idle" => AimOf(next)
  BY <1>1, <1>3 DEF AimOf, Command, Aimed, Pc, Att
<1>5. UNCHANGED <<try, ideas>> /\ keepStore /\ keepFiles /\ keepRun
  BY DEF Update
<1>6. row' = row \/ row' = [row EXCEPT ![Att(c)] = new]
  BY DEF Update
<1>7. row' \in [Attempts -> Row]
  BY <1>2, <1>6 DEF TypeInv, TryTypeOK
<1>8. SharedTypes'
  BY <1>5, <1>7 DEF TypeInv, TryTypeOK, SharedTypes, Tokens, Claimed, keepStore, keepFiles,
      keepRun, storeVars, fileVars
<1>9. \/ cmd' = [cmd EXCEPT ![c] = Idle]
      \/ pc # "idle" /\ cmd' = [cmd EXCEPT ![c] = next]
  BY DEF Update, Stop
<1>10. UNCHANGED evidence
  BY <1>5 DEF keepFiles, fileVars
<1>11. CASE cmd' = [cmd EXCEPT ![c] = Idle]
  BY <1>8, <1>10, <1>11, IdleTypes, CommandTypes DEF Evident
<1>12. CASE pc # "idle" /\ cmd' = [cmd EXCEPT ![c] = next]
  <2>1. next.pc \notin Evident
    BY <1>1 DEF Evident, Command
  <2> QED BY <1>3, <1>4, <1>8, <1>10, <1>12, <2>1, CommandTypes
<1> QED BY <1>9, <1>11, <1>12

\* What is known of a command before its step.
LEMMA Own ==
  ASSUME TypeInv, NEW c \in Commands
  PROVE  /\ cmd[c] \in Command /\ AimOf(cmd[c])
         /\ cmd[c].pc \in Aimed => Att(c) \in Attempts /\ SeenRow(c) \in Row
         /\ cmd[c].pc \in Evident => evidence[Att(c)] # "none"
<1>1. cmd[c] \in Command /\ AimOf(cmd[c]) /\ (cmd[c].pc \in Evident => evidence[Att(c)] # "none")
  BY DEF TypeInv, TryTypeOK, Aim
<1>2. cmd[c].pc \in Aimed => Att(c) \in Attempts
  BY <1>1 DEF AimOf, Att
<1>3. cmd[c].pc \in Aimed => SeenRow(c) \in Row
  BY <1>1, <1>2 DEF SeenRow, Command
<1> QED BY <1>1, <1>2, <1>3

LEMMA FirstIn == ASSUME NEW S, NEW a \in First(S) PROVE a \in S
  BY DEF First

LEMMA Chosen ==
  \A rows : Existing(rows) \subseteq Attempts /\ Latest(rows) \subseteq Existing(rows)
  BY DEF Existing, Latest

\* A command that only goes to step p.
LEMMA GoTypes ==
  ASSUME TypeInv, SharedTypes', NEW c \in Commands, cmd[c].pc \in Aimed,
         NEW p \in Aimed \ {"settle", "publish"},
         cmd' = [cmd EXCEPT ![c] = [cmd[c] EXCEPT !.pc = p]],
         p = "finish" => cmd[c].outcome # "none",
         p \in Evident => evidence'[Att(c)] # "none",
         \A a \in Attempts : evidence[a] # "none" => evidence'[a] # "none"
  PROVE  TypeInv'
<1> DEFINE r == [cmd[c] EXCEPT !.pc = p]
<1>1. cmd[c] \in Command /\ Att(c) \in Attempts /\ p \in Pc
  BY Own DEF Aimed
<1>2. r \in Command
  BY <1>1 DEF Command
<1>3. r.pc = p /\ r.att = Att(c) /\ r.outcome = cmd[c].outcome
  BY <1>1 DEF Command, Att
<1>4. AimOf(r)
  BY <1>1, <1>3 DEF AimOf, Aimed
<1> HIDE DEF r
<1>5. cmd' = [cmd EXCEPT ![c] = r]
  BY DEF r
<1> QED BY <1>2, <1>3, <1>4, <1>5, CommandTypes

LEMMA NoteGoTypes ==
  ASSUME TypeInv, NEW c \in Commands, cmd[c].pc \in Aimed,
         NEW p \in Aimed \ {"settle", "publish"}, Note(c, [cmd[c] EXCEPT !.pc = p]),
         p = "finish" => cmd[c].outcome # "none",
         p \in Evident => evidence[Att(c)] # "none"
  PROVE  TypeInv'
<1>1. SharedTypes' /\ UNCHANGED evidence
  BY DEF TypeInv, TryTypeOK, SharedTypes, Tokens, Claimed,
     Note, keepStore, keepRecords, keepFiles, keepRun, storeVars, fileVars
<1>2. cmd' = [cmd EXCEPT ![c] = [cmd[c] EXCEPT !.pc = p]]
  BY DEF Note
<1> QED BY <1>1, <1>2, GoTypes

\* The store operations that direct Tries use.
LEMMA JobTypes ==
  ASSUME TypeInv, NEW a \in Attempts,
         \/ EnqueueJob(a) \/ ClaimJobByID(a)
         \/ \E s \in JobTerminal : FinishJob(a, 1, s)
  PROVE  job' \in [Jobs -> JobRow] /\ Tokens'
<1>1. a \in Jobs /\ job \in [Jobs -> JobRow] /\ Attempts \subseteq Jobs
  BY AttemptsAreJobs DEF TypeInv, TryTypeOK
<1>2. job[a].token = IF Claimed(a) THEN 1 ELSE 0
  BY DEF TypeInv, Tokens
<1>3. job' \in [Jobs -> JobRow]
  BY <1>1, <1>2 DEF EnqueueJob, ClaimJobByID, FinishJob, Claimed, JobRow, JobState,
     JobFinished, JobTerminal
<1>4. ASSUME NEW b \in Attempts PROVE (job[b].token = IF Claimed(b) THEN 1 ELSE 0)'
  <2>1. job[b].token = IF Claimed(b) THEN 1 ELSE 0
    BY DEF TypeInv, Tokens
  <2>2. b \in Jobs /\ job[b] \in JobRow
    BY <1>1
  <2> QED BY <1>1, <2>1, <2>2 DEF EnqueueJob, ClaimJobByID, FinishJob, Claimed, JobRow,
         JobState, JobFinished, JobTerminal
<1> QED BY <1>3, <1>4 DEF Tokens

-----------------------------------------------------------------------------
(* Types: every action.                                                    *)

LEMMA StartTypes ==
  ASSUME TypeInv, NEW c \in Commands, NEW op \in Operations, NEW pc \in {"plan", "close", "markers", "tidy"},
         NEW a \in 0 .. MaxAttempts, NEW todo \in SUBSET Attempts,
         pc = "markers" /\ op \in {"reconcile", "fenced"} => a \in Attempts,
         pc = "plan" => /\ op \in {"create", "run", "exec", "retry"} /\ try \in {"none", "open"}
                        /\ op = "retry" => a \in Attempts,
         pc = "close" => \/ op = "adopt" /\ try = "concluded"
                         \/ op \in {"conclude", "abandon"} /\ try = "open",
         StartWith(c, op, pc, a, todo)
  PROVE  TypeInv'
<1> DEFINE used == CASE op = "conclude" \/ op = "abandon" -> Attempts
                     [] op = "resume" -> todo \cup Latest(row)
                     [] OTHER -> todo \cup {a}
           seen == Keep(row, used)
           known == IF pc \in {"plan", "close"} THEN try ELSE "none"
           r == [Idle EXCEPT !.pc = pc, !.op = op, !.att = a, !.todo = todo,
                             !.try = known, !.seen = seen]
<1>1. seen \in [Attempts -> Row]
  BY KeepTypes DEF TypeInv, TryTypeOK
<1>2. known \in TryState
  BY DEF TypeInv, TryTypeOK, TryState
<1>3. Note(c, r)
  BY DEF StartWith
<1> HIDE DEF used, seen, known
<1>4. pc \in Pc /\ Idle \in Command
  BY IdleTypes DEF Pc
<1>5. r \in Command /\ r.pc = pc /\ r.op = op /\ r.att = a /\ r.try = known
  BY <1>1, <1>2, <1>4 DEF Command
<1> HIDE DEF r
<1>6. AimOf(r)
  BY <1>5 DEF AimOf, Aimed, known
<1> QED BY <1>3, <1>5, <1>6, NoteTypes DEF Evident

LEMMA BeginTypes ==
  ASSUME TypeInv, NEW c \in Commands, Begin(c)
  PROVE  TypeInv'
<1>1. /\ row \in [Attempts -> Row] /\ try \in TryState
      /\ Attempts \subseteq 0 .. MaxAttempts /\ 0 \in 0 .. MaxAttempts
      /\ Ops \subseteq Operations
  BY TryAssumption DEF TypeInv, TryTypeOK, Attempts
<1>2. Existing(row) \subseteq Attempts /\ Latest(row) \subseteq Attempts
      /\ Unfinished(row) \subseteq Attempts
  BY DEF Existing, Latest, Unfinished
<1>3. CASE BeginRun(c)
  <2>1. PICK op \in Ops \cap {"create", "run", "exec"} :
          try = (IF op = "exec" THEN "open" ELSE "none") /\ StartWith(c, op, "plan", 0, {})
    BY <1>3 DEF BeginRun
  <2> QED BY <1>1, <2>1, StartTypes
<1>4. CASE BeginResume(c)
  BY <1>1, <1>2, <1>4, StartTypes DEF BeginResume
<1>5. CASE BeginRetry(c)
  <2>1. PICK last \in Latest(row) :
          try = "open" /\ (IF Terminal(row[last]) THEN StartWith(c, "retry", "plan", last, {})
                           ELSE StartWith(c, "resume", "markers", 0, Unfinished(row)))
    BY <1>5 DEF BeginRetry
  <2>2. last \in Attempts /\ {"retry", "resume"} \subseteq Operations
    BY <1>2 DEF Operations
  <2> QED BY <1>1, <1>2, <2>1, <2>2, StartTypes
<1>6. CASE BeginReconcile(c)
  <2>1. PICK a \in Existing(row) :
          StartWith(c, "reconcile", "markers", a, {a} \cap Unfinished(row))
    BY <1>6 DEF BeginReconcile
  <2>2. a \in Attempts /\ {a} \cap Unfinished(row) \in SUBSET Attempts
        /\ "reconcile" \in Operations
    BY <1>2 DEF Operations
  <2> QED BY <1>1, <1>2, <2>1, <2>2, StartTypes
<1>7. CASE BeginClose(c)
  <2>1. PICK op \in Ops \cap {"conclude", "abandon", "adopt"} :
          /\ IF op = "adopt" THEN try = "concluded" ELSE try = "open" /\ Unfinished(row) = {}
          /\ StartWith(c, op, "close", 0, {})
    BY <1>7 DEF BeginClose
  <2>2. op \in Operations /\ {} \in SUBSET Attempts
    BY <1>1
  <2> QED BY <1>1, <2>1, <2>2, StartTypes
<1>8. CASE BeginCleanup(c)
  <2>1. {a \in Attempts : Terminal(row[a]) /\ ~row[a].cleaned} \in SUBSET Attempts
        /\ "cleanup" \in Operations
    BY DEF Operations
  <2> QED BY <1>1, <1>8, <2>1, StartTypes DEF BeginCleanup
<1> QED BY <1>3, <1>4, <1>5, <1>6, <1>7, <1>8 DEF Begin

\* A command that goes on with Attempt a, having forgotten everything else.
LEMMA ExecuteNext ==
  ASSUME NEW a \in Attempts
  PROVE  LET r == [Idle EXCEPT !.pc = "execute", !.att = a]
         IN  r \in Command /\ AimOf(r) /\ r.pc = "execute" /\ r.att = a
<1> DEFINE r == [Idle EXCEPT !.pc = "execute", !.att = a]
<1>1. Idle \in Command /\ "execute" \in Pc /\ a \in 0 .. MaxAttempts
  BY IdleTypes DEF Pc, Attempts
<1>2. r \in Command /\ r.pc = "execute" /\ r.att = a
  BY <1>1 DEF Command
<1> HIDE DEF r
<1>3. AimOf(r)
  BY <1>2 DEF AimOf, Aimed
<1> QED BY <1>2, <1>3 DEF r

LEMMA PlanAttemptTypes ==
  ASSUME TypeInv, NEW c \in Commands, NEW prior \in 0 .. MaxAttempts, NEW guarded,
         PlanAttempt(c, prior, guarded)
  PROVE  TypeInv'
<1> DEFINE new == {a \in NewAttempt(row) : guarded /\ InventoryValid("open", Extended(a, prior))}
<1>1. keepStore /\ keepFiles /\ keepRun /\ UNCHANGED ideas
  BY DEF PlanAttempt
<1>2. CASE new # {}
  <2>1. PICK a \in new :
          /\ try' = "open" /\ row' = Extended(a, prior)
          /\ cmd' = [cmd EXCEPT ![c] = [Idle EXCEPT !.pc = "execute", !.att = a]]
    BY <1>2 DEF PlanAttempt
  <2>2. a \in Attempts
    BY DEF NewAttempt
  <2>3. [NoRow EXCEPT !.state = "planned", !.retryOf = prior] \in Row
    <3>1. NoRow \in Row /\ "planned" \in Pending
      BY TryAssumption DEF NoRow, Row, Pending
    <3> QED BY <3>1 DEF Row
  <2>4. row' \in [Attempts -> Row]
    BY <2>1, <2>2, <2>3 DEF Extended, TypeInv, TryTypeOK
  <2>5. SharedTypes' /\ UNCHANGED evidence
    BY <1>1, <2>1, <2>4 DEF TypeInv, TryTypeOK, SharedTypes, Tokens, Claimed, TryState,
       keepStore, keepFiles, keepRun, storeVars, fileVars
  <2> DEFINE r == [Idle EXCEPT !.pc = "execute", !.att = a]
  <2>6. r \in Command /\ AimOf(r) /\ r.pc \notin Evident
    BY <2>2, ExecuteNext DEF Evident
  <2>7. cmd' = [cmd EXCEPT ![c] = r]
    BY <2>1
  <2> HIDE DEF r
  <2> QED BY <2>5, <2>6, <2>7, CommandTypes
<1>3. CASE new = {}
  <2>1. UNCHANGED <<try, row>> /\ Stop(c)
    BY <1>3 DEF PlanAttempt
  <2>2. SharedTypes' /\ UNCHANGED evidence
    BY <1>1, <2>1 DEF TypeInv, TryTypeOK, SharedTypes, Tokens, Claimed,
       keepStore, keepFiles, keepRun, storeVars, fileVars
  <2> QED BY <2>1, <2>2, IdleTypes, CommandTypes DEF Stop, Evident
<1> QED BY <1>2, <1>3

LEMMA PlanTypes ==
  ASSUME TypeInv, NEW c \in Commands, CreateTry(c) \/ Plan(c) \/ PlanRetry(c) \/ Close(c)
  PROVE  TypeInv'
<1>1. CASE CreateTry(c)
  <2>1. SharedTypes' /\ UNCHANGED evidence
    BY <1>1 DEF CreateTry, TypeInv, TryTypeOK, SharedTypes, Tokens, Claimed, TryState,
       keepStore, keepFiles, keepRun, storeVars, fileVars
  <2> QED BY <1>1, <2>1, IdleTypes, CommandTypes DEF CreateTry, Stop, Evident
<1>2. CASE Plan(c)
  <2>1. 0 \in 0 .. MaxAttempts
    BY TryAssumption
  <2> QED BY <1>2, <2>1, PlanAttemptTypes DEF Plan
<1>3. CASE PlanRetry(c)
  <2>1. Att(c) \in 0 .. MaxAttempts
    BY Own DEF Command, Att
  <2> QED BY <1>3, <2>1, PlanAttemptTypes DEF PlanRetry
<1>4. CASE Close(c)
  <2>1. cmd[c].op \in {"conclude", "abandon", "adopt"}
    BY <1>4, Own DEF Close, On, AimOf
  <2>2. Closed(cmd[c].op) \in TryState
    BY <2>1 DEF Closed, TryState
  <2>3. try' \in TryState /\ ideas' \in Nat
    BY <1>4, <2>2 DEF Close, TypeInv, TryTypeOK
  <2>4. SharedTypes' /\ UNCHANGED evidence
    BY <1>4, <2>3 DEF Close, TypeInv, TryTypeOK, SharedTypes, Tokens, Claimed,
       keepStore, keepFiles, keepRun, storeVars, fileVars
  <2> QED BY <1>4, <2>4, IdleTypes, CommandTypes DEF Close, Stop, Evident
<1> QED BY <1>1, <1>2, <1>3, <1>4

LEMMA MarkerTypes ==
  ASSUME TypeInv, NEW c \in Commands,
         \/ ReadMarker(c) \/ Settle(c)
         \/ ResumeLatest(c) \/ ReconcileUnknown(c) \/ ReconcileFenced(c)
  PROVE  TypeInv'
<1>1. cmd[c] \in Command /\ AimOf(cmd[c])
  BY Own
<1>2. CASE ReadMarker(c)
  <2>1. PICK a \in First(cmd[c].todo) :
          Note(c, IF evidence[a] = "none" THEN [cmd[c] EXCEPT !.todo = @ \ {a}]
                  ELSE IF ~Agrees(a) \/ ~Inspectable(a) THEN Idle
                  ELSE [cmd[c] EXCEPT !.pc = "settle", !.att = a, !.won = TRUE,
                                      !.todo = @ \ {a}, !.outcome = Disposition(a)])
    BY <1>2 DEF ReadMarker
  <2>2. a \in Attempts /\ a \in 0 .. MaxAttempts /\ cmd[c].pc = "markers"
    <3>1. a \in cmd[c].todo
      BY FirstIn
    <3>2. cmd[c].todo \subseteq Attempts
      BY <1>1 DEF Command
    <3>3. cmd[c].pc = "markers"
      BY <1>2 DEF ReadMarker, On
    <3> QED BY <3>1, <3>2, <3>3, AttemptsAreJobs
  <2>3. CASE evidence[a] = "none"
    <3> DEFINE r == [cmd[c] EXCEPT !.todo = @ \ {a}]
    <3>1. r \in Command /\ r.pc = "markers" /\ r.att = cmd[c].att /\ r.op = cmd[c].op
      BY <1>1, <2>2 DEF Command
    <3>2. Note(c, r)
      BY <2>1, <2>3
    <3> HIDE DEF r
    <3>3. AimOf(r)
      BY <1>1, <2>2, <3>1 DEF AimOf, Aimed
    <3> QED BY <3>1, <3>2, <3>3, NoteTypes DEF Evident
  <2>4. CASE evidence[a] # "none"
    <3> DEFINE r == [cmd[c] EXCEPT !.pc = "settle", !.att = a, !.won = TRUE,
                                   !.todo = @ \ {a}, !.outcome = Disposition(a)]
    <3>1. Disposition(a) \in JobTerminal /\ Disposition(a) # "none" /\ "settle" \in Pc
      BY <2>2, <2>4 DEF Disposition, JobTerminal, TypeInv, TryTypeOK, Pc
    <3>2. r \in Command /\ r.pc = "settle" /\ r.att = a /\ r.outcome # "none"
      BY <1>1, <2>2, <3>1 DEF Command
    <3>3. Note(c, r) \/ Note(c, Idle)
      BY <2>1, <2>4
    <3> HIDE DEF r
    <3>4. AimOf(r)
      BY <2>2, <3>2 DEF AimOf, Aimed
    <3> QED BY <3>2, <3>3, <3>4, NoteTypes, NoteIdleTypes DEF Evident
  <2> QED BY <2>3, <2>4
<1>3. CASE Settle(c)
  <2>1. cmd[c].pc = "settle" /\ cmd[c].outcome \in JobTerminal
    BY <1>1, <1>3 DEF Settle, On, AimOf, Command
  <2> QED BY <1>3, <2>1, UpdateTypes DEF Settle, Aimed, Pc
<1>4. CASE ResumeLatest(c)
  <2> DEFINE rows == IF cmd[c].won THEN row ELSE cmd[c].seen
  <2>1. PICK last \in Latest(rows) :
          Note(c, IF Terminal(rows[last]) THEN Idle
                  ELSE [Idle EXCEPT !.pc = "execute", !.att = last])
    BY <1>4 DEF ResumeLatest
  <2>2. last \in Attempts
    BY Chosen
  <2> HIDE DEF rows
  <2>3. CASE Terminal(rows[last])
    BY <2>1, <2>3, NoteIdleTypes
  <2>4. CASE ~Terminal(rows[last])
    <3> DEFINE r == [Idle EXCEPT !.pc = "execute", !.att = last]
    <3>1. Note(c, r) /\ r \in Command /\ AimOf(r) /\ r.pc \notin Evident
      BY <2>1, <2>2, <2>4, ExecuteNext DEF Evident
    <3> HIDE DEF r
    <3> QED BY <3>1, NoteTypes
  <2> QED BY <2>3, <2>4
<1> DEFINE Go(p) == [cmd[c] EXCEPT !.pc = p]
<1>5. CASE ReconcileUnknown(c) \/ ReconcileFenced(c)
  <2>1. PICK p \in {"ask", "giveup"} : Note(c, Idle) \/ Note(c, Go(p))
    BY <1>5 DEF ReconcileUnknown, ReconcileFenced
  <2>2. cmd[c].pc = "markers" /\ cmd[c].op \in {"reconcile", "fenced"}
    BY <1>5 DEF ReconcileUnknown, ReconcileFenced, On
  <2>3. cmd[c].att \in Attempts /\ p \in Pc
    BY <1>1, <2>2 DEF AimOf, Pc
  <2>4. Go(p) \in Command /\ Go(p).pc = p /\ Go(p).att = cmd[c].att
    BY <1>1, <2>3 DEF Command
  <2> HIDE DEF Go
  <2>5. AimOf(Go(p))
    BY <2>3, <2>4 DEF AimOf, Aimed
  <2> QED BY <2>1, <2>4, <2>5, NoteTypes, NoteIdleTypes DEF Evident
<1> QED BY <1>2, <1>3, <1>4, <1>5

LEMMA PreludeTypes ==
  ASSUME TypeInv, NEW c \in Commands,
         Execute(c) \/ Lookup(c) \/ PrepareManaged(c) \/ Enqueue(c) \/ Queue(c)
  PROVE  TypeInv'
<1>1. cmd[c] \in Command /\ AimOf(cmd[c])
  BY Own
<1>2. cmd[c].pc \in Aimed /\ Att(c) \in Attempts
  BY Own DEF Execute, Lookup, PrepareManaged, Enqueue, Queue, On, Aimed, Pc
<1>3. {"lookup", "prepare", "enqueue", "queue", "recover"} \subseteq Aimed \ ({"settle", "publish"} \cup Evident)
  BY DEF Aimed, Pc, Evident
<1>4. CASE Execute(c)
  <2> DEFINE seen == Keep(row, {Att(c)})
             r == [cmd[c] EXCEPT !.pc = "lookup", !.seen = seen]
  <2>1. seen \in [Attempts -> Row]
    BY KeepTypes DEF TypeInv, TryTypeOK
  <2>2. Note(c, Idle) \/ Note(c, r)
    BY <1>4 DEF Execute
  <2> HIDE DEF seen
  <2>3. r \in Command /\ r.pc = "lookup" /\ r.att = Att(c)
    BY <1>1, <1>3, <2>1 DEF Command, Aimed, Att
  <2> HIDE DEF r
  <2>4. AimOf(r)
    BY <1>2, <2>3 DEF AimOf, Aimed
  <2> QED BY <2>2, <2>3, <2>4, NoteTypes, NoteIdleTypes DEF Evident
<1>5. CASE Lookup(c)
  <2> DEFINE r == [cmd[c] EXCEPT !.pc = "prepare", !.fresh = job[Att(c)].state = "absent"]
  <2>1. Note(c, Idle) \/ Note(c, r)
    BY <1>5 DEF Lookup
  <2>2. (job[Att(c)].state = "absent") \in BOOLEAN
    OBVIOUS
  <2>3. r \in Command /\ r.pc = "prepare" /\ r.att = Att(c)
    BY <1>1, <1>3, <2>2 DEF Command, Aimed, Att
  <2> HIDE DEF r
  <2>4. AimOf(r)
    BY <1>2, <2>3 DEF AimOf, Aimed
  <2> QED BY <2>1, <2>3, <2>4, NoteTypes, NoteIdleTypes DEF Evident
<1>6. CASE PrepareManaged(c)
  <2>1. tree' \in [Attempts -> TreeState] /\ preparing' \in [Attempts -> BOOLEAN]
    BY <1>6 DEF PrepareManaged, TypeInv, TryTypeOK, TreeState
  <2>2. SharedTypes' /\ UNCHANGED evidence
    BY <1>6, <2>1 DEF PrepareManaged, TypeInv, TryTypeOK, SharedTypes, Tokens, Claimed,
       keepStore, keepRecords, keepRun, storeVars
  <2>3. Stop(c) \/ To(c, "enqueue")
    BY <1>6 DEF PrepareManaged
  <2>4. CASE Stop(c)
    BY <2>2, <2>4, IdleTypes, CommandTypes DEF Stop, Evident
  <2>5. CASE To(c, "enqueue")
    BY <1>2, <1>3, <2>2, <2>5, GoTypes DEF To
  <2> QED BY <2>3, <2>4, <2>5
<1>7. CASE Enqueue(c)
  <2>1. EnqueueJob(Att(c)) \/ keepStore
    BY <1>7 DEF Enqueue
  <2>2. job' \in [Jobs -> JobRow] /\ Tokens'
    BY <1>2, <2>1, JobTypes DEF TypeInv, TryTypeOK, Tokens, Claimed, keepStore, storeVars
  <2>3. SharedTypes' /\ UNCHANGED evidence
    BY <1>7, <2>2 DEF Enqueue, TypeInv, TryTypeOK, SharedTypes,
       keepRecords, keepFiles, keepRun, fileVars
  <2>4. Stop(c) \/ To(c, "queue") \/ To(c, "recover")
    BY <1>7 DEF Enqueue
  <2>5. CASE Stop(c)
    BY <2>3, <2>5, IdleTypes, CommandTypes DEF Stop, Evident
  <2>6. CASE To(c, "queue") \/ To(c, "recover")
    BY <1>2, <1>3, <2>3, <2>6, GoTypes DEF To
  <2> QED BY <2>4, <2>5, <2>6
<1>8. CASE Queue(c)
  BY <1>2, <1>8, UpdateTypes DEF Queue, Pending
<1> QED BY <1>4, <1>5, <1>6, <1>7, <1>8

LEMMA ClaimTypes ==
  ASSUME TypeInv, NEW c \in Commands,
         \/ ClaimOrRecover(c) \/ Doubt(c) \/ Repair(c) \/ Start(c) \/ Claim(c) \/ Mark(c)
  PROVE  TypeInv'
<1>1. cmd[c] \in Command /\ AimOf(cmd[c])
  BY Own
<1>2. cmd[c].pc \in Aimed /\ Att(c) \in Attempts
  BY Own DEF ClaimOrRecover, Doubt, Repair, Start, Claim, Mark, On, Aimed, Pc, Beating
<1>3. {"doubt", "repair", "import", "start", "claim", "mark"} \subseteq Aimed \ {"settle", "publish", "finish"}
  BY DEF Aimed, Pc, Beating
<1>4. CASE ClaimOrRecover(c)
  <2>1. PICK p \in {"idle", "doubt", "repair", "import", "start", "claim"} :
          /\ Note(c, IF p = "idle" THEN Idle ELSE [cmd[c] EXCEPT !.pc = p])
          /\ p \in {"repair", "import"} => evidence[Att(c)] # "none"
    BY <1>4 DEF ClaimOrRecover
  <2>2. CASE p = "idle"
    BY <2>1, <2>2, NoteIdleTypes
  <2>3. CASE p # "idle"
    <3>1. p \in Aimed \ {"settle", "publish", "finish"}
      BY <1>3, <2>3
    <3>2. Note(c, [cmd[c] EXCEPT !.pc = p])
      BY <2>1, <2>3
    <3> QED BY <1>2, <2>1, <3>1, <3>2, NoteGoTypes DEF Evident
  <2> QED BY <2>2, <2>3
<1>5. CASE Doubt(c) \/ Start(c) \/ Mark(c)
  BY <1>2, <1>5, UpdateTypes DEF Doubt, Start, Mark, Pending
<1>6. CASE Repair(c)
  <2>1. evidence[Att(c)] \in JobTerminal
    BY <1>2, <1>6, Own DEF Repair, On, Evident, TypeInv, TryTypeOK
  <2>2. keepStore \/ \E s \in JobTerminal : FinishJob(Att(c), 1, s)
    BY <1>6, <2>1 DEF Repair
  <2>3. job' \in [Jobs -> JobRow] /\ Tokens'
    BY <1>2, <2>2, JobTypes DEF TypeInv, TryTypeOK, Tokens, Claimed, keepStore, storeVars
  <2>4. SharedTypes' /\ UNCHANGED evidence
    BY <1>6, <2>3 DEF Repair, TypeInv, TryTypeOK, SharedTypes,
       keepRecords, keepFiles, keepRun, fileVars
  <2>5. To(c, "import") /\ evidence[Att(c)] # "none"
    BY <1>6, <2>1 DEF Repair, JobTerminal
  <2> QED BY <1>2, <1>3, <2>4, <2>5, GoTypes DEF To
<1>7. CASE Claim(c)
  <2>1. ClaimJobByID(Att(c)) \/ keepStore
    BY <1>7 DEF Claim
  <2>2. job' \in [Jobs -> JobRow] /\ Tokens'
    BY <1>2, <2>1, JobTypes DEF TypeInv, TryTypeOK, Tokens, Claimed, keepStore, storeVars
  <2>3. live' \in [Attempts -> BOOLEAN]
    BY <1>7 DEF Claim, TypeInv, TryTypeOK
  <2>4. SharedTypes' /\ UNCHANGED evidence
    BY <1>7, <2>2, <2>3 DEF Claim, TypeInv, TryTypeOK, SharedTypes,
       keepRecords, keepFiles, fileVars
  <2>5. CASE To(c, "mark")
    BY <1>2, <1>3, <2>4, <2>5, GoTypes DEF To, Evident
  <2>6. CASE Stop(c)
    BY <2>4, <2>6, IdleTypes, CommandTypes DEF Stop, Evident
  <2> QED BY <1>7, <2>5, <2>6 DEF Claim
<1> QED BY <1>4, <1>5, <1>6, <1>7

LEMMA RunTypes ==
  ASSUME TypeInv, NEW c \in Commands,
         \/ Lock(c) \/ Check(c) \/ WriteTerminal(c) \/ Finish(c) \/ ImportTerminal(c)
         \/ \E outcome \in {"succeeded", "cancelled"} : Work(c, outcome)
  PROVE  TypeInv'
<1>1. cmd[c] \in Command /\ AimOf(cmd[c])
  BY Own
<1>2. cmd[c].pc \in Aimed /\ Att(c) \in Attempts
  BY Own DEF Lock, Check, WriteTerminal, Finish, ImportTerminal, Work, On, Aimed, Pc, Beating, Locked
<1>3. {"check", "working", "finish", "import"} \subseteq Aimed \ {"settle", "publish"} /\ "publish" \in Pc
  BY DEF Aimed, Pc, Beating, Locked
<1>4. CASE Lock(c)
  <2>1. SharedTypes' /\ UNCHANGED evidence
    BY <1>4 DEF Lock, TypeInv, TryTypeOK, SharedTypes, Tokens, Claimed,
       keepStore, keepRecords, keepFiles, storeVars, fileVars
  <2> QED BY <1>2, <1>3, <1>4, <2>1, GoTypes DEF Lock, To, Evident
<1> DEFINE Ended(p, outcome) == [cmd[c] EXCEPT !.pc = p, !.outcome = outcome]
<1>5. ASSUME SharedTypes', UNCHANGED evidence, NEW p \in {"publish", "finish"},
             NEW outcome \in JobTerminal, cmd' = [cmd EXCEPT ![c] = Ended(p, outcome)],
             p = "finish" => evidence[Att(c)] # "none"
      PROVE  TypeInv'
  <2>1. p \in Pc
    BY <1>3 DEF Aimed
  <2>2. /\ Ended(p, outcome) \in Command /\ Ended(p, outcome).pc = p
        /\ Ended(p, outcome).att = Att(c) /\ Ended(p, outcome).outcome = outcome
    BY <1>1, <2>1 DEF Command, Att
  <2> HIDE DEF Ended
  <2>3. AimOf(Ended(p, outcome)) /\ outcome # "none"
    BY <1>2, <2>2 DEF AimOf, Aimed, JobTerminal
  <2> QED BY <1>5, <2>2, <2>3, CommandTypes DEF Evident
<1>6. CASE Check(c)
  <2>1. invoked' \in [Attempts -> Nat]
    BY <1>2, <1>6 DEF Check, TypeInv, TryTypeOK
  <2>2. SharedTypes' /\ UNCHANGED evidence
    BY <1>6, <2>1 DEF Check, TypeInv, TryTypeOK, SharedTypes, Tokens, Claimed,
       keepStore, keepRecords, keepFiles, storeVars, fileVars
  <2>3. evidence[Att(c)] \in JobTerminal \cup {"none"}
    BY <1>2 DEF TypeInv, TryTypeOK
  <2>4. \/ cmd' = [cmd EXCEPT ![c] = Ended("publish", "failed")]
        \/ evidence[Att(c)] # "none" /\ cmd' = [cmd EXCEPT ![c] = Ended("finish", evidence[Att(c)])]
        \/ To(c, "working")
    BY <1>6 DEF Check
  <2> HIDE DEF Ended
  <2> QED BY <1>2, <1>3, <1>5, <2>2, <2>3, <2>4, GoTypes DEF To, Evident, JobTerminal
<1>7. CASE \E outcome \in {"succeeded", "cancelled"} : Work(c, outcome)
  <2>1. PICK outcome \in {"succeeded", "cancelled"} : Work(c, outcome)
    BY <1>7
  <2>2. tree' \in [Attempts -> TreeState]
    BY <1>2, <2>1 DEF Work, Touched, TypeInv, TryTypeOK, TreeState
  <2>3. SharedTypes' /\ UNCHANGED evidence
    BY <2>1, <2>2 DEF Work, TypeInv, TryTypeOK, SharedTypes, Tokens, Claimed,
       keepStore, keepRecords, keepRun, storeVars
  <2>4. cmd' = [cmd EXCEPT ![c] = Ended("publish", outcome)]
    BY <2>1 DEF Work
  <2> HIDE DEF Ended
  <2> QED BY <1>5, <2>3, <2>4 DEF JobTerminal
<1>8. CASE WriteTerminal(c)
  <2>1. cmd[c].outcome \in JobTerminal /\ cmd[c].outcome # "none"
    BY <1>1, <1>8 DEF WriteTerminal, On, AimOf, Command
  <2>2. /\ evidence' = [evidence EXCEPT ![Att(c)] = cmd[c].outcome]
        /\ evidence \in [Attempts -> JobTerminal \cup {"none"}]
    BY <1>8 DEF WriteTerminal, TypeInv, TryTypeOK
  <2>3. /\ evidence' \in [Attempts -> JobTerminal \cup {"none"}]
        /\ evidence'[Att(c)] # "none"
        /\ \A a \in Attempts : evidence[a] # "none" => evidence'[a] # "none"
    BY <1>2, <2>1, <2>2
  <2>4. wlock' \in [Attempts -> Commands \cup {None}]
    BY <1>8 DEF WriteTerminal, TypeInv, TryTypeOK
  <2>5. SharedTypes'
    BY <1>8, <2>3, <2>4 DEF WriteTerminal, TypeInv, TryTypeOK, SharedTypes, Tokens, Claimed,
       keepStore, keepRecords, storeVars
  <2>6. Stop(c) \/ To(c, "finish")
    BY <1>8 DEF WriteTerminal
  <2>7. CASE Stop(c)
    BY <2>3, <2>5, <2>7, IdleTypes, CommandTypes DEF Stop, Evident
  <2>8. CASE To(c, "finish")
    BY <1>2, <1>3, <2>1, <2>3, <2>5, <2>8, GoTypes DEF To
  <2> QED BY <2>6, <2>7, <2>8
<1>9. CASE Finish(c)
  <2>1. cmd[c].outcome \in JobTerminal /\ evidence[Att(c)] # "none"
    BY <1>1, <1>9, Own DEF Finish, On, AimOf, Command, Evident
  <2>2. FinishJob(Att(c), 1, cmd[c].outcome) \/ keepStore
    BY <1>9 DEF Finish
  <2>3. job' \in [Jobs -> JobRow] /\ Tokens'
    BY <1>2, <2>1, <2>2, JobTypes DEF TypeInv, TryTypeOK, Tokens, Claimed, keepStore, storeVars
  <2>4. wlock' \in [Attempts -> Commands \cup {None}]
    BY <1>9 DEF Finish, TypeInv, TryTypeOK
  <2>5. SharedTypes' /\ UNCHANGED evidence
    BY <1>9, <2>3, <2>4 DEF Finish, TypeInv, TryTypeOK, SharedTypes,
       keepRecords, keepFiles, fileVars
  <2>6. Stop(c) \/ To(c, "import")
    BY <1>9 DEF Finish
  <2>7. CASE Stop(c)
    BY <2>5, <2>7, IdleTypes, CommandTypes DEF Stop, Evident
  <2>8. CASE To(c, "import")
    BY <1>2, <1>3, <2>1, <2>5, <2>8, GoTypes DEF To
  <2> QED BY <2>6, <2>7, <2>8
<1>10. CASE ImportTerminal(c)
  <2>1. Disposition(Att(c)) \in JobTerminal
    BY <1>2, <1>10, Own DEF ImportTerminal, On, Evident, Disposition, TypeInv, TryTypeOK, JobTerminal
  <2> QED BY <1>2, <1>10, <2>1, UpdateTypes, NoteIdleTypes DEF ImportTerminal
<1> QED BY <1>4, <1>6, <1>7, <1>8, <1>9, <1>10

LEMMA GiveTypes ==
  ASSUME TypeInv, NEW c \in Commands, Ask(c) \/ Cancel(c) \/ Relinquish(c)
  PROVE  TypeInv'
<1>1. cmd[c] \in Command /\ AimOf(cmd[c])
  BY Own
<1>2. cmd[c].pc \in Aimed /\ Att(c) \in Attempts
  BY Own DEF Ask, Cancel, Relinquish, On, Aimed, Pc
<1>3. {"cancel", "giveup"} \subseteq Aimed \ ({"settle", "publish"} \cup Evident)
  BY DEF Aimed, Pc, Evident
<1>4. CASE Ask(c)
  <2>1. \/ Note(c, Idle) \/ Note(c, [cmd[c] EXCEPT !.pc = "cancel"])
        \/ Note(c, [cmd[c] EXCEPT !.pc = "giveup"])
    BY <1>4 DEF Ask
  <2> QED BY <1>2, <1>3, <2>1, NoteGoTypes, NoteIdleTypes
<1>5. CASE Cancel(c)
  <2>1. keepStore \/ \E s \in JobTerminal : FinishJob(Att(c), 1, s)
    BY <1>5 DEF Cancel, JobTerminal
  <2>2. job' \in [Jobs -> JobRow] /\ Tokens'
    BY <1>2, <2>1, JobTypes DEF TypeInv, TryTypeOK, Tokens, Claimed, keepStore, storeVars
  <2>3. SharedTypes' /\ UNCHANGED evidence
    BY <1>5, <2>2 DEF Cancel, TypeInv, TryTypeOK, SharedTypes,
       keepRecords, keepFiles, keepRun, fileVars
  <2> DEFINE r == [cmd[c] EXCEPT !.pc = "markers", !.op = "fenced", !.todo = {Att(c)}]
  <2>4. To(c, "giveup") \/ cmd' = [cmd EXCEPT ![c] = r]
    BY <1>5 DEF Cancel
  <2>5. CASE To(c, "giveup")
    BY <1>2, <1>3, <2>3, <2>5, GoTypes DEF To
  <2>6. CASE cmd' = [cmd EXCEPT ![c] = r]
    <3>1. "markers" \in Pc
      BY DEF Pc
    <3>2. r \in Command /\ r.pc = "markers" /\ r.att = Att(c)
      BY <1>1, <1>2, <3>1 DEF Command, Att
    <3> HIDE DEF r
    <3>3. AimOf(r)
      BY <1>2, <3>2 DEF AimOf, Aimed
    <3> QED BY <2>3, <2>6, <3>2, <3>3, CommandTypes DEF Evident
  <2> QED BY <2>4, <2>5, <2>6
<1>6. CASE Relinquish(c)
  BY <1>2, <1>6, UpdateTypes DEF Relinquish, JobTerminal
<1> QED BY <1>4, <1>5, <1>6

LEMMA TidyTypes ==
  ASSUME TypeInv, NEW c \in Commands, Tidy(c) \/ MarkCleaned(c) \/ Tidied(c)
  PROVE  TypeInv'
<1>1. cmd[c] \in Command /\ AimOf(cmd[c])
  BY Own
<1>2. CASE Tidy(c)
  <2>1. PICK a \in First(cmd[c].todo) :
          /\ tree' = IF tree[a] = "ready" THEN [tree EXCEPT ![a] = "gone"] ELSE tree
          /\ cmd' = [cmd EXCEPT ![c].todo = @ \ {a}, ![c].att = a,
                                ![c].pc = IF tree[a] \in {"absent", "ready", "gone"}
                                          THEN "note" ELSE "tidy"]
    BY <1>2 DEF Tidy
  <2>2. a \in Attempts
    BY <1>1, FirstIn DEF Command
  <2>3. tree' \in [Attempts -> TreeState]
    BY <2>1 DEF TypeInv, TryTypeOK, TreeState
  <2>4. SharedTypes' /\ UNCHANGED evidence
    BY <1>2, <2>3 DEF Tidy, TypeInv, TryTypeOK, SharedTypes, Tokens, Claimed,
       keepStore, keepRecords, keepRun, storeVars
  <2> DEFINE Next(p) == [cmd[c] EXCEPT !.todo = @ \ {a}, !.att = a, !.pc = p]
  <2>5. PICK p \in {"note", "tidy"} : cmd' = [cmd EXCEPT ![c] = Next(p)]
    BY <2>1
  <2>6. p \in Pc /\ a \in 0 .. MaxAttempts
    BY <2>2, AttemptsAreJobs DEF Pc
  <2>7. Next(p) \in Command /\ Next(p).pc = p /\ Next(p).att = a
    BY <1>1, <2>6 DEF Command
  <2> HIDE DEF Next
  <2>8. AimOf(Next(p))
    BY <2>2, <2>7 DEF AimOf, Aimed
  <2> QED BY <2>4, <2>5, <2>7, <2>8, CommandTypes DEF Evident
<1>3. CASE MarkCleaned(c)
  <2>1. Att(c) \in Attempts
    BY <1>3, Own DEF MarkCleaned, On, Aimed, Pc
  <2>2. row' \in [Attempts -> Row]
    BY <1>3, <2>1 DEF MarkCleaned, TypeInv, TryTypeOK, Row
  <2>3. SharedTypes' /\ UNCHANGED evidence
    BY <1>3, <2>2 DEF MarkCleaned, TypeInv, TryTypeOK, SharedTypes, Tokens, Claimed,
       keepStore, keepFiles, keepRun, storeVars, fileVars
  <2> DEFINE r == [cmd[c] EXCEPT !.pc = "tidy"]
  <2>4. cmd' = [cmd EXCEPT ![c] = r] /\ "tidy" \in Pc
    BY <1>3 DEF MarkCleaned, To, Pc
  <2>5. r \in Command /\ r.pc = "tidy"
    BY <1>1, <2>4 DEF Command
  <2> HIDE DEF r
  <2>6. AimOf(r)
    BY <2>5 DEF AimOf, Aimed
  <2> QED BY <2>3, <2>4, <2>5, <2>6, CommandTypes DEF Evident
<1>4. CASE Tidied(c)
  BY <1>4, NoteIdleTypes DEF Tidied
<1> QED BY <1>2, <1>3, <1>4

LEMMA KillTypes ==
  ASSUME TypeInv, NEW c \in Commands, KillCommand(c)
  PROVE  TypeInv'
<1>1. UNCHANGED <<job, try, row, ideas, evidence, live, invoked>>
  BY DEF KillCommand, keepStore, keepRecords, storeVars
<1>2. tree' \in [Attempts -> TreeState] /\ preparing' \in [Attempts -> BOOLEAN]
  <2>1. CASE On(c, "prepare") /\ tree[Att(c)] = "absent"
    BY <2>1 DEF KillCommand, TypeInv, TryTypeOK, TreeState
  <2>2. CASE ~(On(c, "prepare") /\ tree[Att(c)] = "absent")
    BY <2>2 DEF KillCommand, TypeInv, TryTypeOK
  <2> QED BY <2>1, <2>2
<1>3. loose' \subseteq Attempts
  <2>1. CASE On(c, "working")
    BY <2>1, Own DEF KillCommand, TypeInv, TryTypeOK, On, Aimed, Pc, Beating, Locked
  <2>2. CASE ~On(c, "working")
    BY <2>2 DEF KillCommand, TypeInv, TryTypeOK
  <2> QED BY <2>1, <2>2
<1>4. kills' \in 0 .. MaxKills /\ wlock' \in [Attempts -> Commands \cup {None}]
  BY TryAssumption DEF KillCommand, TypeInv, TryTypeOK
<1>5. SharedTypes'
  BY <1>1, <1>2, <1>3, <1>4 DEF TypeInv, TryTypeOK, SharedTypes, Tokens, Claimed
<1> QED BY <1>1, <1>5, IdleTypes, CommandTypes DEF KillCommand, Stop, Evident

\* Steps of nobody: no command moves, and no evidence disappears.
LEMMA OutsideTypes ==
  ASSUME TypeInv, SharedTypes', UNCHANGED cmd,
         \A a \in Attempts : evidence[a] # "none" => evidence'[a] # "none"
  PROVE  TypeInv'
<1>1. ASSUME NEW c \in Commands
      PROVE  AimOf(cmd[c])' /\ (cmd[c].pc \in Evident => evidence[Att(c)] # "none")'
  <2>1. AimOf(cmd[c]) /\ (cmd[c].pc \in Evident => evidence[Att(c)] # "none")
    BY DEF TypeInv, Aim
  <2>2. cmd[c].pc \in Evident => Att(c) \in Attempts
    BY <2>1 DEF AimOf, Att, Evident, Aimed, Pc, Beating, Locked
  <2> QED BY <2>1, <2>2 DEF AimOf, Att
<1> QED BY <1>1 DEF TypeInv, Aim, TryTypeOK, SharedTypes

LEMMA EnvironmentTypes ==
  ASSUME TypeInv,
         \/ \E a \in Attempts : LooseWrites(a) \/ ExpireClaim(a) \/ RenewJobClaim(a) \/ DaemonReplays(a)
         \/ LoseStore
  PROVE  TypeInv'
<1>1. ASSUME NEW a \in Attempts, LooseWrites(a) PROVE TypeInv'
  <2>1. tree' \in [Attempts -> TreeState]
    BY <1>1 DEF LooseWrites, TypeInv, TryTypeOK, TreeState
  <2>2. SharedTypes' /\ UNCHANGED <<cmd, evidence>>
    BY <1>1, <2>1 DEF LooseWrites, TypeInv, TryTypeOK, SharedTypes, Tokens, Claimed,
       keepStore, keepRecords, keepRun, storeVars
  <2> QED BY <2>2, OutsideTypes
<1>2. ASSUME NEW a \in Attempts, ExpireClaim(a) \/ RenewJobClaim(a) PROVE TypeInv'
  <2>1. SharedTypes' /\ UNCHANGED <<cmd, evidence>>
    BY <1>2 DEF ExpireClaim, RenewJobClaim, TypeInv, TryTypeOK, SharedTypes, Tokens, Claimed,
       keepStore, keepRecords, keepFiles, storeVars, fileVars
  <2> QED BY <2>1, OutsideTypes
<1>3. ASSUME NEW a \in Attempts, DaemonReplays(a) PROVE TypeInv'
  <2>1. evidence[a] \in JobTerminal
    BY <1>3 DEF DaemonReplays, TypeInv, TryTypeOK
  <2>2. job' \in [Jobs -> JobRow] /\ Tokens'
    BY <1>3, <2>1, JobTypes DEF DaemonReplays
  <2>3. SharedTypes' /\ UNCHANGED <<cmd, evidence>>
    BY <1>3, <2>2 DEF DaemonReplays, TypeInv, TryTypeOK, SharedTypes,
       keepRecords, keepFiles, keepRun, fileVars
  <2> QED BY <2>3, OutsideTypes
<1>4. ASSUME LoseStore PROVE TypeInv'
  <2>1. AbsentJob \in JobRow
    BY OperationBounds DEF AbsentJob, JobRow, JobState
  <2>2. job' \in [Jobs -> JobRow] /\ Tokens' /\ live' \in [Attempts -> BOOLEAN]
    BY <1>4, <2>1, AttemptsAreJobs DEF LoseStore, Tokens, Claimed, AbsentJob
  <2>3. SharedTypes' /\ UNCHANGED <<cmd, evidence>>
    BY <1>4, <2>2 DEF LoseStore, TypeInv, TryTypeOK, SharedTypes, keepRecords, keepFiles, fileVars
  <2> QED BY <2>3, OutsideTypes
<1> QED BY <1>1, <1>2, <1>3, <1>4

LEMMA TypeStep == TypeInv /\ [TryNext]_allVars => TypeInv'
<1> SUFFICES ASSUME TypeInv, [TryNext]_allVars PROVE TypeInv'
    OBVIOUS
<1>1. ASSUME NEW c \in Commands, Begin(c) \/ Continue(c) \/ KillCommand(c) PROVE TypeInv'
  BY <1>1, BeginTypes, PlanTypes, MarkerTypes, PreludeTypes, ClaimTypes, RunTypes, GiveTypes,
     TidyTypes, KillTypes DEF Continue
<1>2. CASE UNCHANGED allVars
  <2>1. SharedTypes' /\ UNCHANGED <<cmd, evidence>>
    BY <1>2 DEF allVars, storeVars, tryVars, fileVars, TypeInv, TryTypeOK, SharedTypes,
       Tokens, Claimed
  <2> QED BY <2>1, OutsideTypes
<1> QED BY <1>1, <1>2, EnvironmentTypes DEF TryNext

(***************************************************************************)
(* Every reachable state of the direct Tries is well typed; a command that *)
(* acts on an Attempt always has one, and its evidence where it relies on  *)
(* it.                                                                     *)
(***************************************************************************)
THEOREM TryTypeCorrect == TrySpec => []TryTypeOK
<1>1. TypeInv => TryTypeOK
  BY DEF TypeInv
<1> QED BY <1>1, TypeInit, TypeStep, PTL DEF TrySpec

-----------------------------------------------------------------------------
(* The first verdict stays.                                                *)

\* What a transaction may make of a row.
Follows(new, old) ==
    /\ old.state # "absent" => new.state # "absent"
    /\ old.state \notin {"absent", "planned"} => new.state \notin {"absent", "planned"}
    /\ Terminal(old) => new.state = old.state /\ new.source = old.source

LEMMA UpdateFollows ==
  ASSUME TypeInv, NEW c \in Commands, cmd[c].pc \in Aimed,
         NEW state \in Pending \cup JobTerminal,
         NEW source \in {"none", "direct", "human"}, NEW pc,
         Update(c, state, source, pc), NEW a \in Attempts
  PROVE  /\ Follows(row'[a], row[a])
         /\ Terminal(row[a]) => row'[a].cleaned = row[a].cleaned
<1> DEFINE new == [SeenRow(c) EXCEPT !.state = state, !.source = source]
<1>1. \/ row' = row
      \/ Replace(Att(c), SeenRow(c), new) /\ row' = [row EXCEPT ![Att(c)] = new]
  BY DEF Update
<1>2. CASE row' = row
  BY <1>2 DEF Follows
<1>3. CASE Replace(Att(c), SeenRow(c), new) /\ row' = [row EXCEPT ![Att(c)] = new]
  <2>1. Att(c) \in Attempts /\ SeenRow(c) \in Row /\ row \in [Attempts -> Row]
    BY Own DEF TypeInv, TryTypeOK
  <2>2. row[Att(c)] = SeenRow(c) /\ MayBecome(SeenRow(c).state, new.state) /\ new.state = state
    BY <1>3, <2>1 DEF Replace, Row
  <2>3. CASE a = Att(c)
    <3>1. row'[a] = new
      BY <1>3, <2>1, <2>3
    <3> QED BY <2>1, <2>2, <2>3, <3>1 DEF Follows, MayBecome, Pending, JobTerminal, Terminal
  <2>4. CASE a # Att(c)
    <3>1. row'[a] = row[a]
      BY <1>3, <2>1, <2>4
    <3> QED BY <3>1 DEF Follows
  <2> QED BY <2>3, <2>4
<1> QED BY <1>1, <1>2, <1>3

LEMMA PlanFollows ==
  ASSUME TypeInv, NEW c \in Commands, NEW prior, NEW guarded, PlanAttempt(c, prior, guarded)
  PROVE  \/ row' = row /\ Stop(c)
         \/ \E a \in Attempts :
              /\ row[a].state = "absent" /\ row'[a].state = "planned"
              /\ row' = Extended(a, prior)
              /\ cmd' = [cmd EXCEPT ![c] = [Idle EXCEPT !.pc = "execute", !.att = a]]
<1> DEFINE new == {a \in NewAttempt(row) : guarded /\ InventoryValid("open", Extended(a, prior))}
<1>1. CASE new # {}
  <2>1. PICK a \in new :
          /\ row' = Extended(a, prior)
          /\ cmd' = [cmd EXCEPT ![c] = [Idle EXCEPT !.pc = "execute", !.att = a]]
    BY <1>1 DEF PlanAttempt
  <2>2. a \in Attempts /\ a \notin Existing(row)
    BY AttemptsAreJobs DEF NewAttempt
  <2>3. row[a].state = "absent"
    BY <2>2 DEF Existing
  <2>4. row'[a].state = "planned"
    BY <2>1, <2>2 DEF Extended, TypeInv, TryTypeOK, NoRow
  <2> QED BY <2>1, <2>2, <2>3, <2>4
<1>2. CASE new = {}
  BY <1>2 DEF PlanAttempt
<1> QED BY <1>1, <1>2

\* The actions that may change a row, but for PlanRetry.
LEMMA RowFollows ==
  ASSUME TypeInv, TryNext, NEW a \in Attempts
  PROVE  /\ Follows(row'[a], row[a])
         /\ Terminal(row[a]) /\ row[a].cleaned => row'[a].cleaned
<1> USE DEF keepRecords, Note
<1>1. CASE row' = row
  BY <1>1 DEF Follows
<1>2. ASSUME NEW c \in Commands, Begin(c) \/ KillCommand(c)
      PROVE  row' = row
  BY <1>2 DEF Begin, KillCommand, BeginRun, BeginResume, BeginRetry, BeginReconcile, BeginClose,
     BeginCleanup, StartWith
<1>3. ASSUME NEW c \in Commands, Plan(c) \/ PlanRetry(c)
      PROVE  Follows(row'[a], row[a]) /\ (Terminal(row[a]) => row'[a] = row[a])
  <2>1. PICK prior, guarded : PlanAttempt(c, prior, guarded)
    BY <1>3 DEF Plan, PlanRetry
  <2>2. CASE row' = row
    BY <2>2 DEF Follows
  <2>3. CASE row' # row
    <3>1. PICK b \in Attempts : row[b].state = "absent" /\ row' = Extended(b, prior)
                                /\ row'[b].state = "planned"
      BY <2>1, <2>3, PlanFollows
    <3>2. a # b => row'[a] = row[a]
      BY <3>1 DEF Extended, TypeInv, TryTypeOK
    <3> QED BY <3>1, <3>2 DEF Follows, Terminal, JobTerminal
  <2> QED BY <2>2, <2>3
<1>4. ASSUME NEW c \in Commands,
             \/ Settle(c) \/ Queue(c) \/ Doubt(c) \/ Start(c) \/ Mark(c) \/ ImportTerminal(c)
             \/ Relinquish(c)
      PROVE  \/ row' = row
             \/ /\ Follows(row'[a], row[a])
                /\ Terminal(row[a]) => row'[a].cleaned = row[a].cleaned
  <2>1. cmd[c].pc \in Aimed
    BY <1>4 DEF Settle, Queue, Doubt, Start, Mark, ImportTerminal, Relinquish, On, Aimed, Pc, Beating
  <2>2. evidence[Att(c)] \in JobTerminal \cup {"none"} /\ AimOf(cmd[c]) /\ cmd[c] \in Command
    BY <2>1, Own DEF TypeInv, TryTypeOK
  <2>3. row' = row \/ \E state \in Pending \cup JobTerminal, source \in {"none", "direct", "human"}, pc \in Pc :
          Update(c, state, source, pc)
    <3>1. CASE Settle(c)
      BY <3>1, <2>2 DEF Settle, On, AimOf, Command, Pc
    <3>2. CASE ImportTerminal(c)
      <4>1. Disposition(Att(c)) \in JobTerminal \cup {"none"} /\ evidence[Att(c)] # "none"
        BY <2>2, <3>2, Own DEF ImportTerminal, Disposition, JobTerminal, On, Evident
      <4>2. Disposition(Att(c)) \in JobTerminal
        BY <4>1, <2>2 DEF Disposition, JobTerminal
      <4> QED BY <3>2, <4>2 DEF ImportTerminal, Pc
    <3>3. CASE Queue(c) \/ Doubt(c) \/ Start(c) \/ Mark(c) \/ Relinquish(c)
      BY <3>3 DEF Queue, Doubt, Start, Mark, Relinquish, Pending, JobTerminal, Pc, Beating
    <3> QED BY <1>4, <3>1, <3>2, <3>3
  <2> QED BY <2>1, <2>3, UpdateFollows
<1>5. ASSUME NEW c \in Commands, MarkCleaned(c)
      PROVE  Follows(row'[a], row[a]) /\ (row[a].cleaned => row'[a].cleaned)
  <2>1. row \in [Attempts -> Row] /\ Att(c) \in Attempts
    BY <1>5, Own DEF MarkCleaned, On, Aimed, Pc, TypeInv, TryTypeOK
  <2> QED BY <1>5, <2>1 DEF MarkCleaned, Follows, Row
<1>6. ASSUME NEW c \in Commands,
             \/ CreateTry(c) \/ Close(c) \/ ReadMarker(c) \/ ResumeLatest(c)
             \/ ReconcileUnknown(c) \/ ReconcileFenced(c) \/ Execute(c) \/ Lookup(c)
             \/ PrepareManaged(c) \/ Enqueue(c) \/ ClaimOrRecover(c) \/ Repair(c) \/ Claim(c)
             \/ Lock(c) \/ Check(c) \/ WriteTerminal(c) \/ Finish(c)
             \/ (\E outcome \in {"succeeded", "cancelled"} : Work(c, outcome))
             \/ Ask(c) \/ Cancel(c) \/ Tidy(c) \/ Tidied(c)
      PROVE  row' = row
  BY <1>6 DEF CreateTry, Close, ReadMarker, ResumeLatest, ReconcileUnknown, ReconcileFenced,
     Execute, Lookup, PrepareManaged, Enqueue, ClaimOrRecover, Repair, Claim, Lock, Check,
     WriteTerminal, Finish, Work, Ask, Cancel, Tidy, Tidied
<1>7. (\/ \E b \in Attempts : LooseWrites(b) \/ ExpireClaim(b) \/ RenewJobClaim(b) \/ DaemonReplays(b)
       \/ LoseStore) => row' = row
  BY DEF LooseWrites, ExpireClaim, RenewJobClaim, DaemonReplays, LoseStore
<1> QED BY <1>1, <1>2, <1>3, <1>4, <1>5, <1>6, <1>7 DEF TryNext, Continue

(***************************************************************************)
(* Whoever finishes an Attempt first has the last word, whichever commands *)
(* were stalled, killed or reading meanwhile (FirstVerdictStays).          *)
(***************************************************************************)
THEOREM FirstVerdictIsFinal == TrySpec => FirstVerdictStays
<1> DEFINE Verdict == \A a \in Attempts : Terminal(row[a]) =>
                        /\ row'[a].state = row[a].state /\ row'[a].source = row[a].source
                        /\ row[a].cleaned => row'[a].cleaned
<1>1. TypeInv /\ [TryNext]_allVars => [Verdict]_allVars
  BY RowFollows DEF Follows
<1> QED BY <1>1, TypeInit, TypeStep, PTL DEF TrySpec, FirstVerdictStays

-----------------------------------------------------------------------------
(* The invariant behind InvokedOnce and RecordsTellTruth.  What one command *)
(* has learned must stay true while the others go on.                       *)

Started(r) == r.state \notin {"absent", "planned"}

\* Without a job nobody can claim, so no evidence can be overlooked.
Fresh(a) == job[a].state = "absent" => evidence[a] = "none"

\* The row a command keeps is an earlier state of the row.
SeenBefore(r) == \A a \in Attempts : Follows(row[a], r.seen[a])

\* Once past the preparation there is a job; only the claim lets a command
\* go on to the workload.
HasJob(r) ==
    /\ r.pc \in {"queue", "recover", "doubt", "repair", "start", "claim", "import"} \cup Beating =>
         job[r.att].state # "absent"
    /\ r.pc \in Beating => Claimed(r.att)
    /\ r.pc \in {"prepare", "enqueue"} /\ ~r.fresh => job[r.att].state # "absent"
    /\ r.pc \in {"lookup", "prepare", "enqueue"} =>
         /\ Fresh(r.att)
         /\ r.seen[r.att].state = "planned" /\ Started(row[r.att]) => job[r.att].state # "absent"
    /\ r.pc = "execute" /\ ~Terminal(row[r.att]) => Fresh(r.att)
    /\ r.pc \in {"execute", "lookup", "prepare", "enqueue", "queue", "recover", "start",
                 "claim", "mark"} => row[r.att].state # "absent"

\* Between the claim and the marker nobody else runs the workload.
Runs(r) ==
    /\ r.pc \in {"lock"} \cup Locked => Started(row[r.att])
    /\ r.pc \in {"mark", "lock", "check"} => invoked[r.att] = 0
    /\ r.pc \in {"mark", "lock", "check", "working", "publish"} => evidence[r.att] = "none"
    /\ r.pc = "finish" => evidence[r.att] = r.outcome

\* The markers have been read before a Resume or a Reconcile goes on.
Read(r) ==
    /\ r.pc = "settle" =>
         /\ evidence[r.att] # "none" /\ r.outcome \in {evidence[r.att], "failed"}
         /\ r.won
    /\ r.pc \in {"markers", "settle"} /\ r.op = "resume" =>
         \A a \in Attempts \ r.todo :
            ~Terminal(row[a]) /\ ~(r.pc = "settle" /\ a = r.att) => Fresh(a)
    /\ r.pc = "markers" /\ ~r.won =>
         /\ r.op = "fenced" => r.seen[r.att].state = "unknown"
         /\ r.op \in {"reconcile", "fenced"} /\ r.att \notin r.todo
              /\ r.seen[r.att].state = "unknown" => Fresh(r.att)

\* Only what is uncertain is given up, and no job can finish it any more.
Gives(r) ==
    /\ r.pc \in {"ask", "cancel", "giveup"} => r.seen[r.att].state = "unknown" /\ Fresh(r.att)
    /\ r.pc = "giveup" => job[r.att].state \in {"absent", "cancelled", "unknown"}

Local(r) == SeenBefore(r) /\ HasJob(r) /\ Runs(r) /\ Read(r) /\ Gives(r)

\* A terminal row is honest (the body of TerminalTruth).
Honest(a) ==
    \/ /\ row[a].source = "direct"
       /\ evidence[a] # "none"
       /\ row[a].state \in {evidence[a], "failed"}
    \/ /\ row[a].source = "human" /\ row[a].state = "cancelled"
       /\ job[a].state \in {"absent", "cancelled", "unknown"}

Global(a) ==
    /\ invoked[a] <= 1
    /\ invoked[a] # 0 \/ evidence[a] # "none" => Started(row[a])
    /\ job[a].state = "queued" => invoked[a] = 0 /\ evidence[a] = "none"
    /\ Terminal(row[a]) => Honest(a)

Alone == \A c, d \in Commands :
    cmd[c].pc \in Beating /\ cmd[d].pc \in Beating /\ Att(c) = Att(d) => c = d

SafeInv ==
    /\ TypeInv
    /\ \A c \in Commands : Local(cmd[c])
    /\ \A a \in Attempts : Global(a)
    /\ Alone

\* What any step may do to what the commands share ...
Mild == \A a \in Attempts :
    /\ Follows(row'[a], row[a])
    /\ Started(row'[a]) /\ ~Started(row[a]) => job'[a].state # "absent"
    /\ job[a].state # "absent" => job'[a].state # "absent"
    /\ Claimed(a) => Claimed(a)'
    /\ job[a].state \in {"cancelled", "unknown"} => job'[a].state = job[a].state
    /\ job[a].state = "absent" /\ job'[a].state # "absent" => ~Started(row[a])
    /\ Terminal(row'[a]) /\ ~Terminal(row[a]) => Honest(a)'
    /\ evidence[a] # "none" => evidence'[a] = evidence[a]

\* ... and what only the command that claimed the job does.
Untouched(a) == evidence'[a] = evidence[a] /\ invoked'[a] = invoked[a]

LEMMA FreshStays ==
  ASSUME Mild, NEW a \in Attempts, Fresh(a), Untouched(a)
  PROVE  Fresh(a)'
  BY DEF Mild, Fresh, Untouched

LEMMA FollowsChain ==
  ASSUME NEW x, NEW y, NEW z, Follows(y, x), Follows(z, y)
  PROVE  Follows(z, x)
  BY DEF Follows, Terminal, JobTerminal

LEMMA SeenStays ==
  ASSUME Mild, NEW r, SeenBefore(r)
  PROVE  SeenBefore(r)'
<1> SUFFICES ASSUME NEW a \in Attempts PROVE Follows(row[a], r.seen[a])'
    BY DEF SeenBefore
<1>1. Follows(row[a], r.seen[a]) /\ Follows(row'[a], row[a])
  BY DEF SeenBefore, Mild
<1>2. Follows(row'[a], r.seen[a])
  BY <1>1, FollowsChain
<1> QED BY <1>2 DEF Follows, Terminal

\* The step of another command leaves what command r knows true.
LEMMA OthersSafe ==
  ASSUME Mild, NEW r \in Command, AimOf(r), Local(r),
         \A a \in Attempts : Global(a),
         \A a \in Attempts : Untouched(a) \/ (Claimed(a) /\ ~(r.pc \in Beating /\ r.att = a))
  PROVE  Local(r)'
<1>1. \A a \in Attempts : Fresh(a) => Fresh(a)'
  BY FreshStays DEF Fresh, Claimed, Mild
<1>2. \A a \in Attempts : /\ Follows(row'[a], row[a])
                          /\ Terminal(row[a]) => Terminal(row'[a])
                          /\ Started(row[a]) => Started(row'[a])
                          /\ row[a].state # "absent" => row'[a].state # "absent"
  BY DEF Mild, Follows, Started, Terminal
<1>3. SeenBefore(r)'
  BY SeenStays DEF Local
<1>4. /\ r.pc \in Aimed => r.att \in Attempts
      /\ r.pc = "markers" /\ r.op \in {"reconcile", "fenced"} => r.att \in Attempts
  BY DEF AimOf
<1>5. {"settle", "execute", "lookup", "prepare", "enqueue", "queue", "recover", "doubt", "repair",
       "start", "claim", "import", "ask", "cancel", "giveup"} \cup Beating \subseteq Aimed
      /\ Locked \subseteq Beating /\ {"mark", "lock"} \subseteq Beating
  BY DEF Aimed, Pc, Beating, Locked
<1>6. HasJob(r)'
  <2>1. HasJob(r)
    BY DEF Local
  <2>2. ASSUME r.att \in Attempts
        PROVE  /\ job[r.att].state # "absent" => job'[r.att].state # "absent"
               /\ Claimed(r.att) => Claimed(r.att)'
               /\ Started(row'[r.att]) /\ ~Started(row[r.att]) => job'[r.att].state # "absent"
    BY <2>2 DEF Mild
  <2>3. r.pc \in {"lookup", "prepare", "enqueue"} =>
          /\ Fresh(r.att)'
          /\ r.seen[r.att].state = "planned" /\ Started(row'[r.att]) => job'[r.att].state # "absent"
    BY <1>1, <1>4, <1>5, <2>1, <2>2 DEF HasJob
  <2>4. r.pc = "execute" /\ ~Terminal(row'[r.att]) => Fresh(r.att)'
    BY <1>1, <1>2, <1>4, <1>5, <2>1 DEF HasJob
  <2>5. r.pc \in {"execute", "lookup", "prepare", "enqueue", "queue", "recover", "start",
                  "claim", "mark"} => row'[r.att].state # "absent"
    BY <1>2, <1>4, <1>5, <2>1 DEF HasJob
  <2>6. /\ r.pc \in {"queue", "recover", "doubt", "repair", "start", "claim", "import"} \cup Beating =>
             job'[r.att].state # "absent"
        /\ r.pc \in Beating => Claimed(r.att)'
        /\ r.pc \in {"prepare", "enqueue"} /\ ~r.fresh => job'[r.att].state # "absent"
    BY <1>4, <1>5, <2>1, <2>2 DEF HasJob
  <2> QED BY <2>3, <2>4, <2>5, <2>6 DEF HasJob, Started, Terminal
<1>7. Runs(r)'
  <2>1. Runs(r)
    BY DEF Local
  <2>2. r.pc \in Beating => Untouched(r.att) /\ r.att \in Attempts
    BY <1>4, <1>5
  <2>3. r.pc \in {"lock"} \cup Locked => Started(row'[r.att])
    BY <1>2, <1>4, <1>5, <2>1 DEF Runs
  <2> QED BY <1>5, <2>1, <2>2, <2>3 DEF Runs, Untouched, Started, Locked, Beating
<1>8. Read(r)'
  <2>1. Read(r)
    BY DEF Local
  <2>2. r.pc = "settle" =>
          /\ evidence'[r.att] # "none" /\ r.outcome \in {evidence'[r.att], "failed"}
          /\ r.won
    BY <1>4, <1>5, <2>1 DEF Read, Mild
  <2>3. r.pc \in {"markers", "settle"} /\ r.op = "resume" =>
          \A a \in Attempts \ r.todo :
             ~Terminal(row'[a]) /\ ~(r.pc = "settle" /\ a = r.att) => Fresh(a)'
    BY <1>1, <1>2, <2>1 DEF Read
  <2>4. r.pc = "markers" /\ ~r.won =>
          /\ r.op = "fenced" => r.seen[r.att].state = "unknown"
          /\ r.op \in {"reconcile", "fenced"} /\ r.att \notin r.todo
               /\ r.seen[r.att].state = "unknown" => Fresh(r.att)'
    BY <1>1, <1>4, <2>1 DEF Read
  <2> QED BY <2>2, <2>3, <2>4 DEF Read, Terminal
<1>9. Gives(r)'
  <2>1. Gives(r)
    BY DEF Local
  <2>2. r.pc \in {"ask", "cancel", "giveup"} => r.seen[r.att].state = "unknown" /\ Fresh(r.att)'
    BY <1>1, <1>4, <1>5, <2>1 DEF Gives
  <2>3. r.pc = "giveup" => Started(row[r.att]) /\ r.att \in Attempts
    BY <1>4, <1>5, <2>1 DEF Gives, Local, SeenBefore, Follows, Started
  <2>4. r.pc = "giveup" => job'[r.att].state \in {"absent", "cancelled", "unknown"}
    BY <2>1, <2>3 DEF Gives, Mild
  <2> QED BY <2>2, <2>4 DEF Gives
<1> QED BY <1>3, <1>6, <1>7, <1>8, <1>9 DEF Local

LEMMA GlobalSafe ==
  ASSUME Mild, TypeInv, NEW a \in Attempts, Global(a),
         Untouched(a) \/ (Claimed(a) /\ Started(row[a]) /\ invoked'[a] <= 1)
  PROVE  Global(a)'
<1>1. Started(row[a]) => Started(row'[a])
  BY DEF Mild, Follows, Started
<1>2. invoked'[a] <= 1
  BY DEF Untouched, Global
<1>3. invoked'[a] # 0 \/ evidence'[a] # "none" => Started(row'[a])
  BY <1>1 DEF Untouched, Global
<1>4. job'[a].state = "queued" => invoked'[a] = 0 /\ evidence'[a] = "none"
  <2>1. CASE job[a].state = "queued"
    BY <2>1 DEF Untouched, Global, Claimed
  <2>2. CASE job[a].state = "absent"
    BY <2>2 DEF Untouched, Global, Claimed, Mild
  <2>3. CASE Claimed(a)
    BY <2>3 DEF Mild, Claimed
  <2> QED BY <2>1, <2>2, <2>3 DEF Claimed
<1>5. Terminal(row'[a]) => Honest(a)'
  <2>1. CASE ~Terminal(row[a])
    BY <2>1 DEF Mild
  <2>2. CASE Terminal(row[a])
    <3>1. row'[a].state = row[a].state /\ row'[a].source = row[a].source /\ Honest(a)
      BY <2>2 DEF Mild, Follows, Global
    <3>2. evidence[a] # "none" => evidence'[a] = evidence[a]
      BY DEF Mild
    <3>3. job[a].state \in {"absent", "cancelled", "unknown"} =>
            job'[a].state \in {"absent", "cancelled", "unknown"}
      BY <2>2 DEF Mild, Started, Terminal, JobTerminal
    <3> QED BY <3>1, <3>2, <3>3 DEF Honest
  <2> QED BY <2>1, <2>2
<1> QED BY <1>2, <1>3, <1>4, <1>5 DEF Global, Started, Terminal

\* A step of command c, which is left with record r.
LEMMA StepSafe ==
  ASSUME SafeInv, TypeInv', Mild, NEW c \in Commands, NEW r,
         cmd' = [cmd EXCEPT ![c] = r], Local(r)',
         r.pc \in Beating =>
            (cmd[c].pc \in Beating /\ r.att = Att(c)) \/ (r.att \in Attempts /\ ~Claimed(r.att)),
         \A a \in Attempts : \/ Untouched(a)
                             \/ cmd[c].pc \in Locked /\ Att(c) = a /\ invoked'[a] <= 1
  PROVE  SafeInv'
<1>1. cmd'[c] = r /\ \A d \in Commands \ {c} : cmd'[d] = cmd[d]
  BY DEF SafeInv, TypeInv, TryTypeOK
<1>2. cmd[c].pc \in Locked => Claimed(Att(c)) /\ Started(row[Att(c)]) /\ cmd[c].pc \in Beating
  BY DEF SafeInv, Local, HasJob, Runs, Beating, Att
<1>3. ASSUME NEW d \in Commands PROVE Local(cmd[d])'
  <2>1. CASE d = c
    BY <1>1, <2>1 DEF Local, SeenBefore, HasJob, Runs, Read, Gives
  <2>2. CASE d # c
    <3> DEFINE q == cmd[d]
    <3>1. cmd'[d] = q /\ q \in Command /\ AimOf(q) /\ Local(q)
      BY <1>1, <2>2, Own DEF SafeInv
    <3>2. \A a \in Attempts : Untouched(a) \/ (Claimed(a) /\ ~(q.pc \in Beating /\ q.att = a))
      BY <1>2, <2>2 DEF SafeInv, Alone, Att
    \* OthersSafe is about a record that does not change, so it gets a name.
    <3>3. PICK k : k = q
      OBVIOUS
    <3> HIDE DEF q
    <3>4. Local(k)'
      BY <3>1, <3>2, <3>3, OthersSafe DEF SafeInv
    <3>5. cmd'[d] = k
      BY <3>1, <3>3
    <3> QED BY <3>4, <3>5 DEF Local, SeenBefore, HasJob, Runs, Read, Gives
  <2> QED BY <2>1, <2>2
<1>4. ASSUME NEW a \in Attempts PROVE Global(a)'
  BY <1>2, GlobalSafe DEF SafeInv
<1>5. Alone'
  <2>1. ASSUME NEW d \in Commands \ {c}, cmd[d].pc \in Beating, r.pc \in Beating
        PROVE  Att(d) # r.att
    <3>1. Claimed(Att(d))
      BY <2>1 DEF SafeInv, Local, HasJob, Att
    <3> QED BY <2>1, <3>1 DEF SafeInv, Alone
  <2> QED BY <1>1, <2>1 DEF SafeInv, Alone, Att
<1> QED BY <1>3, <1>4, <1>5 DEF SafeInv

\* A step of command c that changes nothing the others look at.
LEMMA QuietSafe ==
  ASSUME SafeInv, TypeInv', UNCHANGED <<job, row, evidence, invoked>>,
         NEW c \in Commands, NEW r, cmd' = [cmd EXCEPT ![c] = r], Local(r),
         r.pc \in Beating => cmd[c].pc \in Beating /\ r.att = Att(c)
  PROVE  SafeInv'
<1>1. Mild
  BY DEF Mild, Follows, Claimed
<1>2. Local(r)'
  BY DEF Local, SeenBefore, Follows, HasJob, Runs, Read, Gives, Fresh, Claimed, Started, Terminal
<1> QED BY <1>1, <1>2, StepSafe DEF Untouched

LEMMA LocalIdle == TypeInv => Local(Idle)
<1> SUFFICES ASSUME TypeInv PROVE Local(Idle)
    OBVIOUS
<1>1. Idle.pc = "idle" /\ \A a \in Attempts : Idle.seen[a] = NoRow
  BY DEF Idle
<1>2. SeenBefore(Idle)
  BY <1>1 DEF SeenBefore, Follows, NoRow, Terminal, JobTerminal
<1> QED BY <1>1, <1>2 DEF Local, HasJob, Runs, Read, Gives, Beating, Locked

LEMMA StopSafe ==
  ASSUME SafeInv, TypeInv', UNCHANGED <<job, row, evidence, invoked>>,
         NEW c \in Commands, Stop(c)
  PROVE  SafeInv'
  BY QuietSafe, LocalIdle, IdleTypes DEF Stop, SafeInv, Beating, Locked

LEMMA NoteSafe ==
  ASSUME SafeInv, TypeInv', NEW c \in Commands, NEW r, Note(c, r), Local(r),
         r.pc \in Beating => cmd[c].pc \in Beating /\ r.att = Att(c)
  PROVE  SafeInv'
  BY QuietSafe DEF Note, keepStore, keepRecords, keepFiles, keepRun, storeVars, fileVars

LEMMA NoteIdleSafe ==
  ASSUME SafeInv, TypeInv', NEW c \in Commands, Note(c, Idle)
  PROVE  SafeInv'
  BY NoteSafe, LocalIdle, IdleTypes DEF SafeInv, Beating, Locked

LEMMA BeginSafe ==
  ASSUME SafeInv, TypeInv', NEW c \in Commands, Begin(c)
  PROVE  SafeInv'
<1>1. row \in [Attempts -> Row]
  BY DEF SafeInv, TypeInv, TryTypeOK
<1>2. ASSUME NEW op \in Operations, NEW pc \in {"plan", "close", "markers", "tidy"}, NEW a, NEW todo,
             pc = "markers" => \/ op = "resume" /\ todo = Unfinished(row)
                               \/ op = "reconcile" /\ a \in Attempts /\ todo = {a} \cap Unfinished(row),
             StartWith(c, op, pc, a, todo)
      PROVE  SafeInv'
  <2> DEFINE used == CASE op = "conclude" \/ op = "abandon" -> Attempts
                       [] op = "resume" -> todo \cup Latest(row)
                       [] OTHER -> todo \cup {a}
             seen == Keep(row, used)
             known == IF pc \in {"plan", "close"} THEN try ELSE "none"
             r == [Idle EXCEPT !.pc = pc, !.op = op, !.att = a, !.todo = todo,
                               !.try = known, !.seen = seen]
  <2>1. Note(c, r)
    BY <1>2 DEF StartWith
  <2>2. \A b \in Attempts : seen[b] = IF b \in used THEN row[b] ELSE NoRow
    BY DEF Keep
  <2>3. op = "reconcile" => a \in used
    BY DEF Operations
  <2> HIDE DEF used, seen, known
  <2>4. r.pc = pc /\ r.op = op /\ r.att = a /\ r.todo = todo /\ r.seen = seen
    BY IdleTypes DEF Command
  <2> HIDE DEF r
  <2>5. SeenBefore(r)
    BY <2>2, <2>4 DEF SeenBefore, Follows, NoRow, Terminal, JobTerminal
  <2>6. \A b \in Attempts : row[b].state = "absent" => Fresh(b)
    BY DEF SafeInv, Global, Started, Fresh
  <2>7. op = "resume" /\ pc = "markers" => \A b \in Attempts \ todo : ~Terminal(row[b]) => Fresh(b)
    BY <1>1, <1>2, <2>6 DEF Unfinished, Row, Terminal
  <2>8. op = "reconcile" /\ pc = "markers" /\ seen[a].state = "unknown" => a \in todo
    BY <1>2, <2>2, <2>3 DEF Unfinished, Pending
  <2>9. Read(r)
    BY <1>2, <2>4, <2>7, <2>8 DEF Read, Operations
  <2>10. Local(r) /\ r.pc \notin Beating
    BY <2>4, <2>5, <2>9 DEF Local, HasJob, Runs, Gives, Beating, Locked
  <2> QED BY <2>1, <2>10, NoteSafe
<1>3. CASE BeginRun(c)
  <2>1. PICK op \in Ops \cap {"create", "run", "exec"} : StartWith(c, op, "plan", 0, {})
    BY <1>3 DEF BeginRun
  <2> QED BY <1>2, <2>1, TryAssumption
<1>4. CASE BeginResume(c)
  BY <1>2, <1>4 DEF BeginResume, Operations
<1>5. CASE BeginRetry(c)
  <2>1. PICK last \in Latest(row) :
          \/ StartWith(c, "retry", "plan", last, {})
          \/ StartWith(c, "resume", "markers", 0, Unfinished(row))
    BY <1>5 DEF BeginRetry
  <2> QED BY <1>2, <2>1 DEF Operations
<1>6. CASE BeginReconcile(c)
  <2>1. PICK a \in Existing(row) :
          StartWith(c, "reconcile", "markers", a, {a} \cap Unfinished(row))
    BY <1>6 DEF BeginReconcile
  <2>2. a \in Attempts
    BY DEF Existing
  <2> QED BY <1>2, <2>1, <2>2 DEF Operations
<1>7. CASE BeginClose(c)
  <2>1. PICK op \in Ops \cap {"conclude", "abandon", "adopt"} : StartWith(c, op, "close", 0, {})
    BY <1>7 DEF BeginClose
  <2> QED BY <1>2, <2>1, TryAssumption
<1>8. CASE BeginCleanup(c)
  BY <1>2, <1>8 DEF BeginCleanup, Operations
<1> QED BY <1>3, <1>4, <1>5, <1>6, <1>7, <1>8 DEF Begin

LEMMA PlanSafe ==
  ASSUME SafeInv, TypeInv', NEW c \in Commands, CreateTry(c) \/ Plan(c) \/ PlanRetry(c) \/ Close(c)
  PROVE  SafeInv'
<1>1. CASE CreateTry(c)
  BY <1>1, StopSafe DEF CreateTry, keepStore, keepFiles, keepRun, storeVars, fileVars
<1>2. CASE Close(c)
  BY <1>2, StopSafe DEF Close, keepStore, keepFiles, keepRun, storeVars, fileVars
<1>3. CASE Plan(c) \/ PlanRetry(c)
  <2>1. PICK prior, guarded : PlanAttempt(c, prior, guarded)
    BY <1>3 DEF Plan, PlanRetry
  <2>2. UNCHANGED <<job, evidence, invoked>>
    BY <2>1 DEF PlanAttempt, keepStore, keepFiles, keepRun, storeVars, fileVars
  <2>3. CASE row' = row /\ Stop(c)
    BY <2>2, <2>3, StopSafe
  <2>4. CASE \E a \in Attempts :
               /\ row[a].state = "absent" /\ row'[a].state = "planned"
               /\ row' = Extended(a, prior)
               /\ cmd' = [cmd EXCEPT ![c] = [Idle EXCEPT !.pc = "execute", !.att = a]]
    <3>1. PICK a \in Attempts :
               /\ row[a].state = "absent" /\ row'[a].state = "planned"
               /\ row' = Extended(a, prior)
               /\ cmd' = [cmd EXCEPT ![c] = [Idle EXCEPT !.pc = "execute", !.att = a]]
      BY <2>4
    <3>2. \A b \in Attempts \ {a} : row'[b] = row[b]
      BY <3>1 DEF Extended, SafeInv, TypeInv, TryTypeOK
    <3>3. Mild
      BY <2>2, <3>1, <3>2 DEF Mild, Follows, Claimed, Started, Terminal, JobTerminal
    <3> DEFINE r == [Idle EXCEPT !.pc = "execute", !.att = a]
    <3>4. r.pc = "execute" /\ r.att = a /\ r.seen = Idle.seen
      BY IdleTypes DEF Command
    <3>5. cmd' = [cmd EXCEPT ![c] = r]
      BY <3>1
    <3> HIDE DEF r
    <3>6. evidence[a] = "none"
      BY <3>1 DEF SafeInv, Global, Started
    <3>7. SeenBefore(r)'
      BY <3>4 DEF SeenBefore, Follows, Idle, NoRow, Terminal, JobTerminal
    <3>8. HasJob(r)'
      BY <2>2, <3>1, <3>4, <3>6 DEF HasJob, Fresh, Beating, Locked
    <3>9. Local(r)' /\ r.pc \notin Beating
      BY <3>4, <3>7, <3>8 DEF Local, Runs, Read, Gives, Beating, Locked
    <3> QED BY <2>2, <3>3, <3>5, <3>9, StepSafe DEF Untouched
  <2> QED BY <2>1, <2>3, <2>4, PlanFollows DEF SafeInv
<1> QED BY <1>1, <1>2, <1>3

\* Command c stops after a step others may notice.
LEMMA StopMild ==
  ASSUME SafeInv, TypeInv', Mild, NEW c \in Commands, Stop(c),
         \A a \in Attempts : \/ Untouched(a)
                             \/ cmd[c].pc \in Locked /\ Att(c) = a /\ invoked'[a] <= 1
  PROVE  SafeInv'
<1>1. PICK r : r = Idle
  OBVIOUS
<1>2. r.pc = "idle" /\ \A a \in Attempts : r.seen[a] = NoRow
  BY <1>1 DEF Idle
<1>3. SeenBefore(r)'
  BY <1>2 DEF SeenBefore, Follows, NoRow, Terminal, JobTerminal
<1>4. Local(r)' /\ r.pc \notin Beating
  BY <1>2, <1>3 DEF Local, HasJob, Runs, Read, Gives, Beating, Locked
<1>5. cmd' = [cmd EXCEPT ![c] = r]
  BY <1>1 DEF Stop
<1> QED BY <1>4, <1>5, StepSafe

\* An update left the command at pc, or stopped it.
Updated(c, state, pc) ==
    \/ Stop(c)
    \/ \E r : /\ pc # "idle" /\ cmd' = [cmd EXCEPT ![c] = r]
              /\ SeenBefore(r)' /\ Started(row'[Att(c)])
              /\ state \in JobTerminal => Terminal(row'[Att(c)])
              /\ r.pc = pc /\ r.att = Att(c) /\ r.op = cmd[c].op /\ r.won = cmd[c].won
              /\ r.todo = cmd[c].todo /\ r.outcome = cmd[c].outcome

\* A canonical update of the command's Attempt, for which there is a job, or
\* which was started before, and whose verdict is honest.
LEMMA UpdateMild ==
  ASSUME SafeInv, NEW c \in Commands, cmd[c].pc \in Aimed,
         NEW state \in (Pending \ {"planned"}) \cup JobTerminal,
         NEW source \in {"none", "direct", "human"}, NEW pc \in Pc,
         Update(c, state, source, pc),
         Started(row[Att(c)]) \/ job[Att(c)].state # "absent",
         state \in JobTerminal =>
           \/ /\ source = "direct" /\ evidence[Att(c)] # "none"
              /\ state \in {evidence[Att(c)], "failed"}
           \/ /\ source = "human" /\ state = "cancelled"
              /\ job[Att(c)].state \in {"absent", "cancelled", "unknown"}
  PROVE  Mild /\ UNCHANGED <<job, evidence, invoked>> /\ Updated(c, state, pc)
<1> DEFINE a == Att(c)
           new == [SeenRow(c) EXCEPT !.state = state, !.source = source]
           next == [cmd[c] EXCEPT !.pc = pc, !.seen[Att(c)] = new]
<1>1. /\ a \in Attempts /\ SeenRow(c) \in Row /\ row \in [Attempts -> Row]
      /\ cmd[c] \in Command /\ SeenBefore(cmd[c])
  BY Own DEF SafeInv, TypeInv, TryTypeOK, Local
<1>2. new.state = state /\ new.source = source
  BY <1>1 DEF Row
<1>3. UNCHANGED <<job, evidence, invoked>>
  BY DEF Update, keepStore, keepFiles, keepRun, storeVars, fileVars
<1>4. \/ row' = row
      \/ row' = [row EXCEPT ![a] = new]
  BY DEF Update
<1>5. \A b \in Attempts : Follows(row'[b], row[b])
  BY UpdateFollows DEF SafeInv
<1>6. Mild
  <2> SUFFICES ASSUME NEW b \in Attempts
               PROVE  /\ Started(row'[b]) /\ ~Started(row[b]) => job[b].state # "absent"
                      /\ Terminal(row'[b]) /\ ~Terminal(row[b]) => Honest(b)'
      BY <1>3, <1>5 DEF Mild, Claimed
  <2>1. CASE row'[b] = row[b]
    BY <2>1
  <2>2. CASE b = a /\ row'[a] = new
    BY <1>2, <1>3, <2>2 DEF Honest, Terminal
  <2> QED BY <1>1, <1>4, <2>1, <2>2
<1>7. \/ Stop(c)
      \/ /\ pc # "idle" /\ cmd' = [cmd EXCEPT ![c] = next]
         /\ (new = SeenRow(c) /\ row' = row) \/ row' = [row EXCEPT ![a] = new]
  BY DEF Update, Stop
<1>8. CASE /\ pc # "idle" /\ cmd' = [cmd EXCEPT ![c] = next]
           /\ (new = SeenRow(c) /\ row' = row) \/ row' = [row EXCEPT ![a] = new]
  <2>1. Follows(row'[a], new)
    <3>1. CASE row' = [row EXCEPT ![a] = new]
      BY <1>1, <3>1 DEF Follows
    <3>2. CASE new = SeenRow(c) /\ row' = row
      BY <1>1, <3>2 DEF SeenBefore, SeenRow, Att
    <3> QED BY <1>8, <3>1, <3>2
  <2>2. next.seen = [cmd[c].seen EXCEPT ![a] = new]
    BY <1>1 DEF Command
  <2>3. cmd[c].seen \in [Attempts -> Row]
    BY <1>1 DEF Command
  <2>4. SeenBefore(cmd[c])
    BY <1>1
  <2>5. ASSUME NEW b \in Attempts PROVE Follows(row'[b], next.seen[b])
    <3>1. CASE b = a
      BY <1>1, <2>1, <2>2, <2>3, <3>1
    <3>2. CASE b # a
      <4>1. Follows(row'[b], row[b]) /\ Follows(row[b], cmd[c].seen[b])
        BY <1>5, <2>4 DEF SeenBefore
      <4>2. Follows(row'[b], cmd[c].seen[b])
        BY <4>1, FollowsChain
      <4> QED BY <2>2, <2>3, <3>2, <4>2
    <3> QED BY <3>1, <3>2
  <2>6. PICK r : r = next
    OBVIOUS
  <2>10. /\ r.pc = pc /\ r.att = Att(c) /\ r.op = cmd[c].op /\ r.won = cmd[c].won
        /\ r.todo = cmd[c].todo /\ r.outcome = cmd[c].outcome
    BY <1>1, <2>6 DEF Command, Att
  <2> HIDE DEF next
  <2>8. SeenBefore(r)'
    BY <2>5, <2>6 DEF SeenBefore, Follows, Terminal
  <2>7. Started(row'[a]) /\ (state \in JobTerminal => Terminal(row'[a]))
    BY <1>2, <2>1 DEF Follows, Started, Terminal, Pending, JobTerminal
  <2>9. pc # "idle" /\ cmd' = [cmd EXCEPT ![c] = r]
    BY <1>8, <2>6
  <2> QED BY <1>3, <1>6, <2>7, <2>8, <2>9, <2>10 DEF Updated
<1> QED BY <1>3, <1>6, <1>7, <1>8 DEF Updated

\* What is known of a command that acts on an Attempt.
LEMMA Knows ==
  ASSUME SafeInv, NEW c \in Commands
  PROVE  /\ cmd[c] \in Command /\ AimOf(cmd[c]) /\ Local(cmd[c])
         /\ cmd[c].pc \in Aimed => /\ Att(c) \in Attempts /\ Global(Att(c))
                                   /\ Follows(row[Att(c)], SeenRow(c))
                                   /\ evidence[Att(c)] \in JobTerminal \cup {"none"}
         /\ cmd[c].pc \in Evident => evidence[Att(c)] # "none"
<1>1. cmd[c] \in Command /\ AimOf(cmd[c]) /\ Local(cmd[c])
      /\ (cmd[c].pc \in Aimed => Att(c) \in Attempts)
      /\ (cmd[c].pc \in Evident => evidence[Att(c)] # "none")
  BY Own DEF SafeInv
<1>2. ASSUME cmd[c].pc \in Aimed
      PROVE  /\ Global(Att(c)) /\ Follows(row[Att(c)], SeenRow(c))
             /\ evidence[Att(c)] \in JobTerminal \cup {"none"}
  BY <1>1, <1>2 DEF SafeInv, Local, SeenBefore, SeenRow, Att, TypeInv, TryTypeOK
<1> QED BY <1>1, <1>2

LEMMA MarkerSafe ==
  ASSUME SafeInv, TypeInv', NEW c \in Commands,
         \/ ReadMarker(c) \/ Settle(c)
         \/ ResumeLatest(c) \/ ReconcileUnknown(c) \/ ReconcileFenced(c)
  PROVE  SafeInv'
<1>1. cmd[c] \in Command /\ AimOf(cmd[c]) /\ Local(cmd[c])
  BY Knows
<1>2. CASE ReadMarker(c)
  <2>1. PICK a \in First(cmd[c].todo) :
          Note(c, IF evidence[a] = "none" THEN [cmd[c] EXCEPT !.todo = @ \ {a}]
                  ELSE IF ~Agrees(a) \/ ~Inspectable(a) THEN Idle
                  ELSE [cmd[c] EXCEPT !.pc = "settle", !.att = a, !.won = TRUE,
                                      !.todo = @ \ {a}, !.outcome = Disposition(a)])
    BY <1>2 DEF ReadMarker
  <2>2. a \in Attempts /\ cmd[c].pc = "markers"
    <3>1. a \in cmd[c].todo /\ cmd[c].todo \subseteq Attempts
      BY <1>1, FirstIn DEF Command
    <3> QED BY <1>2, <3>1 DEF ReadMarker, On
  <2>3. CASE evidence[a] = "none"
    <3> DEFINE r == [cmd[c] EXCEPT !.todo = @ \ {a}]
    <3>1. /\ r.pc = "markers" /\ r.att = cmd[c].att /\ r.op = cmd[c].op /\ r.seen = cmd[c].seen
          /\ r.won = cmd[c].won /\ r.todo = cmd[c].todo \ {a}
      BY <1>1, <2>2 DEF Command
    <3>2. Note(c, r)
      BY <2>1, <2>3
    <3> HIDE DEF r
    <3>3. Fresh(a)
      BY <2>3 DEF Fresh
    <3>4. Read(r)
      BY <1>1, <2>2, <3>1, <3>3 DEF Local, Read
    <3>5. Local(r) /\ r.pc \notin Beating
      BY <1>1, <3>1, <3>4 DEF Local, SeenBefore, HasJob, Runs, Gives, Beating, Locked
    <3> QED BY <3>2, <3>5, NoteSafe
  <2>4. CASE evidence[a] # "none"
    <3> DEFINE r == [cmd[c] EXCEPT !.pc = "settle", !.att = a, !.won = TRUE,
                                   !.todo = @ \ {a}, !.outcome = Disposition(a)]
    <3>1. /\ r.pc = "settle" /\ r.att = a /\ r.op = cmd[c].op /\ r.seen = cmd[c].seen
          /\ r.won = TRUE /\ r.todo = cmd[c].todo \ {a} /\ r.outcome = Disposition(a)
      BY <1>1 DEF Command
    <3>2. Note(c, r) \/ Note(c, Idle)
      BY <2>1, <2>4
    <3> HIDE DEF r
    <3>3. Read(r)
      BY <1>1, <2>2, <2>4, <3>1 DEF Local, Read, Disposition
    <3>4. Local(r) /\ r.pc \notin Beating
      BY <1>1, <3>1, <3>3 DEF Local, SeenBefore, HasJob, Runs, Gives, Beating, Locked
    <3> QED BY <3>2, <3>4, NoteSafe, NoteIdleSafe
  <2> QED BY <2>3, <2>4
<1>3. CASE Settle(c)
  <2>1. cmd[c].pc = "settle" /\ cmd[c].pc \in Aimed
    BY <1>3 DEF Settle, On, Aimed, Pc
  <2>2. /\ cmd[c].outcome \in JobTerminal /\ evidence[Att(c)] # "none"
        /\ cmd[c].outcome \in {evidence[Att(c)], "failed"} /\ cmd[c].won
        /\ Started(row[Att(c)]) /\ "markers" \in Pc
    BY <1>1, <2>1, Knows DEF AimOf, Command, Local, Read, Att, Global, Pc
  <2>3. PICK state \in JobTerminal : state = cmd[c].outcome
    BY <2>2
  <2>4. Mild /\ UNCHANGED <<job, evidence, invoked>> /\ Updated(c, state, "markers")
    <3>1. Update(c, state, "direct", "markers")
      BY <1>3, <2>3 DEF Settle
    <3>2. /\ Started(row[Att(c)]) \/ job[Att(c)].state # "absent"
          /\ evidence[Att(c)] # "none" /\ state \in {evidence[Att(c)], "failed"}
          /\ state \in (Pending \ {"planned"}) \cup JobTerminal
      BY <2>2, <2>3
    <3> QED BY <2>1, <2>2, <3>1, <3>2, UpdateMild
  <2>5. CASE Stop(c)
    BY <2>4, <2>5, StopMild DEF Untouched
  <2>6. CASE ~Stop(c)
    <3>1. PICK r : /\ cmd' = [cmd EXCEPT ![c] = r]
                   /\ SeenBefore(r)' /\ Terminal(row'[Att(c)])
                   /\ r.pc = "markers" /\ r.won = cmd[c].won /\ r.op = cmd[c].op
                   /\ r.todo = cmd[c].todo
      BY <2>4, <2>6 DEF Updated
    <3>2. r.won
      BY <2>2, <3>1
    <3>3. \A a \in Attempts : (Terminal(row[a]) => Terminal(row'[a])) /\ (Fresh(a) => Fresh(a)')
      BY <2>4 DEF Mild, Follows, Terminal, Fresh
    <3>4. Read(cmd[c])
      BY <1>1 DEF Local
    <3>5. r.op = "resume" => \A a \in Attempts \ r.todo : ~Terminal(row'[a]) => Fresh(a)'
      BY <2>1, <3>1, <3>2, <3>3, <3>4 DEF Read, Att
    <3>6. Read(r)'
      BY <3>1, <3>2, <3>5 DEF Read, Terminal
    <3>7. Local(r)' /\ r.pc \notin Beating
      BY <3>1, <3>6 DEF Local, HasJob, Runs, Gives, Beating, Locked
    <3> QED BY <2>4, <3>1, <3>7, StepSafe DEF Untouched
  <2> QED BY <2>5, <2>6
<1>4. CASE ResumeLatest(c)
  <2> DEFINE rows == IF cmd[c].won THEN row ELSE cmd[c].seen
  <2>1. PICK last \in Latest(rows) :
          Note(c, IF Terminal(rows[last]) THEN Idle
                  ELSE [Idle EXCEPT !.pc = "execute", !.att = last])
    BY <1>4 DEF ResumeLatest
  <2>2. last \in Attempts /\ rows[last].state # "absent"
    BY DEF Latest, Existing
  <2>3. row[last].state # "absent"
    BY <1>1, <2>2 DEF Local, SeenBefore, Follows
  <2>4. ~Terminal(row[last]) => Fresh(last)
    BY <1>1, <1>4, <2>2 DEF ResumeLatest, On, Local, Read
  <2> HIDE DEF rows
  <2>5. CASE Terminal(rows[last])
    BY <2>1, <2>5, NoteIdleSafe
  <2>6. CASE ~Terminal(rows[last])
    <3> DEFINE r == [Idle EXCEPT !.pc = "execute", !.att = last]
    <3>1. r.pc = "execute" /\ r.att = last /\ r.seen = Idle.seen
      BY IdleTypes DEF Command
    <3>2. Note(c, r)
      BY <2>1, <2>6
    <3> HIDE DEF r
    <3>3. SeenBefore(r)
      BY <3>1, LocalIdle DEF SafeInv, Local, SeenBefore
    <3>4. Local(r) /\ r.pc \notin Beating
      BY <2>3, <2>4, <3>1, <3>3 DEF Local, HasJob, Runs, Read, Gives, Beating, Locked
    <3> QED BY <3>2, <3>4, NoteSafe
  <2> QED BY <2>5, <2>6
<1>5. CASE ReconcileUnknown(c) \/ ReconcileFenced(c)
  <2> DEFINE Go(p) == [cmd[c] EXCEPT !.pc = p]
  <2>1. PICK p \in {"ask", "giveup"} :
          \/ Note(c, Idle)
          \/ /\ Note(c, Go(p)) /\ ~cmd[c].won
             /\ p = "ask" => SeenRow(c).state = "unknown" /\ cmd[c].op = "reconcile"
             /\ p = "giveup" => cmd[c].op = "fenced" /\ job[Att(c)].state \in {"cancelled", "unknown"}
    BY <1>5 DEF ReconcileUnknown, ReconcileFenced
  <2>2. cmd[c].pc = "markers" /\ cmd[c].todo = {}
    BY <1>5 DEF ReconcileUnknown, ReconcileFenced, On
  <2>3. CASE Note(c, Idle)
    BY <2>3, NoteIdleSafe
  <2>4. CASE ~Note(c, Idle)
    <3>1. SeenRow(c).state = "unknown" /\ Fresh(Att(c))
      BY <1>1, <2>1, <2>2, <2>4 DEF Local, Read, SeenRow, Att
    <3>2. Go(p).pc = p /\ Go(p).att = Att(c) /\ Go(p).seen = cmd[c].seen
      BY <1>1 DEF Command, Att
    <3>3. Note(c, Go(p)) /\ (p = "giveup" => job[Att(c)].state \in {"cancelled", "unknown"})
      BY <2>1, <2>4
    <3> HIDE DEF Go
    <3>4. Local(Go(p)) /\ Go(p).pc \notin Beating
      BY <1>1, <3>1, <3>2, <3>3 DEF Local, SeenBefore, HasJob, Runs, Read, Gives, SeenRow, Att,
         Beating, Locked
    <3> QED BY <3>3, <3>4, NoteSafe
  <2> QED BY <2>3, <2>4
<1> QED BY <1>2, <1>3, <1>4, <1>5

\* An update after which the command stops.
LEMMA UpdateLastSafe ==
  ASSUME SafeInv, TypeInv', Mild, UNCHANGED <<job, evidence, invoked>>,
         NEW c \in Commands, NEW state, Updated(c, state, "idle")
  PROVE  SafeInv'
  BY StopMild DEF Updated, Untouched

\* A step of command c to p that keeps what it knows of its row, its job and
\* the markers.
LEMMA GoSafe ==
  ASSUME SafeInv, TypeInv', Mild, NEW c \in Commands, cmd[c].pc \in Aimed, NEW p \in Pc,
         cmd' = [cmd EXCEPT ![c] = [cmd[c] EXCEPT !.pc = p]],
         p \notin {"execute", "lookup", "prepare", "enqueue", "markers", "settle", "ask", "cancel",
                   "giveup", "finish"},
         p \in {"queue", "recover", "doubt", "repair", "start", "claim", "import"} \cup Beating =>
            job'[Att(c)].state # "absent",
         p \in {"queue", "recover", "start", "claim", "mark"} => row'[Att(c)].state # "absent",
         p \in Beating => /\ job'[Att(c)].state \notin {"absent", "queued"}
                          /\ cmd[c].pc \in Beating \/ ~Claimed(Att(c)),
         p \in {"lock"} \cup Locked => Started(row'[Att(c)]),
         p \in {"mark", "lock", "check"} => invoked'[Att(c)] = 0,
         p \in {"mark", "lock", "check", "working", "publish"} => evidence'[Att(c)] = "none",
         \A a \in Attempts : \/ Untouched(a)
                             \/ cmd[c].pc \in Locked /\ Att(c) = a /\ invoked'[a] <= 1
  PROVE  SafeInv'
<1>1. cmd[c] \in Command /\ Local(cmd[c]) /\ Att(c) \in Attempts
  BY Knows
<1>2. PICK r : r = [cmd[c] EXCEPT !.pc = p]
  OBVIOUS
<1>3. r.pc = p /\ r.att = Att(c) /\ r.seen = cmd[c].seen
  BY <1>1, <1>2 DEF Command, Att
<1>4. cmd' = [cmd EXCEPT ![c] = r]
  BY <1>2
<1>5. SeenBefore(r)'
  <2>1. SeenBefore(r)
    BY <1>1, <1>3 DEF Local, SeenBefore
  <2> QED BY <2>1, SeenStays
<1>6. HasJob(r)'
  BY <1>3 DEF HasJob, Beating, Locked, Claimed
<1>7. Runs(r)'
  BY <1>3 DEF Runs, Locked, Started
<1>8. Read(r)' /\ Gives(r)'
  BY <1>3 DEF Read, Gives
<1>9. Local(r)'
  BY <1>5, <1>6, <1>7, <1>8 DEF Local
<1> QED BY <1>1, <1>3, <1>4, <1>9, StepSafe

LEMMA PreludeSafe ==
  ASSUME SafeInv, TypeInv', NEW c \in Commands,
         Execute(c) \/ Lookup(c) \/ PrepareManaged(c) \/ Enqueue(c) \/ Queue(c)
  PROVE  SafeInv'
<1>1. cmd[c].pc \in Aimed
  BY DEF Execute, Lookup, PrepareManaged, Enqueue, Queue, On, Aimed, Pc
<1>2. /\ cmd[c] \in Command /\ Local(cmd[c]) /\ Att(c) \in Attempts /\ Global(Att(c))
      /\ Follows(row[Att(c)], SeenRow(c))
  BY <1>1, Knows
<1>3. CASE Execute(c)
  <2> DEFINE seen == Keep(row, {Att(c)})
             r == [cmd[c] EXCEPT !.pc = "lookup", !.seen = seen]
  <2>1. \A a \in Attempts : seen[a] = IF a = Att(c) THEN row[a] ELSE NoRow
    BY DEF Keep
  <2>2. Note(c, Idle) \/ (~Terminal(row[Att(c)]) /\ Note(c, r))
    BY <1>3 DEF Execute
  <2> HIDE DEF seen
  <2>3. r.pc = "lookup" /\ r.att = Att(c) /\ r.seen = seen
    BY <1>2 DEF Command, Att
  <2> HIDE DEF r
  <2>4. CASE Note(c, Idle)
    BY <2>4, NoteIdleSafe
  <2>5. CASE ~Terminal(row[Att(c)]) /\ Note(c, r)
    <3>1. Fresh(Att(c)) /\ row[Att(c)].state # "absent"
      BY <1>2, <1>3, <2>5 DEF Execute, On, Local, HasJob, Att
    <3>2. SeenBefore(r)
      BY <2>1, <2>3 DEF SeenBefore, Follows, NoRow, Terminal, JobTerminal
    <3>3. HasJob(r)
      BY <1>2, <2>1, <2>3, <3>1 DEF HasJob, Started, Beating, Locked
    <3>4. Local(r) /\ r.pc \notin Beating
      BY <2>3, <3>2, <3>3 DEF Local, Runs, Read, Gives, Beating, Locked
    <3> QED BY <2>5, <3>4, NoteSafe
  <2> QED BY <2>2, <2>4, <2>5
<1>4. CASE Lookup(c)
  <2> DEFINE r == [cmd[c] EXCEPT !.pc = "prepare", !.fresh = job[Att(c)].state = "absent"]
  <2>1. Note(c, Idle) \/ Note(c, r)
    BY <1>4 DEF Lookup
  <2>2. /\ r.pc = "prepare" /\ r.att = Att(c) /\ r.seen = cmd[c].seen
        /\ r.fresh = (job[Att(c)].state = "absent") /\ cmd[c].pc = "lookup"
    BY <1>2, <1>4 DEF Command, Att, Lookup, On
  <2> HIDE DEF r
  <2>3. HasJob(r)
    BY <1>2, <2>2 DEF Local, HasJob, Att, Beating, Locked
  <2>4. Local(r) /\ r.pc \notin Beating
    BY <1>2, <2>2, <2>3 DEF Local, SeenBefore, Runs, Read, Gives, Beating, Locked
  <2> QED BY <2>1, <2>4, NoteSafe, NoteIdleSafe
<1>5. CASE PrepareManaged(c)
  <2>1. UNCHANGED <<job, row, evidence, invoked>> /\ (Stop(c) \/ To(c, "enqueue"))
    BY <1>5 DEF PrepareManaged, keepStore, keepRecords, keepRun, storeVars
  <2> DEFINE r == [cmd[c] EXCEPT !.pc = "enqueue"]
  <2>2. /\ r.pc = "enqueue" /\ r.att = Att(c) /\ r.seen = cmd[c].seen /\ r.fresh = cmd[c].fresh
        /\ cmd[c].pc = "prepare"
    BY <1>2, <1>5 DEF Command, Att, PrepareManaged, On
  <2>3. Stop(c) \/ cmd' = [cmd EXCEPT ![c] = r]
    BY <2>1 DEF To
  <2> HIDE DEF r
  <2>4. HasJob(r)
    BY <1>2, <2>2 DEF Local, HasJob, Att, Beating, Locked
  <2>5. Local(r) /\ r.pc \notin Beating
    BY <1>2, <2>2, <2>4 DEF Local, SeenBefore, Runs, Read, Gives, Beating, Locked
  <2> QED BY <2>1, <2>3, <2>5, QuietSafe, StopSafe
<1>6. CASE Enqueue(c)
  <2>1. UNCHANGED <<row, evidence, invoked>>
    BY <1>6 DEF Enqueue, keepRecords, keepFiles, keepRun, fileVars
  <2>2. /\ cmd[c].pc = "enqueue" /\ Fresh(Att(c)) /\ row[Att(c)].state # "absent"
        /\ ~cmd[c].fresh => job[Att(c)].state # "absent"
        /\ SeenRow(c).state = "planned" /\ Started(row[Att(c)]) => job[Att(c)].state # "absent"
    BY <1>2, <1>6 DEF Enqueue, On, Local, HasJob, Att, SeenRow
  <2>3. CASE keepStore /\ Stop(c)
    BY <2>1, <2>3, StopSafe DEF keepStore, storeVars
  <2>4. CASE ~(keepStore /\ Stop(c))
    <3>1. /\ IF job[Att(c)].state = "absent" THEN EnqueueJob(Att(c)) ELSE keepStore
          /\ To(c, "queue") \/ To(c, "recover")
          /\ ~(cmd[c].fresh /\ SeenRow(c).state # "planned" /\ evidence[Att(c)] = "none")
      BY <1>6, <2>4 DEF Enqueue
    <3>2. Att(c) \in Jobs /\ job \in [Jobs -> JobRow]
      BY <1>2, AttemptsAreJobs DEF SafeInv, TypeInv, TryTypeOK
    <3>3. /\ job'[Att(c)].state # "absent"
          /\ job[Att(c)].state # "absent" => job' = job
          /\ \A a \in Attempts \ {Att(c)} : job'[a] = job[a]
          /\ job[Att(c)].state = "absent" => ~Started(row[Att(c)])
      BY <2>2, <3>1, <3>2, AttemptsAreJobs DEF EnqueueJob, keepStore, storeVars, Fresh, JobRow
    <3>4. Mild
      BY <2>1, <3>3 DEF Mild, Follows, Claimed
    <3>5. PICK p \in {"queue", "recover"} : cmd' = [cmd EXCEPT ![c] = [cmd[c] EXCEPT !.pc = p]]
      BY <3>1 DEF To
    <3>6. p \in Pc /\ p \notin Beating
      BY DEF Pc, Beating, Locked
    <3> QED BY <1>1, <2>1, <2>2, <3>3, <3>4, <3>5, <3>6, GoSafe DEF Untouched, Beating
  <2> QED BY <2>3, <2>4
<1>7. CASE Queue(c)
  <2>1. cmd[c].pc = "queue" /\ job[Att(c)].state # "absent" /\ row[Att(c)].state # "absent"
    BY <1>2, <1>7 DEF Queue, On, Local, HasJob, Att
  <2>2. Mild /\ UNCHANGED <<job, evidence, invoked>> /\ Updated(c, "queued", "recover")
    <3>1. Update(c, "queued", "none", "recover") /\ "recover" \in Pc
      BY <1>7 DEF Queue, Pc
    <3> QED BY <1>1, <2>1, <3>1, UpdateMild DEF Pending, JobTerminal
  <2>3. CASE Stop(c)
    BY <2>2, <2>3, StopMild DEF Untouched
  <2>4. CASE ~Stop(c)
    <3>1. PICK r : /\ cmd' = [cmd EXCEPT ![c] = r] /\ SeenBefore(r)' /\ Started(row'[Att(c)])
                   /\ r.pc = "recover" /\ r.att = Att(c)
      BY <2>2, <2>4 DEF Updated
    <3>2. HasJob(r)'
      BY <2>1, <2>2, <3>1 DEF HasJob, Started, Beating, Locked
    <3>3. Local(r)' /\ r.pc \notin Beating
      BY <3>1, <3>2 DEF Local, Runs, Read, Gives, Beating, Locked
    <3> QED BY <2>2, <3>1, <3>3, StepSafe DEF Untouched
  <2> QED BY <2>3, <2>4
<1> QED BY <1>3, <1>4, <1>5, <1>6, <1>7

LEMMA ClaimSafe ==
  ASSUME SafeInv, TypeInv', NEW c \in Commands,
         \/ ClaimOrRecover(c) \/ Doubt(c) \/ Repair(c) \/ Start(c) \/ Claim(c) \/ Mark(c)
  PROVE  SafeInv'
<1>1. cmd[c].pc \in Aimed
  BY DEF ClaimOrRecover, Doubt, Repair, Start, Claim, Mark, On, Aimed, Pc, Beating
<1>2. /\ cmd[c] \in Command /\ Local(cmd[c]) /\ Att(c) \in Attempts /\ Global(Att(c))
      /\ Follows(row[Att(c)], SeenRow(c)) /\ evidence[Att(c)] \in JobTerminal \cup {"none"}
  BY <1>1, Knows
<1>3. Att(c) \in Jobs /\ job \in [Jobs -> JobRow]
  BY <1>2, AttemptsAreJobs DEF SafeInv, TypeInv, TryTypeOK
<1>4. /\ job[Att(c)].state # "absent"
      /\ cmd[c].pc \in {"recover", "start", "claim", "mark"} => row[Att(c)].state # "absent"
      /\ cmd[c].pc = "mark" => Claimed(Att(c))
      /\ cmd[c].pc \in {"mark", "lock", "check"} => invoked[Att(c)] = 0 /\ evidence[Att(c)] = "none"
  BY <1>2 DEF ClaimOrRecover, Doubt, Repair, Start, Claim, Mark, On, Local, HasJob, Runs, Att, Beating
<1>5. {"doubt", "repair", "import", "start", "claim", "mark", "idle", "lock"} \subseteq Pc
  BY DEF Pc, Beating
<1>6. CASE ClaimOrRecover(c)
  <2>1. PICK p \in {"idle", "doubt", "repair", "import", "start", "claim"} :
          Note(c, IF p = "idle" THEN Idle ELSE [cmd[c] EXCEPT !.pc = p])
    BY <1>6 DEF ClaimOrRecover
  <2>2. CASE p = "idle"
    BY <2>1, <2>2, NoteIdleSafe
  <2>3. CASE p # "idle"
    <3>1. /\ cmd' = [cmd EXCEPT ![c] = [cmd[c] EXCEPT !.pc = p]]
          /\ UNCHANGED <<job, row, evidence, invoked>>
      BY <2>1, <2>3 DEF Note, keepStore, keepRecords, keepFiles, keepRun, storeVars, fileVars
    <3>2. Mild
      BY <3>1 DEF Mild, Follows, Claimed
    <3>3. cmd[c].pc = "recover" /\ p \in Pc /\ p \notin Beating
      BY <1>5, <1>6 DEF ClaimOrRecover, On, Beating, Locked
    <3> QED BY <1>1, <1>4, <2>3, <3>1, <3>2, <3>3, GoSafe DEF Untouched, Beating
  <2> QED BY <2>2, <2>3
<1>7. CASE Doubt(c)
  <2>1. Update(c, "unknown", "none", "idle")
    BY <1>7 DEF Doubt
  <2>2. Mild /\ UNCHANGED <<job, evidence, invoked>> /\ Updated(c, "unknown", "idle")
    BY <1>1, <1>4, <1>5, <2>1, UpdateMild DEF Pending, JobTerminal
  <2> QED BY <2>2, UpdateLastSafe
<1>8. CASE Repair(c)
  <2>1. /\ FinishJob(Att(c), 1, evidence[Att(c)]) \/ keepStore
        /\ UNCHANGED <<row, evidence, invoked>>
        /\ cmd' = [cmd EXCEPT ![c] = [cmd[c] EXCEPT !.pc = "import"]]
    BY <1>8 DEF Repair, To, keepRecords, keepFiles, keepRun, fileVars
  <2>2. evidence[Att(c)] \in JobTerminal
    BY <1>2, <1>8, Knows DEF Repair, On, Evident
  <2>3. /\ job'[Att(c)].state # "absent"
        /\ job' = job \/ (job[Att(c)].state = "running" /\ job'[Att(c)].state \in JobTerminal)
        /\ \A a \in Attempts \ {Att(c)} : job'[a] = job[a]
    BY <1>3, <1>4, <2>1, <2>2, AttemptsAreJobs DEF FinishJob, keepStore, storeVars, JobRow, JobTerminal
  <2>4. Mild
    BY <2>1, <2>3 DEF Mild, Follows, Claimed, JobTerminal
  <2> QED BY <1>1, <1>5, <2>1, <2>3, <2>4, GoSafe DEF Untouched, Beating, Locked
<1>9. CASE Start(c) \/ Mark(c)
  <2>1. PICK state \in {"starting", "running"}, pc \in {"claim", "lock"} :
          /\ Update(c, state, "none", pc)
          /\ cmd[c].pc \in {"start", "mark"}
          /\ pc = "lock" => cmd[c].pc = "mark"
    BY <1>9 DEF Start, Mark, On
  <2>2. Mild /\ UNCHANGED <<job, evidence, invoked>> /\ Updated(c, state, pc)
    BY <1>1, <1>4, <1>5, <2>1, UpdateMild DEF Pending, JobTerminal
  <2>3. CASE Stop(c)
    BY <2>2, <2>3, StopMild DEF Untouched
  <2>4. CASE ~Stop(c)
    <3>1. PICK r : /\ cmd' = [cmd EXCEPT ![c] = r] /\ SeenBefore(r)' /\ Started(row'[Att(c)])
                   /\ r.pc = pc /\ r.att = Att(c)
      BY <2>2, <2>4 DEF Updated
    <3>2. HasJob(r)'
      BY <1>4, <2>1, <2>2, <3>1 DEF HasJob, Started, Claimed, Beating, Locked
    <3>3. Runs(r)'
      BY <1>4, <2>1, <2>2, <3>1 DEF Runs, Started, Locked
    <3>4. Local(r)'
      BY <3>1, <3>2, <3>3 DEF Local, Read, Gives
    <3>5. r.pc \in Beating => cmd[c].pc \in Beating
      BY <2>1, <3>1 DEF Beating, Locked
    <3> QED BY <2>2, <3>1, <3>4, <3>5, StepSafe DEF Untouched
  <2> QED BY <2>3, <2>4
<1>10. CASE Claim(c)
  <2>1. CASE job[Att(c)].state = "queued"
    <3>1. /\ ClaimJobByID(Att(c)) /\ UNCHANGED <<row, evidence, invoked>>
          /\ cmd' = [cmd EXCEPT ![c] = [cmd[c] EXCEPT !.pc = "mark"]]
      BY <1>10, <2>1 DEF Claim, To, keepRecords, keepFiles, fileVars
    <3>2. job'[Att(c)].state = "running" /\ \A a \in Attempts \ {Att(c)} : job'[a] = job[a]
      BY <1>3, <3>1, AttemptsAreJobs DEF ClaimJobByID, JobRow
    <3>3. Mild
      BY <2>1, <3>1, <3>2 DEF Mild, Follows, Claimed
    <3>4. invoked[Att(c)] = 0 /\ evidence[Att(c)] = "none" /\ row[Att(c)].state # "absent"
      BY <1>2, <1>4, <1>10, <2>1 DEF Global, Claim, On
    <3> QED BY <1>1, <1>5, <2>1, <3>1, <3>2, <3>3, <3>4, GoSafe DEF Untouched, Claimed, Locked
  <2>2. CASE job[Att(c)].state # "queued"
    BY <1>10, <2>2, StopSafe DEF Claim, keepStore, keepRecords, keepFiles, storeVars, fileVars
  <2> QED BY <2>1, <2>2
<1> QED BY <1>6, <1>7, <1>8, <1>9, <1>10

LEMMA RunSafe ==
  ASSUME SafeInv, TypeInv', NEW c \in Commands,
         \/ Lock(c) \/ Check(c) \/ WriteTerminal(c) \/ Finish(c) \/ ImportTerminal(c)
         \/ \E outcome \in {"succeeded", "cancelled"} : Work(c, outcome)
  PROVE  SafeInv'
<1>1. cmd[c].pc \in Aimed
  BY DEF Lock, Check, WriteTerminal, Finish, ImportTerminal, Work, On, Aimed, Pc, Beating, Locked
<1>2. /\ cmd[c] \in Command /\ AimOf(cmd[c]) /\ Local(cmd[c]) /\ Att(c) \in Attempts
      /\ Global(Att(c)) /\ evidence[Att(c)] \in JobTerminal \cup {"none"}
  BY <1>1, Knows
<1>3. Att(c) \in Jobs /\ job \in [Jobs -> JobRow] /\ evidence \in [Attempts -> JobTerminal \cup {"none"}]
      /\ invoked \in [Attempts -> Nat]
  BY <1>2, AttemptsAreJobs DEF SafeInv, TypeInv, TryTypeOK
<1>4. /\ job[Att(c)].state # "absent"
      /\ cmd[c].pc \in Beating => Claimed(Att(c))
      /\ cmd[c].pc \in {"lock"} \cup Locked => Started(row[Att(c)])
      /\ cmd[c].pc \in {"mark", "lock", "check"} => invoked[Att(c)] = 0
      /\ cmd[c].pc \in {"mark", "lock", "check", "working", "publish"} => evidence[Att(c)] = "none"
      /\ cmd[c].pc = "finish" => evidence[Att(c)] = cmd[c].outcome
  BY <1>2 DEF Lock, Check, WriteTerminal, Finish, ImportTerminal, Work, On, Local, HasJob, Runs,
     Att, Beating, Locked
<1>5. {"check", "working", "import"} \subseteq Pc /\ {"lock"} \cup Locked \subseteq Beating
  BY DEF Pc, Beating, Locked
<1>6. CASE Lock(c)
  <2>1. /\ UNCHANGED <<job, row, evidence, invoked>> /\ cmd[c].pc = "lock"
        /\ cmd' = [cmd EXCEPT ![c] = [cmd[c] EXCEPT !.pc = "check"]]
    BY <1>6 DEF Lock, On, To, keepStore, keepRecords, keepFiles, storeVars, fileVars
  <2>2. Mild
    BY <2>1 DEF Mild, Follows, Claimed
  <2> QED BY <1>1, <1>4, <1>5, <2>1, <2>2, GoSafe DEF Untouched, Claimed
\* Leaving for the marker without a marker yet.
<1>7. ASSUME UNCHANGED <<job, row, evidence>>, cmd[c].pc \in {"check", "working"}, NEW outcome,
             invoked' = invoked,
             cmd' = [cmd EXCEPT ![c] = [cmd[c] EXCEPT !.pc = "publish", !.outcome = outcome]]
      PROVE  SafeInv'
  <2> DEFINE r == [cmd[c] EXCEPT !.pc = "publish", !.outcome = outcome]
  <2>1. r.pc = "publish" /\ r.att = Att(c) /\ r.seen = cmd[c].seen
    BY <1>2 DEF Command, Att
  <2>2. cmd' = [cmd EXCEPT ![c] = r] /\ r.pc \in Beating /\ cmd[c].pc \in Beating
    BY <1>7, <2>1 DEF Beating, Locked
  <2> HIDE DEF r
  <2>3. Local(r)
    BY <1>2, <1>4, <1>7, <2>1, <2>2 DEF Local, SeenBefore, HasJob, Runs, Read, Gives, Beating, Locked
  <2> QED BY <1>7, <2>1, <2>2, <2>3, QuietSafe
<1>8. CASE Check(c)
  <2>1. evidence[Att(c)] = "none" /\ cmd[c].pc = "check" /\ UNCHANGED <<job, row, evidence>>
    BY <1>4, <1>8 DEF Check, On, keepStore, keepRecords, keepFiles, storeVars, fileVars
  <2>2. CASE tree[Att(c)] # "ready"
    BY <1>7, <1>8, <2>1, <2>2 DEF Check
  <2>3. CASE tree[Att(c)] = "ready"
    <3>1. /\ cmd' = [cmd EXCEPT ![c] = [cmd[c] EXCEPT !.pc = "working"]]
          /\ invoked' = [invoked EXCEPT ![Att(c)] = @ + 1]
      BY <1>8, <2>1, <2>3 DEF Check, To
    <3>2. /\ invoked[Att(c)] = 0 /\ invoked'[Att(c)] = 1
          /\ \A a \in Attempts \ {Att(c)} : invoked'[a] = invoked[a]
      BY <1>2, <1>3, <1>4, <2>1, <3>1
    <3>3. Mild
      BY <2>1 DEF Mild, Follows, Claimed
    <3>4. \A a \in Attempts : \/ Untouched(a)
                              \/ cmd[c].pc \in Locked /\ Att(c) = a /\ invoked'[a] <= 1
      BY <2>1, <3>2 DEF Untouched, Locked
    <3>5. cmd[c].pc \in Locked /\ "working" \notin {"mark", "lock", "check"}
      BY <2>1 DEF Locked
    <3> QED BY <1>1, <1>4, <1>5, <2>1, <3>1, <3>3, <3>4, <3>5, GoSafe DEF Claimed
  <2> QED BY <2>2, <2>3
<1>9. CASE \E outcome \in {"succeeded", "cancelled"} : Work(c, outcome)
  <2>1. PICK outcome : Work(c, outcome)
    BY <1>9
  <2>2. UNCHANGED <<job, row, evidence, invoked>> /\ cmd[c].pc = "working"
    BY <2>1 DEF Work, On, keepStore, keepRecords, keepRun, storeVars
  <2> QED BY <1>7, <2>1, <2>2 DEF Work
<1>10. CASE WriteTerminal(c)
  <2>1. /\ cmd[c].pc = "publish" /\ UNCHANGED <<job, row, invoked>>
        /\ evidence' = [evidence EXCEPT ![Att(c)] = cmd[c].outcome]
    BY <1>10 DEF WriteTerminal, On, keepStore, keepRecords, storeVars
  <2>2. /\ evidence[Att(c)] = "none" /\ evidence'[Att(c)] = cmd[c].outcome
        /\ \A a \in Attempts \ {Att(c)} : evidence'[a] = evidence[a]
    BY <1>2, <1>3, <1>4, <2>1
  <2>3. Mild
    BY <2>1, <2>2 DEF Mild, Follows, Claimed
  <2>4. \A a \in Attempts : \/ Untouched(a)
                            \/ cmd[c].pc \in Locked /\ Att(c) = a /\ invoked'[a] <= 1
    BY <1>2, <2>1, <2>2 DEF Untouched, Locked, Global
  <2>5. CASE Stop(c)
    BY <2>3, <2>4, <2>5, StopMild
  <2>6. CASE To(c, "finish")
    <3>1. PICK r : r = [cmd[c] EXCEPT !.pc = "finish"]
      OBVIOUS
    <3>2. r.pc = "finish" /\ r.att = Att(c) /\ r.seen = cmd[c].seen /\ r.outcome = cmd[c].outcome
      BY <1>2, <3>1 DEF Command, Att
    <3>3. cmd' = [cmd EXCEPT ![c] = r] /\ cmd[c].pc \in Beating
      BY <2>1, <2>6, <3>1 DEF To, Beating, Locked
    <3>4. SeenBefore(r)'
      <4>1. SeenBefore(r)
        BY <1>2, <3>2 DEF Local, SeenBefore
      <4> QED BY <2>3, <4>1, SeenStays
    <3>5. HasJob(r)' /\ Runs(r)'
      BY <1>4, <2>1, <2>2, <3>2, <3>3 DEF HasJob, Runs, Claimed, Started, Beating, Locked
    <3>6. Local(r)'
      BY <3>2, <3>4, <3>5 DEF Local, Read, Gives
    <3> QED BY <2>3, <2>4, <3>2, <3>3, <3>6, StepSafe
  <2> QED BY <1>10, <2>5, <2>6 DEF WriteTerminal
<1>11. CASE Finish(c)
  <2>1. /\ FinishJob(Att(c), 1, cmd[c].outcome) \/ keepStore
        /\ UNCHANGED <<row, evidence, invoked>>
        /\ Stop(c) \/ To(c, "import")
        /\ cmd[c].outcome \in JobTerminal
    BY <1>2, <1>11 DEF Finish, On, keepRecords, keepFiles, fileVars, AimOf, Command
  <2>2. /\ job'[Att(c)].state # "absent"
        /\ job' = job \/ (job[Att(c)].state = "running" /\ job'[Att(c)].state \in JobTerminal)
        /\ \A a \in Attempts \ {Att(c)} : job'[a] = job[a]
    BY <1>3, <1>4, <2>1, AttemptsAreJobs DEF FinishJob, keepStore, storeVars, JobRow, JobTerminal
  <2>3. Mild
    BY <2>1, <2>2 DEF Mild, Follows, Claimed, JobTerminal
  <2>4. CASE Stop(c)
    BY <2>1, <2>3, <2>4, StopMild DEF Untouched
  <2>5. CASE To(c, "import")
    BY <1>1, <1>5, <2>1, <2>2, <2>3, <2>5, GoSafe DEF To, Untouched, Beating, Locked
  <2> QED BY <2>1, <2>4, <2>5
<1>12. CASE ImportTerminal(c)
  <2>1. CASE Note(c, Idle)
    BY <2>1, NoteIdleSafe
  <2>2. CASE ~Note(c, Idle)
    <3>1. evidence[Att(c)] \in JobTerminal /\ evidence[Att(c)] # "none"
      BY <1>2, <1>12, Knows DEF ImportTerminal, On, Evident
    <3>2. PICK state \in JobTerminal : state = Disposition(Att(c))
      BY <3>1 DEF Disposition, JobTerminal
    <3>3. state \in {evidence[Att(c)], "failed"}
      BY <3>2 DEF Disposition
    <3>4. Update(c, state, "direct", "idle") /\ "idle" \in Pc
      BY <1>12, <2>2, <3>2 DEF ImportTerminal, Pc
    <3>5. Mild /\ UNCHANGED <<job, evidence, invoked>> /\ Updated(c, state, "idle")
      BY <1>1, <1>4, <3>1, <3>2, <3>3, <3>4, UpdateMild
    <3> QED BY <3>5, UpdateLastSafe
  <2> QED BY <2>1, <2>2
<1> QED BY <1>6, <1>8, <1>9, <1>10, <1>11, <1>12

LEMMA GiveSafe ==
  ASSUME SafeInv, TypeInv', NEW c \in Commands, Ask(c) \/ Cancel(c) \/ Relinquish(c)
  PROVE  SafeInv'
<1>1. /\ cmd[c] \in Command /\ Local(cmd[c]) /\ Att(c) \in Attempts
      /\ Follows(row[Att(c)], SeenRow(c)) /\ cmd[c].pc \in Aimed
  BY Knows DEF Ask, Cancel, Relinquish, On, Aimed, Pc
<1>2. SeenRow(c).state = "unknown" /\ Fresh(Att(c))
  BY <1>1 DEF Ask, Cancel, Relinquish, On, Local, Gives, SeenRow, Att
<1>3. CASE Ask(c)
  <2> DEFINE Go(p) == [cmd[c] EXCEPT !.pc = p]
  <2>1. PICK p \in {"cancel", "giveup"} :
          \/ Note(c, Idle)
          \/ /\ Note(c, Go(p))
             /\ p = "giveup" => job[Att(c)].state \in {"absent", "cancelled", "unknown"}
    BY <1>3 DEF Ask
  <2>2. Go(p).pc = p /\ Go(p).att = Att(c) /\ Go(p).seen = cmd[c].seen
    BY <1>1 DEF Command, Att
  <2> HIDE DEF Go
  <2>3. CASE Note(c, Idle)
    BY <2>3, NoteIdleSafe
  <2>4. CASE ~Note(c, Idle)
    <3>1. Local(Go(p)) /\ Go(p).pc \notin Beating
      BY <1>1, <1>2, <2>1, <2>2, <2>4 DEF Local, SeenBefore, HasJob, Runs, Read, Gives, SeenRow,
         Att, Beating, Locked
    <3> QED BY <2>1, <2>4, <3>1, NoteSafe
  <2> QED BY <2>3, <2>4
<1>4. CASE Cancel(c)
  <2>1. UNCHANGED <<row, evidence, invoked>>
    BY <1>4 DEF Cancel, keepRecords, keepFiles, keepRun, fileVars
  <2>2. CASE job[Att(c)].state = "running"
    <3>1. FinishJob(Att(c), 1, "cancelled") /\ To(c, "giveup")
      BY <1>4, <2>2 DEF Cancel
    <3>2. /\ job'[Att(c)].state = "cancelled"
          /\ \A a \in Attempts \ {Att(c)} : job'[a] = job[a]
      BY <1>1, <3>1, AttemptsAreJobs DEF FinishJob, SafeInv, TypeInv, TryTypeOK, JobRow
    <3>3. Mild
      BY <2>1, <2>2, <3>2 DEF Mild, Follows, Claimed
    <3>4. PICK r : r = [cmd[c] EXCEPT !.pc = "giveup"]
      OBVIOUS
    <3>5. r.pc = "giveup" /\ r.att = Att(c) /\ r.seen = cmd[c].seen
      BY <1>1, <3>4 DEF Command, Att
    <3>6. SeenBefore(r)
      BY <1>1, <3>5 DEF Local, SeenBefore
    <3>7. SeenBefore(r)'
      BY <3>3, <3>6, SeenStays
    <3>8. Gives(r)'
      BY <1>2, <3>2, <3>5 DEF Gives, Fresh, SeenRow
    <3>9. Local(r)' /\ r.pc \notin Beating
      BY <3>5, <3>7, <3>8 DEF Local, HasJob, Runs, Read, Beating, Locked
    <3>10. cmd' = [cmd EXCEPT ![c] = r]
      BY <3>1, <3>4 DEF To
    <3> QED BY <2>1, <3>3, <3>9, <3>10, StepSafe DEF Untouched
  <2>3. CASE job[Att(c)].state # "running"
    <3> DEFINE r == [cmd[c] EXCEPT !.pc = "markers", !.op = "fenced", !.todo = {Att(c)}]
    <3>1. UNCHANGED job /\ cmd' = [cmd EXCEPT ![c] = r]
      BY <1>4, <2>3 DEF Cancel, keepStore, storeVars
    <3>2. /\ r.pc = "markers" /\ r.op = "fenced" /\ r.todo = {Att(c)} /\ r.att = Att(c)
          /\ r.seen = cmd[c].seen
      BY <1>1 DEF Command, Att
    <3> HIDE DEF r
    <3>3. Read(r)
      BY <1>2, <3>2 DEF Read, SeenRow
    <3>4. Local(r) /\ r.pc \notin Beating
      BY <1>1, <3>2, <3>3 DEF Local, SeenBefore, HasJob, Runs, Gives, Beating, Locked
    <3> QED BY <2>1, <3>1, <3>4, QuietSafe
  <2> QED BY <2>2, <2>3
<1>5. CASE Relinquish(c)
  <2>1. Update(c, "cancelled", "human", "idle") /\ "idle" \in Pc
    BY <1>5 DEF Relinquish, Pc
  <2>2. Started(row[Att(c)])
    BY <1>1, <1>2 DEF Follows, Started
  <2>3. job[Att(c)].state \in {"absent", "cancelled", "unknown"}
    BY <1>1, <1>5 DEF Relinquish, On, Local, Gives, Att
  <2>4. Mild /\ UNCHANGED <<job, evidence, invoked>> /\ Updated(c, "cancelled", "idle")
    BY <1>1, <2>1, <2>2, <2>3, UpdateMild DEF JobTerminal
  <2> QED BY <2>4, UpdateLastSafe
<1> QED BY <1>3, <1>4, <1>5

LEMMA TidySafe ==
  ASSUME SafeInv, TypeInv', NEW c \in Commands, Tidy(c) \/ MarkCleaned(c) \/ Tidied(c)
  PROVE  SafeInv'
<1>1. cmd[c] \in Command /\ Local(cmd[c]) /\ row \in [Attempts -> Row]
  BY Knows DEF SafeInv, TypeInv, TryTypeOK
<1>2. CASE Tidy(c)
  <2>1. PICK a \in First(cmd[c].todo), p \in {"note", "tidy"} :
          cmd' = [cmd EXCEPT ![c] = [cmd[c] EXCEPT !.todo = @ \ {a}, !.att = a, !.pc = p]]
    BY <1>2 DEF Tidy
  <2> DEFINE r == [cmd[c] EXCEPT !.todo = @ \ {a}, !.att = a, !.pc = p]
  <2>2. r.pc = p /\ r.seen = cmd[c].seen
    BY <1>1 DEF Command
  <2>3. UNCHANGED <<job, row, evidence, invoked>> /\ cmd' = [cmd EXCEPT ![c] = r]
    BY <1>2, <2>1 DEF Tidy, keepStore, keepRecords, keepRun, storeVars
  <2> HIDE DEF r
  <2>4. Local(r) /\ r.pc \notin Beating
    BY <1>1, <2>2 DEF Local, SeenBefore, HasJob, Runs, Read, Gives, Beating, Locked
  <2> QED BY <2>3, <2>4, QuietSafe
<1>3. CASE MarkCleaned(c)
  <2>1. UNCHANGED <<job, evidence, invoked>>
    BY <1>3 DEF MarkCleaned, keepStore, keepFiles, keepRun, storeVars, fileVars
  <2>2. \A a \in Attempts : row'[a].state = row[a].state /\ row'[a].source = row[a].source
    BY <1>1, <1>3 DEF MarkCleaned, Row
  <2>3. Mild
    BY <2>1, <2>2 DEF Mild, Follows, Claimed, Started, Terminal
  <2>4. PICK r : r = [cmd[c] EXCEPT !.pc = "tidy"]
    OBVIOUS
  <2>5. r.pc = "tidy" /\ r.seen = cmd[c].seen
    BY <1>1, <2>4 DEF Command
  <2>6. SeenBefore(r)
    BY <1>1, <2>5 DEF Local, SeenBefore
  <2>7. SeenBefore(r)'
    BY <2>3, <2>6, SeenStays
  <2>8. Local(r)' /\ r.pc \notin Beating
    BY <2>5, <2>7 DEF Local, HasJob, Runs, Read, Gives, Beating, Locked
  <2>9. cmd' = [cmd EXCEPT ![c] = r]
    BY <1>3, <2>4 DEF MarkCleaned, To
  <2> QED BY <2>1, <2>3, <2>8, <2>9, StepSafe DEF Untouched
<1>4. CASE Tidied(c)
  BY <1>4, NoteIdleSafe DEF Tidied
<1> QED BY <1>2, <1>3, <1>4

LEMMA KillSafe ==
  ASSUME SafeInv, TypeInv', NEW c \in Commands, KillCommand(c)
  PROVE  SafeInv'
  BY StopSafe DEF KillCommand, keepStore, keepRecords, storeVars

\* A step of nobody.
LEMMA OutsideSafe ==
  ASSUME SafeInv, TypeInv', Mild, UNCHANGED <<cmd, evidence, invoked>>
  PROVE  SafeInv'
<1>1. ASSUME NEW c \in Commands PROVE Local(cmd[c])'
  <2>1. PICK k : k = cmd[c]
    OBVIOUS
  <2>2. k \in Command /\ AimOf(k) /\ Local(k)
    BY <2>1, Knows
  <2>3. Local(k)'
    BY <2>2, OthersSafe DEF SafeInv, Untouched
  <2> QED BY <2>1, <2>3 DEF Local, SeenBefore, HasJob, Runs, Read, Gives
<1>2. ASSUME NEW a \in Attempts PROVE Global(a)'
  BY GlobalSafe DEF SafeInv, Untouched
<1> QED BY <1>1, <1>2 DEF SafeInv, Alone, Att

LEMMA EnvironmentSafe ==
  ASSUME SafeInv, TypeInv',
         \/ \E a \in Attempts : LooseWrites(a) \/ ExpireClaim(a) \/ RenewJobClaim(a) \/ DaemonReplays(a)
         \/ LoseStore
  PROVE  SafeInv'
<1>1. ASSUME NEW a \in Attempts, LooseWrites(a) \/ ExpireClaim(a) \/ RenewJobClaim(a)
      PROVE  SafeInv'
  <2>1. UNCHANGED <<cmd, job, row, evidence, invoked>>
    BY <1>1 DEF LooseWrites, ExpireClaim, RenewJobClaim, keepStore, keepRecords, keepFiles, keepRun,
       storeVars, fileVars
  <2>2. Mild
    BY <2>1 DEF Mild, Follows, Claimed
  <2> QED BY <2>1, <2>2, OutsideSafe
<1>2. ASSUME NEW a \in Attempts, DaemonReplays(a)
      PROVE  SafeInv'
  <2>1. UNCHANGED <<cmd, row, evidence, invoked>> /\ FinishJob(a, 1, evidence[a])
        /\ evidence[a] \in JobTerminal
    BY <1>2 DEF DaemonReplays, keepRecords, keepFiles, keepRun, fileVars, SafeInv, TypeInv, TryTypeOK
  <2>2. /\ job[a].state = "running" /\ job'[a].state \in JobTerminal
        /\ \A b \in Attempts \ {a} : job'[b] = job[b]
    BY <2>1, AttemptsAreJobs DEF FinishJob, SafeInv, TypeInv, TryTypeOK, JobRow
  <2>3. Mild
    BY <2>1, <2>2 DEF Mild, Follows, Claimed, JobTerminal
  <2> QED BY <2>1, <2>3, OutsideSafe
\* Nobody looks while the store is lost.
<1>3. ASSUME LoseStore
      PROVE  SafeInv'
  <2>1. UNCHANGED <<cmd, row, evidence, invoked>>
    BY <1>3 DEF LoseStore, keepRecords, keepFiles, fileVars
  <2>2. \A a \in Attempts : job'[a].state = "absent"
    BY <1>3, AttemptsAreJobs DEF LoseStore, AbsentJob
  <2>3. \A c \in Commands : cmd[c].pc = "idle" /\ SeenBefore(cmd[c])
    BY <1>3 DEF LoseStore, On, SafeInv, Local
  <2>4. \A c \in Commands : Local(cmd[c])'
    BY <2>1, <2>3 DEF Local, SeenBefore, Follows, Terminal, HasJob, Runs, Read, Gives, Beating, Locked
  <2>5. \A a \in Attempts : Global(a)'
    BY <2>1, <2>2 DEF SafeInv, Global, Honest, Started, Terminal
  <2>6. Alone'
    BY <2>1, <2>3 DEF Alone, Beating, Locked
  <2> QED BY <2>4, <2>5, <2>6 DEF SafeInv
<1> QED BY <1>1, <1>2, <1>3

LEMMA SafeInit == TryInit => SafeInv
<1> SUFFICES ASSUME TryInit PROVE SafeInv
    OBVIOUS
<1>1. TypeInv
  BY TypeInit
<1>2. \A c \in Commands : Local(cmd[c]) /\ cmd[c].pc = "idle"
  BY <1>1, LocalIdle, IdleTypes DEF TryInit
<1>3. \A a \in Attempts : Global(a)
  BY AttemptsAreJobs DEF TryInit, StoreInit, AbsentJob, Global, Started, Terminal, JobTerminal, NoRow
<1> QED BY <1>1, <1>2, <1>3 DEF SafeInv, Alone, Beating, Locked

LEMMA SafeStep == SafeInv /\ [TryNext]_allVars => SafeInv'
<1> SUFFICES ASSUME SafeInv, [TryNext]_allVars PROVE SafeInv'
    OBVIOUS
<1>1. TypeInv'
  BY TypeStep DEF SafeInv
<1>2. ASSUME NEW c \in Commands, Begin(c) \/ Continue(c) \/ KillCommand(c) PROVE SafeInv'
  BY <1>1, <1>2, BeginSafe, PlanSafe, MarkerSafe, PreludeSafe, ClaimSafe, RunSafe, GiveSafe,
     TidySafe, KillSafe DEF Continue
<1>3. CASE UNCHANGED allVars
  <2>1. UNCHANGED <<cmd, job, row, evidence, invoked>>
    BY <1>3 DEF allVars, storeVars, tryVars, fileVars
  <2>2. Mild
    BY <2>1 DEF Mild, Follows, Claimed
  <2> QED BY <1>1, <2>1, <2>2, OutsideSafe
<1> QED BY <1>1, <1>2, <1>3, EnvironmentSafe DEF TryNext

LEMMA SafeAlways == TrySpec => []SafeInv
  BY SafeInit, SafeStep, PTL DEF TrySpec

(***************************************************************************)
(* The workload of an Attempt is started at most once (InvokedOnce): with  *)
(* any number of commands, stalled, killed or resumed, and also when the   *)
(* operational store was lost.                                             *)
(***************************************************************************)
THEOREM WorkloadRunsOnce == TrySpec => []InvokedOnce
<1>1. SafeInv => InvokedOnce
  BY DEF SafeInv, Global, InvokedOnce
<1> QED BY <1>1, SafeAlways, PTL

(***************************************************************************)
(* Records tell what happened (RecordsTellTruth): a terminal Attempt has   *)
(* its marker or was given up by a human after its job could not be        *)
(* finished any more, and what the status calls unstarted or resumable     *)
(* never ran.                                                              *)
(***************************************************************************)
THEOREM RecordsAreTrue == TrySpec => []RecordsTellTruth
<1>1. SafeInv => TerminalTruth
  BY DEF SafeInv, Global, Honest, TerminalTruth
<1>2. SafeInv => UnstartedTruth
  <2> SUFFICES ASSUME SafeInv, NEW a \in Attempts, Told(a) \in {"unstarted", "resumable"}
               PROVE  invoked[a] = 0
      BY DEF UnstartedTruth
  <2>1. Global(a)
    BY DEF SafeInv
  <2>2. CASE job[a].state = "absent" /\ row[a].state = "planned"
    BY <2>1, <2>2 DEF Global, Started
  <2>3. CASE job[a].state = "queued"
    BY <2>1, <2>3 DEF Global
  <2> QED BY <2>2, <2>3 DEF Told
<1> QED BY <1>1, <1>2, SafeAlways, PTL DEF RecordsTellTruth

-----------------------------------------------------------------------------
(* A closed Try.  That it owns no unfinished Attempt is a rule every        *)
(* transaction validates; that no command works for it follows from the    *)
(* honesty of the records.                                                 *)

Shut ==
    /\ try \notin {"none", "open"} => \A a \in Attempts : row[a].state \notin Pending
    /\ ideas = (IF try = "adopted" THEN 1 ELSE 0)

LEMMA UpdateShut ==
  ASSUME Shut, NEW c, NEW state, NEW source, NEW pc, Update(c, state, source, pc)
  PROVE  Shut'
<1>1. UNCHANGED <<try, ideas>>
  BY DEF Update
<1>2. \/ row' = row
      \/ \E new : row' = [row EXCEPT ![Att(c)] = new] /\ InventoryValid(try, row')
  BY DEF Update, Replace
<1>3. InventoryValid(try, row') /\ try \notin {"none", "open"} =>
        \A a \in Attempts : row'[a].state \notin Pending
  BY DEF InventoryValid, Unfinished
<1> QED BY <1>1, <1>2, <1>3 DEF Shut

\* The transactions that replace the Try look at it once more.
LEMMA PlanShut ==
  ASSUME TypeInv, Shut, NEW c \in Commands, CreateTry(c) \/ Plan(c) \/ PlanRetry(c) \/ Close(c)
  PROVE  Shut'
<1>1. AimOf(cmd[c]) /\ ideas \in Nat
  BY DEF TypeInv, TryTypeOK, Aim
<1>2. CASE CreateTry(c)
  BY <1>1, <1>2 DEF CreateTry, On, AimOf, Shut
<1>3. CASE Plan(c) \/ PlanRetry(c)
  <2>1. PICK prior, guarded : PlanAttempt(c, prior, guarded) /\ (guarded => try \in {"none", "open"})
    BY <1>1, <1>3 DEF Plan, PlanRetry, On, AimOf
  <2>2. UNCHANGED <<try, row, ideas>> \/ (try' = "open" /\ guarded /\ UNCHANGED ideas)
    BY <2>1 DEF PlanAttempt
  <2> QED BY <2>1, <2>2 DEF Shut
<1>4. CASE Close(c)
  <2>1. CASE UNCHANGED <<try, ideas>>
    BY <1>4, <2>1 DEF Close, Shut
  <2>2. CASE ~UNCHANGED <<try, ideas>>
    <3> DEFINE new == Closed(cmd[c].op)
    <3>1. /\ try = cmd[c].try /\ InventoryValid(new, row) /\ row' = row
          /\ try' = new /\ ideas' = ideas + (IF new = "adopted" THEN 1 ELSE 0)
      BY <1>4, <2>2 DEF Close
    <3>2. \/ new = "adopted" /\ try = "concluded"
          \/ new \in {"concluded", "abandoned"} /\ try = "open"
      BY <1>1, <1>4, <3>1 DEF Close, On, AimOf, Closed
    <3> HIDE DEF new
    <3>3. \A a \in Attempts : row[a].state \notin Pending
      BY <3>1, <3>2 DEF InventoryValid, Unfinished
    <3> QED BY <1>1, <3>1, <3>2, <3>3 DEF Shut
  <2> QED BY <2>1, <2>2
<1> QED BY <1>2, <1>3, <1>4

LEMMA ShutStep ==
  ASSUME TypeInv, Shut, [TryNext]_allVars
  PROVE  Shut'
<1> USE DEF keepRecords, Note
<1>1. CASE UNCHANGED <<try, row, ideas>>
  BY <1>1 DEF Shut
<1>2. ASSUME NEW c \in Commands,
             \/ Settle(c) \/ Queue(c) \/ Doubt(c) \/ Start(c) \/ Mark(c) \/ ImportTerminal(c)
             \/ Relinquish(c)
      PROVE  Shut'
  <2>1. UNCHANGED <<try, row, ideas>> \/ \E state, source, pc : Update(c, state, source, pc)
    BY <1>2 DEF Settle, Queue, Doubt, Start, Mark, ImportTerminal, Relinquish
  <2> QED BY <1>1, <2>1, UpdateShut
<1>3. ASSUME NEW c \in Commands, MarkCleaned(c)
      PROVE  Shut'
  <2>1. \A a \in Attempts : row'[a].state = row[a].state
    BY <1>3 DEF MarkCleaned, TypeInv, TryTypeOK, Row
  <2> QED BY <1>3, <2>1 DEF MarkCleaned, Shut
<1>4. ASSUME NEW c \in Commands, Begin(c) \/ KillCommand(c)
      PROVE  UNCHANGED <<try, row, ideas>>
  BY <1>4 DEF Begin, KillCommand, BeginRun, BeginResume, BeginRetry, BeginReconcile, BeginClose,
     BeginCleanup, StartWith
<1>5. ASSUME NEW c \in Commands,
             \/ ReadMarker(c) \/ ResumeLatest(c) \/ ReconcileUnknown(c) \/ ReconcileFenced(c)
             \/ Execute(c) \/ Lookup(c) \/ PrepareManaged(c) \/ Enqueue(c) \/ ClaimOrRecover(c)
             \/ Repair(c) \/ Claim(c) \/ Lock(c) \/ Check(c) \/ WriteTerminal(c) \/ Finish(c)
             \/ (\E outcome \in {"succeeded", "cancelled"} : Work(c, outcome))
             \/ Ask(c) \/ Cancel(c) \/ Tidy(c) \/ Tidied(c)
      PROVE  UNCHANGED <<try, row, ideas>>
  BY <1>5 DEF ReadMarker, ResumeLatest, ReconcileUnknown, ReconcileFenced, Execute, Lookup,
     PrepareManaged, Enqueue, ClaimOrRecover, Repair, Claim, Lock, Check, WriteTerminal, Finish,
     Work, Ask, Cancel, Tidy, Tidied
<1>6. (\/ \E b \in Attempts : LooseWrites(b) \/ ExpireClaim(b) \/ RenewJobClaim(b) \/ DaemonReplays(b)
       \/ LoseStore \/ UNCHANGED allVars) => UNCHANGED <<try, row, ideas>>
  BY DEF LooseWrites, ExpireClaim, RenewJobClaim, DaemonReplays, LoseStore, allVars, tryVars
<1> QED BY <1>1, <1>2, <1>3, <1>4, <1>5, <1>6, PlanShut DEF TryNext, Continue

(***************************************************************************)
(* A closed Try is quiet (ClosedIsQuiet): it owns no unfinished Attempt,   *)
(* no command claims or runs a workload for it unless a human gave that    *)
(* Attempt up, and it was adopted as one Idea at most.                     *)
(***************************************************************************)
THEOREM ClosedStaysQuiet == TrySpec => []ClosedIsQuiet
<1>1. TryInit => Shut
  BY DEF TryInit, Shut
<1>2. SafeInv /\ Shut => ClosedIsQuiet
  <2> SUFFICES ASSUME SafeInv, Shut PROVE ClosedIsQuiet
      OBVIOUS
  <2>1. ASSUME try \notin {"none", "open"}, NEW c \in Commands,
               cmd[c].pc \in {"mark", "lock", "check", "working"}
        PROVE  row[Att(c)].source = "human"
    <3>1. /\ Local(cmd[c]) /\ Att(c) \in Attempts /\ Global(Att(c))
          /\ row[Att(c)] \in Row
      BY <2>1, Knows DEF Aimed, Pc, Beating, Locked, SafeInv, TypeInv, TryTypeOK
    <3>2. evidence[Att(c)] = "none" /\ row[Att(c)].state # "absent"
      BY <2>1, <3>1 DEF Local, HasJob, Runs, Started, Att, Locked
    <3>3. Terminal(row[Att(c)])
      BY <2>1, <3>1, <3>2 DEF Shut, Row, Terminal
    <3> QED BY <3>1, <3>2, <3>3 DEF Global, Honest
  <2>2. try \notin {"none", "open"} => Unfinished(row) = {}
    BY DEF Shut, Unfinished
  <2> QED BY <2>1, <2>2 DEF ClosedIsQuiet, Shut
<1>3. TypeInv /\ Shut /\ [TryNext]_allVars => Shut'
  BY ShutStep
<1>4. SafeInv => TypeInv
  BY DEF SafeInv
<1> QED BY <1>1, <1>2, <1>3, <1>4, SafeAlways, PTL DEF TrySpec

=============================================================================
