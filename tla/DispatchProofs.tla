--------------------------- MODULE DispatchProofs ---------------------------
(***************************************************************************)
(* Theorems about the operational store, and about daemons and workers     *)
(* over it, for any number of daemons, worktrees and jobs and any mixture  *)
(* of faults: first the store, then what a daemon knows at each step of    *)
(* its tick, then its submissions.                                         *)
(***************************************************************************)
EXTENDS Dispatch, FiniteSetTheorems, TLAPS

-----------------------------------------------------------------------------
(***************************************************************************)
(* The operational store.                                                  *)
(*                                                                         *)
(* Two inductive invariants carry its theorems.  StoreInv says what the    *)
(* rows and the open calls look like; it needs no assumption.  LeadInv     *)
(* says who may be inside a submission: the lease row always names the     *)
(* client that acquired last, and because nobody can acquire, or pause,    *)
(* while a submission holds the writer lock, what the fence established    *)
(* stays true until the transaction ends.                                  *)
(***************************************************************************)

\* An unfinished call is about a job.
CallHasJob == \A c \in Clients : call[c].stage # "none" => call[c].job \in Jobs

Inside(c) == call[c].stage \in {"open", "sent"}

\* The row a submission was fenced on stays: nobody else may write.
InsideOwns == \A c \in Clients : Inside(c) => Owns(c)

StoreInv == TypeOK /\ CallHasJob /\ ClaimHasIntent /\ InsideOwns

LEMMA StoreInvInit == StoreInit => StoreInv
  <1> SUFFICES ASSUME StoreInit PROVE StoreInv
    OBVIOUS
  <1> USE OperationBounds DEF StoreInit
  <1>1. lease \in Lease \cup {None} /\ held \in [Clients -> 0 .. MaxToken]
    OBVIOUS
  <1>2. call \in [Clients -> Call]
    BY DEF Call, NoCall
  <1>3. job \in [Jobs -> JobRow] /\ outbox \in [Jobs -> Intent]
    BY DEF JobRow, AbsentJob, JobState, Intent, NoIntent, OutboxState
  <1>4. accepted \in Seq(Jobs)
    OBVIOUS
  <1>5. TypeOK
    BY <1>1, <1>2, <1>3, <1>4 DEF TypeOK
  <1>6. CallHasJob /\ InsideOwns /\ ClaimHasIntent
    BY DEF CallHasJob, InsideOwns, Inside, ClaimHasIntent, NoCall, AbsentJob
  <1> QED
    BY <1>5, <1>6 DEF StoreInv

(***************************************************************************)
(* Steps that touch no call, and no job, keep what is said of calls, and   *)
(* of jobs.                                                                *)
(***************************************************************************)
LEMMA QuietCalls ==
  ASSUME CallHasJob, call' = call
  PROVE  CallHasJob'
  BY DEF CallHasJob

LEMMA QuietJobs ==
  ASSUME ClaimHasIntent, job' = job, outbox' = outbox
  PROVE  ClaimHasIntent'
  BY DEF ClaimHasIntent

LEMMA QuietOwners ==
  ASSUME InsideOwns, call' = call, lease' = lease, held' = held
  PROVE  InsideOwns'
  BY DEF InsideOwns, Inside, Owns

\* Nothing is open while the writer lock is free.
LEMMA NobodyInside ==
  ASSUME WriterFree, call' = call
  PROVE  InsideOwns'
  BY DEF WriterFree, InsideOwns, Inside

LEMMA LeaseKeepsInv ==
  ASSUME StoreInv, LeaseStep
  PROVE  StoreInv'
  <1> USE OperationBounds DEF StoreInv
  <1>1. CASE ExpireLease
    <2>1. lease' \in Lease /\ UNCHANGED <<held, leader, call, paused, jobVars, taskVars>>
      BY <1>1 DEF ExpireLease, Unexpired, TypeOK, Lease
    <2>2. TypeOK'
      BY <2>1 DEF TypeOK, jobVars, taskVars
    <2>3. InsideOwns'
      <3>1. ASSUME NEW c \in Clients, Inside(c)' PROVE Owns(c)'
        <4>1. Owns(c)
          BY <3>1, <2>1 DEF InsideOwns, Inside
        <4> QED
          BY <4>1, <2>1, <1>1, NoLeaseAssumption DEF ExpireLease, Unexpired, Owns, TypeOK, Lease
      <3> QED
        BY <3>1 DEF InsideOwns
    <2> QED
      BY <2>1, <2>2, <2>3, QuietCalls, QuietJobs DEF jobVars
  <1>2. ASSUME NEW c \in Clients, AcquireLease(c)
        PROVE  StoreInv'
    <2> DEFINE t == IF lease = None THEN 1 ELSE lease.token + 1
    <2>1. t \in 1 .. MaxToken
      BY <1>2 DEF AcquireLease, TypeOK, Lease
    <2>2. /\ lease' = [holder |-> Holder[c], token |-> t, live |-> TRUE]
          /\ held' = [held EXCEPT ![c] = t]
          /\ leader' = c
          /\ UNCHANGED <<call, paused, jobVars, taskVars>>
          /\ WriterFree
      BY <1>2 DEF AcquireLease
    <2>3. lease' \in Lease
      BY <2>1, <2>2 DEF Lease
    <2>4. held' \in [Clients -> 0 .. MaxToken]
      BY <2>1, <2>2 DEF TypeOK
    <2>5. TypeOK'
      BY <2>2, <2>3, <2>4 DEF TypeOK, jobVars, taskVars
    <2> QED
      BY <2>2, <2>5, QuietCalls, QuietJobs, NobodyInside DEF jobVars
  <1>3. ASSUME NEW c \in Clients, RenewLease(c)
        PROVE  StoreInv'
    <2>1. /\ lease' \in Lease
          /\ UNCHANGED <<held, leader, call, paused, jobVars, taskVars>>
          /\ WriterFree
      BY <1>3 DEF RenewLease, Owns, TypeOK, Lease
    <2>2. TypeOK'
      BY <2>1 DEF TypeOK, jobVars, taskVars
    <2> QED
      BY <2>1, <2>2, QuietCalls, QuietJobs, NobodyInside DEF jobVars
  <1>4. ASSUME NEW c \in Clients, ReleaseLease(c)
        PROVE  StoreInv'
    <2>1. /\ lease' \in Lease \cup {None}
          /\ held' \in [Clients -> 0 .. MaxToken]
          /\ UNCHANGED <<leader, call, paused, jobVars, taskVars>>
          /\ WriterFree
      BY <1>4 DEF ReleaseLease, TypeOK
    <2>2. TypeOK'
      BY <2>1 DEF TypeOK, jobVars, taskVars
    <2> QED
      BY <2>1, <2>2, QuietCalls, QuietJobs, NobodyInside DEF jobVars
  <1> QED
    BY <1>1, <1>2, <1>3, <1>4 DEF LeaseStep

\* A call that ends, or is killed, leaves the other calls as they are.
LEMMA CallEnds ==
  ASSUME StoreInv, NEW c \in Clients, call' = [call EXCEPT ![c] = NoCall]
  PROVE  /\ call' \in [Clients -> Call]
         /\ CallHasJob'
         /\ \A d \in Clients : Inside(d)' => d # c /\ Inside(d) /\ Owns(d)
  <1>1. NoCall \in Call
    BY DEF NoCall, Call
  <1>2. call \in [Clients -> Call]
    BY DEF StoreInv, TypeOK
  <1>3. \A d \in Clients : call'[d] = IF d = c THEN NoCall ELSE call[d]
    BY <1>2
  <1> QED
    BY <1>1, <1>2, <1>3 DEF StoreInv, CallHasJob, InsideOwns, Inside, NoCall

LEMMA SubmitKeepsInv ==
  ASSUME StoreInv, SubmitStep
  PROVE  StoreInv'
  <1> USE OperationBounds DEF StoreInv
  <1>0. call \in [Clients -> Call]
    BY DEF TypeOK
  <1>1. ASSUME NEW c \in Clients, NEW j \in Jobs, AskSubmit(c, j)
        PROVE  StoreInv'
    <2> DEFINE asked == [stage |-> "asked", job |-> j, inTime |-> Unexpired]
    <2>1. asked \in Call
      BY DEF Call, Unexpired, TypeOK, Lease
    <2>2. /\ call' = [call EXCEPT ![c] = asked]
          /\ UNCHANGED <<lease, held, leader, paused, jobVars, taskVars>>
      BY <1>1 DEF AskSubmit
    <2>3. \A d \in Clients : call'[d] = IF d = c THEN asked ELSE call[d]
      BY <2>2, <1>0
    <2>4. TypeOK'
      BY <2>1, <2>2 DEF TypeOK, jobVars, taskVars
    <2>5. CallHasJob' /\ InsideOwns'
      BY <2>2, <2>3 DEF CallHasJob, InsideOwns, Inside, Owns
    <2> QED
      BY <2>2, <2>4, <2>5, QuietJobs DEF jobVars
  <1>2. ASSUME NEW c \in Clients, OpenSubmit(c)
        PROVE  StoreInv'
    <2> DEFINE opened == [call[c] EXCEPT !.stage = "open"]
    <2>1. opened \in Call /\ opened.stage = "open" /\ opened.job = call[c].job
      BY <1>0 DEF Call
    <2>2. /\ call' = [call EXCEPT ![c] = opened]
          /\ UNCHANGED <<lease, held, leader, paused, jobVars, taskVars>>
          /\ call[c].stage = "asked"
          /\ Owns(c)
      BY <1>2 DEF OpenSubmit, FencePasses
    <2>3. \A d \in Clients : call'[d] = IF d = c THEN opened ELSE call[d]
      BY <2>2, <1>0
    <2>4. TypeOK'
      BY <2>1, <2>2 DEF TypeOK, jobVars, taskVars
    <2>5. CallHasJob'
      BY <2>1, <2>2, <2>3 DEF CallHasJob
    <2>6. InsideOwns'
      BY <2>2, <2>3 DEF InsideOwns, Inside, Owns
    <2> QED
      BY <2>2, <2>4, <2>5, <2>6, QuietJobs DEF jobVars
  <1>3. ASSUME NEW c \in Clients, FencedSubmit(c) \/ PausedSubmit(c) \/ AbortSubmit(c)
        PROVE  StoreInv'
    <2>1. /\ call' = [call EXCEPT ![c] = NoCall]
          /\ UNCHANGED <<lease, held, leader, paused, jobVars, taskVars>>
      BY <1>3 DEF FencedSubmit, PausedSubmit, AbortSubmit
    <2>2. TypeOK'
      BY <2>1, CallEnds DEF TypeOK, jobVars, taskVars
    <2>3. InsideOwns'
      BY <2>1, CallEnds DEF InsideOwns, Owns
    <2> QED
      BY <2>1, <2>2, <2>3, CallEnds, QuietJobs DEF jobVars
  <1>4. ASSUME NEW c \in Clients, Submit(c)
        PROVE  StoreInv'
    <2> DEFINE sent == [call[c] EXCEPT !.stage = "sent"]
    <2>1. sent \in Call /\ sent.stage = "sent" /\ sent.job = call[c].job
      BY <1>0 DEF Call
    <2>2. /\ call' = [call EXCEPT ![c] = sent]
          /\ UNCHANGED <<lease, held, leader, paused, jobVars, orphans>>
          /\ call[c].stage = "open"
          /\ accepted' = Append(accepted, call[c].job)
      BY <1>4 DEF Submit
    <2>3. \A d \in Clients : call'[d] = IF d = c THEN sent ELSE call[d]
      BY <2>2, <1>0
    <2>4. accepted' \in Seq(Jobs)
      BY <2>2 DEF TypeOK, CallHasJob
    <2>5. TypeOK'
      BY <2>1, <2>2, <2>4 DEF TypeOK, jobVars
    <2>6. CallHasJob'
      BY <2>1, <2>2, <2>3 DEF CallHasJob
    <2>7. InsideOwns'
      BY <2>2, <2>3 DEF InsideOwns, Inside, Owns
    <2> QED
      BY <2>2, <2>5, <2>6, <2>7, QuietJobs DEF jobVars
  <1>5. ASSUME NEW c \in Clients, CommitSubmit(c)
        PROVE  StoreInv'
    <2>1. /\ call' = [call EXCEPT ![c] = NoCall]
          /\ lease' = [lease EXCEPT !.live = TRUE]
          /\ UNCHANGED <<held, leader, paused, jobVars, taskVars>>
      BY <1>5 DEF CommitSubmit
    <2>2. lease \in Lease
      BY <1>5 DEF CommitSubmit, InsideOwns, Inside, Owns, TypeOK
    <2>3. lease' \in Lease /\ lease'.holder = lease.holder /\ lease'.token = lease.token
      BY <2>1, <2>2 DEF Lease
    <2>4. lease' # None
      BY <2>3, NoLeaseAssumption
    <2>5. TypeOK'
      BY <2>1, <2>3, CallEnds DEF TypeOK, jobVars, taskVars
    <2>6. InsideOwns'
      BY <2>1, <2>3, <2>4, CallEnds DEF InsideOwns, Owns
    <2> QED
      BY <2>1, <2>5, <2>6, CallEnds, QuietJobs DEF jobVars
  <1> QED
    BY <1>1, <1>2, <1>3, <1>4, <1>5 DEF SubmitStep

LEMMA JobKeepsInv ==
  ASSUME StoreInv, JobStep
  PROVE  StoreInv'
  <1> USE OperationBounds DEF StoreInv
  <1>0. job \in [Jobs -> JobRow] /\ outbox \in [Jobs -> Intent]
    BY DEF TypeOK
  <1>1. UNCHANGED <<leaseVars, paused, taskVars>>
    BY DEF JobStep, PrepareSubmission, EnqueueJob, ClaimJobByID, FinishJob,
      SetJobExternalRefs, MarkJobReconciled, SetOutboxState, RetryTime,
      RecordDispatchOnce, leaseVars, taskVars, jobVars
  <1>2. CallHasJob' /\ InsideOwns'
    BY <1>1, QuietCalls, QuietOwners DEF leaseVars
  <1>3. SUFFICES /\ job' \in [Jobs -> JobRow]
                 /\ outbox' \in [Jobs -> Intent]
                 /\ units' \in Nat
                 /\ ClaimHasIntent'
    BY <1>1, <1>2 DEF TypeOK, leaseVars, taskVars
  <1>4. PICK j \in Jobs :
          \/ PrepareSubmission(j) \/ EnqueueJob(j) \/ ClaimJobByID(j)
          \/ RecordDispatchOnce(j) \/ RetryTime(j)
          \/ \E s \in JobFinished : FinishJob(j, 1, s)
          \/ \E t \in Tasks : SetJobExternalRefs(j, 1, t)
          \/ MarkJobReconciled(j, 1)
          \/ \E s \in {"failed", "succeeded"} : SetOutboxState(j, s)
    BY DEF JobStep
  <1>5. CASE PrepareSubmission(j)
    <2>1. outbox' \in [Jobs -> Intent]
      BY <1>0, <1>5 DEF PrepareSubmission, Intent, OutboxState
    <2>2. job' \in [Jobs -> JobRow]
      BY <1>0, <1>5 DEF PrepareSubmission, JobRow, JobState, ClaimHasIntent
    <2>3. ClaimHasIntent'
      BY <1>0, <1>5 DEF PrepareSubmission, ClaimHasIntent, JobRow, JobState, Intent
    <2> QED
      BY <1>5, <2>1, <2>2, <2>3 DEF PrepareSubmission, TypeOK
  <1>6. CASE EnqueueJob(j) \/ ClaimJobByID(j)
    <2>1. job' \in [Jobs -> JobRow]
      BY <1>0, <1>6 DEF EnqueueJob, ClaimJobByID, JobRow, JobState, ClaimHasIntent
    <2>2. ClaimHasIntent'
      BY <1>0, <1>6 DEF EnqueueJob, ClaimJobByID, ClaimHasIntent, JobRow
    <2> QED
      BY <1>6, <2>1, <2>2 DEF EnqueueJob, ClaimJobByID, TypeOK
  <1>7. ASSUME NEW s \in JobFinished, FinishJob(j, 1, s)
        PROVE  <1>3!1
    <2>1. job' \in [Jobs -> JobRow]
      BY <1>0, <1>7 DEF FinishJob, JobRow, JobState
    <2>2. ClaimHasIntent'
      BY <1>0, <1>7 DEF FinishJob, ClaimHasIntent, JobRow, JobFinished, JobTerminal
    <2> QED
      BY <1>7, <2>1, <2>2 DEF FinishJob, TypeOK
  <1>8. ASSUME NEW t \in Tasks, SetJobExternalRefs(j, 1, t)
        PROVE  <1>3!1
    <2>1. job' \in [Jobs -> JobRow]
      BY <1>0, <1>8 DEF SetJobExternalRefs, JobRow, Tasks
    <2>2. ClaimHasIntent'
      BY <1>0, <1>8 DEF SetJobExternalRefs, ClaimHasIntent, JobRow
    <2> QED
      BY <1>8, <2>1, <2>2 DEF SetJobExternalRefs, TypeOK
  <1>9. CASE MarkJobReconciled(j, 1) \/ RecordDispatchOnce(j)
    <2>1. job' \in [Jobs -> JobRow]
      <3>1. CASE MarkJobReconciled(j, 1)
        BY <1>0, <3>1 DEF MarkJobReconciled, JobRow
      <3>2. CASE RecordDispatchOnce(j)
        BY <1>0, <3>2 DEF RecordDispatchOnce, JobRow
      <3> QED
        BY <1>9, <3>1, <3>2
    <2>2. ClaimHasIntent'
      BY <1>0, <1>9 DEF MarkJobReconciled, RecordDispatchOnce, ClaimHasIntent, JobRow
    <2> QED
      BY <1>9, <2>1, <2>2 DEF MarkJobReconciled, RecordDispatchOnce, TypeOK
  <1>10. ASSUME RetryTime(j) \/ \E s \in {"failed", "succeeded"} : SetOutboxState(j, s)
         PROVE  <1>3!1
    <2> DEFINE Moves == \E i \in Intent : /\ outbox' = [outbox EXCEPT ![j] = i]
                                         /\ i.state # "absent"
                                         /\ UNCHANGED <<job, units>>
    <2>1. Moves
      <3>1. CASE RetryTime(j)
        <4> DEFINE i == [outbox[j] EXCEPT !.due = TRUE]
        <4>1. outbox[j].state = "failed"
          BY <3>1 DEF RetryTime
        <4>2. i \in Intent /\ i.state # "absent"
          BY <4>1, <1>0 DEF Intent
        <4>3. outbox' = [outbox EXCEPT ![j] = i] /\ UNCHANGED <<job, units>>
          BY <3>1 DEF RetryTime
        <4> QED
          BY <4>2, <4>3
      <3>2. ASSUME NEW s \in {"failed", "succeeded"}, SetOutboxState(j, s)
            PROVE  Moves
        <4> DEFINE i == [state |-> s, due |-> FALSE]
        <4>1. i \in Intent /\ i.state # "absent"
          BY DEF Intent, OutboxState
        <4>2. outbox' = [outbox EXCEPT ![j] = i] /\ UNCHANGED <<job, units>>
          BY <3>2 DEF SetOutboxState
        <4> QED
          BY <4>1, <4>2
      <3> QED
        BY <1>10, <3>1, <3>2
    <2>2. outbox' \in [Jobs -> Intent] /\ ClaimHasIntent'
      BY <1>0, <2>1 DEF ClaimHasIntent
    <2> QED
      BY <2>1, <2>2 DEF TypeOK
  <1> QED
    BY <1>4, <1>5, <1>6, <1>7, <1>8, <1>9, <1>10

LEMMA OtherKeepsInv ==
  ASSUME StoreInv,
         \/ \E b \in BOOLEAN : SetPaused(b)
         \/ \E c \in Clients : Kill(c)
         \/ \E j \in Jobs : LateSubmit(j)
  PROVE  StoreInv'
  <1> USE OperationBounds DEF StoreInv
  <1>1. ASSUME NEW b \in BOOLEAN, SetPaused(b)
        PROVE  StoreInv'
    <2>1. paused' = b /\ UNCHANGED <<leaseVars, jobVars, taskVars>>
      BY <1>1 DEF SetPaused
    <2>2. TypeOK'
      BY <2>1 DEF TypeOK, leaseVars, jobVars, taskVars
    <2> QED
      BY <2>1, <2>2, QuietCalls, QuietJobs, QuietOwners DEF leaseVars, jobVars
  <1>2. ASSUME NEW c \in Clients, Kill(c)
        PROVE  StoreInv'
    <2>1. /\ held' = [held EXCEPT ![c] = 0]
          /\ call' = [call EXCEPT ![c] = NoCall]
          /\ UNCHANGED <<lease, leader, paused, jobVars, accepted>>
      BY <1>2 DEF Kill
    <2>2. orphans' \subseteq Jobs
      BY <1>2 DEF Kill, TypeOK, CallHasJob
    <2>3. held' \in [Clients -> 0 .. MaxToken]
      BY <2>1 DEF TypeOK
    <2>4. TypeOK'
      BY <2>1, <2>2, <2>3, CallEnds DEF TypeOK, jobVars
    <2>5. InsideOwns'
      BY <2>1, CallEnds DEF InsideOwns, Owns, TypeOK
    <2> QED
      BY <2>1, <2>4, <2>5, CallEnds, QuietJobs DEF jobVars
  <1>3. ASSUME NEW j \in Jobs, LateSubmit(j)
        PROVE  StoreInv'
    <2>1. /\ accepted' = Append(accepted, j)
          /\ orphans' = orphans \ {j}
          /\ UNCHANGED <<leaseVars, paused, jobVars>>
      BY <1>3 DEF LateSubmit
    <2>2. TypeOK'
      BY <2>1 DEF TypeOK, leaseVars, jobVars
    <2> QED
      BY <2>1, <2>2, QuietCalls, QuietJobs, QuietOwners DEF leaseVars, jobVars
  <1> QED
    BY <1>1, <1>2, <1>3

LEMMA StoreInvStep ==
  ASSUME StoreInv, [StoreNext]_storeVars
  PROVE  StoreInv'
  <1>1. CASE UNCHANGED storeVars
    BY <1>1 DEF storeVars, StoreInv, TypeOK, CallHasJob, InsideOwns, Inside,
      Owns, ClaimHasIntent
  <1>2. CASE StoreNext
    BY <1>2, LeaseKeepsInv, SubmitKeepsInv, JobKeepsInv, OtherKeepsInv
      DEF StoreNext
  <1> QED
    BY <1>1, <1>2

THEOREM StoreInvariant == StoreSpec => []StoreInv
  BY StoreInvInit, StoreInvStep, PTL DEF StoreSpec

(***************************************************************************)
(* Every reachable state of the store is well typed: no fencing token      *)
(* leaves its range and the scheduler is only given known jobs.            *)
(***************************************************************************)
THEOREM StoreTypeCorrect == StoreSpec => []TypeOK
  BY StoreInvariant, PTL DEF StoreInv

(***************************************************************************)
(* A claimed job never lacks the intent that crash recovery needs, and is  *)
(* claimed at most once (PrepareSubmission is one transaction, and no      *)
(* operation returns a job to the queue).                                  *)
(***************************************************************************)
THEOREM ClaimsAreRecoverable == StoreSpec => []ClaimHasIntent
  BY StoreInvariant, PTL DEF StoreInv

----------------------------------------------------------------------------
(* Who may be inside a submission.                                         *)

\* Default holder names are unique per process.
OwnNames == \A c, d \in Clients : Holder[c] = Holder[d] => c = d

\* The row names the client that acquired last.
LeaseOfLeader ==
    lease # None => leader \in Clients /\ lease.holder = Holder[leader]

LeadInv == StoreInv /\ LeaseOfLeader /\ LeaderOnly

LEMMA LeadInvInit == StoreInit => LeadInv
  <1>1. StoreInit => LeaseOfLeader /\ LeaderOnly
    BY DEF StoreInit, LeaseOfLeader, LeaderOnly, NoCall
  <1> QED
    BY <1>1, StoreInvInit DEF LeadInv

\* Calls that are open stay as they are, and so does the leader.
LEMMA QuietInside ==
  ASSUME LeadInv, leader' = leader,
         \A d \in Clients : Inside(d)' => Inside(d)
  PROVE  LeaderOnly'
  BY DEF LeadInv, LeaderOnly, Inside

\* While the writer lock is free nobody is inside.
LEMMA NobodyLeads ==
  ASSUME WriterFree, call' = call
  PROVE  LeaderOnly'
  BY DEF WriterFree, LeaderOnly

LEMMA LeadStep ==
  ASSUME OwnNames, LeadInv, StoreInv', StoreNext
  PROVE  LeadInv'
  <1> USE DEF LeadInv
  <1>0. call \in [Clients -> Call] /\ lease \in Lease \cup {None}
    BY DEF StoreInv, TypeOK
  <1>1. SUFFICES LeaseOfLeader' /\ LeaderOnly'
    OBVIOUS
  <1>2. CASE LeaseStep
    <2>1. CASE ExpireLease
      <3>1. LeaseOfLeader'
        BY <2>1, <1>0 DEF ExpireLease, Unexpired, LeaseOfLeader, Lease
      <3>2. \A d \in Clients : Inside(d)' => Inside(d)
        BY <2>1 DEF ExpireLease, Inside
      <3> QED
        BY <2>1, <3>1, <3>2, QuietInside DEF ExpireLease
    <2>2. ASSUME NEW c \in Clients, AcquireLease(c) PROVE <1>1!1
      BY <2>2, NobodyLeads DEF AcquireLease, LeaseOfLeader
    <2>3. ASSUME NEW c \in Clients, RenewLease(c) PROVE <1>1!1
      <3>1. LeaseOfLeader'
        BY <2>3, <1>0 DEF RenewLease, Owns, LeaseOfLeader, Lease
      <3> QED
        BY <2>3, <3>1, NobodyLeads DEF RenewLease
    <2>4. ASSUME NEW c \in Clients, ReleaseLease(c) PROVE <1>1!1
      BY <2>4, NobodyLeads DEF ReleaseLease, LeaseOfLeader
    <2> QED
      BY <1>2, <2>1, <2>2, <2>3, <2>4 DEF LeaseStep
  <1>3. CASE SubmitStep
    <2>1. ASSUME NEW c \in Clients, NEW j \in Jobs, AskSubmit(c, j) PROVE <1>1!1
      <3>1. \A d \in Clients : Inside(d)' => Inside(d)
        BY <2>1, <1>0 DEF AskSubmit, Inside
      <3> QED
        BY <2>1, <3>1, QuietInside DEF AskSubmit, LeaseOfLeader
    <2>2. ASSUME NEW c \in Clients, OpenSubmit(c) PROVE <1>1!1
      <3>1. leader = c
        BY <2>2, OwnNames DEF OpenSubmit, FencePasses, Owns, LeaseOfLeader, OwnNames
      <3>2. \A d \in Clients : Inside(d)' => d = c
        BY <2>2, <1>0 DEF OpenSubmit, WriterFree, Inside
      <3> QED
        BY <2>2, <3>1, <3>2 DEF OpenSubmit, LeaseOfLeader, LeaderOnly,
          Inside
    <2>3. ASSUME NEW c \in Clients, FencedSubmit(c) \/ PausedSubmit(c) \/ AbortSubmit(c)
          PROVE  <1>1!1
      <3>1. /\ call' = [call EXCEPT ![c] = NoCall]
            /\ UNCHANGED <<lease, leader>>
        BY <2>3 DEF FencedSubmit, PausedSubmit, AbortSubmit
      <3> QED
        BY <3>1, CallEnds, QuietInside DEF LeaseOfLeader
    <2>4. ASSUME NEW c \in Clients, Submit(c) PROVE <1>1!1
      <3>1. \A d \in Clients : Inside(d)' => Inside(d)
        BY <2>4, <1>0 DEF Submit, Inside
      <3> QED
        BY <2>4, <3>1, QuietInside DEF Submit, LeaseOfLeader
    <2>5. ASSUME NEW c \in Clients, CommitSubmit(c) PROVE <1>1!1
      <3>1. lease # None
        BY <2>5 DEF CommitSubmit, StoreInv, InsideOwns, Inside, Owns
      <3>2. LeaseOfLeader'
        BY <2>5, <3>1, <1>0 DEF CommitSubmit, LeaseOfLeader, Lease
      <3> QED
        BY <2>5, <3>2, CallEnds, QuietInside DEF CommitSubmit
    <2> QED
      BY <1>3, <2>1, <2>2, <2>3, <2>4, <2>5 DEF SubmitStep
  <1>4. CASE JobStep
    <2>1. UNCHANGED leaseVars
      BY <1>4 DEF JobStep, PrepareSubmission, EnqueueJob, ClaimJobByID, FinishJob,
        SetJobExternalRefs, MarkJobReconciled, SetOutboxState, RetryTime,
        RecordDispatchOnce, leaseVars
    <2> QED
      BY <2>1, QuietInside DEF leaseVars, LeaseOfLeader, Inside
  <1>5. ASSUME NEW b \in BOOLEAN, SetPaused(b) PROVE <1>1!1
    BY <1>5, NobodyLeads DEF SetPaused, leaseVars, LeaseOfLeader
  <1>6. ASSUME NEW c \in Clients, Kill(c) PROVE <1>1!1
    BY <1>6, CallEnds, QuietInside DEF Kill, LeaseOfLeader
  <1>7. ASSUME NEW j \in Jobs, LateSubmit(j) PROVE <1>1!1
    BY <1>7, QuietInside DEF LateSubmit, leaseVars, LeaseOfLeader, Inside
  <1> QED
    BY <1>2, <1>3, <1>4, <1>5, <1>6, <1>7 DEF StoreNext

THEOREM LeadInvariant ==
  ASSUME OwnNames PROVE StoreSpec => []LeadInv
  <1>1. ASSUME LeadInv, StoreInv', [StoreNext]_storeVars PROVE LeadInv'
    <2>1. CASE UNCHANGED storeVars
      BY <1>1, <2>1, QuietInside DEF storeVars, LeadInv, LeaseOfLeader, Inside
    <2>2. CASE StoreNext
      BY <1>1, <2>2, OwnNames, LeadStep
    <2> QED
      BY <1>1, <2>1, <2>2
  <1> QED
    BY <1>1, LeadInvInit, StoreInvariant, PTL DEF StoreSpec

(***************************************************************************)
(* If no two processes use one holder name, a daemon that has been         *)
(* replaced never submits on its old lease, although a released lease      *)
(* starts again at token 1 (AcquireLease, ReleaseLease, WithDispatchLease).*)
(***************************************************************************)
THEOREM OnlyTheLeaderSubmits ==
  ASSUME OwnNames PROVE StoreSpec => []LeaderOnly
  BY OwnNames, LeadInvariant, PTL DEF LeadInv

----------------------------------------------------------------------------
(* The pause switch.                                                       *)

\* Nobody is inside a submission while dispatch is paused.
InsideUnpaused == \A c \in Clients : Inside(c) => ~paused

PauseInv == StoreInv /\ InsideUnpaused

\* The switch stays, and whoever is inside already was.
LEMMA QuietPause ==
  ASSUME InsideUnpaused, paused' = paused,
         \A d \in Clients : Inside(d)' => Inside(d)
  PROVE  InsideUnpaused'
  BY DEF InsideUnpaused

LEMMA PauseStep ==
  ASSUME PauseInv, StoreInv', StoreNext
  PROVE  PauseInv' /\ (accepted' # accepted => ~paused \/ orphans' # orphans)
  <1> USE DEF PauseInv
  <1>0. call \in [Clients -> Call]
    BY DEF StoreInv, TypeOK
  <1>1. SUFFICES /\ InsideUnpaused'
                 /\ accepted' # accepted => ~paused \/ orphans' # orphans
    OBVIOUS
  <1>2. CASE LeaseStep
    <2>1. UNCHANGED <<call, paused, taskVars>>
      BY <1>2 DEF LeaseStep, ExpireLease, AcquireLease, RenewLease, ReleaseLease
    <2> QED
      BY <2>1, QuietPause DEF Inside, taskVars
  <1>3. CASE SubmitStep
    <2>1. ASSUME NEW c \in Clients, NEW j \in Jobs, AskSubmit(c, j) PROVE <1>1!1
      <3>1. \A d \in Clients : Inside(d)' => Inside(d)
        BY <2>1, <1>0 DEF AskSubmit, Inside
      <3> QED
        BY <2>1, <3>1, QuietPause DEF AskSubmit, taskVars
    <2>2. ASSUME NEW c \in Clients, OpenSubmit(c) PROVE <1>1!1
      BY <2>2 DEF OpenSubmit, InsideUnpaused, taskVars
    <2>3. ASSUME NEW c \in Clients,
                 FencedSubmit(c) \/ PausedSubmit(c) \/ AbortSubmit(c) \/ CommitSubmit(c)
          PROVE  <1>1!1
      <3>1. call' = [call EXCEPT ![c] = NoCall] /\ UNCHANGED <<paused, taskVars>>
        BY <2>3 DEF FencedSubmit, PausedSubmit, AbortSubmit, CommitSubmit
      <3> QED
        BY <3>1, CallEnds, QuietPause DEF taskVars
    <2>4. ASSUME NEW c \in Clients, Submit(c) PROVE <1>1!1
      <3>1. \A d \in Clients : Inside(d)' => Inside(d)
        BY <2>4, <1>0 DEF Submit, Inside
      <3>2. ~paused
        BY <2>4 DEF Submit, InsideUnpaused, Inside
      <3> QED
        BY <2>4, <3>1, <3>2, QuietPause DEF Submit
    <2> QED
      BY <1>3, <2>1, <2>2, <2>3, <2>4 DEF SubmitStep
  <1>4. CASE JobStep
    <2>1. UNCHANGED <<leaseVars, paused, taskVars>>
      BY <1>4 DEF JobStep, PrepareSubmission, EnqueueJob, ClaimJobByID, FinishJob,
        SetJobExternalRefs, MarkJobReconciled, SetOutboxState, RetryTime,
        RecordDispatchOnce, leaseVars, taskVars, jobVars
    <2> QED
      BY <2>1, QuietPause DEF leaseVars, taskVars, Inside
  <1>5. ASSUME NEW b \in BOOLEAN, SetPaused(b) PROVE <1>1!1
    BY <1>5 DEF SetPaused, WriterFree, leaseVars, taskVars, InsideUnpaused, Inside
  <1>6. ASSUME NEW c \in Clients, Kill(c) PROVE <1>1!1
    BY <1>6, CallEnds, QuietPause DEF Kill
  <1>7. ASSUME NEW j \in Jobs, LateSubmit(j) PROVE <1>1!1
    <2>1. orphans' # orphans
      BY <1>7 DEF LateSubmit
    <2> QED
      BY <1>7, <2>1, QuietPause DEF LateSubmit, leaseVars, Inside
  <1> QED
    BY <1>2, <1>3, <1>4, <1>5, <1>6, <1>7 DEF StoreNext

(***************************************************************************)
(* Unless a scheduler client outlives the daemon that started it, a        *)
(* successful pause is never followed by a submission: SetPaused waits for *)
(* the writer lock that WithDispatchLease holds until the answer is in.    *)
(***************************************************************************)
THEOREM PauseIsHonoured == StoreSpec => PauseHonoured
  <1>1. StoreInit /\ StoreInv => PauseInv
    BY DEF StoreInit, PauseInv, InsideUnpaused, Inside, NoCall
  <1>2. ASSUME PauseInv, StoreInv', [StoreNext]_storeVars
        PROVE  PauseInv' /\ [accepted' # accepted => ~paused \/ orphans' # orphans]_storeVars
    <2>1. CASE UNCHANGED storeVars
      BY <1>2, <2>1, QuietPause DEF storeVars, PauseInv, Inside
    <2>2. CASE StoreNext
      BY <1>2, <2>2, PauseStep
    <2> QED
      BY <1>2, <2>1, <2>2
  <1> QED
    BY <1>1, <1>2, StoreInvariant, PTL DEF StoreSpec, PauseHonoured

----------------------------------------------------------------------------
(* What job rows say of the past.                                          *)

\* Only a job in a terminal state has been imported.
ImportedIsTerminal == \A j \in Jobs : job[j].reconciled => job[j].state \in JobTerminal

LEMMA JobStepKeeps ==
  ASSUME StoreInv, ImportedIsTerminal, JobStep
  PROVE  ImportedIsTerminal' /\ (\A j \in Jobs : RowKept(j)) /\ CountedOnce
  <1>0. job \in [Jobs -> JobRow] /\ units \in Nat
    BY DEF StoreInv, TypeOK
  <1>a. CountedOnce
    <2>1. ASSUME NEW j \in Jobs, RecordDispatchOnce(j), units' # units PROVE CountedOnce
      <3>1. job' = [job EXCEPT ![j].accounted = TRUE] /\ ~job[j].accounted /\ units' = units + 1
        BY <2>1 DEF RecordDispatchOnce
      <3>2. job'[j].accounted
        BY <1>0, <3>1 DEF JobRow
      <3> QED
        BY <3>1, <3>2 DEF CountedOnce
    <2>2. ASSUME units' # units PROVE \E j \in Jobs : RecordDispatchOnce(j)
      BY <2>2 DEF JobStep, PrepareSubmission, EnqueueJob, ClaimJobByID, FinishJob,
        SetJobExternalRefs, MarkJobReconciled, SetOutboxState, RetryTime
    <2> QED
      BY <2>1, <2>2 DEF CountedOnce
  <1> SUFFICES ASSUME NEW k \in Jobs
               PROVE  RowKept(k) /\ (job'[k].reconciled => job'[k].state \in JobTerminal)
    BY <1>a DEF ImportedIsTerminal
  <1>1. job[k].reconciled => job[k].state \in JobTerminal
    BY DEF ImportedIsTerminal
  <1>2. PICK j \in Jobs :
          \/ PrepareSubmission(j) \/ EnqueueJob(j) \/ ClaimJobByID(j)
          \/ RecordDispatchOnce(j) \/ RetryTime(j)
          \/ \E s \in JobFinished : FinishJob(j, 1, s)
          \/ \E t \in Tasks : SetJobExternalRefs(j, 1, t)
          \/ MarkJobReconciled(j, 1)
          \/ \E s \in {"failed", "succeeded"} : SetOutboxState(j, s)
    BY DEF JobStep
  <1>3. CASE job'[k] = job[k]
    BY <1>1, <1>3 DEF RowKept
  <1>4. ASSUME job'[k] # job[k] PROVE k = j
    BY <1>0, <1>2, <1>4 DEF PrepareSubmission, EnqueueJob, ClaimJobByID,
      FinishJob, SetJobExternalRefs, MarkJobReconciled, SetOutboxState, RetryTime,
      RecordDispatchOnce
  <1>5. CASE k = j
    <2> USE <1>0, <1>1, <1>5 DEF RowKept, JobFinished, JobTerminal, JobRow
    <2>1. CASE PrepareSubmission(j) \/ EnqueueJob(j) \/ ClaimJobByID(j)
      BY <2>1 DEF PrepareSubmission, EnqueueJob, ClaimJobByID
    <2>2. CASE RecordDispatchOnce(j)
      BY <2>2 DEF RecordDispatchOnce
    <2>3. CASE RetryTime(j) \/ \E s \in {"failed", "succeeded"} : SetOutboxState(j, s)
      BY <2>3 DEF RetryTime, SetOutboxState
    <2>4. ASSUME NEW s \in JobFinished, FinishJob(j, 1, s)
          PROVE  RowKept(k) /\ (job'[k].reconciled => job'[k].state \in JobTerminal)
      BY <2>4 DEF FinishJob
    <2>5. ASSUME NEW t \in Tasks, SetJobExternalRefs(j, 1, t)
          PROVE  RowKept(k) /\ (job'[k].reconciled => job'[k].state \in JobTerminal)
      BY <2>5 DEF SetJobExternalRefs, BindAllowed
    <2>6. CASE MarkJobReconciled(j, 1)
      BY <2>6 DEF MarkJobReconciled
    <2> QED
      BY <1>2, <2>1, <2>2, <2>3, <2>4, <2>5, <2>6
  <1> QED
    BY <1>3, <1>4, <1>5

LEMMA HistoryStep ==
  ASSUME StoreInv, ImportedIsTerminal, [StoreNext]_storeVars
  PROVE  ImportedIsTerminal' /\ (\A j \in Jobs : RowKept(j)) /\ CountedOnce
  <1>1. CASE job' = job /\ units' = units
    BY <1>1 DEF ImportedIsTerminal, RowKept, CountedOnce
  <1>2. CASE JobStep
    BY <1>2, JobStepKeeps
  <1>3. CASE UNCHANGED storeVars
    BY <1>1, <1>3 DEF storeVars
  <1> QED
    BY <1>1, <1>2, <1>3 DEF StoreNext, LeaseStep, ExpireLease, AcquireLease,
      RenewLease, ReleaseLease, SubmitStep, AskSubmit, OpenSubmit, FencedSubmit,
      PausedSubmit, Submit, CommitSubmit, AbortSubmit, SetPaused, Kill, LateSubmit,
      jobVars

(***************************************************************************)
(* A late or stale caller cannot rewrite a finished job, replace its task  *)
(* or take back its import (FinishJob, SetJobExternalRefs,                 *)
(* MarkJobReconciled are conditional updates), nor count it again.         *)
(***************************************************************************)
THEOREM HistoryIsKept == StoreSpec => JobHistory
  <1>1. StoreInit => ImportedIsTerminal
    BY DEF StoreInit, ImportedIsTerminal, AbsentJob
  <1>2. ASSUME StoreInv, ImportedIsTerminal, [StoreNext]_storeVars
        PROVE  ImportedIsTerminal' /\ [(\A j \in Jobs : RowKept(j)) /\ CountedOnce]_storeVars
    BY <1>2, HistoryStep
  <1> QED
    BY <1>1, <1>2, StoreInvariant, PTL DEF StoreSpec, JobHistory


-----------------------------------------------------------------------------
(***************************************************************************)
(* Daemons and workers.                                                    *)
(*                                                                         *)
(* A step of a daemon changes what it keeps of its tick, and shared rows   *)
(* and files only in ways that do not take back what another daemon has    *)
(* read (Kept).  So an invariant is shown daemon by daemon.                *)
(***************************************************************************)

USE OperationBounds, FaultsAssumption, DirectAssumption, NobodyAssumption

-----------------------------------------------------------------------------
(* What a daemon knows at each step of its tick.                           *)

\* The steps at which a daemon has a job at hand, and those of dispatching.
Scheduling == {"retry", "giveup", "block", "submit", "refs", "account", "publish",
               "attach", "prepare", "intent", "authorize"}
Acting == Scheduling \cup {"replay", "lost"}
AfterPage == Scheduling \cup {"recover", "pool"}

HasJob(d) ==
    /\ tick[d].pc \in Acting => tick[d].job \in Jobs
    /\ tick[d].pc \in Scheduling => tick[d].job \in Own(d) \ Direct

HasTask(d) ==
    /\ tick[d].pc \in {"refs", "account", "attach"} => tick[d].task \in Tasks
    /\ tick[d].pc = "publish" /\ tick[d].mode \in {"resubmit", "dispatch"} =>
         tick[d].task \in Tasks
    /\ tick[d].pc \in {"giveup", "block"} => tick[d].mode \in {"found", "end"}
    /\ tick[d].pc = "submit" => tick[d].mode \in {"resubmit", "dispatch"}
    /\ tick[d].pc \in {"prepare", "intent", "authorize"} => tick[d].mode = "dispatch"

\* A daemon is inside WithDispatchLease exactly while its tick submits.
Calling(d) ==
    /\ tick[d].pc = "submit" <=> call[d].stage # "none"
    /\ tick[d].pc = "submit" => call[d].job = tick[d].job
    /\ call[d].stage = "sent" => tick[d].task \in Tasks

Listed(d) ==
    /\ tick[d].pc \in {"reconcile", "mark"} =>
         \A j \in tick[d].todo : j \in Own(d) /\ job[j].state \in Outcome
    /\ tick[d].pc = "mark" =>
         \A j \in tick[d].todo :
            attempt[j].source = "direct" /\ attempt[j].state = job[j].state
    /\ tick[d].pc \in AfterPage =>
         \A j \in tick[d].todo : j \in Own(d) /\ outbox[j].state # "absent"
    /\ tick[d].pc = "replay" => marker[tick[d].job].final # "none"

Local(d) == HasJob(d) /\ HasTask(d) /\ Calling(d) /\ Listed(d)

\* What holds of the rows, tasks and Attempts at any time.
Rows ==
    /\ Len(accepted) <= MaxTasks
    /\ \A j \in Jobs :
        /\ job[j].state # "cancelled"
        /\ outbox[j].state # "absent" => j \notin Direct
        /\ attempt[j].source = "direct" => attempt[j].state \in Outcome
    /\ \A t \in Tasks :
        task[t] \in {"written", "placing", "marked", "found"} => result[t] \in Outcome

DispatchInv ==
    /\ StoreInv /\ DispatchTypeOK /\ Rows /\ ImportAcked
    /\ \A d \in Clients : Local(d)

-----------------------------------------------------------------------------
(* What no step takes back.                                                *)

\* Of the rows, which only the operations of the store change.
RowsKept ==
    /\ \A j \in Jobs : RowKept(j) /\ (outbox[j].state # "absent" => outbox'[j].state # "absent")
    /\ \A j \in Jobs : outbox'[j].state # "absent" => outbox[j].state # "absent" \/ j \notin Direct
    /\ Len(accepted') <= MaxTasks

LEMMA StoreKeepsRows ==
  ASSUME DispatchInv, [StoreNext]_storeVars
  PROVE  RowsKept
<1>1. ImportedIsTerminal
  BY DEF DispatchInv, ImportAcked, Rows, ImportedIsTerminal, JobTerminal, Outcome
<1>2. \A j \in Jobs : RowKept(j)
  BY <1>1, HistoryStep DEF DispatchInv
<1>3. ASSUME NEW j \in Jobs
      PROVE  /\ outbox[j].state # "absent" => outbox'[j].state # "absent"
             /\ outbox'[j].state # "absent" => outbox[j].state # "absent" \/ j \notin Direct
  <2>1. outbox \in [Jobs -> Intent]
    BY DEF DispatchInv, StoreInv, TypeOK
  <2>2. CASE UNCHANGED outbox
    BY <2>2
  <2>3. CASE JobStep
    <3>1. PICK k \in Jobs :
            \/ PrepareSubmission(k) \/ RetryTime(k) \/ UNCHANGED outbox
            \/ \E s \in {"failed", "succeeded"} : SetOutboxState(k, s)
      BY <2>3 DEF JobStep, EnqueueJob, ClaimJobByID, RecordDispatchOnce, FinishJob,
             SetJobExternalRefs, MarkJobReconciled
    <3> QED BY <2>1, <3>1 DEF PrepareSubmission, RetryTime, SetOutboxState, Intent
  <2> QED
    BY <2>2, <2>3 DEF StoreNext, LeaseStep, ExpireLease, AcquireLease, RenewLease,
       ReleaseLease, SubmitStep, AskSubmit, OpenSubmit, FencedSubmit, PausedSubmit,
       Submit, CommitSubmit, AbortSubmit, SetPaused, Kill, LateSubmit, jobVars,
       storeVars
<1>4. Len(accepted') <= MaxTasks
  <2>1. accepted \in Seq(Jobs) /\ Len(accepted) <= MaxTasks /\ CallHasJob
    BY DEF DispatchInv, StoreInv, TypeOK, Rows
  <2>2. CASE UNCHANGED accepted
    BY <2>1, <2>2
  <2>3. ASSUME NEW c \in Clients, Submit(c) PROVE Len(accepted') <= MaxTasks
    BY <2>1, <2>3 DEF Submit, CallHasJob
  <2>4. ASSUME NEW j \in Jobs, LateSubmit(j) PROVE Len(accepted') <= MaxTasks
    BY <2>1, <2>4 DEF LateSubmit
  <2> QED
    BY <2>2, <2>3, <2>4 DEF StoreNext, LeaseStep, ExpireLease, AcquireLease, RenewLease,
       ReleaseLease, SubmitStep, AskSubmit, OpenSubmit, FencedSubmit, PausedSubmit,
       CommitSubmit, AbortSubmit, SetPaused, Kill, JobStep, PrepareSubmission,
       EnqueueJob, ClaimJobByID, RecordDispatchOnce, RetryTime, FinishJob,
       SetJobExternalRefs, MarkJobReconciled, SetOutboxState, taskVars, storeVars
<1> QED BY <1>2, <1>3, <1>4 DEF RowsKept

\* Of the records, which the steps of this module change: markers stay, and so
\* do the observations of workers; a row is acknowledged when it is imported.
RecordsKept ==
    /\ DispatchTypeOK'
    /\ \A j \in Jobs :
        /\ job'[j].state # "cancelled"
        /\ marker[j].final # "none" => marker'[j].final # "none"
        /\ attempt[j].source = "direct" =>
             attempt'[j].source = "direct" /\ attempt'[j].state = attempt[j].state
        /\ attempt'[j].source = "direct" => attempt'[j].state \in Outcome
        /\ job'[j].reconciled => \/ job[j].reconciled
                                 \/ attempt[j].source = "direct" /\ attempt[j].state = job[j].state
    /\ \A t \in Tasks :
        task'[t] \in {"written", "placing", "marked", "found"} => result'[t] \in Outcome

\* Every step is an operation of the store, or leaves it alone, takes nothing
\* back, and concerns no daemon outside D.
Step(D) ==
    /\ [StoreNext]_storeVars
    /\ RecordsKept
    /\ \A e \in Clients \ D : tick'[e] = tick[e] /\ call'[e] = call[e]
    /\ \A d \in D : Local(d)'

LEMMA StepKeepsInv ==
  ASSUME DispatchInv, NEW D \in SUBSET Clients, Step(D)
  PROVE  DispatchInv'
<1>1. StoreInv'
  BY StoreInvStep DEF DispatchInv, Step
<1>2. RowsKept
  BY StoreKeepsRows DEF Step
<1>3. Rows'
  BY <1>2 DEF DispatchInv, Rows, RowsKept, RecordsKept, Step
<1>4. ImportAcked'
  <2>1. ASSUME NEW j \in Jobs, job'[j].reconciled
        PROVE  attempt'[j].source = "direct" /\ attempt'[j].state = job'[j].state
    <3>1. attempt[j].source = "direct" /\ attempt[j].state = job[j].state
      BY <2>1 DEF DispatchInv, ImportAcked, RecordsKept, Step
    <3>2. job[j].state \in JobFinished
      BY <3>1 DEF DispatchInv, Rows, JobFinished, JobTerminal, Outcome
    <3> QED BY <1>2, <3>1, <3>2 DEF RowsKept, RowKept, RecordsKept, Step
  <2> QED BY <2>1 DEF ImportAcked
<1>5. ASSUME NEW e \in Clients \ D PROVE Local(e)'
  <2>1. /\ Local(e) /\ tick'[e] = tick[e] /\ call'[e] = call[e]
        /\ tick[e] \in Tick
    BY DEF DispatchInv, DispatchTypeOK, Step
  <2>2. HasJob(e)' /\ HasTask(e)' /\ Calling(e)'
    BY <2>1 DEF Local, HasJob, HasTask, Calling, Own
  <2>3. \A j \in tick[e].todo : j \in Jobs
    BY <2>1 DEF Tick
  <2>4. \A j \in Jobs : job[j].state \in Outcome => job'[j].state = job[j].state
    BY <1>2 DEF RowsKept, RowKept, JobFinished, JobTerminal, Outcome
  <2>5. Listed(e)'
    BY <1>2, <2>1, <2>3, <2>4
       DEF Local, HasJob, Acting, Listed, Own, RowsKept, RecordsKept, Step
  <2> QED BY <2>2, <2>5 DEF Local
<1>6. \A d \in Clients : Local(d)'
  BY <1>5 DEF Step
<1> QED BY <1>1, <1>3, <1>4, <1>6 DEF DispatchInv, Step, RecordsKept

-----------------------------------------------------------------------------
(* The fields of a tick.                                                   *)

TickPc == {"idle", "snapshot", "list", "scan", "replay", "lost", "reconcile", "mark",
           "page", "recover", "retry", "giveup", "block", "submit", "refs", "account",
           "publish", "attach", "pool", "prepare", "intent", "authorize", "release"}
TickMode == {"found", "resubmit", "dispatch", "end"}

LEMMA TickWith ==
  ASSUME NEW x \in Tick
  PROVE  /\ \A pc \in TickPc : [x EXCEPT !.pc = pc] \in Tick
         /\ \A s \in [Tasks -> Seen] : [x EXCEPT !.snap = s] \in Tick
         /\ \A S \in SUBSET Jobs : [x EXCEPT !.todo = S] \in Tick
         /\ \A S \in SUBSET Jobs : [x EXCEPT !.ended = S] \in Tick
         /\ \A j \in Jobs \cup {None} : [x EXCEPT !.job = j] \in Tick
         /\ \A t \in 0 .. MaxTasks : [x EXCEPT !.task = t] \in Tick
         /\ \A m \in TickMode : [x EXCEPT !.mode = m] \in Tick
         /\ \A b \in BOOLEAN : [x EXCEPT !.allow = b] \in Tick
<1>1. \A pc \in TickPc : [x EXCEPT !.pc = pc] \in Tick
  BY Zenon DEF Tick, TickPc
<1>2. \A s \in [Tasks -> Seen] : [x EXCEPT !.snap = s] \in Tick
  BY Zenon DEF Tick
<1>3. \A S \in SUBSET Jobs : [x EXCEPT !.todo = S] \in Tick
  BY Zenon DEF Tick
<1>4. \A S \in SUBSET Jobs : [x EXCEPT !.ended = S] \in Tick
  BY Zenon DEF Tick
<1>5. \A j \in Jobs \cup {None} : [x EXCEPT !.job = j] \in Tick
  BY Zenon DEF Tick
<1>6. \A t \in 0 .. MaxTasks : [x EXCEPT !.task = t] \in Tick
  BY Zenon DEF Tick
<1>7. \A m \in TickMode : [x EXCEPT !.mode = m] \in Tick
  BY Zenon DEF Tick, TickMode
<1>8. \A b \in BOOLEAN : [x EXCEPT !.allow = b] \in Tick
  BY Zenon DEF Tick
<1> QED BY <1>1, <1>2, <1>3, <1>4, <1>5, <1>6, <1>7, <1>8

LEMMA TickFields ==
  ASSUME NEW x \in Tick
  PROVE  /\ x.pc \in TickPc
         /\ x.snap \in [Tasks -> Seen]
         /\ x.todo \in SUBSET Jobs
         /\ x.ended \in SUBSET Jobs
         /\ x.job \in Jobs \cup {None}
         /\ x.task \in 0 .. MaxTasks
         /\ x.mode \in TickMode
         /\ x.allow \in BOOLEAN
  BY DEF Tick, TickPc, TickMode

\* Only the tick of d changes, and stays one.
Turns(d) ==
    /\ tick' \in [Clients -> Tick]
    /\ \A e \in Clients \ {d} : tick'[e] = tick[e]

LEMMA TicksTyped ==
  ASSUME DispatchInv
  PROVE  /\ tick \in [Clients -> Tick]
         /\ \A d \in Clients : tick[d] \in Tick /\ Local(d)
  BY DEF DispatchInv, DispatchTypeOK

LEMMA Turn ==
  ASSUME DispatchInv, NEW d \in Clients, NEW r \in Tick, tick' = [tick EXCEPT ![d] = r]
  PROVE  Turns(d) /\ tick'[d] = r
  BY TicksTyped DEF Turns

-----------------------------------------------------------------------------
(* Steps of a tick that read, decide or fail: only the tick changes.       *)

LEMMA LookStep ==
  ASSUME DispatchInv, NEW d \in Clients, UNCHANGED <<storeVars, recordVars>>,
         Turns(d), Local(d)'
  PROVE  Step({d})
<1>1. RecordsKept
  BY DEF DispatchInv, DispatchTypeOK, Rows, ImportAcked, RecordsKept, Turns, recordVars,
         storeVars
<1> QED BY <1>1 DEF Step, Turns, storeVars

LEMMA NoTickTyped == NoTick \in Tick
<1>1. Blank \in [Tasks -> Seen]
  BY DEF Blank, Seen
<1> QED BY <1>1 DEF NoTick, Tick

\* A tick on its way out.
Leaves(d) == tick'[d].pc \in {"release", "idle"} /\ Turns(d)

LEMMA OutIsLocal ==
  ASSUME NEW d \in Clients, tick'[d].pc \in {"release", "idle", "snapshot", "list", "scan",
         "page"}, call'[d].stage = "none"
  PROVE  Local(d)'
  BY DEF Local, HasJob, HasTask, Calling, Listed, Acting, Scheduling, AfterPage

LEMMA NotCalling ==
  ASSUME DispatchInv, NEW d \in Clients, tick[d].pc # "submit"
  PROVE  call[d].stage = "none"
  BY TicksTyped DEF Local, Calling

LEMMA FailTurns ==
  ASSUME DispatchInv, NEW d \in Clients,
         NEW why \in {"", "torn", "finished", "scope", "conflict", "fenced", "ended", "blocked"},
         Fail(d, why)
  PROVE  Leaves(d) /\ UNCHANGED <<storeVars, recordVars>>
<1> DEFINE r == [NoTick EXCEPT !.pc = "release", !.why = why]
<1>1. r \in Tick /\ r.pc = "release"
  BY NoTickTyped DEF Tick
<1>2. tick' = [tick EXCEPT ![d] = r]
  BY DEF Fail
<1> HIDE DEF r
<1> QED BY <1>1, <1>2, TicksTyped DEF Leaves, Turns, Fail

LEMMA LeaveTurns ==
  ASSUME DispatchInv, NEW d \in Clients, Leave(d)
  PROVE  Leaves(d)
<1> DEFINE r == [NoTick EXCEPT !.pc = "release"]
<1>1. r \in Tick /\ r.pc = "release"
  BY NoTickTyped DEF Tick
<1>2. tick' = [tick EXCEPT ![d] = r]
  BY DEF Leave
<1> HIDE DEF r
<1> QED BY <1>1, <1>2, TicksTyped DEF Leaves, Turns

LEMMA FailSteps ==
  ASSUME DispatchInv, NEW d \in Clients,
         \/ ScanTorn(d) \/ ScanForeign(d) \/ MarkUnknownFenced(d) \/ ReconcileTorn(d)
         \/ ReconcileConflict(d) \/ GiveUpFenced(d) \/ BlockRefused(d) \/ RefsConflict(d)
         \/ AttachConflict(d) \/ KeepFenced(d) \/ IntentConflict(d) \/ StepFails(d)
         \/ PoolIdle(d)
  PROVE  Step({d})
<1>1. tick[d].pc # "submit"
  BY DEF ScanTorn, ScanForeign, MarkUnknownFenced, ReconcileTorn, ReconcileConflict,
         GiveUpFenced, BlockRefused, RefsConflict, AttachConflict, KeepFenced,
         IntentConflict, StepFails, PoolIdle, At
<1>2. Leaves(d) /\ UNCHANGED <<storeVars, recordVars>>
  <2>1. CASE PoolIdle(d)
    BY <2>1, LeaveTurns DEF PoolIdle, ReadOnly
  <2>2. CASE ~PoolIdle(d)
    BY <2>2, FailTurns DEF ScanTorn, ScanForeign, MarkUnknownFenced, ReconcileTorn,
           ReconcileConflict, GiveUpFenced, BlockRefused, RefsConflict, AttachConflict,
           KeepFenced, IntentConflict, StepFails
  <2> QED BY <2>1, <2>2
<1>3. Local(d)'
  BY <1>1, <1>2, NotCalling, OutIsLocal DEF Leaves, storeVars
<1> QED BY <1>2, <1>3, LookStep DEF Leaves

LEMMA ScanLooks ==
  ASSUME DispatchInv, NEW d \in Clients,
         \/ Snapshot(d) \/ ListRunning(d) \/ ListTerminal(d) \/ ReadPause(d)
  PROVE  Step({d})
<1>0. PICK x \in Tick : x = tick[d]
  BY TicksTyped
<1>a. tick[d].pc # "submit" /\ UNCHANGED <<storeVars, recordVars>>
  BY DEF Snapshot, ListRunning, ListTerminal, ReadPause, Look, At
<1>b. call'[d].stage = "none"
  BY <1>a, NotCalling DEF storeVars
<1>1. CASE Snapshot(d)
  <2> DEFINE snap == [t \in Tasks |-> Observed(task[t])]
             r == [x EXCEPT !.pc = "list", !.snap = snap]
  <2>1. ASSUME NEW t \in Tasks PROVE Observed(task[t]) \in Seen
    BY DEF DispatchInv, DispatchTypeOK, Observed, Seen, Stage
  <2>2. snap \in [Tasks -> Seen]
    BY <2>1
  <2>3. tick' = [tick EXCEPT ![d] = r]
    BY <1>0, <1>1 DEF Snapshot, Look
  <2> HIDE DEF snap
  <2>4. r \in Tick
    BY <2>2, TickWith DEF TickPc
  <2>5. r.pc = "list"
    BY DEF Tick
  <2> HIDE DEF r
  <2> QED BY <1>a, <1>b, <2>3, <2>4, <2>5, Turn, LookStep, OutIsLocal
<1>2. CASE ListRunning(d)
  <2> DEFINE todo == {j \in Jobs : job[j].state = "running"}
             ended == {j \in Jobs : /\ job[j].state = "running"
                                    /\ job[j].task # 0
                                    /\ x.snap[job[j].task] \in Outcome}
             r == [x EXCEPT !.pc = "scan", !.todo = todo, !.ended = ended]
  <2>1. todo \in SUBSET Jobs /\ ended \in SUBSET Jobs
    OBVIOUS
  <2>2. tick' = [tick EXCEPT ![d] = r]
    BY <1>0, <1>2 DEF ListRunning, Look
  <2> HIDE DEF todo, ended
  <2>3. r \in Tick
    BY <2>1, TickWith DEF TickPc
  <2>4. r.pc = "scan"
    BY DEF Tick
  <2> HIDE DEF r
  <2> QED BY <1>a, <1>b, <2>2, <2>3, <2>4, Turn, LookStep, OutIsLocal
<1>3. CASE ListTerminal(d)
  <2> DEFINE todo == {j \in Own(d) : job[j].state \in JobTerminal /\ ~job[j].reconciled}
             r == [x EXCEPT !.pc = "reconcile", !.todo = todo]
  <2>1. todo \in SUBSET Jobs
    BY DEF Own
  <2>2. tick' = [tick EXCEPT ![d] = r]
    BY <1>0, <1>3 DEF ListTerminal, Look
  <2>3. \A j \in todo : j \in Own(d) /\ job[j].state \in Outcome
    BY DEF Own, DispatchInv, Rows, JobTerminal, Outcome
  <2> HIDE DEF todo
  <2>4. r \in Tick
    BY <2>1, TickWith DEF TickPc
  <2>5. r.pc = "reconcile" /\ r.todo = todo
    BY DEF Tick
  <2> HIDE DEF r
  <2>6. Turns(d) /\ tick'[d].pc = "reconcile" /\ tick'[d].todo = todo
    BY <2>2, <2>4, <2>5, Turn
  <2>7. Local(d)'
    BY <1>a, <1>b, <2>3, <2>6
       DEF Local, HasJob, HasTask, Calling, Listed, Acting, Scheduling, AfterPage, Own, storeVars
  <2> QED BY <1>a, <2>6, <2>7, LookStep
<1>4. CASE ReadPause(d)
  <2> DEFINE r == [x EXCEPT !.pc = "page", !.allow = ~paused]
  <2>1. r \in Tick
    BY TickWith DEF TickPc
  <2>2. r.pc = "page"
    BY DEF Tick
  <2>3. tick' = [tick EXCEPT ![d] = r]
    BY <1>0, <1>4 DEF ReadPause, Look
  <2> HIDE DEF r
  <2> QED BY <1>a, <1>b, <2>1, <2>2, <2>3, Turn, LookStep, OutIsLocal
<1> QED BY <1>1, <1>2, <1>3, <1>4

-----------------------------------------------------------------------------
(* Steps between a page of intents and the end of the tick.                *)

\* What is left to show of a daemon that goes on as r, outside a submission.
Ready(d, r) ==
    /\ r.pc \in AfterPage \ {"submit"}
    /\ \A j \in r.todo : j \in Own(d) /\ outbox[j].state # "absent"
    /\ r.pc \in Scheduling => r.job \in Own(d) \ Direct
    /\ r.pc \in {"refs", "account", "attach"} => r.task \in Tasks
    /\ r.pc = "publish" /\ r.mode \in {"resubmit", "dispatch"} => r.task \in Tasks
    /\ r.pc \in {"giveup", "block"} => r.mode \in {"found", "end"}
    /\ r.pc \in {"prepare", "intent", "authorize"} => r.mode = "dispatch"

LEMMA ReadyIsLocal ==
  ASSUME NEW d \in Clients, NEW r \in Tick, Ready(d, r), tick'[d] = r,
         call'[d].stage = "none", RowsKept
  PROVE  Local(d)'
<1>1. r.todo \in SUBSET Jobs
  BY TickFields
<1>2. HasJob(d)'
  BY DEF Ready, HasJob, Acting, Scheduling, AfterPage, Own
<1>3. HasTask(d)'
  BY DEF Ready, HasTask, AfterPage, Scheduling
<1>4. Calling(d)'
  BY DEF Ready, Calling, AfterPage, Scheduling
<1>5. Listed(d)'
  BY <1>1 DEF Ready, Listed, RowsKept, AfterPage, Scheduling, Own
<1> QED BY <1>2, <1>3, <1>4, <1>5 DEF Local

LEMMA NothingKept ==
  ASSUME DispatchInv, UNCHANGED storeVars
  PROVE  RowsKept
  BY StoreKeepsRows

\* What is known at the steps of recovery and of the pool.
LEMMA TodoOwned ==
  ASSUME DispatchInv, NEW d \in Clients, tick[d].pc \in AfterPage
  PROVE  /\ \A j \in tick[d].todo : j \in Own(d) /\ outbox[j].state # "absent" /\ j \notin Direct
         /\ tick[d].pc \in Scheduling => tick[d].job \in Own(d) \ Direct
  BY DEF DispatchInv, Rows, Local, Listed, HasJob, Own

LEMMA ReadyStep ==
  ASSUME DispatchInv, NEW d \in Clients, NEW r \in Tick, Ready(d, r),
         tick' = [tick EXCEPT ![d] = r], tick[d].pc # "submit",
         UNCHANGED <<storeVars, recordVars>>
  PROVE  Step({d})
<1>1. call'[d].stage = "none"
  BY NotCalling DEF storeVars
<1> QED BY <1>1, Turn, NothingKept, ReadyIsLocal, LookStep

LEMMA RecoverLooks ==
  ASSUME DispatchInv, NEW d \in Clients,
         \/ Page(d) \/ PageDone(d)
         \/ \E j \in Jobs : \/ RecoverUnknown(d, j) \/ RecoverFound(d, j)
                            \/ RecoverPaused(d, j) \/ RecoverLater(d, j) \/ RecoverBlocked(d, j)
  PROVE  Step({d})
<1>0. PICK x \in Tick : x = tick[d]
  BY TicksTyped
<1>a. UNCHANGED <<storeVars, recordVars>> /\ tick[d].pc # "submit"
  BY DEF Page, PageDone, RecoverUnknown, RecoverFound, RecoverPaused, RecoverLater,
         RecoverBlocked, Missing, Taking, Look, ReadOnly, At
<1>b. call'[d].stage = "none"
  BY <1>a, NotCalling DEF storeVars
<1>1. CASE Page(d)
  <2> DEFINE due == Due(d)
             pc == IF Due(d) # {} THEN "recover"
                   ELSE IF tick[d].allow THEN "pool" ELSE "release"
             r == [x EXCEPT !.todo = due, !.pc = pc]
  <2>1. due \in SUBSET Jobs /\ pc \in {"recover", "pool", "release"}
        /\ \A j \in due : j \in Own(d) /\ outbox[j].state # "absent"
    BY DEF Due, Own
  <2>2. tick' = [tick EXCEPT ![d] = r]
    BY <1>0, <1>1 DEF Page, Look
  <2> HIDE DEF due, pc
  <2>3. r \in Tick
    BY <2>1, TickWith DEF TickPc
  <2>4. r.pc = pc /\ r.todo = due
    BY DEF Tick
  <2> HIDE DEF r
  <2>5. CASE pc = "release"
    BY <1>a, <1>b, <2>2, <2>3, <2>4, <2>5, Turn, LookStep, OutIsLocal
  <2>6. CASE pc # "release"
    BY <1>a, <2>1, <2>2, <2>3, <2>4, <2>6, ReadyStep DEF Ready, AfterPage, Scheduling
  <2> QED BY <2>5, <2>6
<1>2. CASE PageDone(d)
  <2> DEFINE pc == IF tick[d].allow THEN "page" ELSE "release"
             r == [x EXCEPT !.pc = pc]
  <2>1. pc \in {"page", "release"}
    OBVIOUS
  <2>2. tick' = [tick EXCEPT ![d] = r]
    BY <1>0, <1>2 DEF PageDone, Look
  <2> HIDE DEF pc
  <2>3. r \in Tick
    BY <2>1, TickWith DEF TickPc
  <2>4. r.pc = pc
    BY DEF Tick
  <2> HIDE DEF r
  <2> QED BY <1>a, <1>b, <2>1, <2>2, <2>3, <2>4, Turn, LookStep, OutIsLocal
<1>3. ASSUME NEW j \in Jobs,
             \/ RecoverUnknown(d, j) \/ RecoverFound(d, j)
             \/ RecoverPaused(d, j) \/ RecoverLater(d, j) \/ RecoverBlocked(d, j)
      PROVE  Step({d})
  <2>0. /\ tick[d].pc = "recover" /\ j \in x.todo /\ x.todo \in SUBSET Jobs
        /\ \A k \in x.todo : k \in Own(d) /\ outbox[k].state # "absent" /\ k \notin Direct
    BY <1>0, <1>3, TodoOwned, TickFields
       DEF RecoverUnknown, RecoverFound, RecoverPaused, RecoverLater, RecoverBlocked,
           Missing, Taking, At, AfterPage
  <2> DEFINE left == x.todo \ {j}
  <2>1. /\ left \in SUBSET Jobs
        /\ \A k \in left : k \in Own(d) /\ outbox[k].state # "absent"
        /\ j \in Own(d) \ Direct
    BY <2>0
  <2>2. ASSUME NEW pc \in {"block", "giveup", "retry"}, NEW mode \in {"found", "resubmit"},
               Take(d, j, pc, mode), pc # "retry" => mode = "found"
        PROVE  Step({d})
    <3> DEFINE r == [x EXCEPT !.todo = left, !.job = j, !.pc = pc, !.mode = mode]
    <3>1. tick' = [tick EXCEPT ![d] = r]
      BY <1>0, <2>2 DEF Take
    <3> HIDE DEF left
    <3>2. r \in Tick
      BY <2>1, TickWith DEF TickPc, TickMode
    <3>3. r.pc = pc /\ r.todo = left /\ r.job = j /\ r.mode = mode
      BY DEF Tick
    <3> HIDE DEF r
    <3>4. Ready(d, r)
      BY <2>1, <2>2, <3>3 DEF Ready, AfterPage, Scheduling
    <3> QED BY <1>a, <3>1, <3>2, <3>4, ReadyStep
  <2>3. CASE RecoverUnknown(d, j) \/ RecoverLater(d, j) \/ RecoverBlocked(d, j)
    BY <2>2, <2>3 DEF RecoverUnknown, RecoverLater, RecoverBlocked
  <2>4. CASE RecoverFound(d, j)
    <3> PICK t \in Tasks :
          tick' = [tick EXCEPT ![d].todo = @ \ {j}, ![d].job = j, ![d].pc = "refs",
                               ![d].mode = "found", ![d].task = t]
      BY <2>4 DEF RecoverFound
    <3> DEFINE r == [x EXCEPT !.todo = left, !.job = j, !.pc = "refs", !.mode = "found",
                              !.task = t]
    <3>1. tick' = [tick EXCEPT ![d] = r]
      BY <1>0
    <3> HIDE DEF left
    <3>2. t \in 0 .. MaxTasks
      BY DEF Tasks
    <3>3. r \in Tick
      BY <2>1, <3>2, TickWith DEF TickPc, TickMode
    <3>4. r.pc = "refs" /\ r.todo = left /\ r.job = j /\ r.task = t
      BY DEF Tick
    <3> HIDE DEF r
    <3>5. Ready(d, r)
      BY <2>1, <3>4 DEF Ready, AfterPage, Scheduling
    <3> QED BY <1>a, <3>1, <3>3, <3>5, ReadyStep
  <2>5. CASE RecoverPaused(d, j)
    <3> DEFINE r == [x EXCEPT !.todo = left]
    <3>1. tick' = [tick EXCEPT ![d] = r]
      BY <1>0, <2>5 DEF RecoverPaused
    <3> HIDE DEF left
    <3>2. r \in Tick
      BY <2>1, TickWith
    <3>3. r.pc = x.pc /\ r.todo = left
      BY DEF Tick
    <3> HIDE DEF r
    <3>4. Ready(d, r)
      BY <1>0, <2>0, <2>1, <3>3 DEF Ready, AfterPage, Scheduling
    <3> QED BY <1>a, <3>1, <3>2, <3>4, ReadyStep
  <2> QED BY <1>3, <2>3, <2>4, <2>5
<1> QED BY <1>1, <1>2, <1>3

LEMMA PoolLooks ==
  ASSUME DispatchInv, NEW d \in Clients,
         \/ \E j \in Jobs : PoolPick(d, j)
         \/ AuthorizeBlocked(d) \/ AuthorizeLater(d)
  PROVE  Step({d})
<1>0. PICK x \in Tick : x = tick[d]
  BY TicksTyped
<1>a. UNCHANGED <<storeVars, recordVars>>
  BY DEF PoolPick, AuthorizeBlocked, AuthorizeLater, ReadOnly
<1>b. tick[d].pc \in {"pool", "authorize"}
  BY DEF PoolPick, AuthorizeBlocked, AuthorizeLater, At
<1>c. /\ \A k \in x.todo : k \in Own(d) /\ outbox[k].state # "absent"
      /\ tick[d].pc = "authorize" => x.job \in Own(d) \ Direct
  BY <1>0, <1>b, TodoOwned DEF AfterPage, Scheduling
<1>1. ASSUME NEW j \in Jobs, PoolPick(d, j) PROVE Step({d})
  <2> DEFINE r == [x EXCEPT !.pc = "prepare", !.job = j, !.mode = "dispatch"]
  <2>1. tick' = [tick EXCEPT ![d] = r] /\ j \in Own(d) \ Direct
    BY <1>0, <1>1 DEF PoolPick, Candidates
  <2>2. r \in Tick
    BY TickWith DEF TickPc, TickMode
  <2>3. r.pc = "prepare" /\ r.todo = x.todo /\ r.job = j /\ r.mode = "dispatch"
    BY DEF Tick
  <2> HIDE DEF r
  <2>4. Ready(d, r)
    BY <1>c, <2>1, <2>3 DEF Ready, AfterPage, Scheduling
  <2> QED BY <1>a, <1>b, <2>1, <2>2, <2>4, ReadyStep
<1>2. CASE AuthorizeBlocked(d)
  <2> DEFINE r == [x EXCEPT !.pc = "giveup", !.mode = "end"]
  <2>1. tick' = [tick EXCEPT ![d] = r] /\ tick[d].pc = "authorize"
    BY <1>0, <1>2 DEF AuthorizeBlocked, At
  <2>2. r \in Tick
    BY TickWith DEF TickPc, TickMode
  <2>3. r.pc = "giveup" /\ r.todo = x.todo /\ r.job = x.job /\ r.mode = "end"
    BY DEF Tick
  <2> HIDE DEF r
  <2>4. Ready(d, r)
    BY <1>c, <2>1, <2>3 DEF Ready, AfterPage, Scheduling
  <2> QED BY <1>a, <1>b, <2>1, <2>2, <2>4, ReadyStep
<1>3. CASE AuthorizeLater(d)
  <2> DEFINE r == [x EXCEPT !.pc = "retry"]
  <2>1. tick' = [tick EXCEPT ![d] = r] /\ tick[d].pc = "authorize"
    BY <1>0, <1>3 DEF AuthorizeLater, Goto, At
  <2>2. r \in Tick
    BY TickWith DEF TickPc
  <2>3. r.pc = "retry" /\ r.todo = x.todo /\ r.job = x.job
    BY DEF Tick
  <2> HIDE DEF r
  <2>4. Ready(d, r)
    BY <1>c, <2>1, <2>3 DEF Ready, AfterPage, Scheduling
  <2> QED BY <1>a, <1>b, <2>1, <2>2, <2>4, ReadyStep
<1> QED BY <1>1, <1>2, <1>3

-----------------------------------------------------------------------------
(* Steps of a tick on the store.                                           *)

\* The ways a tick goes on.
LEMMA GotoForm ==
  ASSUME DispatchInv, NEW d \in Clients, NEW pc \in TickPc, Goto(d, pc)
  PROVE  \E r \in Tick :
            /\ tick' = [tick EXCEPT ![d] = r]
            /\ r.pc = pc /\ r.todo = tick[d].todo /\ r.job = tick[d].job
            /\ r.task = tick[d].task /\ r.mode = tick[d].mode /\ r.snap = tick[d].snap
<1>0. PICK x \in Tick : x = tick[d]
  BY TicksTyped
<1> DEFINE r == [x EXCEPT !.pc = pc]
<1>1. tick' = [tick EXCEPT ![d] = r]
  BY <1>0 DEF Goto
<1>2. r \in Tick
  BY TickWith
<1>3. /\ r.pc = pc /\ r.todo = x.todo /\ r.job = x.job
      /\ r.task = x.task /\ r.mode = x.mode /\ r.snap = x.snap
  BY DEF Tick
<1> QED BY <1>0, <1>1, <1>2, <1>3

LEMMA ResumeForm ==
  ASSUME DispatchInv, NEW d \in Clients, NEW pc \in TickPc, Resume(d, pc)
  PROVE  \E r \in Tick :
            /\ tick' = [tick EXCEPT ![d] = r]
            /\ r.pc = pc /\ r.todo = tick[d].todo /\ r.job = None
            /\ r.task = 0 /\ r.mode = "found" /\ r.snap = tick[d].snap
<1>0. PICK x \in Tick : x = tick[d]
  BY TicksTyped
<1> DEFINE r == [x EXCEPT !.pc = pc, !.job = None, !.task = 0, !.mode = "found"]
<1>1. tick' = [tick EXCEPT ![d] = r]
  BY <1>0 DEF Resume
<1>a. 0 \in 0 .. MaxTasks /\ None \in Jobs \cup {None}
  OBVIOUS
<1>2. r \in Tick
  BY <1>a, TickWith DEF TickMode
<1>3. /\ r.pc = pc /\ r.todo = x.todo /\ r.job = None
      /\ r.task = 0 /\ r.mode = "found" /\ r.snap = x.snap
  BY DEF Tick
<1> QED BY <1>0, <1>1, <1>2, <1>3

JobsSane == \A j \in Jobs :
    /\ job'[j].state # "cancelled"
    /\ job'[j].reconciled => \/ job[j].reconciled
                             \/ attempt[j].source = "direct" /\ attempt[j].state = job[j].state

LEMMA JobsStill ==
  ASSUME DispatchInv, UNCHANGED job PROVE JobsSane
  BY DEF DispatchInv, Rows, JobsSane

LEMMA OneJob ==
  ASSUME DispatchInv, NEW k \in Jobs, NEW r, job' = [job EXCEPT ![k] = r],
         r.state # "cancelled", r.reconciled => job[k].reconciled
  PROVE  JobsSane
<1>1. job \in [Jobs -> JobRow]
  BY DEF DispatchInv, StoreInv, TypeOK
<1>2. \A j \in Jobs : job'[j] = IF j = k THEN r ELSE job[j]
  BY <1>1
<1> QED BY <1>2 DEF DispatchInv, Rows, JobsSane

LEMMA FinishSane ==
  ASSUME DispatchInv, NEW k \in Jobs, NEW s \in Outcome \cup {"unknown"}, FinishJob(k, 1, s)
  PROVE  JobsSane /\ StoreNext
<1>1. PICK x \in JobRow : x = job[k]
  BY DEF DispatchInv, StoreInv, TypeOK
<1> DEFINE r == [x EXCEPT !.state = s]
<1>2. job' = [job EXCEPT ![k] = r]
  BY <1>1 DEF FinishJob
<1>3. r.state # "cancelled" /\ r.reconciled = x.reconciled
  BY DEF Outcome, JobRow
<1>4. JobsSane
  <2> HIDE DEF r
  <2> QED BY <1>1, <1>2, <1>3, OneJob
<1>5. StoreNext
  BY DEF StoreNext, JobStep, JobFinished, JobTerminal, Outcome
<1> QED BY <1>4, <1>5

\* A step of d that is an operation of the store and changes no record.
LEMMA OnStore ==
  ASSUME DispatchInv, NEW d \in Clients, [StoreNext]_storeVars, UNCHANGED recordVars,
         Turns(d), \A e \in Clients \ {d} : call'[e] = call[e], JobsSane, Local(d)'
  PROVE  Step({d})
<1>1. RecordsKept
  BY DEF DispatchInv, DispatchTypeOK, Rows, JobsSane, RecordsKept, Turns, recordVars
<1> QED BY <1>1 DEF Step, Turns

\* A step of the clock or an operator, or of a scheduler client.
LEMMA Around ==
  ASSUME DispatchInv,
         \/ Clock \/ Switch
         \/ \E j \in Jobs : LateTask(j)
         \/ \E d \in Clients : KeepLease(d)
  PROVE  Step({})
<1>1. StoreNext
  BY DEF Clock, Switch, LateTask, KeepLease, StoreNext, LeaseStep, JobStep
<1>2. UNCHANGED <<tick, result, marker, attempt, runs, job, call>>
  BY DEF Clock, Switch, LateTask, KeepLease, dispatchVars, ExpireLease, RetryTime,
         SetPaused, LateSubmit, RenewLease, leaseVars, jobVars
<1>3. /\ task' \in [Tasks -> Stage]
      /\ \A t \in Tasks : task'[t] = task[t] \/ task'[t] = "queued"
  <2>1. task \in [Tasks -> Stage] /\ "queued" \in Stage
    BY DEF DispatchInv, DispatchTypeOK, Stage
  <2> QED BY <2>1 DEF Clock, Switch, LateTask, KeepLease, dispatchVars
<1>4. RecordsKept
  BY <1>2, <1>3 DEF DispatchInv, DispatchTypeOK, Rows, RecordsKept
<1> QED BY <1>1, <1>2, <1>4 DEF Step

\* The lease and the death of a daemon.
LEMMA LeaseTurns ==
  ASSUME DispatchInv, NEW d \in Clients, BeginTick(d) \/ Release(d) \/ Crash(d)
  PROVE  Step({d})
<1>1. [StoreNext]_storeVars /\ UNCHANGED <<recordVars, job>>
  BY DEF BeginTick, Release, Crash, StoreNext, LeaseStep, AcquireLease, ReleaseLease,
         Kill, jobVars
<1>2. call' = [call EXCEPT ![d] = NoCall] \/ UNCHANGED call
  BY DEF BeginTick, Release, Crash, AcquireLease, ReleaseLease, Kill
<1>3. call \in [Clients -> Call]
  BY DEF DispatchInv, StoreInv, TypeOK
<1>4. call'[d].stage = "none"
  <2>1. CASE Crash(d)
    BY <1>3, <2>1 DEF Crash, Kill, NoCall
  <2>2. CASE BeginTick(d) \/ Release(d)
    BY <2>2, NotCalling DEF BeginTick, Release, At, AcquireLease, ReleaseLease
  <2> QED BY <2>1, <2>2
<1>5. Turns(d) /\ tick'[d].pc \in {"idle", "snapshot"}
  <2>1. CASE BeginTick(d)
    BY <2>1, GotoForm, Turn DEF BeginTick, TickPc
  <2>2. CASE Release(d) \/ Crash(d)
    <3>1. tick' = [tick EXCEPT ![d] = NoTick] /\ NoTick.pc = "idle"
      BY <2>2 DEF Release, Crash, NoTick
    <3> QED BY <3>1, NoTickTyped, Turn
  <2> QED BY <2>1, <2>2
<1>6. Local(d)'
  BY <1>4, <1>5, OutIsLocal
<1> QED BY <1>1, <1>2, <1>3, <1>5, <1>6, JobsStill, OnStore

\* The replay of markers, and jobs whose task is gone.
LEMMA ScanTurns ==
  ASSUME DispatchInv, NEW d \in Clients, Replay(d) \/ MarkUnknown(d)
  PROVE  Step({d})
<1>0. tick[d].pc \in {"replay", "lost"} /\ tick[d].job \in Jobs
  BY TicksTyped DEF Replay, MarkUnknown, At, Local, HasJob, Acting
<1>1. CASE Fail(d, "torn")
  BY <1>0, <1>1, FailTurns, NotCalling, OutIsLocal, LookStep DEF Leaves, storeVars
<1>2. CASE ~Fail(d, "torn")
  <2>1. ASSUME Replay(d) PROVE Content(tick[d].job) \in Outcome
    BY <1>0, <1>2, <2>1, TicksTyped
       DEF Replay, At, Local, Listed, Torn, Content, DispatchInv, DispatchTypeOK, Marker, File
  <2>2. \/ UNCHANGED storeVars
        \/ \E s \in Outcome \cup {"unknown"} : FinishJob(tick[d].job, 1, s)
    BY <1>2, <2>1 DEF Replay, MarkUnknown, Unknown
  <2>3. Resume(d, "scan") /\ UNCHANGED recordVars
    BY <1>2 DEF Replay, MarkUnknown
  <2>4. [StoreNext]_storeVars /\ JobsSane /\ UNCHANGED call
    BY <1>0, <2>2, FinishSane, JobsStill DEF storeVars, FinishJob, leaseVars
  <2>5. Turns(d) /\ tick'[d].pc = "scan"
    BY <2>3, ResumeForm, Turn DEF TickPc
  <2>6. Local(d)'
    BY <1>0, <2>4, <2>5, NotCalling, OutIsLocal
  <2> QED BY <2>3, <2>4, <2>5, <2>6, OnStore
<1> QED BY <1>1, <1>2

LEMMA MarkTurns ==
  ASSUME DispatchInv, NEW d \in Clients, NEW j \in Jobs, MarkReconciled(d, j)
  PROVE  Step({d})
<1>0. PICK x \in Tick : x = tick[d]
  BY TicksTyped
<1>1. StoreNext /\ UNCHANGED <<recordVars, call>> /\ tick[d].pc = "mark" /\ j \in x.todo
  BY <1>0 DEF MarkReconciled, MarkJobReconciled, StoreNext, JobStep, leaseVars, At
<1>2. \A k \in x.todo : /\ k \in Own(d) /\ job[k].state \in Outcome
                        /\ attempt[k].source = "direct" /\ attempt[k].state = job[k].state
  BY <1>0, <1>1, TicksTyped DEF Local, Listed
<1> DEFINE left == x.todo \ {j}
           r == [x EXCEPT !.todo = left]
<1>3. tick' = [tick EXCEPT ![d] = r]
  BY <1>0 DEF MarkReconciled
<1>4. left \in SUBSET Jobs /\ \A k \in left : k \in x.todo
  BY TickFields
<1> HIDE DEF left
<1>5. r \in Tick
  BY <1>4, TickWith
<1>6. r.pc = x.pc /\ r.todo = left
  BY DEF Tick
<1> HIDE DEF r
<1>7. Turns(d) /\ tick'[d] = r
  BY <1>3, <1>5, Turn
<1>8. JobsSane /\ \A k \in Jobs : job'[k].state = job[k].state
  <2>1. PICK y \in JobRow : y = job[j]
    BY DEF DispatchInv, StoreInv, TypeOK
  <2>2. job' = [job EXCEPT ![j] = [y EXCEPT !.reconciled = TRUE]]
    BY <2>1 DEF MarkReconciled, MarkJobReconciled
  <2>3. \A k \in Jobs : job'[k] = IF k = j THEN [y EXCEPT !.reconciled = TRUE] ELSE job[k]
    BY <2>2 DEF DispatchInv, StoreInv, TypeOK
  <2>4. [y EXCEPT !.reconciled = TRUE].state = y.state
    BY DEF JobRow
  <2> QED BY <1>1, <1>2, <2>1, <2>3, <2>4 DEF DispatchInv, Rows, JobsSane
<1>9. call'[d].stage = "none"
  BY <1>1, NotCalling
<1>10. Local(d)'
  BY <1>0, <1>1, <1>2, <1>4, <1>6, <1>7, <1>8, <1>9
     DEF Local, HasJob, HasTask, Calling, Listed, Acting, Scheduling, AfterPage, Own, recordVars
<1> QED BY <1>1, <1>7, <1>8, <1>10, OnStore

-----------------------------------------------------------------------------
(* Recovery, submission and bookkeeping on the store.                      *)

LEMMA ReadyOnStore ==
  ASSUME DispatchInv, NEW d \in Clients, NEW r \in Tick, tick' = [tick EXCEPT ![d] = r],
         Ready(d, r), [StoreNext]_storeVars, UNCHANGED recordVars, JobsSane,
         call'[d].stage = "none", \A e \in Clients \ {d} : call'[e] = call[e]
  PROVE  Step({d})
  BY Turn, StoreKeepsRows, ReadyIsLocal, OnStore

LEMMA LeaveOnStore ==
  ASSUME DispatchInv, NEW d \in Clients, Leave(d), [StoreNext]_storeVars,
         UNCHANGED recordVars, JobsSane,
         call'[d].stage = "none", \A e \in Clients \ {d} : call'[e] = call[e]
  PROVE  Step({d})
  BY LeaveTurns, OutIsLocal, OnStore DEF Leaves

\* The job of a step that dispatches, and the call that has ended.
LEMMA AtHand ==
  ASSUME DispatchInv, NEW d \in Clients, tick[d].pc \in AfterPage
  PROVE  /\ \A j \in tick[d].todo : j \in Own(d) /\ outbox[j].state # "absent"
         /\ tick[d].pc \in Scheduling => tick[d].job \in Own(d) \ Direct
         /\ tick[d].pc \in Scheduling => tick[d].job \in Jobs
         /\ HasTask(d)
  BY TicksTyped, TodoOwned DEF Own, Local

LEMMA RowTurns ==
  ASSUME DispatchInv, NEW d \in Clients, Retry(d) \/ GiveUp(d) \/ Refs(d) \/ Account(d)
  PROVE  Step({d})
<1>1. tick[d].pc \in {"retry", "giveup", "refs", "account"} /\ UNCHANGED recordVars
  BY DEF Retry, GiveUp, Refs, Account, At
<1>2. /\ \A j \in tick[d].todo : j \in Own(d) /\ outbox[j].state # "absent"
      /\ tick[d].job \in Own(d) \ Direct /\ tick[d].job \in Jobs
      /\ HasTask(d)
  BY <1>1, AtHand DEF AfterPage, Scheduling
<1>3. call[d].stage = "none" /\ UNCHANGED call
  BY <1>1, NotCalling DEF Retry, GiveUp, Refs, Account, SetOutboxState, Unknown,
     FinishJob, SetJobExternalRefs, RecordDispatchOnce, leaseVars, storeVars
<1>4. CASE Retry(d)
  <2>1. StoreNext /\ JobsSane
    <3>1. SetOutboxState(tick[d].job, "failed")
      BY <1>4 DEF Retry
    <3> QED BY <1>2, <3>1, JobsStill DEF StoreNext, JobStep, SetOutboxState
  <2>2. CASE Leave(d)
    BY <1>1, <1>3, <2>1, <2>2, LeaveOnStore
  <2>3. CASE Resume(d, "recover")
    <3>1. PICK r \in Tick :
            /\ tick' = [tick EXCEPT ![d] = r]
            /\ r.pc = "recover" /\ r.todo = tick[d].todo
      BY <2>3, ResumeForm DEF TickPc
    <3>2. Ready(d, r)
      BY <1>2, <3>1 DEF Ready, AfterPage, Scheduling
    <3> QED BY <1>1, <1>3, <2>1, <3>1, <3>2, ReadyOnStore
  <2> QED BY <1>4, <2>2, <2>3 DEF Retry
<1>5. CASE GiveUp(d)
  <2>1. [StoreNext]_storeVars /\ JobsSane
    <3>1. FinishJob(tick[d].job, 1, "unknown") \/ UNCHANGED storeVars
      BY <1>5 DEF GiveUp, Unknown
    <3> QED BY <1>2, <3>1, FinishSane, JobsStill DEF storeVars
  <2>2. PICK r \in Tick :
          /\ tick' = [tick EXCEPT ![d] = r]
          /\ r.pc = "block" /\ r.todo = tick[d].todo /\ r.job = tick[d].job
          /\ r.mode = tick[d].mode
    BY <1>5, GotoForm DEF GiveUp, TickPc
  <2>3. tick[d].mode \in {"found", "end"}
    BY <1>2, <1>5 DEF GiveUp, At, HasTask
  <2>4. Ready(d, r)
    BY <1>2, <2>2, <2>3 DEF Ready, AfterPage, Scheduling
  <2> QED BY <1>1, <1>3, <2>1, <2>2, <2>4, ReadyOnStore
<1>6. PICK y \in JobRow : y = job[tick[d].job]
  BY <1>2 DEF DispatchInv, StoreInv, TypeOK
<1>7. CASE Refs(d)
  <2>1. /\ SetJobExternalRefs(tick[d].job, 1, tick[d].task)
        /\ tick[d].task \in Tasks
    BY <1>2, <1>7 DEF Refs, At, HasTask
  <2>2. StoreNext
    BY <1>2, <2>1 DEF StoreNext, JobStep
  <2>3. JobsSane
    <3> DEFINE z == [y EXCEPT !.task = tick[d].task]
    <3>1. job' = [job EXCEPT ![tick[d].job] = z]
      BY <1>6, <2>1 DEF SetJobExternalRefs
    <3>2. z.state = y.state /\ z.reconciled = y.reconciled
      BY DEF JobRow
    <3>3. y.state # "cancelled"
      BY <1>2, <1>6 DEF DispatchInv, Rows
    <3> HIDE DEF z
    <3> QED BY <1>2, <1>6, <3>1, <3>2, <3>3, OneJob
  <2>4. PICK r \in Tick :
          /\ tick' = [tick EXCEPT ![d] = r]
          /\ r.pc = "account" /\ r.todo = tick[d].todo /\ r.job = tick[d].job
          /\ r.task = tick[d].task
    BY <1>7, GotoForm DEF Refs, TickPc
  <2>5. Ready(d, r)
    BY <1>2, <2>1, <2>4 DEF Ready, AfterPage, Scheduling
  <2> QED BY <1>1, <1>3, <2>2, <2>3, <2>4, <2>5, ReadyOnStore
<1>8. CASE Account(d)
  <2>1. /\ RecordDispatchOnce(tick[d].job)
        /\ tick[d].task \in Tasks
    BY <1>2, <1>8 DEF Account, At, HasTask
  <2>2. StoreNext
    BY <1>2, <2>1 DEF StoreNext, JobStep
  <2>3. JobsSane
    <3> DEFINE z == [y EXCEPT !.accounted = TRUE]
    <3>1. job' = [job EXCEPT ![tick[d].job] = z]
      BY <1>6, <2>1 DEF RecordDispatchOnce
    <3>2. z.state = y.state /\ z.reconciled = y.reconciled
      BY DEF JobRow
    <3>3. y.state # "cancelled"
      BY <1>2, <1>6 DEF DispatchInv, Rows
    <3> HIDE DEF z
    <3> QED BY <1>2, <1>6, <3>1, <3>2, <3>3, OneJob
  <2>4. PICK r \in Tick :
          /\ tick' = [tick EXCEPT ![d] = r]
          /\ r.pc = "publish" /\ r.todo = tick[d].todo /\ r.job = tick[d].job
          /\ r.task = tick[d].task
    BY <1>8, GotoForm DEF Account, TickPc
  <2>5. Ready(d, r)
    BY <1>2, <2>1, <2>4 DEF Ready, AfterPage, Scheduling
  <2> QED BY <1>1, <1>3, <2>2, <2>3, <2>4, <2>5, ReadyOnStore
<1> QED BY <1>4, <1>5, <1>7, <1>8

LEMMA PublishTurns ==
  ASSUME DispatchInv, NEW d \in Clients, Publish(d)
  PROVE  Step({d})
<1>1. tick[d].pc = "publish" /\ UNCHANGED recordVars /\ SetOutboxState(tick[d].job, "succeeded")
  BY DEF Publish, At
<1>2. /\ \A j \in tick[d].todo : j \in Own(d) /\ outbox[j].state # "absent"
      /\ tick[d].job \in Own(d) \ Direct /\ tick[d].job \in Jobs
      /\ tick[d].mode \in {"resubmit", "dispatch"} => tick[d].task \in Tasks
  BY <1>1, AtHand DEF AfterPage, Scheduling, HasTask
<1>3. call[d].stage = "none" /\ UNCHANGED <<call, job>>
  BY <1>1, NotCalling DEF SetOutboxState, leaseVars
<1>4. StoreNext /\ JobsSane
  BY <1>1, <1>2, <1>3, JobsStill DEF StoreNext, JobStep
<1>5. CASE Leave(d)
  BY <1>1, <1>3, <1>4, <1>5, LeaveOnStore
<1>6. CASE Resume(d, "recover")
  <2>1. PICK r \in Tick :
          /\ tick' = [tick EXCEPT ![d] = r]
          /\ r.pc = "recover" /\ r.todo = tick[d].todo
    BY <1>6, ResumeForm DEF TickPc
  <2>2. Ready(d, r)
    BY <1>2, <2>1 DEF Ready, AfterPage, Scheduling
  <2> QED BY <1>1, <1>3, <1>4, <2>1, <2>2, ReadyOnStore
<1>7. CASE tick[d].mode \notin {"found", "end"} /\ Goto(d, "attach")
  <2>1. PICK r \in Tick :
          /\ tick' = [tick EXCEPT ![d] = r]
          /\ r.pc = "attach" /\ r.todo = tick[d].todo /\ r.job = tick[d].job
          /\ r.task = tick[d].task
    BY <1>7, GotoForm DEF TickPc
  <2>2. tick[d].mode \in TickMode
    BY TicksTyped, TickFields
  <2>3. Ready(d, r)
    BY <1>2, <1>7, <2>1, <2>2 DEF Ready, AfterPage, Scheduling, TickMode
  <2> QED BY <1>1, <1>3, <1>4, <2>1, <2>3, ReadyOnStore
<1> QED BY <1>5, <1>6, <1>7 DEF Publish

LEMMA IntentTurns ==
  ASSUME DispatchInv, NEW d \in Clients, PrepareIntent(d)
  PROVE  Step({d})
<1>1. tick[d].pc = "intent" /\ UNCHANGED recordVars /\ PrepareSubmission(tick[d].job)
  BY DEF PrepareIntent, At
<1>2. /\ \A j \in tick[d].todo : j \in Own(d) /\ outbox[j].state # "absent"
      /\ tick[d].job \in Own(d) \ Direct /\ tick[d].job \in Jobs
      /\ tick[d].mode = "dispatch"
  BY <1>1, AtHand DEF AfterPage, Scheduling, HasTask
<1>3. call[d].stage = "none" /\ UNCHANGED call
  BY <1>1, NotCalling DEF PrepareSubmission, leaseVars
<1>4. StoreNext
  BY <1>1, <1>2 DEF StoreNext, JobStep
<1>5. PICK y \in JobRow : y = job[tick[d].job]
  BY <1>2 DEF DispatchInv, StoreInv, TypeOK
<1>6. JobsSane
  <2> DEFINE z == [y EXCEPT !.state = "running", !.token = y.token + 1]
  <2>1. UNCHANGED job \/ job' = [job EXCEPT ![tick[d].job] = z]
    BY <1>1, <1>5 DEF PrepareSubmission
  <2>2. z.state # "cancelled" /\ z.reconciled = y.reconciled
    BY DEF JobRow
  <2> HIDE DEF z
  <2> QED BY <1>2, <1>5, <2>1, <2>2, OneJob, JobsStill
<1>7. CASE Leave(d)
  BY <1>1, <1>3, <1>4, <1>6, <1>7, LeaveOnStore
<1>8. CASE Goto(d, "authorize")
  <2>1. PICK r \in Tick :
          /\ tick' = [tick EXCEPT ![d] = r]
          /\ r.pc = "authorize" /\ r.todo = tick[d].todo /\ r.job = tick[d].job
          /\ r.mode = tick[d].mode
    BY <1>8, GotoForm DEF TickPc
  <2>2. Ready(d, r)
    BY <1>2, <2>1 DEF Ready, AfterPage, Scheduling
  <2> QED BY <1>1, <1>3, <1>4, <1>6, <2>1, <2>2, ReadyOnStore
<1>9. CASE /\ y.task # 0
           /\ tick' = [tick EXCEPT ![d].pc = "attach", ![d].mode = "end", ![d].task = y.task]
  <2>0. PICK x \in Tick : x = tick[d]
    BY TicksTyped
  <2> DEFINE r == [x EXCEPT !.pc = "attach", !.mode = "end", !.task = y.task]
  <2>1. tick' = [tick EXCEPT ![d] = r]
    BY <1>9, <2>0
  <2>2. y.task \in 0 .. MaxTasks /\ y.task \in Tasks
    BY <1>9 DEF JobRow, Tasks
  <2>3. r \in Tick
    BY <2>2, TickWith DEF TickPc, TickMode
  <2>4. r.pc = "attach" /\ r.todo = x.todo /\ r.job = x.job /\ r.task = y.task
    BY DEF Tick
  <2> HIDE DEF r
  <2>5. Ready(d, r)
    BY <1>2, <2>0, <2>2, <2>4 DEF Ready, AfterPage, Scheduling
  <2> QED BY <1>1, <1>3, <1>4, <1>6, <2>1, <2>3, <2>5, ReadyOnStore
<1> QED BY <1>5, <1>7, <1>8, <1>9 DEF PrepareIntent

-----------------------------------------------------------------------------
(* WithDispatchLease.                                                      *)

LEMMA AskTurns ==
  ASSUME DispatchInv, NEW d \in Clients,
         AuthorizeSubmit(d) \/ \E j \in Jobs : RecoverSubmit(d, j)
  PROVE  Step({d})
<1>0. PICK x \in Tick : x = tick[d]
  BY TicksTyped
<1>1. tick[d].pc \in {"authorize", "recover"}
  BY DEF AuthorizeSubmit, RecoverSubmit, Missing, Taking, At
<1>2. /\ \A j \in tick[d].todo : j \in Own(d) /\ outbox[j].state # "absent" /\ j \notin Direct
      /\ tick[d].pc = "authorize" => /\ tick[d].job \in Own(d) \ Direct
                                     /\ tick[d].mode = "dispatch"
  BY <1>1, AtHand, TodoOwned DEF AfterPage, Scheduling, HasTask
<1> DEFINE Asks(j, r) ==
        /\ AskSubmit(d, j) /\ UNCHANGED recordVars
        /\ tick' = [tick EXCEPT ![d] = r]
        /\ r.pc = "submit" /\ r.job = j /\ r.mode \in {"resubmit", "dispatch"}
        /\ \A k \in r.todo : k \in Own(d) /\ outbox[k].state # "absent"
<1>a. \E j \in Own(d) \ Direct : \E r \in Tick : Asks(j, r)
  <2>1. CASE AuthorizeSubmit(d)
    <3>1. tick[d].pc = "authorize" /\ AskSubmit(d, tick[d].job) /\ UNCHANGED recordVars
      BY <2>1 DEF AuthorizeSubmit, At
    <3>2. PICK r \in Tick :
            /\ tick' = [tick EXCEPT ![d] = r]
            /\ r.pc = "submit" /\ r.todo = tick[d].todo /\ r.job = tick[d].job
            /\ r.mode = tick[d].mode
      BY <2>1, GotoForm DEF AuthorizeSubmit, TickPc
    <3> QED BY <1>2, <3>1, <3>2
  <2>2. ASSUME NEW j \in Jobs, RecoverSubmit(d, j)
        PROVE  \E k \in Own(d) \ Direct : \E s \in Tick : Asks(k, s)
    <3> DEFINE left == x.todo \ {j}
               r == [x EXCEPT !.todo = left, !.job = j, !.pc = "submit", !.mode = "resubmit"]
    <3>1. tick' = [tick EXCEPT ![d] = r]
      BY <1>0, <2>2 DEF RecoverSubmit, Take
    <3>a. AskSubmit(d, j) /\ UNCHANGED recordVars /\ j \in x.todo
      BY <1>0, <2>2 DEF RecoverSubmit, Missing, Taking
    <3>2. left \in SUBSET Jobs /\ \A k \in left : k \in x.todo
      BY TickFields
    <3> HIDE DEF left
    <3>3. r \in Tick
      BY <3>2, TickWith DEF TickPc, TickMode
    <3>4. r.pc = "submit" /\ r.todo = left /\ r.job = j /\ r.mode = "resubmit"
      BY DEF Tick
    <3> HIDE DEF r
    <3>5. j \in Own(d) \ Direct
      BY <1>0, <1>2, <3>a
    <3>6. Asks(j, r)
      BY <1>0, <1>2, <3>1, <3>a, <3>2, <3>4
    <3> QED BY <3>3, <3>5, <3>6
  <2> QED BY <2>1, <2>2
<1>3. PICK j \in Own(d) \ Direct : \E r \in Tick : Asks(j, r)
  BY <1>a
<1>b. PICK r \in Tick : Asks(j, r)
  BY <1>3
<1>4. j \in Jobs \ Direct
  BY DEF Own
<1>5. StoreNext /\ JobsSane /\ UNCHANGED outbox
  BY <1>b, <1>4, JobsStill DEF StoreNext, SubmitStep, AskSubmit, jobVars
<1>6. call'[d].stage = "asked" /\ call'[d].job = j /\ \A e \in Clients \ {d} : call'[e] = call[e]
  BY <1>b DEF AskSubmit, DispatchInv, StoreInv, TypeOK
<1>7. Turns(d) /\ tick'[d] = r
  BY <1>b, Turn
<1>8. Local(d)'
  BY <1>b, <1>4, <1>5, <1>6, <1>7
     DEF Local, HasJob, HasTask, Calling, Listed, Acting, Scheduling, AfterPage, Own
<1> QED BY <1>b, <1>5, <1>6, <1>7, <1>8, OnStore

LEMMA CallTurns ==
  ASSUME DispatchInv, NEW d \in Clients,
         SubmitOpens(d) \/ SubmitPaused(d) \/ SubmitFenced(d) \/ SubmitCommits(d)
           \/ SubmitAborts(d)
  PROVE  Step({d})
<1>1. tick[d].pc = "submit" /\ UNCHANGED recordVars
  BY DEF SubmitOpens, SubmitPaused, SubmitFenced, SubmitCommits, SubmitAborts, At, dispatchVars,
     recordVars
<1>2. /\ \A j \in tick[d].todo : j \in Own(d) /\ outbox[j].state # "absent"
      /\ tick[d].job \in Own(d) \ Direct /\ tick[d].job \in Jobs
      /\ HasTask(d) /\ Calling(d) /\ tick[d] \in Tick
  BY <1>1, AtHand, TicksTyped DEF AfterPage, Scheduling, Local
<1>3. StoreNext /\ UNCHANGED <<job, outbox>>
  BY DEF SubmitOpens, SubmitPaused, SubmitFenced, SubmitCommits, SubmitAborts,
     OpenSubmit, PausedSubmit, FencedSubmit, CommitSubmit, AbortSubmit, StoreNext, SubmitStep,
     jobVars
<1>4. JobsSane
  BY <1>3, JobsStill
<1>5. call \in [Clients -> Call]
  BY DEF DispatchInv, StoreInv, TypeOK
<1>6. CASE SubmitOpens(d)
  <2>1. /\ call'[d].stage = "open" /\ call'[d].job = call[d].job
        /\ \A e \in Clients \ {d} : call'[e] = call[e]
    BY <1>5, <1>6 DEF SubmitOpens, OpenSubmit, Call
  <2>2. UNCHANGED tick
    BY <1>6 DEF SubmitOpens, dispatchVars
  <2>3. Turns(d)
    BY <2>2, TicksTyped DEF Turns
  <2>4. Local(d)'
    BY <1>1, <1>2, <1>3, <2>1, <2>2
       DEF Local, HasJob, HasTask, Calling, Listed, Acting, Scheduling, AfterPage, Own
  <2> QED BY <1>1, <1>3, <1>4, <2>1, <2>3, <2>4, OnStore
<1>7. CASE ~SubmitOpens(d)
  <2>1. call' = [call EXCEPT ![d] = NoCall]
    BY <1>7 DEF SubmitPaused, SubmitFenced, SubmitCommits, SubmitAborts,
       PausedSubmit, FencedSubmit, CommitSubmit, AbortSubmit
  <2>2. call'[d].stage = "none" /\ \A e \in Clients \ {d} : call'[e] = call[e]
    BY <1>5, <2>1 DEF NoCall
  <2>3. CASE Leave(d)
    BY <1>1, <1>3, <1>4, <2>2, <2>3, LeaveOnStore
  <2>4. ASSUME NEW pc \in {"retry", "refs"}, Goto(d, pc), pc = "refs" => call[d].stage = "sent"
        PROVE  Step({d})
    <3>1. PICK r \in Tick :
            /\ tick' = [tick EXCEPT ![d] = r]
            /\ r.pc = pc /\ r.todo = tick[d].todo /\ r.job = tick[d].job
            /\ r.task = tick[d].task
      BY <2>4, GotoForm DEF TickPc
    <3>2. Ready(d, r)
      BY <1>2, <2>4, <3>1 DEF Ready, AfterPage, Scheduling, Calling
    <3> QED BY <1>1, <1>3, <1>4, <2>2, <3>1, <3>2, ReadyOnStore
  <2> QED BY <1>7, <2>3, <2>4 DEF SubmitPaused, SubmitFenced, SubmitCommits, SubmitAborts,
             CommitSubmit
<1> QED BY <1>6, <1>7

LEMMA TaskTurns ==
  ASSUME DispatchInv, NEW d \in Clients, SubmitTask(d)
  PROVE  Step({d})
<1>0. PICK x \in Tick : x = tick[d]
  BY TicksTyped
<1> DEFINE t == Len(accepted) + 1
           r == [x EXCEPT !.task = t]
<1>1. /\ tick' = [tick EXCEPT ![d] = r] /\ task' = [task EXCEPT ![t] = "queued"]
      /\ Submit(d) /\ UNCHANGED <<result, marker, attempt, runs>>
      /\ tick[d].pc = "submit"
  BY <1>0 DEF SubmitTask, At
<1>2. t \in Tasks /\ t \in 0 .. MaxTasks
  BY <1>1 DEF Submit, Tasks, DispatchInv, StoreInv, TypeOK
<1> HIDE DEF t
<1>3. r \in Tick
  BY <1>2, TickWith
<1>4. r.pc = x.pc /\ r.todo = x.todo /\ r.job = x.job /\ r.mode = x.mode /\ r.task = t
  BY DEF Tick
<1> HIDE DEF r
<1>5. Turns(d) /\ tick'[d] = r
  BY <1>1, <1>3, Turn
<1>6. StoreNext /\ UNCHANGED <<job, outbox>>
  BY <1>1 DEF StoreNext, SubmitStep, Submit, jobVars
<1>7. RecordsKept
  <2>1. task' \in [Tasks -> Stage] /\ \A u \in Tasks : task'[u] = task[u] \/ task'[u] = "queued"
    BY <1>1 DEF DispatchInv, DispatchTypeOK, Stage
  <2> QED BY <1>1, <1>5, <1>6, <2>1
     DEF DispatchInv, DispatchTypeOK, Rows, RecordsKept, Turns
<1>8. /\ call'[d].stage = "sent" /\ call'[d].job = call[d].job
      /\ \A e \in Clients \ {d} : call'[e] = call[e]
  BY <1>1 DEF Submit, DispatchInv, StoreInv, TypeOK, Call
<1>9. /\ \A j \in x.todo : j \in Own(d) /\ outbox[j].state # "absent"
      /\ x.job \in Own(d) \ Direct /\ x.job \in Jobs
      /\ HasTask(d) /\ Calling(d)
  BY <1>0, <1>1, AtHand, TicksTyped DEF AfterPage, Scheduling, Local
<1>10. Local(d)'
  BY <1>0, <1>1, <1>2, <1>4, <1>5, <1>6, <1>8, <1>9
     DEF Local, HasJob, HasTask, Calling, Listed, Acting, Scheduling, AfterPage, Own
<1> QED BY <1>5, <1>6, <1>7, <1>8, <1>10 DEF Step, Turns

-----------------------------------------------------------------------------
(* Steps of a tick on markers and Attempts.                                *)

\* A step that leaves the store alone and takes no observation back.
LEMMA OnRecords ==
  ASSUME DispatchInv, NEW d \in Clients, UNCHANGED <<storeVars, task, result, runs>>,
         Turns(d),
         marker' \in [Jobs -> Marker],
         \A j \in Jobs : marker[j].final # "none" => marker'[j].final # "none",
         attempt' \in [Jobs -> Attempt],
         \A j \in Jobs :
            /\ attempt[j].source = "direct" =>
                 attempt'[j].source = "direct" /\ attempt'[j].state = attempt[j].state
            /\ attempt'[j].source = "direct" => attempt'[j].state \in Outcome,
         Local(d)'
  PROVE  Step({d})
<1>1. RecordsKept
  BY DEF DispatchInv, DispatchTypeOK, Rows, ImportAcked, RecordsKept, Turns, storeVars
<1> QED BY <1>1 DEF Step, Turns, storeVars

LEMMA PromotedFacts ==
  ASSUME NEW m \in Marker
  PROVE  /\ Promoted(m) \in Marker
         /\ m.final # "none" => Promoted(m) = m
         /\ m.final = "none" /\ m.temp \in Outcome => Promoted(m).final = m.temp
  BY DEF Promoted, Marker, File, Outcome

LEMMA ScanJobTurns ==
  ASSUME DispatchInv, NEW d \in Clients, NEW j \in Jobs, ScanJob(d, j)
  PROVE  Step({d})
<1>0. PICK x \in Tick : x = tick[d]
  BY TicksTyped
<1> DEFINE todo == x.todo \ {j}
           ended == x.ended \ {j}
           k == IF Found(j) \/ j \in x.ended THEN j ELSE None
           pc == IF Found(j) THEN "replay" ELSE IF j \in x.ended THEN "lost" ELSE "scan"
           r == [x EXCEPT !.todo = todo, !.ended = ended, !.job = k, !.pc = pc]
<1>1. tick' = [tick EXCEPT ![d] = r]
  BY <1>0 DEF ScanJob
<1>2. /\ todo \in SUBSET Jobs /\ ended \in SUBSET Jobs /\ k \in Jobs \cup {None}
      /\ pc \in {"replay", "lost", "scan"}
      /\ pc # "scan" => k = j
      /\ pc = "replay" => Found(j)
  BY TickFields
<1>a. pc \in TickPc
  BY <1>2 DEF TickPc
<1> HIDE DEF todo, ended, k, pc
<1>3. r \in Tick
  BY <1>2, <1>a, TickWith
<1>4. r.pc = pc /\ r.job = k
  BY DEF Tick
<1> HIDE DEF r
<1>5. Turns(d) /\ tick'[d] = r
  BY <1>1, <1>3, Turn
<1>6. /\ UNCHANGED <<storeVars, task, result, attempt, runs>> /\ tick[d].pc = "scan"
      /\ marker' = [marker EXCEPT ![j] = Promoted(marker[j])]
  BY DEF ScanJob, At
<1>7. marker \in [Jobs -> Marker]
  BY DEF DispatchInv, DispatchTypeOK
<1>8. /\ marker' \in [Jobs -> Marker]
      /\ \A i \in Jobs : marker[i].final # "none" => marker'[i].final # "none"
  BY <1>6, <1>7, PromotedFacts
<1>9. Found(j) => marker'[j].final # "none"
  BY <1>6, <1>7, PromotedFacts DEF Found, Content, Outcome
<1>10. call'[d].stage = "none"
  BY <1>6, NotCalling DEF storeVars
<1>11. Local(d)'
  <2>1. /\ tick'[d].pc \in {"replay", "lost", "scan"}
        /\ tick'[d].pc # "scan" => tick'[d].job = j
        /\ tick'[d].pc = "replay" => marker'[j].final # "none"
    BY <1>2, <1>4, <1>5, <1>9
  <2>2. HasJob(d)'
    BY <2>1 DEF HasJob, Acting, Scheduling
  <2>3. HasTask(d)' /\ Calling(d)'
    BY <1>10, <2>1 DEF HasTask, Calling
  <2>4. Listed(d)'
    BY <2>1 DEF Listed, AfterPage, Scheduling
  <2> QED BY <2>2, <2>3, <2>4 DEF Local
<1> QED BY <1>5, <1>6, <1>8, <1>11, OnRecords DEF DispatchInv, DispatchTypeOK, Rows

LEMMA TasksAccepted ==
  ASSUME DispatchInv
  PROVE  DOMAIN accepted \subseteq Tasks /\ \A t \in DOMAIN accepted : accepted[t] \in Jobs
  BY DEF DispatchInv, Rows, StoreInv, TypeOK, Tasks

LEMMA ReconciledFacts ==
  ASSUME DispatchInv, NEW d \in Clients, tick[d].pc = "reconcile", ~Conflict(d),
         NEW j \in Own(d)
  PROVE  /\ Reconciled(d, j) \in Attempt
         /\ attempt[j].source = "direct" => Reconciled(d, j) = attempt[j]
         /\ Reconciled(d, j).source = "direct" => Reconciled(d, j).state \in Outcome
         /\ j \in tick[d].todo => /\ Reconciled(d, j).source = "direct"
                                  /\ Reconciled(d, j).state = job[j].state
<1>0. j \in Jobs /\ attempt[j] \in Attempt /\ job[j].task \in 0 .. MaxTasks
  BY DEF Own, DispatchInv, DispatchTypeOK, StoreInv, TypeOK, JobRow
<1>1. \A k \in tick[d].todo : job[k].state \in Outcome
  BY TicksTyped DEF Local, Listed
<1>2. attempt[j].source = "direct" => Reconciled(d, j) = attempt[j]
  BY DEF Conflict, Restated
<1>3. CASE Imports(d, j)
  <2>1. Reconciled(d, j) = Imported(d, j)
    BY <1>3 DEF Reconciled
  <2>2. Imported(d, j).state \in Outcome
    BY <1>1, <1>3 DEF Imported, Imports, ImportsMarker, Found
  <2>3. Imported(d, j).source = "direct"
    BY DEF Imported
  <2>4. j \in tick[d].todo => Imported(d, j).state = job[j].state
    BY DEF Imported, Conflict
  <2>5. Imported(d, j).ref \in 0 .. MaxTasks
    BY <1>0 DEF Imported, Attempt
  <2>6. Imported(d, j) \in Attempt
    BY <2>2, <2>3, <2>5 DEF Imported, Attempt, AttemptState
  <2> QED BY <1>2, <2>1, <2>2, <2>3, <2>4, <2>6
<1>4. CASE ~Imports(d, j)
  <2>1. j \notin tick[d].todo
    BY <1>4 DEF Imports
  <2>2. CASE attempt[j].state \in {"none"} \cup Outcome \/ Sighted(d, j) = {}
    <3>1. Reconciled(d, j) = attempt[j]
      BY <1>4, <2>2 DEF Reconciled
    <3> QED BY <1>0, <2>1, <3>1 DEF DispatchInv, Rows
  <2>3. CASE ~(attempt[j].state \in {"none"} \cup Outcome \/ Sighted(d, j) = {})
    <3> DEFINE t == CHOOSE t \in Sighted(d, j) : TRUE
               s == tick[d].snap[t]
               src == IF s \in Outcome THEN "pueue" ELSE "none"
    <3>1. Reconciled(d, j) = [state |-> s, ref |-> t, source |-> src]
      BY <1>4, <2>3 DEF Reconciled
    <3>2. t \in Sighted(d, j)
      BY <2>3
    <3>3. t \in Tasks /\ s # "none"
      BY <3>2, TasksAccepted DEF Sighted, Routes
    <3>4. s \in Seen /\ t \in 0 .. MaxTasks
      BY <3>3, TicksTyped, TickFields DEF Tasks
    <3>5. src \in {"pueue", "none"}
      OBVIOUS
    <3> HIDE DEF t, s, src
    <3>6. Reconciled(d, j) \in Attempt /\ Reconciled(d, j).source # "direct"
      BY <3>1, <3>3, <3>4, <3>5 DEF Attempt, AttemptState, Seen
    <3> QED BY <1>2, <2>1, <3>6
  <2> QED BY <2>2, <2>3
<1> QED BY <1>3, <1>4

LEMMA ReconcileTurns ==
  ASSUME DispatchInv, NEW d \in Clients, Reconcile(d)
  PROVE  Step({d})
<1>1. /\ tick[d].pc = "reconcile" /\ ~Conflict(d)
      /\ UNCHANGED <<storeVars, task, result, runs>>
      /\ \A j \in Jobs : attempt'[j] = IF j \in Own(d) THEN Reconciled(d, j) ELSE attempt[j]
      /\ \A j \in Jobs : marker'[j] = IF j \in Own(d) /\ ImportsMarker(d, j)
                                      THEN Promoted(marker[j]) ELSE marker[j]
  BY DEF Reconcile, At
<1>2. attempt \in [Jobs -> Attempt] /\ marker \in [Jobs -> Marker]
  BY DEF DispatchInv, DispatchTypeOK
<1>3. \A j \in Own(d) :
         /\ Reconciled(d, j) \in Attempt
         /\ attempt[j].source = "direct" => Reconciled(d, j) = attempt[j]
         /\ Reconciled(d, j).source = "direct" => Reconciled(d, j).state \in Outcome
         /\ j \in tick[d].todo => /\ Reconciled(d, j).source = "direct"
                                  /\ Reconciled(d, j).state = job[j].state
  BY <1>1, ReconciledFacts
<1>4. \A j \in Jobs :
         /\ attempt[j].source = "direct" =>
              attempt'[j].source = "direct" /\ attempt'[j].state = attempt[j].state
         /\ attempt'[j].source = "direct" => attempt'[j].state \in Outcome
  BY <1>1, <1>3 DEF DispatchInv, Rows
<1>5. attempt' \in [Jobs -> Attempt]
  <2>1. \A j \in Jobs : attempt'[j] \in Attempt
    BY <1>1, <1>2, <1>3
  <2> QED BY <2>1 DEF Reconcile
<1>6. /\ marker' \in [Jobs -> Marker]
      /\ \A i \in Jobs : marker[i].final # "none" => marker'[i].final # "none"
  <2>1. \A j \in Jobs : /\ marker'[j] \in Marker
                        /\ marker[j].final # "none" => marker'[j].final # "none"
    BY <1>1, <1>2, PromotedFacts
  <2> QED BY <2>1 DEF Reconcile
<1>7. PICK r \in Tick :
        /\ tick' = [tick EXCEPT ![d] = r]
        /\ r.pc = "mark" /\ r.todo = tick[d].todo
  BY GotoForm DEF Reconcile, TickPc
<1>8. Turns(d) /\ tick'[d] = r
  BY <1>7, Turn
<1>9. call'[d].stage = "none"
  BY <1>1, NotCalling DEF storeVars
<1>10. \A j \in tick[d].todo : j \in Own(d) /\ j \in Jobs /\ job[j].state \in Outcome
  BY <1>1, TicksTyped DEF Local, Listed, Own
<1>11. Local(d)'
  BY <1>1, <1>3, <1>7, <1>8, <1>9, <1>10
     DEF Local, HasJob, HasTask, Calling, Listed, Acting, Scheduling, AfterPage, Own, storeVars
<1> QED BY <1>1, <1>4, <1>5, <1>6, <1>8, <1>11, OnRecords

\* One Attempt is changed, and not one whose worker was heard.
LEMMA OnAttempt ==
  ASSUME DispatchInv, NEW d \in Clients, UNCHANGED <<storeVars, task, result, marker, runs>>,
         Turns(d), NEW k \in Jobs, NEW a \in Attempt, attempt' = [attempt EXCEPT ![k] = a],
         a = attempt[k] \/ (attempt[k].source # "direct" /\ a.source # "direct"),
         Local(d)'
  PROVE  Step({d})
<1>1. attempt \in [Jobs -> Attempt] /\ marker \in [Jobs -> Marker]
  BY DEF DispatchInv, DispatchTypeOK
<1>2. \A j \in Jobs : attempt'[j] = IF j = k THEN a ELSE attempt[j]
  BY <1>1
<1>3. \A j \in Jobs :
         /\ attempt[j].source = "direct" =>
              attempt'[j].source = "direct" /\ attempt'[j].state = attempt[j].state
         /\ attempt'[j].source = "direct" => attempt'[j].state \in Outcome
  BY <1>2 DEF DispatchInv, Rows
<1> QED BY <1>1, <1>3, OnRecords

LEMMA AttemptTurns ==
  ASSUME DispatchInv, NEW d \in Clients, Block(d) \/ Prepare(d) \/ Attach(d)
  PROVE  Step({d})
<1>1. /\ tick[d].pc \in {"block", "prepare", "attach"}
      /\ UNCHANGED <<storeVars, task, result, marker, runs>>
  BY DEF Block, Prepare, Attach, At
<1> DEFINE k == tick[d].job
<1>2. /\ \A j \in tick[d].todo : j \in Own(d) /\ outbox[j].state # "absent"
      /\ k \in Own(d) \ Direct /\ k \in Jobs
      /\ HasTask(d)
  BY <1>1, AtHand DEF AfterPage, Scheduling
<1>3. call'[d].stage = "none" /\ RowsKept
  BY <1>1, NotCalling, NothingKept DEF storeVars
<1>4. PICK a \in Attempt : a = attempt[k]
  BY <1>2 DEF DispatchInv, DispatchTypeOK
<1>5. a.source = "direct" => a.state \in Outcome
  BY <1>2, <1>4 DEF DispatchInv, Rows
<1>6. CASE Block(d)
  <2> DEFINE b == [a EXCEPT !.state = "blocked"]
  <2>1. attempt' = [attempt EXCEPT ![k] = b] /\ a.state \notin Outcome
    BY <1>4, <1>6 DEF Block, Blockable, Outcome
  <2>2. b \in Attempt /\ b.source = a.source
    BY DEF Attempt, AttemptState
  <2> HIDE DEF b
  <2>3. PICK r \in Tick :
          /\ tick' = [tick EXCEPT ![d] = r]
          /\ r.pc = "publish" /\ r.todo = tick[d].todo /\ r.job = tick[d].job
          /\ r.mode = tick[d].mode
    BY <1>6, GotoForm DEF Block, TickPc
  <2>4. tick[d].mode \in {"found", "end"}
    BY <1>2, <1>6 DEF Block, At, HasTask
  <2>5. Ready(d, r)
    BY <1>2, <2>3, <2>4 DEF Ready, AfterPage, Scheduling
  <2>6. Local(d)' /\ Turns(d)
    BY <1>3, <2>3, <2>5, Turn, ReadyIsLocal
  <2> QED BY <1>1, <1>2, <1>4, <1>5, <2>1, <2>2, <2>6, OnAttempt
<1>7. CASE Prepare(d)
  <2> DEFINE b == IF a.state = "none" THEN [a EXCEPT !.state = "planned"] ELSE a
  <2>1. attempt' = [attempt EXCEPT ![k] = b]
    BY <1>4, <1>7 DEF Prepare
  <2>2. b \in Attempt /\ b.source = a.source /\ (b = a \/ a.state \notin Outcome)
    BY DEF Attempt, AttemptState, Outcome
  <2> HIDE DEF b
  <2>3. PICK r \in Tick :
          /\ tick' = [tick EXCEPT ![d] = r]
          /\ r.pc = "intent" /\ r.todo = tick[d].todo /\ r.job = tick[d].job
          /\ r.mode = tick[d].mode
    BY <1>7, GotoForm DEF Prepare, TickPc
  <2>4. tick[d].mode = "dispatch"
    BY <1>2, <1>7 DEF Prepare, At, HasTask
  <2>5. Ready(d, r)
    BY <1>2, <2>3, <2>4 DEF Ready, AfterPage, Scheduling
  <2>6. Local(d)' /\ Turns(d)
    BY <1>3, <2>3, <2>5, Turn, ReadyIsLocal
  <2> QED BY <1>1, <1>2, <1>4, <1>5, <2>1, <2>2, <2>6, OnAttempt
<1>8. CASE Attach(d)
  <2>0. PICK x \in Tick : x = tick[d]
    BY TicksTyped
  <2> DEFINE t == tick[d].task
             b == Attached(a, t)
  <2>1. /\ attempt' = [attempt EXCEPT ![k] = b]
        /\ Attachable(a, t)
    BY <1>4, <1>8 DEF Attach
  <2>2. t \in Tasks /\ t \in 0 .. MaxTasks
    BY <1>2, <1>8 DEF Attach, At, HasTask, Tasks
  <2> HIDE DEF t
  <2>3. b \in Attempt /\ b.source = a.source /\ (b = a \/ b = [a EXCEPT !.ref = t, !.state = "queued"])
    BY <2>2 DEF Attached, Attempt, AttemptState
  <2>4. b = a \/ a.source # "direct"
    <3>1. CASE a.ref = t
      BY <3>1 DEF Attached
    <3>2. CASE Allowed(a, b)
      BY <1>5, <2>3, <3>2 DEF Allowed, Outcome, Attempt
    <3> QED BY <2>1, <3>1, <3>2 DEF Attachable
  <2> HIDE DEF b
  <2>5. Local(d)' /\ Turns(d)
    <3>1. CASE Leave(d)
      BY <1>3, <3>1, LeaveTurns, OutIsLocal DEF Leaves
    <3>2. CASE ~Leave(d)
      <4> DEFINE snap == [x.snap EXCEPT ![t] = "queued"]
                 pc == IF tick[d].mode = "resubmit" THEN "recover" ELSE "pool"
                 r == [x EXCEPT !.snap = snap, !.job = None, !.task = 0, !.mode = "found",
                                !.pc = pc]
      <4>1. tick' = [tick EXCEPT ![d] = r]
        BY <1>8, <2>0, <3>2 DEF Attach, t
      <4>2. snap \in [Tasks -> Seen] /\ pc \in {"recover", "pool"}
            /\ None \in Jobs \cup {None} /\ 0 \in 0 .. MaxTasks
        BY <2>2, TickFields DEF Seen
      <4> HIDE DEF snap, pc
      <4>3. r \in Tick
        BY <4>2, TickWith DEF TickPc, TickMode
      <4>4. r.pc = pc /\ r.todo = x.todo
        BY DEF Tick
      <4> HIDE DEF r
      <4>5. Ready(d, r)
        BY <1>2, <2>0, <4>2, <4>4 DEF Ready, AfterPage, Scheduling
      <4> QED BY <1>3, <4>1, <4>3, <4>5, Turn, ReadyIsLocal
    <3> QED BY <3>1, <3>2
  <2> QED BY <1>1, <1>2, <1>4, <2>1, <2>3, <2>4, <2>5, OnAttempt
<1> QED BY <1>6, <1>7, <1>8

-----------------------------------------------------------------------------
(* Steps of workers.                                                       *)

\* A step of a worker or of an operator on the task t; D is empty, so every
\* daemon keeps what it knows.
LEMMA WorkerFrame ==
  ASSUME DispatchInv, [StoreNext]_storeVars, JobsSane, UNCHANGED <<tick, call, attempt>>,
         task' \in [Tasks -> Stage],
         result' \in [Tasks -> Outcome \cup {"none"}],
         marker' \in [Jobs -> Marker],
         runs' \in [Jobs -> Nat],
         \A j \in Jobs : marker[j].final # "none" => marker'[j].final # "none",
         \A t \in Tasks :
           task'[t] \in {"written", "placing", "marked", "found"} => result'[t] \in Outcome
  PROVE  Step({})
<1>1. RecordsKept
  BY DEF DispatchInv, DispatchTypeOK, Rows, JobsSane, RecordsKept
<1> QED BY <1>1 DEF Step

\* The rows, the results and the markers as they are.
LEMMA TasksTyped ==
  ASSUME DispatchInv
  PROVE  /\ task \in [Tasks -> Stage] /\ result \in [Tasks -> Outcome \cup {"none"}]
         /\ marker \in [Jobs -> Marker] /\ runs \in [Jobs -> Nat]
         /\ \A t \in Tasks :
              task[t] \in {"written", "placing", "marked", "found"} => result[t] \in Outcome
  BY DEF DispatchInv, DispatchTypeOK, Rows

LEMMA StageOnly ==
  ASSUME DispatchInv, NEW t \in Tasks, NEW s \in Stage, task' = [task EXCEPT ![t] = s],
         UNCHANGED <<storeVars, tick, result, marker, attempt>>,
         runs' \in [Jobs -> Nat],
         s \in {"written", "placing", "marked", "found"} => result[t] \in Outcome
  PROVE  Step({})
<1>1. JobsSane /\ UNCHANGED call
  BY JobsStill DEF storeVars
<1>2. \A u \in Tasks : task'[u] = IF u = t THEN s ELSE task[u]
  BY TasksTyped
<1>3. task' \in [Tasks -> Stage]
  BY TasksTyped
<1> QED BY <1>1, <1>2, <1>3, TasksTyped, WorkerFrame

LEMMA StageTurns ==
  ASSUME DispatchInv, NEW t \in Tasks,
         StartTask(t) \/ Refuse(t) \/ Invoke(t) \/ KillWorker(t) \/ Clean(t)
  PROVE  Step({})
<1>1. UNCHANGED <<storeVars, tick, result, marker, attempt>>
  BY DEF StartTask, Refuse, Invoke, KillWorker, Clean
<1>2. PICK s \in {"claimed", "late", "refusing", "invoking", "failed", "gone"} :
        task' = [task EXCEPT ![t] = s]
  BY DEF StartTask, Refuse, Invoke, KillWorker, Clean, ToStage
<1>3. s \in Stage
  BY DEF Stage, Working, Outcome
<1>4. runs' \in [Jobs -> Nat]
  <2>1. CASE Invoke(t)
    <3>1. PICK j \in Jobs : j = accepted[t]
      BY <2>1, TasksAccepted DEF Invoke, Worker
    <3>2. runs' = [runs EXCEPT ![j] = runs[j] + 1]
      BY <2>1, <3>1 DEF Invoke
    <3>3. runs[j] + 1 \in Nat
      BY TasksTyped
    <3> QED BY <3>2, <3>3, TasksTyped
  <2>2. CASE ~Invoke(t)
    BY <2>2, TasksTyped DEF StartTask, Refuse, KillWorker, Clean
  <2> QED BY <2>1, <2>2
<1> QED BY <1>1, <1>2, <1>3, <1>4, StageOnly

\* A finished job, by a worker of its own.
LEMMA FinishTurns ==
  ASSUME DispatchInv, NEW t \in Tasks, ReplayMarker(t) \/ FinishTask(t)
  PROVE  Step({})
<1>1. /\ UNCHANGED <<tick, result, marker, attempt, runs>>
      /\ t \in DOMAIN accepted /\ task[t] \in {"found", "marked"}
  BY DEF ReplayMarker, FinishTask, Worker
<1>2. result[t] \in Outcome
  BY <1>1, TasksTyped
<1>3. PICK j \in Jobs : j = accepted[t]
  BY <1>1, TasksAccepted
<1>4. PICK s \in Outcome : task' = [task EXCEPT ![t] = s]
  <2>1. "failed" \in Outcome
    BY DEF Outcome
  <2> QED BY <1>2, <2>1 DEF ReplayMarker, FinishTask, ToStage
<1>5. FinishJob(j, 1, result[t]) \/ UNCHANGED storeVars
  BY <1>3 DEF ReplayMarker, FinishTask
<1>6. [StoreNext]_storeVars /\ JobsSane
  BY <1>2, <1>5, FinishSane, JobsStill DEF storeVars
<1>7. UNCHANGED call
  BY <1>5 DEF FinishJob, leaseVars, storeVars
<1>8. /\ task' \in [Tasks -> Stage]
      /\ \A u \in Tasks : task'[u] = IF u = t THEN s ELSE task[u]
  BY <1>4, TasksTyped DEF Stage
<1>9. s \notin {"written", "placing", "marked", "found"}
  BY DEF Outcome
<1> QED BY <1>1, <1>6, <1>7, <1>8, <1>9, TasksTyped, WorkerFrame

\* The marker of the job of t becomes m, and keeps what is in place.
LEMMA OneMarker ==
  ASSUME DispatchInv, NEW j \in Jobs, NEW m \in Marker, marker' = [marker EXCEPT ![j] = m],
         marker[j].final # "none" => m.final # "none"
  PROVE  /\ marker' \in [Jobs -> Marker]
         /\ \A k \in Jobs : marker[k].final # "none" => marker'[k].final # "none"
<1>1. \A k \in Jobs : marker'[k] = IF k = j THEN m ELSE marker[k]
  BY TasksTyped
<1> QED BY <1>1, TasksTyped

LEMMA TemporaryTyped ==
  ASSUME NEW m \in Marker, NEW f \in File
  PROVE  [m EXCEPT !.temp = f] \in Marker /\ [m EXCEPT !.temp = f].final = m.final
  BY DEF Marker

LEMMA MarkerTurns ==
  ASSUME DispatchInv, NEW t \in Tasks,
         \/ CheckMarker(t) \/ CreateMarker(t) \/ (\E o \in Outcome : WriteMarker(t, o))
         \/ CheckPlace(t) \/ PlaceMarker(t)
  PROVE  Step({})
<1>1. UNCHANGED <<storeVars, tick, attempt, runs>> /\ t \in DOMAIN accepted
  BY DEF CheckMarker, CreateMarker, WriteMarker, CheckPlace, PlaceMarker, Worker
<1>2. PICK j \in Jobs : j = accepted[t]
  BY <1>1, TasksAccepted
<1>3. PICK m \in Marker : m = marker[j]
  BY TasksTyped
<1>4. JobsSane /\ UNCHANGED call
  BY <1>1, JobsStill DEF storeVars
<1>5. \A s \in Stage : task' = [task EXCEPT ![t] = s] =>
        /\ task' \in [Tasks -> Stage]
        /\ \A u \in Tasks : task'[u] = IF u = t THEN s ELSE task[u]
  BY TasksTyped
<1>6. \A o \in Outcome \cup {"none"} : result' = [result EXCEPT ![t] = o] =>
        /\ result' \in [Tasks -> Outcome \cup {"none"}]
        /\ \A u \in Tasks : result'[u] = IF u = t THEN o ELSE result[u]
  BY TasksTyped
<1>7. ASSUME NEW s \in Stage, task' = [task EXCEPT ![t] = s],
             NEW o \in Outcome \cup {"none"}, result' = [result EXCEPT ![t] = o],
             s \in {"written", "placing", "marked", "found"} => o \in Outcome,
             NEW n \in Marker, marker' = [marker EXCEPT ![j] = n],
             m.final # "none" => n.final # "none"
      PROVE  Step({})
  <2>1. /\ task' \in [Tasks -> Stage] /\ result' \in [Tasks -> Outcome \cup {"none"}]
        /\ \A u \in Tasks :
             task'[u] \in {"written", "placing", "marked", "found"} => result'[u] \in Outcome
    BY <1>5, <1>6, <1>7, TasksTyped
  <2>2. /\ marker' \in [Jobs -> Marker]
        /\ \A k \in Jobs : marker[k].final # "none" => marker'[k].final # "none"
    BY <1>3, <1>7, OneMarker
  <2> QED BY <1>1, <1>4, <2>1, <2>2, TasksTyped, WorkerFrame
<1>8. /\ result[t] \in Outcome \cup {"none"}
      /\ UNCHANGED result => result' = [result EXCEPT ![t] = result[t]]
      /\ UNCHANGED marker => marker' = [marker EXCEPT ![j] = m]
  BY <1>3, TasksTyped
<1>9. {"failed", "succeeded", "found", "clear", "writing", "denying", "written", "placing",
       "marked"} \subseteq Stage
  BY DEF Stage, Working, Outcome
<1>10. CASE CheckMarker(t)
  <2> DEFINE s == CASE Torn(j) -> "failed"
                    [] Found(j) -> IF task[t] = "late" THEN Content(j) ELSE "found"
                    [] OTHER -> IF task[t] = "late" THEN "failed" ELSE "clear"
             o == IF Found(j) THEN Content(j) ELSE "none"
  <2>1. /\ task' = [task EXCEPT ![t] = s] /\ result' = [result EXCEPT ![t] = o]
        /\ marker' = [marker EXCEPT ![j] = Promoted(m)]
    BY <1>2, <1>3, <1>10 DEF CheckMarker, ToStage
  <2>2. Torn(j) => ~Found(j)
    BY DEF Torn, Found, Outcome
  <2>3. s \in {"failed", "succeeded", "found", "clear"} /\ (s = "found" => Found(j))
    BY <2>2 DEF Found, Outcome
  <2>4. o \in Outcome \cup {"none"} /\ (Found(j) => o \in Outcome)
    BY DEF Found
  <2> HIDE DEF s, o
  <2> QED BY <1>7, <1>9, <2>1, <2>3, <2>4, PromotedFacts
<1>11. CASE CreateMarker(t)
  <2> DEFINE n == [m EXCEPT !.temp = "partial"]
  <2>1. n \in Marker /\ n.final = m.final
    BY TemporaryTyped DEF File
  <2>2. /\ UNCHANGED result
        /\ marker' = [marker EXCEPT ![j] = n] \/ UNCHANGED marker
        /\ \E s \in {"failed", "writing", "denying"} : task' = [task EXCEPT ![t] = s]
    BY <1>2, <1>3, <1>11 DEF CreateMarker, ToStage
  <2> HIDE DEF n
  <2> QED BY <1>7, <1>8, <1>9, <2>1, <2>2
<1>12. ASSUME NEW o \in Outcome, WriteMarker(t, o) PROVE Step({})
  <2> DEFINE n == [m EXCEPT !.temp = o]
  <2>1. n \in Marker /\ n.final = m.final
    BY TemporaryTyped DEF File
  <2>2. /\ task' = [task EXCEPT ![t] = "written"] /\ result' = [result EXCEPT ![t] = o]
        /\ marker' = [marker EXCEPT ![j] = n]
    BY <1>2, <1>3, <1>12 DEF WriteMarker, ToStage
  <2> HIDE DEF n
  <2> QED BY <1>7, <1>9, <2>1, <2>2
<1>13. CASE CheckPlace(t)
  <2> DEFINE n == [m EXCEPT !.temp = "none"]
  <2>1. n \in Marker /\ n.final = m.final
    BY TemporaryTyped DEF File
  <2>2. /\ UNCHANGED result
        /\ marker' = [marker EXCEPT ![j] = n] \/ UNCHANGED marker
        /\ \E s \in {"failed", "placing"} : task' = [task EXCEPT ![t] = s]
    BY <1>2, <1>3, <1>13 DEF CheckPlace, ToStage
  <2>3. result[t] \in Outcome
    BY <1>13, TasksTyped DEF CheckPlace, Worker
  <2> HIDE DEF n
  <2> QED BY <1>7, <1>8, <1>9, <2>1, <2>2, <2>3
<1>14. CASE PlaceMarker(t)
  <2> DEFINE n == [final |-> m.temp, temp |-> "none"]
  <2>1. n \in Marker /\ n.final = m.temp
    BY DEF Marker, File
  <2>2. /\ UNCHANGED result
        /\ \/ task' = [task EXCEPT ![t] = "failed"] /\ UNCHANGED marker
           \/ /\ task' = [task EXCEPT ![t] = "marked"] /\ m.temp # "none"
              /\ marker' = [marker EXCEPT ![j] = n]
    BY <1>2, <1>3, <1>14 DEF PlaceMarker, ToStage
  <2>3. result[t] \in Outcome
    BY <1>14, TasksTyped DEF PlaceMarker, Worker
  <2> HIDE DEF n
  <2> QED BY <1>7, <1>8, <1>9, <2>1, <2>2, <2>3
<1> QED BY <1>10, <1>11, <1>12, <1>13, <1>14

-----------------------------------------------------------------------------
(* The theorems.                                                           *)

LEMMA DaemonTurns ==
  ASSUME DispatchInv, NEW d \in Clients,
         DaemonStep(d) \/ KeepLease(d) \/ StepFails(d) \/ Crash(d)
  PROVE  \E D \in SUBSET {d} : Step(D)
<1>1. CASE Import(d)
  BY <1>1, LeaseTurns, ScanLooks, ScanJobTurns, FailSteps, ScanTurns, ReconcileTurns, MarkTurns
     DEF Import
<1>2. CASE Recover(d)
  BY <1>2, RecoverLooks, AskTurns, RowTurns, AttemptTurns, FailSteps DEF Recover
<1>3. CASE Submission(d)
  BY <1>3, CallTurns, TaskTurns, RowTurns, PublishTurns, AttemptTurns, FailSteps DEF Submission
<1>4. CASE Fill(d)
  BY <1>4, FailSteps, AttemptTurns, PoolLooks, IntentTurns, AskTurns, LeaseTurns DEF Fill
<1>5. CASE KeepLease(d)
  BY <1>5, Around
<1>6. CASE StepFails(d) \/ Crash(d)
  BY <1>6, FailSteps, LeaseTurns
<1> QED BY <1>1, <1>2, <1>3, <1>4, <1>5, <1>6 DEF DaemonStep

LEMMA WorkerTurns ==
  ASSUME DispatchInv, NEW t \in Tasks, WorkerStep(t) \/ KillWorker(t) \/ Clean(t)
  PROVE  Step({})
  BY StageTurns, FinishTurns, MarkerTurns DEF WorkerStep

LEMMA DispatchStep ==
  ASSUME DispatchInv, [Next]_vars
  PROVE  DispatchInv' /\ [StoreNext]_storeVars
<1>1. \E D \in SUBSET Clients : Step(D)
  <2>1. ASSUME NEW d \in Clients, DaemonStep(d) \/ KeepLease(d) \/ StepFails(d) \/ Crash(d)
        PROVE  \E D \in SUBSET Clients : Step(D)
    BY <2>1, DaemonTurns
  <2>2. ASSUME NEW t \in Tasks, WorkerStep(t) \/ KillWorker(t) \/ Clean(t)
        PROVE  Step({})
    BY <2>2, WorkerTurns
  <2>3. CASE Clock \/ Switch \/ \E j \in Jobs : LateTask(j)
    BY <2>3, Around
  <2>4. CASE UNCHANGED vars
    <3>1. UNCHANGED <<storeVars, task, result, runs, marker, attempt, tick, call>>
      BY <2>4 DEF vars, dispatchVars, storeVars
    <3> QED BY <3>1, JobsStill, TasksTyped, WorkerFrame DEF storeVars
  <2> QED BY <2>1, <2>2, <2>3, <2>4 DEF Next
<1> QED BY <1>1, StepKeepsInv DEF Step

LEMMA DispatchInit == Init => DispatchInv
<1> SUFFICES ASSUME Init PROVE DispatchInv
  OBVIOUS
<1>1. StoreInv
  BY StoreInvInit DEF Init
<1>2. Blank \in [Tasks -> Stage] /\ Blank \in [Tasks -> Outcome \cup {"none"}]
  BY DEF Blank, Stage
<1>3. NoMarker \in Marker /\ NoAttempt \in Attempt
  BY DEF NoMarker, Marker, File, NoAttempt, Attempt, AttemptState
<1>4. DispatchTypeOK
  BY <1>2, <1>3, NoTickTyped DEF Init, DispatchTypeOK
<1>5. Rows /\ ImportAcked
  BY DEF Init, StoreInit, Rows, ImportAcked, AbsentJob, NoIntent, NoAttempt, Blank
<1>6. \A d \in Clients : tick[d].pc = "idle" /\ call[d].stage = "none"
  BY DEF Init, StoreInit, NoTick, NoCall
<1>7. \A d \in Clients : Local(d)
  BY <1>6 DEF Local, HasJob, HasTask, Calling, Listed, Acting, Scheduling, AfterPage
<1> QED BY <1>1, <1>4, <1>5, <1>7 DEF DispatchInv

THEOREM DispatchInvariant == Spec => []DispatchInv
  BY DispatchInit, DispatchStep, PTL DEF Spec

(***************************************************************************)
(* Every reachable state of daemons, workers, markers and Attempts is well *)
(* typed, so no tick acts on a job, a task or a mode it does not have.     *)
(***************************************************************************)
THEOREM DispatchTypeCorrect == Spec => []DispatchTypeOK
  BY DispatchInvariant, PTL DEF DispatchInv

(***************************************************************************)
(* Daemons and workers change the store only by its operations, each with  *)
(* the arguments it allows: OnlyTheLeaderSubmits, PauseIsHonoured,         *)
(* HistoryIsKept and whatever else is proved of the store holds of the     *)
(* whole system.                                                           *)
(***************************************************************************)
THEOREM DispatchUsesStore == Spec => UsesStore
<1>1. Init => StoreInit
  BY DEF Init
<1> QED BY <1>1, DispatchInit, DispatchStep, PTL DEF Spec, UsesStore, StoreSpec

(***************************************************************************)
(* A job is acknowledged as imported (MarkJobReconciled, a statement of    *)
(* the store) only when its canonical Attempt carries the observation of   *)
(* its worker, and stays so, whatever crashes or fails between the         *)
(* canonical transaction of ReconcileAcknowledged and the acknowledgement. *)
(***************************************************************************)
THEOREM ImportsAreAcknowledged == Spec => []ImportAcked
  BY DispatchInvariant, PTL DEF DispatchInv

-----------------------------------------------------------------------------
(***************************************************************************)
(* Submissions: at most one task for a job, at most one run of its         *)
(* workload, and never more of them than a pool has room for.              *)
(*                                                                         *)
(* A daemon that leads, i.e. acquired the lease last and has not given it  *)
(* up, is the only one that submits.  So its snapshot, taken after it      *)
(* acquired, stays complete except for what it has submitted since, and of *)
(* that its recovery knows: the intent is no longer due.  A daemon that    *)
(* was replaced knows nothing any more, and submits nothing.               *)
(***************************************************************************)

\* Of what a daemon knows while it leads.
Leads(d) == leader = d /\ held[d] # 0

ScanPc == {"list", "scan", "replay", "lost", "reconcile", "mark"}
After == ScanPc \cup {"page"} \cup AfterPage    \* it keeps a snapshot

\* It fills the pool, and does not go back to the pages of intents.
Filling(d) == tick[d].pc = "pool" \/ tick[d].mode \in {"dispatch", "end"}

\* It is about to settle the intent of j.
InHand(d, j) ==
    /\ tick[d].job = j
    /\ tick[d].pc \in {"retry", "refs", "account", "publish"} \/ call[d].stage = "sent"

Modes(d) ==
    /\ tick[d].pc \notin Scheduling => tick[d].mode = "found"
    /\ tick[d].pc \in Scheduling /\ ~Filling(d) => tick[d].job \notin tick[d].todo

\* A task of its scope that is not in the snapshot: d has submitted it in this
\* tick, and will not take its job for one without a task.
Unseen(d, t) == accepted[t] \in Own(d) /\ tick[d].snap[t] = "none"
Settled(d, j) ==
    /\ ~outbox[j].due \/ InHand(d, j)
    /\ tick[d].pc = "page" \/ j \notin tick[d].todo
Known(d, t) == tick[d].pc \notin ScanPc /\ (Filling(d) \/ Settled(d, accepted[t]))

Fresh(d) ==
    Leads(d) /\ tick[d].pc \in After => \A t \in DOMAIN accepted : Unseen(d, t) => Known(d, t)

\* The scheduler has no task for the job about to be submitted or given up.
Untasked(j) == \A t \in DOMAIN accepted : accepted[t] # j
Chosen(d) == tick[d].pc \in {"authorize", "giveup"} \/ call[d].stage \in {"asked", "open"}
Clear(d) == Leads(d) /\ Chosen(d) => Untasked(tick[d].job)

Claimed(j) == job[j].state \notin {"absent", "queued"} /\ outbox[j].state # "absent"
Claims(d) == tick[d].pc \in {"authorize", "submit"} => Claimed(tick[d].job)

\* No job has two tasks.
OneTask == \A t, u \in DOMAIN accepted : accepted[t] = accepted[u] => t = u
TaskRows == \A t \in DOMAIN accepted : Claimed(accepted[t]) /\ task[t] \notin {"none", "gone"}

SubInv ==
    /\ orphans = {} /\ OneTask /\ TaskRows
    /\ \A d \in Clients : Modes(d) /\ Fresh(d) /\ Clear(d) /\ Claims(d)

Base == DispatchInv /\ LeadInv

\* Process groups die with their daemon, nobody removes tasks from the
\* scheduler, and no tick outlasts the retry time of an intent.
Calm == ~Orphans /\ "clean" \notin Faults /\ "slow" \notin Faults

-----------------------------------------------------------------------------
(* Which steps change what the invariant is about.                         *)

LEMMA ImportEffects ==
  ASSUME NEW d \in Clients, Import(d)
  PROVE  /\ UNCHANGED <<held, leader>> \/ BeginTick(d)
         /\ UNCHANGED <<outbox, accepted, orphans, task>>
  BY DEF Import, BeginTick, AcquireLease, Snapshot, ListRunning, ScanJob, ScanTorn, ScanForeign,
         Replay, MarkUnknown, MarkUnknownFenced, ListTerminal, Reconcile, ReconcileTorn,
         ReconcileConflict, MarkReconciled, ReadPause, Look, Fail, FinishJob, Unknown,
         MarkJobReconciled, leaseVars, jobVars, taskVars, storeVars, recordVars

LEMMA RecoverEffects ==
  ASSUME NEW d \in Clients, Recover(d)
  PROVE  /\ UNCHANGED <<held, leader, accepted, orphans, task>>
         /\ UNCHANGED outbox \/ Retry(d)
  BY DEF Recover, Page, PageDone, RecoverUnknown, RecoverFound, RecoverPaused, RecoverLater,
         RecoverBlocked, RecoverSubmit, Retry, GiveUp, GiveUpFenced, Block, BlockRefused,
         Look, Fail, ReadOnly, FinishJob, Unknown, AskSubmit, SetOutboxState,
         leaseVars, jobVars, taskVars, storeVars, recordVars

LEMMA SubmissionEffects ==
  ASSUME NEW d \in Clients, Submission(d)
  PROVE  /\ UNCHANGED <<held, leader, orphans>>
         /\ UNCHANGED outbox \/ Publish(d)
         /\ UNCHANGED <<accepted, task>> \/ SubmitTask(d)
  BY DEF Submission, SubmitOpens, SubmitPaused, SubmitFenced, SubmitTask, SubmitCommits,
         SubmitAborts, Refs, RefsConflict, Account, Publish, Attach, AttachConflict,
         OpenSubmit, PausedSubmit, FencedSubmit, Submit, CommitSubmit, AbortSubmit,
         SetJobExternalRefs, RecordDispatchOnce, SetOutboxState, Fail,
         leaseVars, jobVars, taskVars, storeVars, recordVars, dispatchVars

LEMMA FillEffects ==
  ASSUME NEW d \in Clients, Fill(d)
  PROVE  /\ UNCHANGED <<held, leader>> \/ Release(d)
         /\ UNCHANGED <<accepted, orphans, task>>
         /\ UNCHANGED outbox \/ PrepareIntent(d)
  BY DEF Fill, PoolIdle, KeepFenced, Prepare, PoolPick, PrepareIntent, IntentConflict,
         AuthorizeBlocked, AuthorizeLater, AuthorizeSubmit, Release, ReleaseLease,
         PrepareSubmission, AskSubmit, Fail, ReadOnly,
         leaseVars, jobVars, taskVars, storeVars, recordVars

LEMMA WorkerEffects ==
  ASSUME NEW t \in Tasks, WorkerStep(t) \/ KillWorker(t) \/ Clean(t)
  PROVE  UNCHANGED <<held, leader, outbox, accepted, orphans, tick, call>>
  BY DEF WorkerStep, StartTask, CheckMarker, ReplayMarker, Refuse, Invoke, CreateMarker,
         WriteMarker, CheckPlace, PlaceMarker, FinishTask, KillWorker, Clean, FinishJob,
         leaseVars, jobVars, taskVars, storeVars

LEMMA OtherEffects ==
  ASSUME NEW d \in Clients, KeepLease(d) \/ StepFails(d) \/ Clock \/ Switch
  PROVE  /\ UNCHANGED <<held, leader, accepted, orphans, task>>
         /\ UNCHANGED outbox \/ Clock
  BY DEF KeepLease, StepFails, Clock, Switch, RenewLease, Fail, ExpireLease, RetryTime, SetPaused,
         leaseVars, jobVars, taskVars, storeVars, recordVars, dispatchVars

-----------------------------------------------------------------------------
(* Who acts, and what no step takes back.                                  *)

Still(e) == tick'[e] = tick[e] /\ call'[e] = call[e]

LEMMA Actors ==
  ASSUME Base, [Next]_vars
  PROVE  \/ UNCHANGED <<tick, call>>
         \/ \E d \in Clients : /\ DaemonStep(d) \/ StepFails(d) \/ Crash(d)
                               /\ \A e \in Clients \ {d} : Still(e)
<1> USE DEF Base
<1>1. ASSUME NEW d \in Clients, DaemonStep(d) \/ StepFails(d) \/ Crash(d)
      PROVE  \A e \in Clients \ {d} : Still(e)
  <2>1. PICK D \in SUBSET {d} : Step(D)
    BY <1>1, DaemonTurns
  <2> QED BY <2>1 DEF Step, Still
<1>2. ASSUME NEW d \in Clients, KeepLease(d) PROVE UNCHANGED <<tick, call>>
  BY <1>2 DEF KeepLease, RenewLease, dispatchVars
<1>3. ASSUME NEW t \in Tasks, WorkerStep(t) \/ KillWorker(t) \/ Clean(t)
      PROVE  UNCHANGED <<tick, call>>
  BY <1>3, WorkerEffects
<1>4. ASSUME Clock \/ Switch \/ \E j \in Jobs : LateTask(j)
      PROVE  UNCHANGED <<tick, call>>
  BY <1>4 DEF Clock, Switch, LateTask, LateSubmit, ExpireLease, RetryTime, SetPaused,
         leaseVars, dispatchVars
<1>5. CASE UNCHANGED vars
  BY <1>5 DEF vars, storeVars, dispatchVars
<1> QED BY <1>1, <1>2, <1>3, <1>4, <1>5 DEF Next

\* The stages a worker reaches.
LEMMA WorkerStages ==
  ASSUME DispatchInv, NEW t \in Tasks, WorkerStep(t) \/ KillWorker(t) \/ Clean(t)
  PROVE  /\ t \in DOMAIN accepted
         /\ \E s \in Stage \ {"none", "queued"} :
              /\ task' = [task EXCEPT ![t] = s]
              /\ s = "gone" => "clean" \in Faults
              /\ task[t] \in {"queued"} \cup Working \/ s = "gone"
<1>1. t \in DOMAIN accepted
  BY DEF WorkerStep, StartTask, CheckMarker, ReplayMarker, Refuse, Invoke, CreateMarker,
         WriteMarker, CheckPlace, PlaceMarker, FinishTask, KillWorker, Clean, Worker
<1>2. \/ /\ ToStage(t, "gone") /\ "clean" \in Faults
      \/ \E s \in Stage \ {"none", "queued", "gone"} : ToStage(t, s)
  <2>1. \A s \in Outcome \cup Working : s \in Stage \ {"none", "queued", "gone"}
    BY DEF Stage, Working, Outcome
  <2>2. CASE CheckMarker(t)
    <3>1. \A j \in Jobs : Found(j) => Content(j) \in Outcome
      BY DEF Found
    <3>2. accepted[t] \in Jobs
      BY <1>1, TasksAccepted
    <3>3. {"failed", "found", "clear"} \subseteq Outcome \cup Working
      BY DEF Outcome, Working
    <3> DEFINE j == accepted[t]
               s == CASE Torn(j) -> "failed"
                      [] Found(j) -> IF task[t] = "late" THEN Content(j) ELSE "found"
                      [] OTHER -> IF task[t] = "late" THEN "failed" ELSE "clear"
    <3>4. s \in Outcome \cup Working
      BY <3>1, <3>2, <3>3
    <3>5. ToStage(t, s)
      BY <2>2 DEF CheckMarker
    <3> QED BY <2>1, <3>4, <3>5
  <2>3. CASE ReplayMarker(t) \/ FinishTask(t)
    <3>1. result[t] \in Outcome /\ "failed" \in Outcome
      BY <2>3, TasksTyped DEF ReplayMarker, FinishTask, Worker, Outcome
    <3> QED BY <2>1, <2>3, <3>1 DEF ReplayMarker, FinishTask
  <2>4. CASE CreateMarker(t) \/ CheckPlace(t) \/ PlaceMarker(t)
    <3>1. {"failed", "writing", "denying", "placing", "marked"} \subseteq Outcome \cup Working
      BY DEF Outcome, Working
    <3> QED BY <2>1, <2>4, <3>1 DEF CreateMarker, CheckPlace, PlaceMarker
  <2>5. CASE StartTask(t) \/ Refuse(t) \/ Invoke(t) \/ KillWorker(t)
             \/ \E o \in Outcome : WriteMarker(t, o)
    <3>1. {"claimed", "late", "refusing", "invoking", "failed", "written"}
            \subseteq Outcome \cup Working
      BY DEF Outcome, Working
    <3> QED BY <2>1, <2>5, <3>1 DEF StartTask, Refuse, Invoke, KillWorker, WriteMarker
  <2>6. CASE Clean(t)
    BY <2>6 DEF Clean
  <2> QED BY <2>2, <2>3, <2>4, <2>5, <2>6 DEF WorkerStep
<1>3. task[t] \in {"queued"} \cup Working \/ ToStage(t, "gone")
  BY DEF WorkerStep, StartTask, CheckMarker, ReplayMarker, Refuse, Invoke, CreateMarker,
         WriteMarker, CheckPlace, PlaceMarker, FinishTask, KillWorker, Clean, Worker, Working
<1>4. "gone" \in Stage \ {"none", "queued"}
  BY DEF Stage
<1>5. task \in [Tasks -> Stage]
  BY TasksTyped
<1>6. CASE /\ ToStage(t, "gone")
           /\ "clean" \in Faults
  BY <1>1, <1>4, <1>6 DEF ToStage
<1>7. ASSUME NEW s \in Stage \ {"none", "queued", "gone"}, ToStage(t, s)
      PROVE  task[t] \in {"queued"} \cup Working
  <2>1. ~ToStage(t, "gone")
    BY <1>5, <1>7 DEF ToStage
  <2> QED BY <1>3, <2>1
<1> QED BY <1>1, <1>2, <1>6, <1>7 DEF ToStage

\* Whoever comes to lead begins a tick.
LeadKept == \A e \in Clients : Leads(e)' => Leads(e) \/ tick'[e].pc = "snapshot"

LEMMA LeadSteps ==
  ASSUME Base, [Next]_vars
  PROVE  LeadKept
<1> USE DEF Base
<1>0. held \in [Clients -> 0 .. MaxToken] /\ tick \in [Clients -> Tick]
  BY TicksTyped DEF DispatchInv, StoreInv, TypeOK
<1>1. CASE UNCHANGED <<held, leader>>
  BY <1>1 DEF LeadKept, Leads
<1>2. ASSUME NEW d \in Clients, BeginTick(d) PROVE LeadKept
  <2>1. tick'[d].pc = "snapshot"
    <3>1. Goto(d, "snapshot") /\ "snapshot" \in TickPc
      BY <1>2 DEF BeginTick, TickPc
    <3>2. PICK r \in Tick : tick' = [tick EXCEPT ![d] = r] /\ r.pc = "snapshot"
      BY <3>1, GotoForm
    <3> QED BY <1>0, <3>2
  <2> QED BY <1>2, <2>1 DEF LeadKept, Leads, BeginTick, AcquireLease
<1>3. ASSUME NEW d \in Clients, Release(d) \/ Crash(d) PROVE LeadKept
  BY <1>0, <1>3 DEF LeadKept, Leads, Release, ReleaseLease, Crash, Kill
<1>4. ASSUME NEW d \in Clients, DaemonStep(d) PROVE LeadKept
  BY <1>1, <1>2, <1>3, <1>4, ImportEffects, RecoverEffects, SubmissionEffects, FillEffects
     DEF DaemonStep
<1>5. ASSUME NEW d \in Clients, KeepLease(d) \/ StepFails(d) \/ Crash(d) PROVE LeadKept
  BY <1>1, <1>3, <1>5, OtherEffects
<1>6. ASSUME NEW t \in Tasks, WorkerStep(t) \/ KillWorker(t) \/ Clean(t) PROVE LeadKept
  BY <1>1, <1>6, WorkerEffects
<1>7. CASE Clock \/ Switch \/ \E j \in Jobs : LateTask(j)
  BY <1>1, <1>7 DEF Clock, Switch, LateTask, LateSubmit, ExpireLease, RetryTime, SetPaused,
         leaseVars
<1>8. CASE UNCHANGED vars
  BY <1>1, <1>8 DEF vars, storeVars
<1> QED BY <1>4, <1>5, <1>6, <1>7, <1>8 DEF Next

\* An intent that is not due is not made due while somebody recovers intents.
DueKept ==
    (\E e \in Clients : Recovering(e)) =>
        \A j \in Jobs : outbox[j].state # "absent" /\ ~outbox[j].due => ~outbox'[j].due

LEMMA DueSteps ==
  ASSUME Base, Calm, [Next]_vars
  PROVE  DueKept
<1> USE DEF Base
<1>0. outbox \in [Jobs -> Intent]
  BY DEF DispatchInv, StoreInv, TypeOK
<1>1. CASE UNCHANGED outbox
  BY <1>1 DEF DueKept
<1>2. ASSUME NEW j \in Jobs, NEW s, SetOutboxState(j, s) PROVE DueKept
  BY <1>0, <1>2 DEF SetOutboxState, DueKept
<1>3. ASSUME NEW d \in Clients, Retry(d) \/ Publish(d) PROVE DueKept
  <2>1. tick[d].job \in Jobs
    BY <1>3, AtHand DEF Retry, Publish, At, AfterPage, Scheduling
  <2> QED BY <1>2, <1>3, <2>1 DEF Retry, Publish
<1>4. ASSUME NEW d \in Clients, PrepareIntent(d) PROVE DueKept
  BY <1>0, <1>4 DEF PrepareIntent, PrepareSubmission, DueKept
<1>5. CASE Clock
  BY <1>1, <1>5 DEF Clock, DueKept, Calm, ExpireLease, jobVars
<1>6. ASSUME NEW d \in Clients, DaemonStep(d) PROVE DueKept
  BY <1>1, <1>3, <1>4, <1>6, ImportEffects, RecoverEffects, SubmissionEffects, FillEffects
     DEF DaemonStep
<1>7. ASSUME NEW d \in Clients, KeepLease(d) \/ StepFails(d) PROVE DueKept
  BY <1>1, <1>5, <1>7, OtherEffects
<1>8. ASSUME NEW t \in Tasks, WorkerStep(t) \/ KillWorker(t) \/ Clean(t) PROVE DueKept
  BY <1>1, <1>8, WorkerEffects
<1>9. CASE Switch \/ (\E d \in Clients : Crash(d)) \/ \E j \in Jobs : LateTask(j)
  BY <1>1, <1>9 DEF Switch, SetPaused, LateTask, LateSubmit, Crash, Kill, jobVars
<1>10. CASE UNCHANGED vars
  BY <1>1, <1>10 DEF vars, storeVars
<1> QED BY <1>5, <1>6, <1>7, <1>8, <1>9, <1>10 DEF Next

\* A job with a claim and an intent keeps both.
LEMMA ClaimsKept ==
  ASSUME DispatchInv, [StoreNext]_storeVars, NEW j \in Jobs, Claimed(j)
  PROVE  Claimed(j)'
<1>1. outbox'[j].state # "absent"
  BY StoreKeepsRows DEF RowsKept, Claimed
<1>2. job'[j].state \notin {"absent", "queued"}
  <2>0. job \in [Jobs -> JobRow]
    BY DEF DispatchInv, StoreInv, TypeOK
  <2>1. CASE UNCHANGED job
    BY <2>1 DEF Claimed
  <2>2. CASE JobStep
    <3>1. PICK k \in Jobs :
            \/ UNCHANGED job
            \/ PrepareSubmission(k) \/ EnqueueJob(k) \/ ClaimJobByID(k)
            \/ RecordDispatchOnce(k) \/ MarkJobReconciled(k, 1)
            \/ \E s \in JobFinished : FinishJob(k, 1, s)
            \/ \E t \in Tasks : SetJobExternalRefs(k, 1, t)
      BY <2>2 DEF JobStep, RetryTime, SetOutboxState
    <3>2. CASE PrepareSubmission(k) \/ EnqueueJob(k) \/ ClaimJobByID(k)
      BY <2>0, <3>2 DEF PrepareSubmission, EnqueueJob, ClaimJobByID, JobRow, Claimed
    <3>3. CASE RecordDispatchOnce(k) \/ MarkJobReconciled(k, 1)
               \/ \E t \in Tasks : SetJobExternalRefs(k, 1, t)
      <4>1. job'[j].state = job[j].state
        BY <2>0, <3>3 DEF RecordDispatchOnce, MarkJobReconciled, SetJobExternalRefs, JobRow
      <4> QED BY <4>1 DEF Claimed
    <3>4. CASE \E s \in JobFinished : FinishJob(k, 1, s)
      BY <2>0, <3>4 DEF FinishJob, JobRow, JobFinished, JobTerminal, Claimed
    <3> QED BY <2>1, <3>1, <3>2, <3>3, <3>4
  <2> QED
    BY <2>1, <2>2 DEF StoreNext, LeaseStep, ExpireLease, AcquireLease, RenewLease,
       ReleaseLease, SubmitStep, AskSubmit, OpenSubmit, FencedSubmit, PausedSubmit,
       Submit, CommitSubmit, AbortSubmit, SetPaused, Kill, LateSubmit, jobVars,
       storeVars
<1> QED BY <1>1, <1>2 DEF Claimed

-----------------------------------------------------------------------------
(* The moves of a daemon.                                                  *)

Silent(d) == call'[d].stage = "none"
SameMode(d) == tick'[d].mode = tick[d].mode
SameTask(d) == tick'[d].task = tick[d].task
SameWork(d) == tick'[d].snap = tick[d].snap /\ tick'[d].todo = tick[d].todo

Moves(d, from, to) == tick[d].pc \in from /\ tick'[d].pc \in to

Outs(d) == tick'[d].pc \in {"idle", "snapshot", "release"} /\ tick'[d].mode = "found" /\ Silent(d)

Sees(d) ==
    /\ Moves(d, {"snapshot"}, {"list"}) /\ tick'[d].mode = "found" /\ Silent(d)
    /\ tick'[d].snap = [t \in Tasks |-> Observed(task[t])] /\ UNCHANGED <<task, accepted>>

Scans(d) ==
    /\ Moves(d, ScanPc, ScanPc \cup {"page"}) /\ tick'[d].mode = "found" /\ Silent(d)
    /\ tick'[d].snap = tick[d].snap

Pages(d) ==
    /\ Moves(d, {"page"}, {"recover", "pool"}) /\ tick'[d].mode = "found" /\ Silent(d)
    /\ tick'[d].snap = tick[d].snap /\ tick'[d].todo = Due(d) /\ UNCHANGED outbox

Returns(d) ==
    /\ Moves(d, {"recover"}, {"page"}) /\ tick'[d].mode = "found" /\ Silent(d)
    /\ SameWork(d)

LEMMA TickIs ==
  ASSUME DispatchInv, NEW d \in Clients, NEW r, tick' = [tick EXCEPT ![d] = r]
  PROVE  tick'[d] = r
  BY TicksTyped

\* Steps after which a daemon is out of its tick, or about to begin.
LEMMA LeaveOuts ==
  ASSUME DispatchInv, NEW d \in Clients, Leave(d), Silent(d)
  PROVE  Outs(d)
<1> DEFINE r == [NoTick EXCEPT !.pc = "release"]
<1>1. r.pc = "release" /\ r.mode = "found"
  BY DEF NoTick
<1>2. tick' = [tick EXCEPT ![d] = r]
  BY DEF Leave
<1> HIDE DEF r
<1> QED BY <1>1, <1>2, TickIs DEF Outs

LEMMA FailOuts ==
  ASSUME DispatchInv, NEW d \in Clients, NEW why, Fail(d, why), tick[d].pc # "submit"
  PROVE  Outs(d)
<1> DEFINE r == [NoTick EXCEPT !.pc = "release", !.why = why]
<1>1. r.pc = "release" /\ r.mode = "found"
  BY DEF NoTick
<1>2. tick' = [tick EXCEPT ![d] = r] /\ UNCHANGED storeVars
  BY DEF Fail
<1> HIDE DEF r
<1>3. Silent(d)
  BY <1>2, NotCalling DEF Silent, storeVars
<1> QED BY <1>1, <1>2, <1>3, TickIs DEF Outs

LEMMA FailMoves ==
  ASSUME DispatchInv, NEW d \in Clients,
         \/ ScanTorn(d) \/ ScanForeign(d) \/ MarkUnknownFenced(d) \/ ReconcileTorn(d)
         \/ ReconcileConflict(d) \/ GiveUpFenced(d) \/ BlockRefused(d) \/ RefsConflict(d)
         \/ AttachConflict(d) \/ KeepFenced(d) \/ IntentConflict(d) \/ StepFails(d)
         \/ PoolIdle(d)
  PROVE  Outs(d)
<1>1. tick[d].pc # "submit"
  BY DEF ScanTorn, ScanForeign, MarkUnknownFenced, ReconcileTorn, ReconcileConflict,
         GiveUpFenced, BlockRefused, RefsConflict, AttachConflict, KeepFenced,
         IntentConflict, StepFails, PoolIdle, At
<1>2. CASE PoolIdle(d)
  <2>1. Silent(d)
    BY <1>1, <1>2, NotCalling DEF PoolIdle, ReadOnly, storeVars, Silent
  <2> QED BY <1>2, <2>1, LeaveOuts DEF PoolIdle
<1>3. CASE ~PoolIdle(d)
  BY <1>1, <1>3, FailOuts DEF ScanTorn, ScanForeign, MarkUnknownFenced, ReconcileTorn,
         ReconcileConflict, GiveUpFenced, BlockRefused, RefsConflict, AttachConflict,
         KeepFenced, IntentConflict, StepFails
<1> QED BY <1>2, <1>3

LEMMA LeaseMoves ==
  ASSUME DispatchInv, NEW d \in Clients, Modes(d), BeginTick(d) \/ Release(d) \/ Crash(d)
  PROVE  Outs(d)
<1>1. Silent(d)
  <2>1. call \in [Clients -> Call]
    BY DEF DispatchInv, StoreInv, TypeOK
  <2>2. CASE Crash(d)
    BY <2>1, <2>2 DEF Crash, Kill, NoCall, Silent
  <2>3. CASE BeginTick(d) \/ Release(d)
    BY <2>3, NotCalling DEF BeginTick, Release, At, AcquireLease, ReleaseLease, Silent
  <2> QED BY <2>2, <2>3
<1>2. CASE BeginTick(d)
  <2>1. PICK r \in Tick :
          tick' = [tick EXCEPT ![d] = r] /\ r.pc = "snapshot" /\ r.mode = tick[d].mode
    BY <1>2, GotoForm DEF BeginTick, TickPc
  <2>2. tick[d].mode = "found"
    BY <1>2 DEF BeginTick, At, Modes, Scheduling
  <2> QED BY <1>1, <2>1, <2>2, TickIs DEF Outs
<1>3. CASE Release(d) \/ Crash(d)
  <2>1. tick' = [tick EXCEPT ![d] = NoTick] /\ NoTick.pc = "idle" /\ NoTick.mode = "found"
    BY <1>3 DEF Release, Crash, NoTick
  <2> QED BY <1>1, <2>1, TickIs DEF Outs
<1> QED BY <1>2, <1>3

\* The steps of importing results.
LEMMA SeeMoves ==
  ASSUME DispatchInv, NEW d \in Clients, Modes(d), Snapshot(d)
  PROVE  Sees(d)
<1>0. PICK x \in Tick : x = tick[d]
  BY TicksTyped
<1> DEFINE snap == [t \in Tasks |-> Observed(task[t])]
           r == [x EXCEPT !.pc = "list", !.snap = snap]
<1>1. tick' = [tick EXCEPT ![d] = r] /\ UNCHANGED <<storeVars, recordVars>> /\ x.pc = "snapshot"
  BY <1>0 DEF Snapshot, Look, At
<1>2. r.pc = "list" /\ r.snap = snap /\ r.mode = x.mode
  BY DEF Tick
<1> HIDE DEF r, snap
<1>3. Silent(d)
  BY <1>0, <1>1, NotCalling DEF Silent, storeVars
<1>4. x.mode = "found"
  BY <1>0, <1>1 DEF Modes, Scheduling
<1> QED BY <1>0, <1>1, <1>2, <1>3, <1>4, TickIs
        DEF Sees, Moves, snap, storeVars, recordVars

LEMMA ScanMoves ==
  ASSUME DispatchInv, NEW d \in Clients, Modes(d),
         \/ ListRunning(d) \/ (\E j \in Jobs : ScanJob(d, j)) \/ Replay(d) \/ MarkUnknown(d)
         \/ ListTerminal(d) \/ Reconcile(d) \/ (\E j \in Jobs : MarkReconciled(d, j))
         \/ ReadPause(d)
  PROVE  Scans(d) \/ Outs(d)
<1>0. PICK x \in Tick : x = tick[d]
  BY TicksTyped
<1>1. tick[d].pc \in ScanPc
  BY DEF ListRunning, ScanJob, Replay, MarkUnknown, ListTerminal, Reconcile, MarkReconciled,
         ReadPause, At, ScanPc
<1>2. x.mode = "found" /\ call[d].stage = "none"
  BY <1>0, <1>1, NotCalling DEF Modes, ScanPc, Scheduling
<1>3. Silent(d)
  BY <1>2 DEF ListRunning, ScanJob, Replay, MarkUnknown, ListTerminal, Reconcile, MarkReconciled,
         ReadPause, Look, Fail, Unknown, FinishJob, MarkJobReconciled, leaseVars, storeVars, Silent
<1>4. \A r : /\ tick' = [tick EXCEPT ![d] = r] /\ r.pc \in ScanPc \cup {"page"}
             /\ r.snap = x.snap /\ r.mode = "found"
             => Scans(d)
  BY <1>0, <1>1, <1>3, TickIs DEF Scans, Moves
<1>5. CASE ListRunning(d)
  <2> DEFINE list == {j \in Jobs : job[j].state = "running"}
             over == {j \in Jobs : /\ job[j].state = "running"
                                   /\ job[j].task # 0
                                   /\ tick[d].snap[job[j].task] \in Outcome}
             r == [x EXCEPT !.pc = "scan", !.todo = list, !.ended = over]
  <2>1. tick' = [tick EXCEPT ![d] = r]
    BY <1>0, <1>5 DEF ListRunning, Look
  <2> HIDE DEF list, over
  <2>2. r.pc = "scan" /\ r.snap = x.snap /\ r.mode = x.mode
    BY DEF Tick
  <2> HIDE DEF r
  <2> QED BY <1>2, <1>4, <2>1, <2>2 DEF ScanPc
<1>6. ASSUME NEW j \in Jobs, ScanJob(d, j) PROVE Scans(d)
  <2> DEFINE left == x.todo \ {j}
             ended == x.ended \ {j}
             k == IF Found(j) \/ j \in x.ended THEN j ELSE None
             pc == IF Found(j) THEN "replay" ELSE IF j \in x.ended THEN "lost" ELSE "scan"
             r == [x EXCEPT !.todo = left, !.ended = ended, !.job = k, !.pc = pc]
  <2>1. tick' = [tick EXCEPT ![d] = r]
    BY <1>0, <1>6 DEF ScanJob
  <2>2. pc \in {"replay", "lost", "scan"}
    OBVIOUS
  <2> HIDE DEF left, ended, k, pc
  <2>3. r.pc = pc /\ r.snap = x.snap /\ r.mode = x.mode
    BY DEF Tick
  <2> HIDE DEF r
  <2> QED BY <1>2, <1>4, <2>1, <2>2, <2>3 DEF ScanPc
<1>7. CASE Resume(d, "scan")
  <2>1. PICK r \in Tick :
          /\ tick' = [tick EXCEPT ![d] = r]
          /\ r.pc = "scan" /\ r.mode = "found" /\ r.snap = tick[d].snap
    BY <1>7, ResumeForm DEF TickPc
  <2> QED BY <1>0, <1>4, <2>1 DEF ScanPc
<1>8. CASE Fail(d, "torn")
  BY <1>1, <1>8, FailOuts DEF ScanPc
<1>9. CASE ListTerminal(d)
  <2> DEFINE list == {j \in Own(d) : job[j].state \in JobTerminal /\ ~job[j].reconciled}
             r == [x EXCEPT !.pc = "reconcile", !.todo = list]
  <2>1. tick' = [tick EXCEPT ![d] = r]
    BY <1>0, <1>9 DEF ListTerminal, Look
  <2> HIDE DEF list
  <2>2. r.pc = "reconcile" /\ r.snap = x.snap /\ r.mode = x.mode
    BY DEF Tick
  <2> HIDE DEF r
  <2> QED BY <1>2, <1>4, <2>1, <2>2 DEF ScanPc
<1>10. CASE Goto(d, "mark")
  <2>1. PICK r \in Tick :
          /\ tick' = [tick EXCEPT ![d] = r]
          /\ r.pc = "mark" /\ r.mode = tick[d].mode /\ r.snap = tick[d].snap
    BY <1>10, GotoForm DEF TickPc
  <2> QED BY <1>0, <1>2, <1>4, <2>1 DEF ScanPc
<1>11. ASSUME NEW j \in Jobs, MarkReconciled(d, j) PROVE Scans(d)
  <2> DEFINE left == x.todo \ {j}
             r == [x EXCEPT !.todo = left]
  <2>1. tick' = [tick EXCEPT ![d] = r]
    BY <1>0, <1>11 DEF MarkReconciled
  <2> HIDE DEF left
  <2>2. r.pc = x.pc /\ r.snap = x.snap /\ r.mode = x.mode
    BY DEF Tick
  <2> HIDE DEF r
  <2> QED BY <1>0, <1>1, <1>2, <1>4, <2>1, <2>2
<1>12. CASE ReadPause(d)
  <2> DEFINE b == ~paused
             r == [x EXCEPT !.pc = "page", !.allow = b]
  <2>1. tick' = [tick EXCEPT ![d] = r]
    BY <1>0, <1>12 DEF ReadPause, Look
  <2> HIDE DEF b
  <2>2. r.pc = "page" /\ r.snap = x.snap /\ r.mode = x.mode
    BY DEF Tick
  <2> HIDE DEF r
  <2> QED BY <1>2, <1>4, <2>1, <2>2
<1>13. \/ Resume(d, "scan") \/ Fail(d, "torn") \/ Goto(d, "mark")
       \/ ListRunning(d) \/ (\E j \in Jobs : ScanJob(d, j))
       \/ ListTerminal(d) \/ (\E j \in Jobs : MarkReconciled(d, j)) \/ ReadPause(d)
  BY DEF Replay, MarkUnknown, Reconcile
<1> QED BY <1>5, <1>6, <1>7, <1>8, <1>9, <1>10, <1>11, <1>12, <1>13

-----------------------------------------------------------------------------
(* Recovery.                                                               *)

\* A job is taken off the page, or passed over.
Takes(d) ==
    /\ Moves(d, {"recover"}, {"block", "refs", "retry", "giveup", "submit"})
    /\ tick'[d].snap = tick[d].snap
    /\ tick'[d].job \in tick[d].todo /\ tick'[d].todo = tick[d].todo \ {tick'[d].job}
    /\ tick'[d].mode = IF tick'[d].pc \in {"retry", "submit"} THEN "resubmit" ELSE "found"
    /\ tick'[d].pc \in {"giveup", "submit"} => Missing(d, tick'[d].job) /\ Used(d) < Capacity
    /\ tick'[d].pc = "submit" =>
         job[tick'[d].job].state = "running" /\ call'[d].stage = "asked"
    /\ tick'[d].pc # "submit" => Silent(d)
    /\ UNCHANGED <<job, outbox>>

Skips(d) ==
    /\ Moves(d, {"recover"}, {"recover"}) /\ tick'[d].mode = "found" /\ Silent(d)
    /\ tick'[d].snap = tick[d].snap /\ tick'[d].todo \subseteq tick[d].todo

LEMMA PageMoves ==
  ASSUME DispatchInv, NEW d \in Clients, Modes(d), Page(d) \/ PageDone(d)
  PROVE  Pages(d) \/ Returns(d) \/ Outs(d)
<1>0. PICK x \in Tick : x = tick[d]
  BY TicksTyped
<1>1. x.pc \in {"page", "recover"} /\ UNCHANGED storeVars
  BY <1>0 DEF Page, PageDone, Look, At
<1>2. x.mode = "found" /\ Silent(d)
  BY <1>0, <1>1, NotCalling DEF Modes, Scheduling, storeVars, Silent
<1>3. CASE Page(d)
  <2> DEFINE due == Due(d)
             pc == IF Due(d) # {} THEN "recover"
                   ELSE IF tick[d].allow THEN "pool" ELSE "release"
             r == [x EXCEPT !.todo = due, !.pc = pc]
  <2>1. pc \in {"recover", "pool", "release"}
    OBVIOUS
  <2>2. tick' = [tick EXCEPT ![d] = r] /\ x.pc = "page"
    BY <1>0, <1>3 DEF Page, Look, At
  <2> HIDE DEF pc
  <2>3. r.pc = pc /\ r.todo = due /\ r.mode = x.mode /\ r.snap = x.snap
    BY DEF Tick
  <2> HIDE DEF r
  <2> QED BY <1>0, <1>1, <1>2, <2>1, <2>2, <2>3, TickIs DEF Pages, Outs, Moves, storeVars
<1>4. CASE PageDone(d)
  <2> DEFINE pc == IF tick[d].allow THEN "page" ELSE "release"
             r == [x EXCEPT !.pc = pc]
  <2>1. pc \in {"page", "release"}
    OBVIOUS
  <2>2. tick' = [tick EXCEPT ![d] = r] /\ x.pc = "recover"
    BY <1>0, <1>4 DEF PageDone, Look, Taking, At
  <2> HIDE DEF pc
  <2>3. r.pc = pc /\ r.todo = x.todo /\ r.mode = x.mode /\ r.snap = x.snap
    BY DEF Tick
  <2> HIDE DEF r
  <2> QED BY <1>0, <1>2, <2>1, <2>2, <2>3, TickIs DEF Returns, Outs, Moves, SameWork
<1> QED BY <1>3, <1>4

LEMMA TakeMoves ==
  ASSUME DispatchInv, NEW d \in Clients, Modes(d), NEW j \in Jobs,
         \/ RecoverUnknown(d, j) \/ RecoverFound(d, j) \/ RecoverPaused(d, j)
         \/ RecoverLater(d, j) \/ RecoverBlocked(d, j) \/ RecoverSubmit(d, j)
  PROVE  Takes(d) \/ Skips(d)
<1>0. PICK x \in Tick : x = tick[d]
  BY TicksTyped
<1>1. x.pc = "recover" /\ j \in x.todo /\ UNCHANGED <<job, outbox>>
  BY <1>0 DEF RecoverUnknown, RecoverFound, RecoverPaused, RecoverLater, RecoverBlocked,
         RecoverSubmit, Missing, Taking, At, ReadOnly, AskSubmit, jobVars, storeVars
<1>2. x.mode = "found" /\ call[d].stage = "none"
  BY <1>0, <1>1, NotCalling DEF Modes, Scheduling
<1> DEFINE left == x.todo \ {j}
<1>3. ASSUME NEW pc \in {"block", "refs", "retry", "giveup", "submit"},
             NEW mode, NEW r, tick' = [tick EXCEPT ![d] = r],
             r.pc = pc, r.todo = left, r.job = j, r.snap = x.snap, r.mode = mode,
             mode = IF pc \in {"retry", "submit"} THEN "resubmit" ELSE "found",
             pc \in {"giveup", "submit"} => Missing(d, j) /\ Used(d) < Capacity,
             pc = "submit" => job[j].state = "running" /\ call'[d].stage = "asked",
             pc # "submit" => Silent(d)
      PROVE  Takes(d)
  BY <1>0, <1>1, <1>3, TickIs DEF Takes, Moves
<1>4. ASSUME NEW pc \in {"block", "retry", "giveup", "submit"}, NEW mode, Take(d, j, pc, mode),
             mode = IF pc \in {"retry", "submit"} THEN "resubmit" ELSE "found",
             pc \in {"giveup", "submit"} => Missing(d, j) /\ Used(d) < Capacity,
             pc = "submit" => job[j].state = "running" /\ call'[d].stage = "asked",
             pc # "submit" => Silent(d)
      PROVE  Takes(d)
  <2> DEFINE r == [x EXCEPT !.todo = left, !.job = j, !.pc = pc, !.mode = mode]
  <2>1. tick' = [tick EXCEPT ![d] = r]
    BY <1>0, <1>4 DEF Take
  <2> HIDE DEF left
  <2>2. r.pc = pc /\ r.todo = left /\ r.job = j /\ r.snap = x.snap /\ r.mode = mode
    BY DEF Tick
  <2> HIDE DEF r
  <2> QED BY <1>3, <1>4, <2>1, <2>2
<1>5. ASSUME ~RecoverSubmit(d, j) PROVE Silent(d)
  BY <1>2, <1>5 DEF RecoverUnknown, RecoverFound, RecoverPaused, RecoverLater, RecoverBlocked,
         ReadOnly, storeVars, Silent
<1>6. CASE RecoverUnknown(d, j)
  <2>1. Silent(d)
    BY <1>2, <1>6 DEF RecoverUnknown, ReadOnly, storeVars, Silent
  <2>2. Take(d, j, "block", "found")
    BY <1>6 DEF RecoverUnknown
  <2> QED BY <1>4, <2>1, <2>2
<1>7. CASE RecoverLater(d, j)
  <2>1. Silent(d)
    BY <1>2, <1>7 DEF RecoverLater, ReadOnly, storeVars, Silent
  <2>2. Take(d, j, "retry", "resubmit")
    BY <1>7 DEF RecoverLater
  <2> QED BY <1>4, <2>1, <2>2
<1>8. CASE RecoverBlocked(d, j)
  <2>1. Silent(d)
    BY <1>2, <1>8 DEF RecoverBlocked, ReadOnly, storeVars, Silent
  <2>2. Take(d, j, "giveup", "found") /\ Missing(d, j) /\ Used(d) < Capacity
    BY <1>8 DEF RecoverBlocked
  <2> QED BY <1>4, <2>1, <2>2
<1>9. CASE RecoverSubmit(d, j)
  <2>1. call'[d].stage = "asked"
    BY <1>9 DEF RecoverSubmit, AskSubmit, DispatchInv, StoreInv, TypeOK
  <2>2. /\ Take(d, j, "submit", "resubmit") /\ Missing(d, j) /\ Used(d) < Capacity
        /\ job[j].state = "running"
    BY <1>9 DEF RecoverSubmit
  <2> QED BY <1>4, <2>1, <2>2
<1>10. CASE RecoverFound(d, j)
  <2>0. Silent(d)
    BY <1>2, <1>10 DEF RecoverFound, ReadOnly, storeVars, Silent
  <2> PICK t \in Tasks :
        tick' = [tick EXCEPT ![d].todo = @ \ {j}, ![d].job = j, ![d].pc = "refs",
                             ![d].mode = "found", ![d].task = t]
    BY <1>10 DEF RecoverFound
  <2> DEFINE r == [x EXCEPT !.todo = left, !.job = j, !.pc = "refs", !.mode = "found",
                            !.task = t]
  <2>1. tick' = [tick EXCEPT ![d] = r]
    BY <1>0
  <2> HIDE DEF left
  <2>2. r.pc = "refs" /\ r.todo = left /\ r.job = j /\ r.snap = x.snap /\ r.mode = "found"
    BY DEF Tick
  <2> HIDE DEF r
  <2> QED BY <1>3, <2>0, <2>1, <2>2
<1>11. CASE RecoverPaused(d, j)
  <2>0. Silent(d)
    BY <1>2, <1>11 DEF RecoverPaused, ReadOnly, storeVars, Silent
  <2> DEFINE r == [x EXCEPT !.todo = left]
  <2>1. tick' = [tick EXCEPT ![d] = r]
    BY <1>0, <1>11 DEF RecoverPaused
  <2>a. left \subseteq x.todo
    OBVIOUS
  <2> HIDE DEF left
  <2>2. r.pc = x.pc /\ r.todo = left /\ r.snap = x.snap /\ r.mode = x.mode
    BY DEF Tick
  <2> HIDE DEF r
  <2> QED BY <1>0, <1>1, <1>2, <2>0, <2>a, <2>1, <2>2, TickIs DEF Skips, Moves
<1> QED BY <1>6, <1>7, <1>8, <1>9, <1>10, <1>11

-----------------------------------------------------------------------------
(* Submission and bookkeeping.                                             *)

\* The job at hand stays; the step is one of these.
Goes(d) ==
    /\ SameWork(d) /\ tick'[d].job = tick[d].job
    /\ \/ Moves(d, {"giveup"}, {"block"}) /\ SameMode(d) /\ Silent(d)
       \/ Moves(d, {"block"}, {"publish"}) /\ SameMode(d) /\ Silent(d)
       \/ Moves(d, {"submit"}, {"submit"}) /\ SameMode(d) /\ SameTask(d)
            /\ call[d].stage = "asked" /\ call'[d].stage = "open"
       \/ Moves(d, {"submit", "authorize"}, {"retry"}) /\ SameMode(d) /\ Silent(d)
            /\ (call[d].stage = "sent" => "error" \in Faults)
       \/ Moves(d, {"submit"}, {"refs"}) /\ SameMode(d) /\ SameTask(d) /\ Silent(d)
            /\ call[d].stage = "sent"
       \/ Moves(d, {"refs"}, {"account"}) /\ SameMode(d) /\ SameTask(d) /\ Silent(d)
       \/ Moves(d, {"account"}, {"publish"}) /\ SameMode(d) /\ SameTask(d) /\ Silent(d)
       \/ Moves(d, {"publish"}, {"attach"}) /\ SameMode(d) /\ SameTask(d) /\ Silent(d)
            /\ tick[d].mode \in {"resubmit", "dispatch"} /\ ~outbox'[tick[d].job].due
       \/ Moves(d, {"prepare"}, {"intent"}) /\ SameMode(d) /\ Silent(d)
       \/ Moves(d, {"intent"}, {"authorize"}) /\ SameMode(d) /\ Silent(d)
            /\ PrepareSubmission(tick[d].job) /\ job[tick[d].job].state # "running"
       \/ Moves(d, {"intent"}, {"attach"}) /\ tick'[d].mode = "end" /\ Silent(d)
       \/ Moves(d, {"authorize"}, {"giveup"}) /\ tick'[d].mode = "end" /\ Silent(d)
       \/ Moves(d, {"authorize"}, {"submit"}) /\ SameMode(d) /\ call'[d].stage = "asked"

Resumes(d) ==
    /\ Moves(d, {"retry", "publish"}, {"recover"}) /\ ~Filling(d) /\ SameWork(d)
    /\ tick[d].pc = "publish" => tick[d].mode = "found"
    /\ tick'[d].mode = "found" /\ Silent(d) /\ ~outbox'[tick[d].job].due

Attaches(d) ==
    /\ Moves(d, {"attach"}, IF tick[d].mode = "resubmit" THEN {"recover"} ELSE {"pool"})
    /\ tick[d].mode # "end" /\ tick'[d].mode = "found" /\ Silent(d)
    /\ tick'[d].snap = [tick[d].snap EXCEPT ![tick[d].task] = "queued"]
    /\ tick'[d].todo = tick[d].todo

Sends(d) ==
    /\ Moves(d, {"submit"}, {"submit"}) /\ SameWork(d) /\ SameMode(d)
    /\ tick'[d].job = tick[d].job /\ tick'[d].task = Len(accepted) + 1
    /\ call'[d].stage = "sent" /\ SubmitTask(d)

Picks(d) ==
    /\ Moves(d, {"pool"}, {"prepare"}) /\ SameWork(d)
    /\ tick'[d].mode = "dispatch" /\ Silent(d) /\ Used(d) < Capacity

\* A step that only goes to pc.
LEMMA GotoMoves ==
  ASSUME DispatchInv, NEW d \in Clients, NEW pc \in TickPc, Goto(d, pc)
  PROVE  /\ Moves(d, {tick[d].pc}, {pc}) /\ SameWork(d) /\ SameMode(d) /\ SameTask(d)
         /\ tick'[d].job = tick[d].job
<1>1. PICK r \in Tick :
        /\ tick' = [tick EXCEPT ![d] = r]
        /\ r.pc = pc /\ r.todo = tick[d].todo /\ r.job = tick[d].job
        /\ r.task = tick[d].task /\ r.mode = tick[d].mode /\ r.snap = tick[d].snap
  BY GotoForm
<1> QED BY <1>1, TickIs DEF Moves, SameWork, SameMode, SameTask

LEMMA ResumeMoves ==
  ASSUME DispatchInv, NEW d \in Clients, Resume(d, "recover")
  PROVE  /\ tick'[d].pc = "recover" /\ SameWork(d) /\ tick'[d].mode = "found"
<1>1. PICK r \in Tick :
        /\ tick' = [tick EXCEPT ![d] = r]
        /\ r.pc = "recover" /\ r.todo = tick[d].todo /\ r.mode = "found"
        /\ r.snap = tick[d].snap
  BY ResumeForm DEF TickPc
<1> QED BY <1>1, TickIs DEF SameWork

LEMMA SetMoves ==
  ASSUME DispatchInv, NEW j \in Jobs, NEW s, SetOutboxState(j, s)
  PROVE  ~outbox'[j].due /\ UNCHANGED call
  BY DEF SetOutboxState, DispatchInv, StoreInv, TypeOK, leaseVars

LEMMA RetryMoves ==
  ASSUME DispatchInv, NEW d \in Clients, Retry(d)
  PROVE  Resumes(d) \/ Outs(d)
<1>1. tick[d].pc = "retry" /\ SetOutboxState(tick[d].job, "failed")
  BY DEF Retry, At
<1>2. tick[d].job \in Jobs
  BY <1>1, AtHand DEF AfterPage, Scheduling
<1>3. ~outbox'[tick[d].job].due /\ Silent(d)
  BY <1>1, <1>2, SetMoves, NotCalling DEF Silent
<1>4. CASE Leave(d)
  BY <1>3, <1>4, LeaveOuts
<1>5. CASE tick[d].mode = "resubmit" /\ Resume(d, "recover")
  <2>1. ~Filling(d)
    BY <1>1, <1>5 DEF Filling
  <2> QED BY <1>1, <1>3, <1>5, <2>1, ResumeMoves DEF Resumes, Moves
<1> QED BY <1>4, <1>5 DEF Retry

LEMMA PublishMoves ==
  ASSUME DispatchInv, NEW d \in Clients, Publish(d)
  PROVE  Resumes(d) \/ Goes(d) \/ Outs(d)
<1>1. tick[d].pc = "publish" /\ SetOutboxState(tick[d].job, "succeeded")
  BY DEF Publish, At
<1>2. tick[d].job \in Jobs
  BY <1>1, AtHand DEF AfterPage, Scheduling
<1>3. ~outbox'[tick[d].job].due /\ Silent(d)
  BY <1>1, <1>2, SetMoves, NotCalling DEF Silent
<1>4. CASE Leave(d)
  BY <1>3, <1>4, LeaveOuts
<1>5. CASE tick[d].mode = "found" /\ Resume(d, "recover")
  <2>1. ~Filling(d)
    BY <1>1, <1>5 DEF Filling
  <2> QED BY <1>1, <1>3, <1>5, <2>1, ResumeMoves DEF Resumes, Moves
<1>6. CASE tick[d].mode \notin {"found", "end"} /\ Goto(d, "attach")
  <2>1. tick[d].mode \in {"resubmit", "dispatch"}
    BY <1>6, TicksTyped, TickFields DEF TickMode
  <2>2. "attach" \in TickPc
    BY DEF TickPc
  <2> QED BY <1>1, <1>3, <1>6, <2>1, <2>2, GotoMoves DEF Goes, Moves
<1> QED BY <1>4, <1>5, <1>6 DEF Publish

LEMMA WorkMoves ==
  ASSUME DispatchInv, NEW d \in Clients,
         GiveUp(d) \/ Block(d) \/ Refs(d) \/ Account(d) \/ Prepare(d) \/ AuthorizeLater(d)
           \/ AuthorizeBlocked(d) \/ AuthorizeSubmit(d)
  PROVE  Goes(d)
<1>0. {"block", "publish", "account", "intent", "retry", "submit"} \subseteq TickPc
  BY DEF TickPc
<1>1. tick[d].pc \in {"giveup", "block", "refs", "account", "prepare", "authorize"}
  BY DEF GiveUp, Block, Refs, Account, Prepare, AuthorizeLater, AuthorizeBlocked,
         AuthorizeSubmit, At
<1>2. call[d].stage = "none"
  BY <1>1, NotCalling
<1>3. ~AuthorizeSubmit(d) => Silent(d)
  BY <1>2 DEF GiveUp, Block, Refs, Account, Prepare, AuthorizeLater, AuthorizeBlocked, Unknown,
         FinishJob, SetJobExternalRefs, RecordDispatchOnce, ReadOnly, storeVars, leaseVars, Silent
<1>4. CASE GiveUp(d)
  <2>1. At(d, "giveup") /\ Goto(d, "block") /\ ~AuthorizeSubmit(d)
    BY <1>4 DEF GiveUp, AuthorizeSubmit, At
  <2> QED BY <1>0, <1>3, <2>1, GotoMoves DEF Goes, Moves, At
<1>5. CASE Block(d)
  <2>1. At(d, "block") /\ Goto(d, "publish") /\ ~AuthorizeSubmit(d)
    BY <1>5 DEF Block, AuthorizeSubmit, At
  <2> QED BY <1>0, <1>3, <2>1, GotoMoves DEF Goes, Moves, At
<1>6. CASE Refs(d)
  <2>1. At(d, "refs") /\ Goto(d, "account") /\ ~AuthorizeSubmit(d)
    BY <1>6 DEF Refs, AuthorizeSubmit, At
  <2> QED BY <1>0, <1>3, <2>1, GotoMoves DEF Goes, Moves, At
<1>7. CASE Account(d)
  <2>1. At(d, "account") /\ Goto(d, "publish") /\ ~AuthorizeSubmit(d)
    BY <1>7 DEF Account, AuthorizeSubmit, At
  <2> QED BY <1>0, <1>3, <2>1, GotoMoves DEF Goes, Moves, At
<1>8. CASE Prepare(d)
  <2>1. At(d, "prepare") /\ Goto(d, "intent") /\ ~AuthorizeSubmit(d)
    BY <1>8 DEF Prepare, AuthorizeSubmit, At
  <2> QED BY <1>0, <1>3, <2>1, GotoMoves DEF Goes, Moves, At
<1>9. CASE AuthorizeLater(d)
  <2>1. At(d, "authorize") /\ Goto(d, "retry") /\ "error" \in Faults
    BY <1>9 DEF AuthorizeLater
  <2>2. Silent(d)
    BY <1>2, <1>9 DEF AuthorizeLater, ReadOnly, storeVars, Silent
  <2> QED BY <1>0, <2>1, <2>2, GotoMoves DEF Goes, Moves, At
<1>10. CASE AuthorizeBlocked(d)
  <2>0. PICK x \in Tick : x = tick[d]
    BY TicksTyped
  <2> DEFINE r == [x EXCEPT !.pc = "giveup", !.mode = "end"]
  <2>1. tick' = [tick EXCEPT ![d] = r] /\ x.pc = "authorize"
    BY <2>0, <1>10 DEF AuthorizeBlocked, At
  <2>2. r.pc = "giveup" /\ r.mode = "end" /\ r.snap = x.snap /\ r.todo = x.todo /\ r.job = x.job
    BY DEF Tick
  <2>3. Silent(d)
    BY <1>2, <1>10 DEF AuthorizeBlocked, ReadOnly, storeVars, Silent
  <2> HIDE DEF r
  <2> QED BY <2>0, <2>1, <2>2, <2>3, TickIs DEF Goes, Moves, SameWork
<1>11. CASE AuthorizeSubmit(d)
  <2>1. At(d, "authorize") /\ Goto(d, "submit") /\ AskSubmit(d, tick[d].job)
    BY <1>11 DEF AuthorizeSubmit
  <2>2. call'[d].stage = "asked"
    BY <2>1 DEF AskSubmit, DispatchInv, StoreInv, TypeOK
  <2> QED BY <1>0, <2>1, <2>2, GotoMoves DEF Goes, Moves, At
<1> QED BY <1>4, <1>5, <1>6, <1>7, <1>8, <1>9, <1>10, <1>11

LEMMA IntentMoves ==
  ASSUME DispatchInv, NEW d \in Clients, PrepareIntent(d)
  PROVE  Goes(d) \/ Outs(d)
<1>1. tick[d].pc = "intent" /\ PrepareSubmission(tick[d].job)
  BY DEF PrepareIntent, At
<1>2. Silent(d)
  BY <1>1, NotCalling DEF PrepareSubmission, leaseVars, Silent
<1>3. CASE Leave(d)
  BY <1>2, <1>3, LeaveOuts
<1>4. CASE job[tick[d].job].state # "running" /\ Goto(d, "authorize")
  <2>1. "authorize" \in TickPc
    BY DEF TickPc
  <2> QED BY <1>1, <1>2, <1>4, <2>1, GotoMoves DEF Goes, Moves
<1>5. CASE tick' = [tick EXCEPT ![d].pc = "attach", ![d].mode = "end",
                                ![d].task = job[tick[d].job].task]
  <2>0. PICK x \in Tick : x = tick[d]
    BY TicksTyped
  <2> DEFINE t == job[tick[d].job].task
             r == [x EXCEPT !.pc = "attach", !.mode = "end", !.task = t]
  <2>1. tick' = [tick EXCEPT ![d] = r]
    BY <2>0, <1>5
  <2> HIDE DEF t
  <2>2. r.pc = "attach" /\ r.mode = "end" /\ r.snap = x.snap /\ r.todo = x.todo /\ r.job = x.job
    BY DEF Tick
  <2> HIDE DEF r
  <2> QED BY <1>1, <1>2, <2>0, <2>1, <2>2, TickIs DEF Goes, Moves, SameWork
<1> QED BY <1>3, <1>4, <1>5 DEF PrepareIntent

LEMMA PickMoves ==
  ASSUME DispatchInv, NEW d \in Clients, NEW j \in Jobs, PoolPick(d, j)
  PROVE  Picks(d)
<1>0. PICK x \in Tick : x = tick[d]
  BY TicksTyped
<1> DEFINE r == [x EXCEPT !.pc = "prepare", !.job = j, !.mode = "dispatch"]
<1>1. tick' = [tick EXCEPT ![d] = r] /\ x.pc = "pool" /\ Used(d) < Capacity
  BY <1>0 DEF PoolPick, At
<1>2. r.pc = "prepare" /\ r.mode = "dispatch" /\ r.snap = x.snap /\ r.todo = x.todo
  BY DEF Tick
<1> HIDE DEF r
<1>3. Silent(d)
  BY <1>0, <1>1, NotCalling DEF PoolPick, ReadOnly, storeVars, Silent
<1> QED BY <1>0, <1>1, <1>2, <1>3, TickIs DEF Picks, Moves, SameWork

LEMMA AttachMoves ==
  ASSUME DispatchInv, NEW d \in Clients, Attach(d)
  PROVE  Attaches(d) \/ Outs(d)
<1>0. PICK x \in Tick : x = tick[d]
  BY TicksTyped
<1>1. x.pc = "attach" /\ Silent(d)
  BY <1>0, NotCalling DEF Attach, At, storeVars, Silent
<1>2. CASE Leave(d)
  BY <1>1, <1>2, LeaveOuts
<1>3. CASE tick[d].mode # "end" /\ ~Leave(d)
  <2> DEFINE snap == [x.snap EXCEPT ![x.task] = "queued"]
             pc == IF x.mode = "resubmit" THEN "recover" ELSE "pool"
             r == [x EXCEPT !.snap = snap, !.job = None, !.task = 0, !.mode = "found",
                            !.pc = pc]
  <2>1. tick' = [tick EXCEPT ![d] = r]
    BY <1>0, <1>3 DEF Attach
  <2>a. /\ pc \in IF tick[d].mode = "resubmit" THEN {"recover"} ELSE {"pool"}
        /\ snap = [tick[d].snap EXCEPT ![tick[d].task] = "queued"]
    BY <1>0
  <2> HIDE DEF snap, pc
  <2>2. r.pc = pc /\ r.mode = "found" /\ r.snap = snap /\ r.todo = x.todo
    BY DEF Tick
  <2> HIDE DEF r
  <2> QED BY <1>0, <1>1, <1>3, <2>a, <2>1, <2>2, TickIs DEF Attaches, Moves
<1> QED BY <1>2, <1>3 DEF Attach

LEMMA CallMoves ==
  ASSUME DispatchInv, NEW d \in Clients,
         SubmitOpens(d) \/ SubmitPaused(d) \/ SubmitFenced(d) \/ SubmitCommits(d)
           \/ SubmitAborts(d)
  PROVE  Goes(d) \/ Outs(d)
<1>0. {"retry", "refs"} \subseteq TickPc
  BY DEF TickPc
<1>1. tick[d].pc = "submit" /\ call \in [Clients -> Call]
  BY DEF SubmitOpens, SubmitPaused, SubmitFenced, SubmitCommits, SubmitAborts, At,
         DispatchInv, StoreInv, TypeOK
<1>2. CASE SubmitOpens(d)
  <2>1. call[d].stage = "asked" /\ call'[d].stage = "open" /\ UNCHANGED tick
    BY <1>1, <1>2 DEF SubmitOpens, OpenSubmit, Call, dispatchVars
  <2> QED BY <1>1, <2>1 DEF Goes, Moves, SameWork, SameMode, SameTask
<1>3. CASE ~SubmitOpens(d)
  <2>1. Silent(d)
    BY <1>1, <1>3 DEF SubmitPaused, SubmitFenced, SubmitCommits, SubmitAborts,
       PausedSubmit, FencedSubmit, CommitSubmit, AbortSubmit, NoCall, Silent
  <2>2. CASE Leave(d)
    BY <2>1, <2>2, LeaveOuts
  <2>3. CASE Goto(d, "retry") /\ ~SubmitCommits(d)
    <3>1. call[d].stage = "sent" => "error" \in Faults
      BY <1>3, <2>3 DEF SubmitPaused, SubmitFenced, SubmitCommits, SubmitAborts, PausedSubmit, FencedSubmit
    <3> QED BY <1>0, <1>1, <2>1, <2>3, <3>1, GotoMoves DEF Goes, Moves
  <2>4. CASE call[d].stage = "sent" /\ Goto(d, "refs")
    BY <1>0, <1>1, <2>1, <2>4, GotoMoves DEF Goes, Moves
  <2> QED BY <1>3, <2>2, <2>3, <2>4 DEF SubmitPaused, SubmitFenced, SubmitCommits, SubmitAborts,
             CommitSubmit
<1> QED BY <1>2, <1>3

LEMMA SendMoves ==
  ASSUME DispatchInv, NEW d \in Clients, SubmitTask(d)
  PROVE  Sends(d)
<1>0. PICK x \in Tick : x = tick[d]
  BY TicksTyped
<1> DEFINE t == Len(accepted) + 1
           r == [x EXCEPT !.task = t]
<1>1. tick' = [tick EXCEPT ![d] = r] /\ x.pc = "submit" /\ Submit(d)
  BY <1>0 DEF SubmitTask, At
<1> HIDE DEF t
<1>2. r.pc = x.pc /\ r.mode = x.mode /\ r.snap = x.snap /\ r.todo = x.todo /\ r.job = x.job
      /\ r.task = t
  BY DEF Tick
<1> HIDE DEF r
<1>3. call'[d].stage = "sent"
  BY <1>1 DEF Submit, DispatchInv, StoreInv, TypeOK, Call
<1> QED BY <1>0, <1>1, <1>2, <1>3, TickIs DEF Sends, Moves, SameWork, SameMode, t

\* Every step of a daemon is one of these.
Route(d) ==
    \/ Outs(d) \/ Sees(d) \/ Scans(d) \/ Pages(d) \/ Returns(d) \/ Takes(d) \/ Skips(d)
    \/ Goes(d) \/ Resumes(d) \/ Attaches(d) \/ Sends(d) \/ Picks(d)

LEMMA DaemonMoves ==
  ASSUME DispatchInv, NEW d \in Clients, Modes(d), DaemonStep(d) \/ StepFails(d) \/ Crash(d)
  PROVE  Route(d)
<1>1. CASE Import(d)
  BY <1>1, LeaseMoves, SeeMoves, ScanMoves, FailMoves DEF Import, Route
<1>2. CASE Recover(d)
  BY <1>2, PageMoves, TakeMoves, RetryMoves, WorkMoves, FailMoves DEF Recover, Route
<1>3. CASE Submission(d)
  BY <1>3, CallMoves, SendMoves, WorkMoves, PublishMoves, AttachMoves, FailMoves
     DEF Submission, Route
<1>4. CASE Fill(d)
  BY <1>4, FailMoves, WorkMoves, PickMoves, IntentMoves, LeaseMoves DEF Fill, Route
<1>5. CASE StepFails(d) \/ Crash(d)
  BY <1>5, FailMoves, LeaseMoves DEF Route
<1> QED BY <1>1, <1>2, <1>3, <1>4, <1>5 DEF DaemonStep

-----------------------------------------------------------------------------
(* At most one task for a job.                                             *)

LEMMA DaemonAccepts ==
  ASSUME NEW d \in Clients, DaemonStep(d) \/ StepFails(d) \/ Crash(d)
  PROVE  UNCHANGED <<accepted, task>> \/ SubmitTask(d)
<1>1. CASE DaemonStep(d)
  BY <1>1, ImportEffects, RecoverEffects, SubmissionEffects, FillEffects DEF DaemonStep
<1>2. CASE StepFails(d)
  BY <1>2, OtherEffects
<1>3. CASE Crash(d)
  BY <1>3 DEF Crash, Kill, recordVars
<1> QED BY <1>1, <1>2, <1>3

\* Only the leader submits, the job it has at hand.
LEMMA Submitter ==
  ASSUME Base, NEW d \in Clients, SubmitTask(d)
  PROVE  /\ Leads(d) /\ call[d].stage = "open" /\ tick[d].pc = "submit"
         /\ tick[d].job \in Jobs
         /\ accepted' = Append(accepted, tick[d].job)
         /\ task' = [task EXCEPT ![Len(accepted) + 1] = "queued"]
         /\ UNCHANGED <<leader, held, orphans, job, outbox>>
<1> USE DEF Base
<1>1. /\ tick[d].pc = "submit" /\ call[d].stage = "open" /\ Submit(d)
      /\ task' = [task EXCEPT ![Len(accepted) + 1] = "queued"]
  BY DEF SubmitTask, Submit, At
<1>2. call[d].job = tick[d].job /\ tick[d].job \in Jobs
  BY <1>1, TicksTyped DEF Local, Calling, HasJob, Acting, Scheduling
<1>3. Owns(d) /\ leader = d
  BY <1>1 DEF LeadInv, LeaderOnly, StoreInv, InsideOwns, Inside
<1>4. held[d] # 0
  <2>1. lease \in Lease
    BY <1>3 DEF Owns, DispatchInv, StoreInv, TypeOK
  <2>2. lease.token \in 1 .. MaxToken
    BY <2>1 DEF Lease
  <2> QED BY <1>3, <2>2 DEF Owns
<1> QED BY <1>1, <1>2, <1>3, <1>4 DEF Leads, Submit, jobVars

LEMMA Appended ==
  ASSUME DispatchInv, NEW j \in Jobs, accepted' = Append(accepted, j)
  PROVE  /\ DOMAIN accepted' = DOMAIN accepted \cup {Len(accepted) + 1}
         /\ Len(accepted) + 1 \notin DOMAIN accepted
         /\ \A t \in DOMAIN accepted : accepted'[t] = accepted[t]
         /\ accepted'[Len(accepted) + 1] = j
  BY DEF DispatchInv, StoreInv, TypeOK

\* A task, once accepted, stays in the scheduler.
LEMMA TasksStay ==
  ASSUME Base, Calm, orphans = {}, [Next]_vars
  PROVE  /\ orphans' = {}
         /\ \/ \E d \in Clients : SubmitTask(d)
            \/ /\ accepted' = accepted
               /\ \A t \in Tasks : task[t] \notin {"none", "gone"} => task'[t] \notin {"none", "gone"}
<1> USE DEF Base
<1>1. ASSUME NEW d \in Clients, DaemonStep(d)
      PROVE  orphans' = {} /\ (UNCHANGED <<accepted, task>> \/ SubmitTask(d))
  BY <1>1, DaemonAccepts, ImportEffects, RecoverEffects, SubmissionEffects, FillEffects
     DEF DaemonStep
<1>2. ASSUME NEW d \in Clients, KeepLease(d) \/ StepFails(d)
      PROVE  UNCHANGED <<orphans, accepted, task>>
  BY <1>2, OtherEffects
<1>3. ASSUME NEW d \in Clients, Crash(d) PROVE UNCHANGED <<orphans, accepted, task>>
  BY <1>3 DEF Crash, Kill, recordVars, Calm
<1>4. ASSUME NEW t \in Tasks, WorkerStep(t) \/ KillWorker(t) \/ Clean(t)
      PROVE  /\ UNCHANGED <<orphans, accepted>>
             /\ \A u \in Tasks : task[u] \notin {"none", "gone"} => task'[u] \notin {"none", "gone"}
  <2>1. PICK s \in Stage \ {"none", "queued"} :
          task' = [task EXCEPT ![t] = s] /\ (s = "gone" => "clean" \in Faults)
    BY <1>4, WorkerStages
  <2>2. \A u \in Tasks : task'[u] = IF u = t THEN s ELSE task[u]
    BY <2>1, TasksTyped
  <2> QED BY <1>4, <2>1, <2>2, WorkerEffects DEF Calm
<1>5. ASSUME Clock \/ Switch PROVE UNCHANGED <<orphans, accepted, task>>
  BY <1>5 DEF Clock, Switch, ExpireLease, RetryTime, SetPaused, taskVars, dispatchVars
<1>6. ~\E j \in Jobs : LateTask(j)
  BY DEF LateTask, LateSubmit
<1>7. CASE UNCHANGED vars
  BY <1>7 DEF vars, storeVars, dispatchVars
<1> QED BY <1>1, <1>2, <1>3, <1>4, <1>5, <1>6, <1>7 DEF Next

\* A daemon that does not act.
LEMMA StillKeeps ==
  ASSUME Base, Calm, SubInv, [Next]_vars, [StoreNext]_storeVars, NEW e \in Clients, Still(e),
         accepted' = accepted \/ \E d \in Clients \ {e} : SubmitTask(d)
  PROVE  Modes(e)' /\ Fresh(e)' /\ Clear(e)' /\ Claims(e)'
<1> USE DEF Base
<1>1. Modes(e)'
  BY DEF SubInv, Still, Modes, Filling
<1>2. Claims(e)'
  <2> SUFFICES ASSUME tick[e].pc \in {"authorize", "submit"}
               PROVE  Claims(e)'
    BY DEF Claims, Still
  <2>1. PICK j \in Jobs : j = tick[e].job
    BY AtHand DEF AfterPage, Scheduling
  <2>2. Claimed(j)'
    BY <2>1, ClaimsKept DEF SubInv, Claims
  <2> QED BY <2>1, <2>2 DEF Claims, Claimed, Still
<1>3. CASE ~Leads(e)'
  BY <1>1, <1>2, <1>3 DEF Fresh, Clear
<1>4. CASE Leads(e)'
  <2>1. accepted' = accepted
    BY <1>4, Submitter DEF Leads
  <2>2. Leads(e) \/ tick[e].pc = "snapshot"
    BY <1>4, LeadSteps DEF LeadKept, Still
  <2>3. CASE tick[e].pc = "snapshot"
    <3>1. ~(tick[e].pc \in After) /\ ~Chosen(e)
      BY <2>3, NotCalling DEF After, ScanPc, AfterPage, Scheduling, Chosen
    <3> QED BY <1>1, <1>2, <3>1 DEF Fresh, Clear, Chosen, Still
  <2>4. CASE Leads(e)
    <3>1. Clear(e)'
      BY <2>1, <2>4 DEF SubInv, Clear, Chosen, Untasked, Still
    <3>2. ASSUME NEW t \in DOMAIN accepted, tick[e].pc \in After, Unseen(e, t)
          PROVE  Known(e, t)'
      <4>1. Known(e, t)
        BY <2>4, <3>2 DEF SubInv, Fresh
      <4>2. CASE Filling(e)
        BY <4>1, <4>2 DEF Known, Filling, Still
      <4>3. CASE ~Filling(e)
        <5>1. Settled(e, accepted[t]) /\ tick[e].pc \notin ScanPc
          BY <4>1, <4>3 DEF Known
        <5>2. Recovering(e)
          <6>1. tick[e].pc \notin {"prepare", "intent", "authorize", "pool"}
            BY <4>3, TicksTyped DEF Local, HasTask, Filling
          <6> QED BY <3>2, <5>1, <6>1
                  DEF Recovering, After, AfterPage, Scheduling
        <5>3. accepted[t] \in Jobs /\ outbox[accepted[t]].state # "absent"
          BY TasksAccepted DEF SubInv, TaskRows, Claimed
        <5>4. ~outbox[accepted[t]].due => ~outbox'[accepted[t]].due
          BY <5>2, <5>3, DueSteps DEF DueKept
        <5> QED BY <2>1, <4>3, <5>1, <5>4 DEF Settled, InHand, Known, Still
      <4> QED BY <4>2, <4>3
    <3>3. Fresh(e)'
      BY <2>1, <3>2 DEF Fresh, Unseen, Own, Still
    <3> QED BY <1>1, <1>2, <3>1, <3>3
  <2> QED BY <2>2, <2>3, <2>4
<1> QED BY <1>3, <1>4

\* The daemon that acts.
LEMMA ActorsMode ==
  ASSUME NEW d \in Clients, Modes(d), Route(d)
  PROVE  Modes(d)'
<1>1. CASE Outs(d) \/ Sees(d) \/ Scans(d) \/ Pages(d) \/ Returns(d) \/ Skips(d) \/ Resumes(d)
           \/ Attaches(d)
  <2>1. tick'[d].pc \notin Scheduling /\ tick'[d].mode = "found"
    BY <1>1 DEF Outs, Sees, Scans, Pages, Returns, Skips, Resumes, Attaches, Moves, ScanPc,
       Scheduling
  <2> QED BY <2>1 DEF Modes
<1>2. CASE Takes(d)
  <2>1. tick'[d].pc \in Scheduling /\ tick'[d].job \notin tick'[d].todo
    BY <1>2 DEF Takes, Moves, Scheduling
  <2> QED BY <2>1 DEF Modes
<1>3. CASE Goes(d)
  <2>1. /\ tick[d].pc \in Scheduling /\ tick'[d].pc \in Scheduling
        /\ tick'[d].mode \in {tick[d].mode, "end"}
    BY <1>3 DEF Goes, Moves, SameMode, Scheduling
  <2>2. tick'[d].job = tick[d].job /\ tick'[d].todo = tick[d].todo
    BY <1>3 DEF Goes, SameWork
  <2> QED BY <2>1, <2>2 DEF Modes, Filling, Scheduling
<1>4. CASE Sends(d)
  BY <1>4 DEF Sends, Moves, SameWork, SameMode, Modes, Filling, Scheduling
<1>5. CASE Picks(d)
  BY <1>5 DEF Picks, Moves, Modes, Filling, Scheduling
<1> QED BY <1>1, <1>2, <1>3, <1>4, <1>5 DEF Route

LEMMA ActorsClaim ==
  ASSUME Base, SubInv, [StoreNext]_storeVars, NEW d \in Clients, Route(d)
  PROVE  Claims(d)'
<1> USE DEF Base
<1> SUFFICES ASSUME tick'[d].pc \in {"authorize", "submit"}
             PROVE  Claims(d)'
  BY DEF Claims
<1>1. CASE Takes(d)
  <2>1. tick'[d].pc = "submit" /\ tick[d].pc = "recover"
    BY <1>1 DEF Takes, Moves
  <2>2. PICK j \in Jobs : j = tick'[d].job
    BY <1>1, <2>1, AtHand DEF Takes, AfterPage, Own
  <2>3. Claimed(j)'
    BY <1>1, <2>1, <2>2, AtHand DEF Takes, AfterPage, Claimed
  <2> QED BY <2>2, <2>3 DEF Claims, Claimed
<1>2. CASE Goes(d) \/ Sends(d)
  <2>1. tick[d].pc \in {"submit", "intent", "authorize"} /\ tick'[d].job = tick[d].job
    BY <1>2 DEF Goes, Sends, Moves
  <2>2. PICK j \in Jobs : j = tick[d].job
    BY <2>1, AtHand DEF AfterPage, Scheduling
  <2>3. CASE tick[d].pc = "intent"
    <3>1. PrepareSubmission(j) /\ job[j].state # "running"
      BY <1>2, <2>2, <2>3 DEF Goes, Sends, Moves
    <3>2. Claimed(j)'
      BY <3>1 DEF PrepareSubmission, Claimed, DispatchInv, StoreInv, TypeOK, JobRow, Intent
    <3> QED BY <2>1, <2>2, <3>2 DEF Claims, Claimed
  <2>4. CASE tick[d].pc # "intent"
    <3>1. Claimed(j)'
      BY <2>1, <2>2, <2>4, ClaimsKept DEF SubInv, Claims
    <3> QED BY <2>1, <2>2, <3>1 DEF Claims, Claimed
  <2> QED BY <2>3, <2>4
<1>3. CASE ~Takes(d) /\ ~Goes(d) /\ ~Sends(d)
  BY <1>3 DEF Route, Outs, Sees, Scans, Pages, Returns, Skips, Resumes, Attaches, Picks, Moves,
     ScanPc
<1> QED BY <1>1, <1>2, <1>3

LEMMA ActorsChoice ==
  ASSUME Base, SubInv, [Next]_vars, NEW d \in Clients, Route(d),
         accepted' = accepted \/ Sends(d)
  PROVE  Clear(d)'
<1> USE DEF Base
<1> SUFFICES ASSUME Leads(d)', Chosen(d)'
             PROVE  Clear(d)'
  BY DEF Clear
<1>1. tick'[d].pc # "snapshot" => Leads(d)
  BY LeadSteps DEF LeadKept
<1>2. CASE Takes(d)
  <2>1. tick[d].pc = "recover" /\ tick'[d].pc \in {"giveup", "submit"} /\ accepted' = accepted
    BY <1>2 DEF Takes, Sends, Moves, Chosen, Silent
  <2>2. PICK j \in Jobs : j = tick'[d].job
    BY <1>2, <2>1, AtHand DEF Takes, AfterPage, Own
  <2>3. j \in tick[d].todo /\ j \in Own(d) /\ Routes(d, j) = {}
    BY <1>2, <2>1, <2>2, AtHand DEF Takes, AfterPage, Missing
  <2>4. ~Filling(d) /\ Leads(d)
    BY <1>1, <2>1 DEF SubInv, Modes, Filling, Scheduling
  <2>5. ASSUME NEW t \in DOMAIN accepted, accepted[t] = j PROVE FALSE
    <3>1. Unseen(d, t)
      BY <2>3, <2>5 DEF Unseen, Routes
    <3>2. Known(d, t)
      BY <2>1, <2>4, <3>1 DEF SubInv, Fresh, After, AfterPage
    <3> QED BY <2>1, <2>3, <2>4, <2>5, <3>2 DEF Known, Settled
  <2> QED BY <2>1, <2>2, <2>5 DEF Clear, Untasked
<1>3. CASE Goes(d)
  <2>1. /\ tick[d].pc # "snapshot" /\ tick'[d].pc # "snapshot" /\ tick'[d].job = tick[d].job
        /\ \/ tick[d].pc = "intent" /\ PrepareSubmission(tick[d].job)
                /\ job[tick[d].job].state # "running"
           \/ Chosen(d)
    BY <1>3 DEF Goes, Moves, Chosen, Silent
  <2>2. accepted' = accepted
    BY <1>3 DEF Goes, Sends, Moves, Silent
  <2>3. CASE Chosen(d)
    BY <1>1, <2>1, <2>2, <2>3 DEF SubInv, Clear, Untasked
  <2>4. CASE tick[d].pc = "intent" /\ PrepareSubmission(tick[d].job)
             /\ job[tick[d].job].state # "running"
    <3>1. tick[d].job \in Jobs
      BY <2>4, AtHand DEF AfterPage, Scheduling
    <3>2. ~Claimed(tick[d].job)
      BY <2>4, <3>1 DEF PrepareSubmission, Claimed
    <3>3. Untasked(tick[d].job)
      BY <3>2 DEF SubInv, TaskRows, Untasked
    <3> QED BY <2>1, <2>2, <3>3 DEF Clear, Untasked
  <2> QED BY <2>1, <2>3, <2>4
<1>4. CASE ~Takes(d) /\ ~Goes(d)
  BY <1>4 DEF Route, Outs, Sees, Scans, Pages, Returns, Skips, Resumes, Attaches, Sends, Picks,
     Moves, ScanPc, Chosen, Silent
<1> QED BY <1>2, <1>3, <1>4

\* What the acting daemon knows of the intents, if it recovers them.
LEMMA ActorsDue ==
  ASSUME Base, Calm, SubInv, [Next]_vars, NEW d \in Clients, Recovering(d), NEW t \in DOMAIN accepted,
         ~outbox[accepted[t]].due
  PROVE  ~outbox'[accepted[t]].due
<1>1. accepted[t] \in Jobs /\ outbox[accepted[t]].state # "absent"
  BY TasksAccepted DEF Base, SubInv, TaskRows, Claimed
<1> QED BY <1>1, DueSteps DEF DueKept

LEMMA ActorsSight ==
  ASSUME Base, Calm, SubInv, [Next]_vars, NEW d \in Clients, Route(d),
         accepted' = accepted \/ Sends(d)
  PROVE  Fresh(d)'
<1> USE DEF Base
<1> SUFFICES ASSUME Leads(d)', tick'[d].pc \in After, NEW t \in DOMAIN accepted', Unseen(d, t)'
             PROVE  Known(d, t)'
  BY DEF Fresh
<1>1. tick'[d].pc # "snapshot" => Leads(d)
  BY LeadSteps DEF LeadKept
<1>2. Modes(d) /\ (Leads(d) /\ tick[d].pc \in After /\ t \in DOMAIN accepted /\ Unseen(d, t)
                     => Known(d, t))
  BY DEF SubInv, Fresh
<1>3. accepted'[t] \in Own(d) /\ tick'[d].snap[t] = "none"
  BY DEF Unseen, Own
<1>4. tick[d].pc # "submit" => call[d].stage = "none"
  BY NotCalling
<1>a. tick'[d].pc # "snapshot"
  BY DEF After, ScanPc, AfterPage, Scheduling
<1> USE DEF Moves
<1>5. CASE Sees(d)
  <2>1. accepted' = accepted
    BY <1>5 DEF Sees, Sends
  <2>2. t \in DOMAIN accepted /\ t \in Tasks
    BY <2>1, TasksAccepted
  <2>3. task[t] \notin {"none", "gone"} /\ task[t] \in Stage
    BY <2>2, TasksTyped DEF SubInv, TaskRows
  <2>4. Observed(task[t]) # "none"
    BY <2>3 DEF Observed, Stage, Working, Outcome
  <2> QED BY <1>3, <1>5, <2>2, <2>4 DEF Sees
<1>6. CASE Scans(d)
  <2>1. accepted' = accepted /\ tick[d].pc \in ScanPc /\ tick'[d].snap = tick[d].snap
    BY <1>6 DEF Scans, Sends, ScanPc
  <2> QED BY <1>1, <1>2, <1>3, <1>a, <2>1 DEF Unseen, Known, After
\* The steps from the page on, of a task that was accepted before.
<1>7. CASE Pages(d) \/ Returns(d) \/ Takes(d) \/ Skips(d)
  <2>1. /\ accepted' = accepted /\ tick[d].pc \in {"page", "recover"}
        /\ tick'[d].snap = tick[d].snap
    BY <1>7 DEF Pages, Returns, Takes, Skips, Sends, SameWork
  <2>2. Leads(d) /\ t \in DOMAIN accepted /\ Unseen(d, t) /\ tick[d].pc \in After
    BY <1>1, <1>3, <1>a, <2>1 DEF Unseen, After, AfterPage
  <2>3. ~Filling(d) /\ ~InHand(d, accepted[t])
    BY <1>2, <1>4, <2>1 DEF Modes, Filling, Scheduling, InHand
  <2>4. ~outbox[accepted[t]].due /\ (tick[d].pc = "page" \/ accepted[t] \notin tick[d].todo)
    BY <1>2, <2>2, <2>3 DEF Known, Settled
  <2>5. ~outbox'[accepted[t]].due
    BY <2>1, <2>2, <2>4, ActorsDue DEF Recovering
  <2>6. tick'[d].pc \notin ScanPc
    BY <1>7 DEF Pages, Returns, Takes, Skips, ScanPc
  <2>7. \/ tick'[d].pc \in {"page", "pool"}
        \/ accepted[t] \notin tick'[d].todo
    BY <1>7, <2>4 DEF Pages, Returns, Takes, Skips, Due
  <2> QED BY <2>1, <2>5, <2>6, <2>7 DEF Known, Settled, Filling
<1>8. CASE Goes(d) \/ Resumes(d) \/ Attaches(d)
  <2>1. /\ accepted' = accepted /\ tick[d].pc \in Scheduling /\ tick[d].pc # "page"
        /\ tick'[d].pc \notin ScanPc /\ tick'[d].todo = tick[d].todo
    BY <1>8 DEF Goes, Resumes, Attaches, SameWork, Sends, Scheduling, ScanPc, Silent
  <2>2. tick[d].snap[t] = "none"
    <3>1. CASE Attaches(d)
      <4>1. tick[d].snap \in [Tasks -> Seen]
        BY TicksTyped, TickFields
      <4> QED BY <1>3, <3>1, <4>1 DEF Attaches
    <3> QED BY <1>3, <1>8, <3>1 DEF Goes, Resumes, SameWork
  <2>3. Leads(d) /\ t \in DOMAIN accepted /\ Unseen(d, t) /\ tick[d].pc \in After
    BY <1>1, <1>3, <1>a, <2>1, <2>2 DEF Unseen, After, AfterPage
  <2>4. Known(d, t)
    BY <1>2, <2>3
  <2>5. CASE Filling(d)
    <3>1. Filling(d)'
      BY <1>8, <2>1, <2>5 DEF Goes, Resumes, Attaches, SameMode, Filling, Scheduling
    <3> QED BY <2>1, <3>1 DEF Known
  <2>6. CASE ~Filling(d)
    <3>1. Settled(d, accepted[t])
      BY <2>4, <2>6 DEF Known
    <3>2. Recovering(d)
      <4>1. tick[d].pc \notin {"prepare", "intent", "authorize"}
        BY <2>6, TicksTyped DEF Local, HasTask, Filling
      <4> QED BY <2>1, <4>1 DEF Recovering, Scheduling
    <3>3. ~outbox[accepted[t]].due => ~outbox'[accepted[t]].due
      BY <2>3, <3>2, ActorsDue
    <3>4. InHand(d, accepted[t]) => InHand(d, accepted[t])' \/ ~outbox'[accepted[t]].due
      BY <1>4, <1>8, <2>1 DEF InHand, Goes, Resumes, Attaches, Silent
    <3> QED BY <2>1, <3>1, <3>3, <3>4 DEF Known, Settled
  <2> QED BY <2>5, <2>6
<1>9. CASE Sends(d)
  <2>0. SubmitTask(d)
    BY <1>9 DEF Sends
  <2>1. /\ tick[d].job \in Jobs /\ accepted' = Append(accepted, tick[d].job)
        /\ call[d].stage = "open" /\ outbox' = outbox
    BY <2>0, Submitter
  <2> PICK k \in Jobs : k = tick[d].job
    BY <2>1
  <2>2. /\ DOMAIN accepted' = DOMAIN accepted \cup {Len(accepted) + 1}
        /\ \A u \in DOMAIN accepted : accepted'[u] = accepted[u]
        /\ accepted'[Len(accepted) + 1] = k
    BY <2>1, Appended
  <2>3. /\ tick[d].pc = "submit" /\ tick'[d].pc = "submit" /\ tick'[d].mode = tick[d].mode
        /\ tick'[d].todo = tick[d].todo /\ tick'[d].job = k /\ call'[d].stage = "sent"
        /\ tick'[d].snap = tick[d].snap
    BY <1>9 DEF Sends, SameWork, SameMode
  <2>4. CASE Filling(d)
    BY <2>3, <2>4 DEF Filling, Known, ScanPc
  <2>5. CASE ~Filling(d) /\ t \notin DOMAIN accepted
    <3>1. accepted'[t] = k /\ k \notin tick'[d].todo
      BY <1>2, <2>2, <2>3, <2>5 DEF Modes, Scheduling
    <3> QED BY <2>3, <3>1 DEF Known, Settled, InHand, ScanPc
  <2>6. CASE ~Filling(d) /\ t \in DOMAIN accepted
    <3>1. accepted'[t] = accepted[t] /\ Leads(d) /\ Unseen(d, t)
      BY <1>1, <1>3, <1>a, <2>2, <2>3, <2>6 DEF Unseen
    <3>2. Settled(d, accepted[t]) /\ ~InHand(d, accepted[t])
      BY <1>2, <2>1, <2>3, <2>6, <3>1
         DEF Known, After, AfterPage, Scheduling, InHand
    <3> QED BY <2>1, <2>3, <3>1, <3>2 DEF Known, Settled, ScanPc
  <2> QED BY <2>4, <2>5, <2>6
<1>10. CASE Outs(d) \/ Picks(d)
  BY <1>10 DEF Outs, Picks, After, AfterPage, Scheduling, ScanPc, Known, Filling
<1> QED BY <1>5, <1>6, <1>7, <1>8, <1>9, <1>10 DEF Route

LEMMA TasksApart ==
  ASSUME Base, Calm, SubInv, [Next]_vars, [StoreNext]_storeVars
  PROVE  orphans' = {} /\ OneTask' /\ TaskRows'
<1> USE DEF Base
<1>1. ASSUME NEW j \in Jobs, Claimed(j) PROVE Claimed(j)'
  BY <1>1, ClaimsKept
<1>2. ASSUME NEW t \in DOMAIN accepted PROVE Claimed(accepted[t]) /\ accepted[t] \in Jobs
  BY TasksAccepted DEF SubInv, TaskRows
<1>3. CASE ~\E d \in Clients : SubmitTask(d)
  <2>1. /\ orphans' = {} /\ accepted' = accepted
        /\ \A t \in Tasks : task[t] \notin {"none", "gone"} => task'[t] \notin {"none", "gone"}
    BY <1>3, TasksStay DEF SubInv
  <2>2. ASSUME NEW t \in DOMAIN accepted' PROVE Claimed(accepted[t])'
    <3>1. PICK j \in Jobs : j = accepted[t] /\ Claimed(j)
      BY <1>2, <2>1
    <3>2. Claimed(j)'
      BY <1>1, <3>1
    <3> QED BY <2>1, <3>1, <3>2 DEF Claimed
  <2> QED BY <2>1, <2>2, TasksAccepted DEF SubInv, OneTask, TaskRows, Claimed
<1>4. ASSUME NEW d \in Clients, SubmitTask(d)
      PROVE  orphans' = {} /\ OneTask' /\ TaskRows'
  <2>1. /\ Leads(d) /\ call[d].stage = "open" /\ tick[d].pc = "submit" /\ tick[d].job \in Jobs
        /\ accepted' = Append(accepted, tick[d].job) /\ UNCHANGED <<orphans, job, outbox>>
        /\ task' = [task EXCEPT ![Len(accepted) + 1] = "queued"]
    BY <1>4, Submitter
  <2> PICK k \in Jobs : k = tick[d].job
    BY <2>1
  <2>2. /\ DOMAIN accepted' = DOMAIN accepted \cup {Len(accepted) + 1}
        /\ Len(accepted) + 1 \notin DOMAIN accepted
        /\ \A t \in DOMAIN accepted : accepted'[t] = accepted[t]
        /\ accepted'[Len(accepted) + 1] = k
    BY <2>1, Appended
  <2>3. Untasked(k) /\ Claimed(k)
    BY <2>1 DEF SubInv, Clear, Chosen, Claims
  <2>4. OneTask'
    BY <2>2, <2>3 DEF SubInv, OneTask, Untasked
  <2>5. ASSUME NEW t \in DOMAIN accepted'
        PROVE  Claimed(accepted[t])' /\ task'[t] \notin {"none", "gone"}
    <3>1. \A u \in Tasks : task'[u] = IF u = Len(accepted) + 1 THEN "queued" ELSE task[u]
      BY <2>1, TasksTyped
    <3>2. PICK j \in Jobs : j = accepted'[t] /\ Claimed(j)
      BY <1>2, <2>2, <2>3, <2>5
    <3>3. t \in Tasks
      <4>1. Len(accepted) + 1 \in Tasks
        <5>1. Len(accepted) < MaxTasks /\ Len(accepted) \in Nat
          BY <1>4 DEF SubmitTask, Submit, DispatchInv, StoreInv, TypeOK
        <5> QED BY <5>1, OperationBounds DEF Tasks
      <4> QED BY <2>2, <4>1, TasksAccepted
    <3>4. task'[t] \notin {"none", "gone"}
      BY <2>2, <2>5, <3>1, <3>3 DEF SubInv, TaskRows
    <3> QED BY <2>1, <3>2, <3>4 DEF Claimed
  <2> QED BY <2>1, <2>4, <2>5 DEF SubInv, TaskRows, Claimed
<1> QED BY <1>3, <1>4

LEMMA SubStep ==
  ASSUME Base, Calm, SubInv, [Next]_vars
  PROVE  SubInv'
<1> USE DEF Base
<1>1. [StoreNext]_storeVars
  BY DispatchStep
<1>2. accepted' = accepted \/ \E d \in Clients : SubmitTask(d)
  BY TasksStay DEF SubInv
<1>3. ASSUME NEW e \in Clients PROVE Modes(e)' /\ Fresh(e)' /\ Clear(e)' /\ Claims(e)'
  <2>1. CASE UNCHANGED <<tick, call>>
    <3>1. \A d \in Clients : ~SubmitTask(d)
      BY <2>1 DEF SubmitTask, Submit, DispatchInv, StoreInv, TypeOK, Call
    <3> QED BY <1>1, <1>2, <2>1, <3>1, StillKeeps DEF Still
  <2>2. ASSUME NEW d \in Clients, DaemonStep(d) \/ StepFails(d) \/ Crash(d),
               \A c \in Clients \ {d} : Still(c)
        PROVE  Modes(e)' /\ Fresh(e)' /\ Clear(e)' /\ Claims(e)'
    <3>1. Route(d) /\ (accepted' = accepted \/ SubmitTask(d))
      BY <2>2, DaemonMoves, DaemonAccepts DEF SubInv
    <3>2. accepted' = accepted \/ Sends(d)
      BY <3>1, SendMoves
    <3>3. CASE e = d
      BY <1>1, <3>1, <3>2, <3>3, ActorsMode, ActorsClaim, ActorsChoice, ActorsSight DEF SubInv
    <3>4. CASE e # d
      BY <1>1, <2>2, <3>1, <3>4, StillKeeps
    <3> QED BY <3>3, <3>4
  <2> QED BY <2>1, <2>2, Actors
<1> QED BY <1>1, <1>3, TasksApart DEF SubInv

LEMMA SubInit == Init => SubInv
<1> SUFFICES ASSUME Init PROVE SubInv
  OBVIOUS
<1>1. orphans = {} /\ DOMAIN accepted = {}
  BY DEF Init, StoreInit
<1>2. \A d \in Clients : tick[d].pc = "idle" /\ tick[d].mode = "found" /\ call[d].stage = "none"
  BY DEF Init, StoreInit, NoTick, NoCall
<1> QED BY <1>1, <1>2 DEF SubInv, OneTask, TaskRows, Modes, Fresh, Clear, Claims, Chosen, After,
           AfterPage, Scheduling, ScanPc

LEMMA BaseHolds ==
  ASSUME OwnNames PROVE Spec => []Base
<1>1. StoreSpec => []LeadInv
  BY OwnNames, LeadInvariant
<1>2. Spec => StoreSpec
  BY DispatchUsesStore DEF UsesStore
<1> QED BY <1>1, <1>2, DispatchInvariant, PTL DEF Base

LEMMA SubInvariant ==
  ASSUME OwnNames, Calm PROVE Spec => []SubInv
<1>1. Base /\ SubInv /\ [Next]_vars => SubInv'
  BY SubStep
<1> QED BY <1>1, BaseHolds, SubInit, PTL DEF Spec

(***************************************************************************)
(* A job has at most one task in the scheduler, whichever daemon submits,  *)
(* crashes or fails at whichever step: recoverOutbox submits an intent     *)
(* only when no task answers for its route in a snapshot taken under the   *)
(* lease.  Assumed: no two daemons use one holder name, a submission dies  *)
(* with its daemon, tasks stay in the scheduler, and a tick ends before an *)
(* intent that it has postponed is due again.                              *)
(***************************************************************************)
THEOREM OneTaskPerJob ==
  ASSUME OwnNames, Calm PROVE Spec => []OneTask
<1>1. SubInv => OneTask
  BY DEF SubInv
<1> QED BY <1>1, SubInvariant, PTL

-----------------------------------------------------------------------------
(* At most one run of a workload.                                          *)

\* Stages of a worker that has not invoked the workload.
Unrun == {"queued", "claimed", "late", "clear"}

OnceInv ==
    \A j \in Jobs :
        /\ runs[j] <= 1
        /\ Untasked(j) => runs[j] = 0
        /\ \A t \in DOMAIN accepted : accepted[t] = j /\ task[t] \in Unrun => runs[j] = 0

LEMMA WorkerRuns ==
  ASSUME DispatchInv, NEW t \in Tasks, WorkerStep(t) \/ KillWorker(t) \/ Clean(t)
  PROVE  /\ \A u \in Tasks \ {t} : task'[u] = task[u]
         /\ t \in DOMAIN accepted
         /\ \/ UNCHANGED runs /\ (task'[t] \in Unrun => task[t] \in Unrun)
            \/ /\ runs' = [runs EXCEPT ![accepted[t]] = @ + 1]
               /\ task[t] \in Unrun /\ task'[t] \notin Unrun
<1>0. task \in [Tasks -> Stage] /\ t \in DOMAIN accepted
  BY TasksTyped, WorkerStages
<1>1. PICK s \in Stage : task' = [task EXCEPT ![t] = s]
  BY WorkerStages
<1>2. task'[t] = s /\ \A u \in Tasks \ {t} : task'[u] = task[u]
  BY <1>0, <1>1
<1>3. CASE Invoke(t)
  <2>1. task'[t] = "invoking" /\ task[t] = "clear"
    BY <1>0, <1>3 DEF Invoke, ToStage, Worker
  <2> QED BY <1>0, <1>2, <1>3, <2>1 DEF Invoke, Unrun
<1>4. CASE StartTask(t) \/ CheckMarker(t)
  <2>1. UNCHANGED runs /\ task[t] \in {"queued", "claimed", "late"}
    BY <1>4 DEF StartTask, CheckMarker, Worker
  <2> QED BY <1>0, <1>2, <2>1 DEF Unrun
<1>5. CASE ReplayMarker(t) \/ FinishTask(t)
  <2>1. result[t] \in Outcome /\ UNCHANGED runs
    BY <1>5, TasksTyped DEF ReplayMarker, FinishTask, Worker
  <2>2. task'[t] \in Outcome
    BY <1>0, <1>5, <2>1 DEF ReplayMarker, FinishTask, ToStage, Outcome
  <2> QED BY <1>0, <1>2, <2>1, <2>2 DEF Outcome, Unrun
<1>6. CASE Refuse(t) \/ (\E o \in Outcome : WriteMarker(t, o)) \/ CheckPlace(t) \/ PlaceMarker(t)
           \/ CreateMarker(t) \/ KillWorker(t) \/ Clean(t)
  <2>1. /\ UNCHANGED runs
        /\ task'[t] \in {"refusing", "written", "failed", "placing", "marked", "writing",
                         "denying", "gone"}
    BY <1>0, <1>6 DEF Refuse, WriteMarker, CheckPlace, PlaceMarker, CreateMarker, KillWorker,
       Clean, ToStage
  <2> QED BY <1>0, <1>2, <2>1 DEF Unrun
<1> QED BY <1>3, <1>4, <1>5, <1>6 DEF WorkerStep

LEMMA DaemonRuns ==
  ASSUME NEW d \in Clients, DaemonStep(d) \/ KeepLease(d) \/ StepFails(d) \/ Crash(d)
  PROVE  UNCHANGED runs
<1>1. CASE Import(d)
  BY <1>1 DEF Import, BeginTick, Snapshot, ListRunning, ScanJob, ScanTorn, ScanForeign, Replay,
     MarkUnknown, MarkUnknownFenced, ListTerminal, Reconcile, ReconcileTorn, ReconcileConflict,
     MarkReconciled, ReadPause, Look, Fail, recordVars
<1>2. CASE Recover(d)
  BY <1>2 DEF Recover, Page, PageDone, RecoverUnknown, RecoverFound, RecoverPaused, RecoverLater,
     RecoverBlocked, RecoverSubmit, Retry, GiveUp, GiveUpFenced, Block, BlockRefused, Look, Fail,
     ReadOnly, recordVars
<1>3. CASE Submission(d)
  BY <1>3 DEF Submission, SubmitOpens, SubmitPaused, SubmitFenced, SubmitTask, SubmitCommits,
     SubmitAborts, Refs, RefsConflict, Account, Publish, Attach, AttachConflict, Fail,
     recordVars, dispatchVars
<1>4. CASE Fill(d)
  BY <1>4 DEF Fill, PoolIdle, KeepFenced, Prepare, PoolPick, PrepareIntent, IntentConflict,
     AuthorizeBlocked, AuthorizeLater, AuthorizeSubmit, Release, Fail, ReadOnly, recordVars
<1>5. CASE KeepLease(d) \/ StepFails(d) \/ Crash(d)
  BY <1>5 DEF KeepLease, StepFails, Crash, Fail, recordVars, dispatchVars
<1> QED BY <1>1, <1>2, <1>3, <1>4, <1>5 DEF DaemonStep

LEMMA OnceStep ==
  ASSUME Base, Calm, SubInv, OnceInv, [Next]_vars
  PROVE  OnceInv'
<1> USE DEF Base
<1>0. runs \in [Jobs -> Nat] /\ \A t \in DOMAIN accepted : accepted[t] \in Jobs /\ t \in Tasks
  BY TasksAccepted DEF DispatchInv, DispatchTypeOK
<1>1. CASE UNCHANGED <<runs, accepted, task>>
  BY <1>1 DEF OnceInv, Untasked
<1>2. ASSUME NEW d \in Clients, SubmitTask(d), UNCHANGED runs PROVE OnceInv'
  <2>1. /\ Leads(d) /\ call[d].stage = "open" /\ tick[d].job \in Jobs
        /\ accepted' = Append(accepted, tick[d].job)
        /\ task' = [task EXCEPT ![Len(accepted) + 1] = "queued"]
    BY <1>2, Submitter
  <2> PICK k \in Jobs : k = tick[d].job
    BY <2>1
  <2>2. /\ DOMAIN accepted' = DOMAIN accepted \cup {Len(accepted) + 1}
        /\ Len(accepted) + 1 \notin DOMAIN accepted
        /\ \A t \in DOMAIN accepted : accepted'[t] = accepted[t]
        /\ accepted'[Len(accepted) + 1] = k
    BY <2>1, Appended
  <2>3. runs[k] = 0
    BY <2>1 DEF SubInv, Clear, Chosen, OnceInv
  <2>4. ASSUME NEW j \in Jobs, NEW t \in DOMAIN accepted', accepted'[t] = j, task'[t] \in Unrun
        PROVE  runs[j] = 0
    <3>1. CASE t \in DOMAIN accepted
      <4>1. task'[t] = task[t]
        BY <1>0, <2>1, <2>2, <3>1, TasksTyped
      <4> QED BY <2>2, <2>4, <3>1, <4>1 DEF OnceInv
    <3> QED BY <2>2, <2>3, <2>4, <3>1
  <2>5. \A j \in Jobs : Untasked(j)' => Untasked(j)
    BY <2>2 DEF Untasked
  <2> QED BY <1>2, <2>4, <2>5 DEF OnceInv
<1>3. ASSUME NEW d \in Clients, DaemonStep(d) \/ KeepLease(d) \/ StepFails(d) \/ Crash(d)
      PROVE  OnceInv'
  <2>1. UNCHANGED <<accepted, task>> \/ SubmitTask(d)
    BY <1>3, DaemonAccepts, OtherEffects
  <2> QED BY <1>1, <1>2, <1>3, <2>1, DaemonRuns
<1>4. ASSUME NEW t \in Tasks, WorkerStep(t) \/ KillWorker(t) \/ Clean(t)
      PROVE  OnceInv'
  <2>0. accepted' = accepted
    BY <1>4, WorkerEffects
  <2>1. /\ \A u \in Tasks \ {t} : task'[u] = task[u]
        /\ t \in DOMAIN accepted
    BY <1>4, WorkerRuns
  <2>2. CASE UNCHANGED runs /\ (task'[t] \in Unrun => task[t] \in Unrun)
    <3>1. \A u \in Tasks : task'[u] \in Unrun => task[u] \in Unrun
      BY <2>1, <2>2
    <3> QED BY <1>0, <2>0, <2>2, <3>1 DEF OnceInv, Untasked
  <2>3. CASE /\ runs' = [runs EXCEPT ![accepted[t]] = @ + 1]
             /\ task[t] \in Unrun /\ task'[t] \notin Unrun
    <3> PICK k \in Jobs : k = accepted[t]
      BY <1>0, <2>1
    <3>1. runs'[k] = 1 /\ \A j \in Jobs \ {k} : runs'[j] = runs[j]
      BY <1>0, <2>1, <2>3 DEF OnceInv
    <3>2. ~Untasked(k)'
      BY <2>0, <2>1 DEF Untasked
    <3>3. \A u \in DOMAIN accepted : accepted[u] = k => u = t
      BY <2>1 DEF SubInv, OneTask
    <3>4. ASSUME NEW j \in Jobs
          PROVE  /\ runs'[j] <= 1
                 /\ Untasked(j)' => runs'[j] = 0
                 /\ \A u \in DOMAIN accepted : accepted[u] = j /\ task'[u] \in Unrun => runs'[j] = 0
      <4>1. CASE j = k
        BY <2>3, <3>1, <3>2, <3>3, <4>1
      <4>2. CASE j # k
        BY <1>0, <2>0, <2>1, <3>1, <4>2 DEF OnceInv, Untasked
      <4> QED BY <4>1, <4>2
    <3> QED BY <2>0, <3>4 DEF OnceInv
  <2> QED BY <1>4, <2>2, <2>3, WorkerRuns
<1>5. CASE Clock \/ Switch
  <2>1. UNCHANGED runs
    BY <1>5 DEF Clock, Switch, dispatchVars
  <2>2. UNCHANGED <<accepted, task>>
    BY <1>5 DEF Clock, Switch, ExpireLease, RetryTime, SetPaused, taskVars, dispatchVars
  <2> QED BY <1>1, <2>1, <2>2
<1>6. CASE UNCHANGED vars
  BY <1>1, <1>6 DEF vars, storeVars, dispatchVars
<1>7. ~\E j \in Jobs : LateTask(j)
  BY DEF LateTask, LateSubmit, SubInv
<1> QED BY <1>3, <1>4, <1>5, <1>6, <1>7 DEF Next

(***************************************************************************)
(* No workload is invoked twice (worker.Runner.Run), under the assumptions *)
(* of OneTaskPerJob and whatever crashes between the submission and its    *)
(* bookkeeping, or between a worker's steps.                               *)
(***************************************************************************)
THEOREM NoWorkloadRunsTwice ==
  ASSUME OwnNames, Calm PROVE Spec => []RunsOnce
<1>1. Base /\ SubInv /\ OnceInv /\ [Next]_vars => OnceInv'
  BY OnceStep
<1>2. Init => OnceInv
  BY DEF Init, StoreInit, OnceInv, Blank
<1>3. OnceInv => RunsOnce
  BY DEF OnceInv, RunsOnce
<1> QED BY <1>1, <1>2, <1>3, BaseHolds, SubInvariant, PTL DEF Spec

-----------------------------------------------------------------------------
(***************************************************************************)
(* A pool is never filled beyond its capacity.                             *)
(*                                                                         *)
(* A tick counts the tasks of a pool on a snapshot that may be long out of *)
(* date.  While its daemon leads nobody else submits, so the snapshot can  *)
(* only count too many: every task that is still active is counted, or is  *)
(* the one that the tick has just submitted and will add (CapSeen).        *)
(***************************************************************************)
\* The task that d has submitted and not yet added to its snapshot.
Added(d, t) ==
    /\ t = tick[d].task
    /\ \/ call[d].stage = "sent"
       \/ /\ tick[d].pc \in {"refs", "account", "publish", "attach"}
          /\ tick[d].mode \in {"resubmit", "dispatch"}

Counted(d) == {t \in Tasks : tick[d].snap[t] \in {"queued", "running"}}

CapSeen(d) ==
    Leads(d) /\ tick[d].pc \in After => \A t \in Active : t \in Counted(d) \/ Added(d, t)

\* From the count to the submission there is room for one task.
Filled(d) == tick[d].pc \in {"prepare", "intent", "authorize"} \/ call[d].stage \in {"asked", "open"}
Room(d) == Leads(d) /\ Filled(d) => Used(d) < Capacity

CapInv ==
    /\ orphans = {} /\ CapacityHeld
    /\ \A d \in Clients : Modes(d) /\ CapSeen(d) /\ Room(d)

\* Process groups die with their daemon, and no step of a tick reports an error:
\* after one the scheduler may have a task that the tick does not count.
Counts == ~Orphans /\ "error" \notin Faults

-----------------------------------------------------------------------------
(* The active tasks.                                                       *)

LEMMA ActiveFinite ==
  /\ IsFiniteSet(Active) /\ Cardinality(Active) \in Nat
  /\ \A d \in Clients : IsFiniteSet(Counted(d)) /\ Used(d) \in Nat /\ Used(d) = Cardinality(Counted(d))
<1>1. IsFiniteSet(Tasks)
  BY OperationBounds, FS_Interval DEF Tasks
<1>2. ASSUME NEW S \in SUBSET Tasks PROVE IsFiniteSet(S) /\ Cardinality(S) \in Nat
  BY <1>1, FS_Subset, FS_CardinalityType
<1>3. Active \in SUBSET Tasks
  BY DEF Active
<1>4. \A d \in Clients : Counted(d) \in SUBSET Tasks
  BY DEF Counted
<1> QED BY <1>2, <1>3, <1>4 DEF Used, Counted

\* No step but a submission makes a task active.
LEMMA ActiveSteps ==
  ASSUME Base, Counts, orphans = {}, [Next]_vars
  PROVE  /\ orphans' = {}
         /\ (\E d \in Clients : SubmitTask(d)) \/ Active' \subseteq Active
<1> USE DEF Base
<1>1. UNCHANGED task => Active' \subseteq Active
  BY DEF Active
<1>2. ASSUME NEW d \in Clients, DaemonStep(d)
      PROVE  orphans' = {} /\ (UNCHANGED task \/ SubmitTask(d))
  BY <1>2, DaemonAccepts, ImportEffects, RecoverEffects, SubmissionEffects, FillEffects
     DEF DaemonStep
<1>3. ASSUME NEW d \in Clients, KeepLease(d) \/ StepFails(d)
      PROVE  UNCHANGED <<orphans, task>>
  BY <1>3, OtherEffects
<1>4. ASSUME NEW d \in Clients, Crash(d) PROVE UNCHANGED <<orphans, task>>
  BY <1>4 DEF Crash, Kill, recordVars, Counts
<1>5. ASSUME NEW t \in Tasks, WorkerStep(t) \/ KillWorker(t) \/ Clean(t)
      PROVE  UNCHANGED orphans /\ Active' \subseteq Active
  <2>1. PICK s \in Stage \ {"none", "queued"} :
          task' = [task EXCEPT ![t] = s] /\ (task[t] \in {"queued"} \cup Working \/ s = "gone")
    BY <1>5, WorkerStages
  <2>2. \A u \in Tasks : task'[u] = IF u = t THEN s ELSE task[u]
    BY <2>1, TasksTyped
  <2>3. "gone" \notin {"queued"} \cup Working
    BY DEF Working
  <2> QED BY <1>5, <2>1, <2>2, <2>3, WorkerEffects DEF Active
<1>6. CASE Clock \/ Switch
  BY <1>1, <1>6 DEF Clock, Switch, ExpireLease, RetryTime, SetPaused, taskVars, dispatchVars
<1>7. ~\E j \in Jobs : LateTask(j)
  BY DEF LateTask, LateSubmit
<1>8. CASE UNCHANGED vars
  BY <1>1, <1>8 DEF vars, storeVars, dispatchVars
<1> QED BY <1>1, <1>2, <1>3, <1>4, <1>5, <1>6, <1>7, <1>8 DEF Next

\* A submission adds one.
LEMMA ActiveSubmits ==
  ASSUME Base, NEW d \in Clients, SubmitTask(d)
  PROVE  /\ Active' = Active \cup {Len(accepted) + 1}
         /\ Cardinality(Active') <= Cardinality(Active) + 1
<1>1. Len(accepted) + 1 \in Tasks
  <2>1. Len(accepted) < MaxTasks /\ Len(accepted) \in Nat
    BY DEF SubmitTask, Submit, Base, DispatchInv, StoreInv, TypeOK
  <2> QED BY <2>1, OperationBounds DEF Tasks
<1>2. task' = [task EXCEPT ![Len(accepted) + 1] = "queued"]
  BY Submitter
<1>3. \A u \in Tasks : task'[u] = IF u = Len(accepted) + 1 THEN "queued" ELSE task[u]
  BY <1>1, <1>2, TasksTyped DEF Base
<1>4. Active' = Active \cup {Len(accepted) + 1}
  BY <1>1, <1>3 DEF Active
<1>5. Cardinality(Active \cup {Len(accepted) + 1}) <= Cardinality(Active) + 1
  <2> DEFINE t == Len(accepted) + 1
  <2> HIDE DEF t
  <2>1. Cardinality(Active \cup {t}) =
          IF t \in Active THEN Cardinality(Active) ELSE Cardinality(Active) + 1
    BY ActiveFinite, FS_AddElement
  <2>2. Cardinality(Active \cup {t}) <= Cardinality(Active) + 1
    BY <2>1, ActiveFinite
  <2> QED BY <2>2 DEF t
<1> QED BY <1>4, <1>5

-----------------------------------------------------------------------------
(* What a daemon has counted.                                              *)

LEMMA ActorsCount ==
  ASSUME Base, Counts, CapInv, [Next]_vars, NEW d \in Clients, Route(d),
         UNCHANGED <<accepted, task>> \/ Sends(d)
  PROVE  CapSeen(d)'
<1> USE DEF Base
<1> SUFFICES ASSUME Leads(d)', tick'[d].pc \in After, NEW t \in Active'
             PROVE  t \in Counted(d)' \/ Added(d, t)'
  BY DEF CapSeen
<1>a. tick'[d].pc # "snapshot"
  BY DEF After, ScanPc, AfterPage, Scheduling
<1>1. Leads(d)
  BY <1>a, LeadSteps DEF LeadKept
<1>2. tick[d].pc \in After /\ t \in Active => t \in Counted(d) \/ Added(d, t)
  BY <1>1 DEF CapInv, CapSeen
<1>3. tick[d].pc # "submit" => call[d].stage = "none"
  BY NotCalling
<1>4. t \in Tasks /\ (~Sends(d) => t \in Active)
  BY DEF Active
<1> USE DEF Moves
<1>5. CASE Sees(d)
  <2>1. task[t] \in {"queued"} \cup Working
    BY <1>4, <1>5 DEF Sees, Active
  <2>2. Observed(task[t]) \in {"queued", "running"}
    BY <2>1 DEF Observed, Working
  <2> QED BY <1>4, <1>5, <2>2 DEF Sees, Counted
<1>6. CASE Scans(d) \/ Pages(d) \/ Returns(d) \/ Takes(d) \/ Skips(d) \/ Picks(d)
  <2>1. /\ tick[d].pc \in After /\ tick[d].pc \notin {"submit", "refs", "account", "publish", "attach"}
        /\ tick'[d].snap = tick[d].snap /\ ~Sends(d)
    BY <1>6 DEF Scans, Pages, Returns, Takes, Skips, Picks, Sends, SameWork, After, ScanPc, AfterPage
  <2>2. ~Added(d, t)
    BY <1>3, <2>1 DEF Added
  <2> QED BY <1>2, <1>4, <2>1, <2>2 DEF Counted
<1>7. CASE Goes(d) \/ Resumes(d)
  <2>1. tick[d].pc \in After /\ tick'[d].snap = tick[d].snap /\ ~Sends(d)
    BY <1>7 DEF Goes, Resumes, Sends, SameWork, After, AfterPage, Scheduling, Silent
  <2>2. tick[d].pc = "submit" => tick[d].mode \in {"resubmit", "dispatch"}
    BY TicksTyped DEF Local, HasTask
  <2>3. Added(d, t) => Added(d, t)'
    <3>1. ASSUME Added(d, t), Goes(d) PROVE Added(d, t)'
      BY <1>3, <2>2, <3>1 DEF Added, Goes, SameMode, SameTask, Counts, Silent
    <3>2. ~(Added(d, t) /\ Resumes(d))
      BY <1>3 DEF Added, Resumes, Filling
    <3> QED BY <1>7, <3>1, <3>2
  <2> QED BY <1>2, <1>4, <2>1, <2>3 DEF Counted
<1>8. CASE Attaches(d)
  <2>1. tick[d].pc = "attach" /\ tick[d].pc \in After /\ ~Sends(d) /\ call[d].stage = "none"
    BY <1>3, <1>8 DEF Attaches, Sends, After, AfterPage, Scheduling
  <2>2. /\ tick'[d].snap = [tick[d].snap EXCEPT ![tick[d].task] = "queued"]
        /\ tick[d].snap \in [Tasks -> Seen]
    BY <1>8, TicksTyped, TickFields DEF Attaches
  <2>3. tick'[d].snap[t] = IF t = tick[d].task THEN "queued" ELSE tick[d].snap[t]
    BY <1>4, <2>2
  <2> QED BY <1>2, <1>4, <2>1, <2>3 DEF Counted, Added
<1>9. CASE Sends(d)
  <2>1. /\ tick[d].pc = "submit" /\ tick'[d].snap = tick[d].snap /\ call'[d].stage = "sent"
        /\ tick'[d].task = Len(accepted) + 1 /\ SubmitTask(d)
    BY <1>9 DEF Sends, SameWork
  <2>2. call[d].stage = "open" /\ Active' = Active \cup {Len(accepted) + 1}
    BY <2>1, Submitter, ActiveSubmits
  <2>3. CASE t = Len(accepted) + 1
    BY <2>1, <2>3 DEF Added
  <2>4. CASE t \in Active
    BY <1>2, <2>1, <2>2, <2>4 DEF Added, Counted, After, AfterPage, Scheduling
  <2> QED BY <2>2, <2>3, <2>4
<1>10. CASE Outs(d)
  BY <1>10 DEF Outs, After, AfterPage, Scheduling, ScanPc
<1> QED BY <1>5, <1>6, <1>7, <1>8, <1>9, <1>10 DEF Route

LEMMA ActorsRoom ==
  ASSUME Base, CapInv, [Next]_vars, NEW d \in Clients, Route(d)
  PROVE  Room(d)'
<1> USE DEF Base
<1> SUFFICES ASSUME Leads(d)', Filled(d)'
             PROVE  Used(d)' < Capacity
  BY DEF Room
<1>1. tick'[d].pc # "snapshot" => Leads(d)
  BY LeadSteps DEF LeadKept
<1> USE DEF Moves
<1>2. CASE Takes(d)
  <2>1. tick'[d].pc = "submit" /\ Used(d) < Capacity /\ tick'[d].snap = tick[d].snap
    BY <1>2 DEF Takes, Filled, Silent
  <2> QED BY <2>1 DEF Used
<1>3. CASE Goes(d)
  <2>1. /\ tick'[d].snap = tick[d].snap /\ tick'[d].pc # "snapshot" /\ Filled(d)
    BY <1>3 DEF Goes, SameWork, Filled, Silent
  <2>2. Used(d) < Capacity
    BY <1>1, <2>1 DEF CapInv, Room
  <2> QED BY <2>1, <2>2 DEF Used
<1>4. CASE Picks(d)
  BY <1>4 DEF Picks, SameWork, Used
<1>5. CASE ~Takes(d) /\ ~Goes(d) /\ ~Picks(d)
  BY <1>5 DEF Route, Outs, Sees, Scans, Pages, Returns, Skips, Resumes, Attaches, Sends, Filled,
     Silent, ScanPc
<1> QED BY <1>2, <1>3, <1>4, <1>5

\* A daemon that does not act.
LEMMA StillCounts ==
  ASSUME Base, CapInv, [Next]_vars, NEW e \in Clients, Still(e),
         Active' \subseteq Active \/ \E d \in Clients \ {e} : SubmitTask(d)
  PROVE  Modes(e)' /\ CapSeen(e)' /\ Room(e)'
<1> USE DEF Base
<1>1. Modes(e)'
  BY DEF CapInv, Still, Modes, Filling
<1>2. CASE ~Leads(e)'
  BY <1>1, <1>2 DEF CapSeen, Room
<1>3. CASE Leads(e)' /\ tick[e].pc = "snapshot"
  <2>1. tick'[e].pc \notin After /\ ~Filled(e)'
    BY <1>3, NotCalling DEF After, ScanPc, AfterPage, Scheduling, Filled, Still
  <2> QED BY <1>1, <2>1 DEF CapSeen, Room
<1>4. CASE Leads(e)' /\ Leads(e)
  <2>1. Active' \subseteq Active
    BY <1>4, Submitter DEF Leads
  <2> QED BY <1>1, <1>4, <2>1 DEF CapInv, CapSeen, Room, Still, Counted, Added, Filled, Used
<1> QED BY <1>2, <1>3, <1>4, LeadSteps DEF LeadKept, Still

LEMMA CapStep ==
  ASSUME Base, Counts, CapInv, [Next]_vars
  PROVE  CapInv'
<1> USE DEF Base
<1>1. orphans' = {} /\ ((\E d \in Clients : SubmitTask(d)) \/ Active' \subseteq Active)
  BY ActiveSteps DEF CapInv
<1>2. CapacityHeld'
  <2>1. CASE Active' \subseteq Active
    <3>1. Cardinality(Active') <= Cardinality(Active) /\ Cardinality(Active') \in Nat
      BY <2>1, ActiveFinite, FS_Subset, FS_CardinalityType
    <3> QED BY <3>1, ActiveFinite, FaultsAssumption DEF CapInv, CapacityHeld
  <2>2. ASSUME NEW d \in Clients, SubmitTask(d) PROVE CapacityHeld'
    <3>1. Leads(d) /\ call[d].stage = "open" /\ tick[d].pc = "submit"
      BY <2>2, Submitter
    <3>2. Used(d) < Capacity
      BY <3>1 DEF CapInv, Room, Filled
    <3>3. Active \subseteq Counted(d)
      BY <3>1 DEF CapInv, CapSeen, Added, After, AfterPage, Scheduling
    <3>4. Cardinality(Active) <= Used(d)
      BY <3>3, ActiveFinite, FS_Subset
    <3>5. Cardinality(Active') <= Cardinality(Active) + 1 /\ Cardinality(Active') \in Nat
      BY <2>2, ActiveSubmits, ActiveFinite, FS_AddElement, FS_CardinalityType
    <3> QED BY <3>2, <3>4, <3>5, ActiveFinite, FaultsAssumption DEF CapacityHeld
  <2> QED BY <1>1, <2>1, <2>2
<1>3. ASSUME NEW e \in Clients PROVE Modes(e)' /\ CapSeen(e)' /\ Room(e)'
  <2>1. CASE UNCHANGED <<tick, call>>
    <3>1. \A d \in Clients : ~SubmitTask(d)
      BY <2>1 DEF SubmitTask, Submit, DispatchInv, StoreInv, TypeOK, Call
    <3> QED BY <1>1, <2>1, <3>1, StillCounts DEF Still
  <2>2. ASSUME NEW d \in Clients, DaemonStep(d) \/ StepFails(d) \/ Crash(d),
               \A c \in Clients \ {d} : Still(c)
        PROVE  Modes(e)' /\ CapSeen(e)' /\ Room(e)'
    <3>1. Route(d) /\ (UNCHANGED <<accepted, task>> \/ SubmitTask(d))
      BY <2>2, DaemonMoves, DaemonAccepts DEF CapInv
    <3>2. UNCHANGED <<accepted, task>> \/ Sends(d)
      BY <3>1, SendMoves
    <3>3. CASE e = d
      BY <3>1, <3>2, <3>3, ActorsMode, ActorsCount, ActorsRoom DEF CapInv
    <3>4. CASE e # d
      <4>1. UNCHANGED task => Active' \subseteq Active
        BY DEF Active
      <4> QED BY <2>2, <3>1, <3>4, <4>1, StillCounts
    <3> QED BY <3>3, <3>4
  <2> QED BY <2>1, <2>2, Actors
<1> QED BY <1>1, <1>2, <1>3 DEF CapInv

LEMMA CapInit == Init => CapInv
<1> SUFFICES ASSUME Init PROVE CapInv
  OBVIOUS
<1>1. Active = {} /\ orphans = {}
  BY DEF Init, StoreInit, Active, Blank, Working
<1>2. CapacityHeld
  BY <1>1, FS_EmptySet, FaultsAssumption DEF CapacityHeld
<1>3. \A d \in Clients : tick[d].pc = "idle" /\ tick[d].mode = "found" /\ call[d].stage = "none"
  BY DEF Init, StoreInit, NoTick, NoCall
<1> QED BY <1>1, <1>2, <1>3 DEF CapInv, Modes, CapSeen, Room, Filled, After, AfterPage,
           Scheduling, ScanPc

(***************************************************************************)
(* The tasks that wait or run never exceed the capacity of the pool,       *)
(* although every tick counts them on a snapshot that others overtake      *)
(* (recoverOutbox, fillPool).  Assumed: no two daemons use one holder      *)
(* name, a submission dies with its daemon, and no step reports an error.  *)
(* Nothing is assumed of crashes of daemons, deaths of workers, tasks that *)
(* are removed, pauses, or how long a tick takes.                          *)
(***************************************************************************)
THEOREM PoolsStayWithinCapacity ==
  ASSUME OwnNames, Counts PROVE Spec => []CapacityHeld
<1>1. Base /\ CapInv /\ [Next]_vars => CapInv'
  BY CapStep
<1>2. CapInv => CapacityHeld
  BY DEF CapInv
<1> QED BY <1>1, <1>2, BaseHolds, CapInit, PTL DEF Spec

=============================================================================
