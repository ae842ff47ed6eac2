----------------------------- MODULE Operation -----------------------------
(***************************************************************************)
(* The private operational store of internal/operation: one SQLite file in *)
(* the Git common directory, shared by every command, daemon and worker of *)
(* a Project.  It keeps the dispatch lease, the pause switch, the jobs,    *)
(* the outbox of scheduler intents and the fairness account.               *)
(*                                                                         *)
(* Every method is one statement or one immediate transaction, so it is    *)
(* one step here that waits until no other transaction is open.  The       *)
(* exception is WithDispatchLease: its transaction stays open through the  *)
(* submission to the scheduler, so it is split into the steps at which     *)
(* other processes, the clock and a crash can intervene.                   *)
(*                                                                         *)
(* A job is never put back into "queued", so its fencing token is 0 or 1.  *)
(* Clock readings are abstracted to the one fact they decide: whether the  *)
(* lease has expired.  The clock is read before the transaction begins,    *)
(* so a verdict may be older than the row it is used on.                   *)
(***************************************************************************)
EXTENDS Integers, FiniteSets, Sequences

CONSTANTS
    Clients,    \* processes that have opened the store
    Holder,     \* Holder[c] is the lease holder name client c uses
    Jobs,       \* job ids
    Direct,     \* the jobs of direct Tries; the others go through the outbox
    None,       \* no client, no job, no lease
    Orphans,    \* may a submission outlive the killed process that began it?
    MaxToken,   \* bound: lease fencing tokens
    MaxTasks    \* bound: tasks the scheduler ever accepts

ASSUME DirectAssumption == Direct \subseteq Jobs
ASSUME NobodyAssumption == None \notin Clients \cup Jobs
ASSUME OperationBounds ==
    MaxToken \in Nat /\ MaxTasks \in Nat /\ Orphans \in BOOLEAN

JobTerminal == {"succeeded", "failed", "cancelled"}
JobFinished == JobTerminal \cup {"unknown"}
JobState == {"absent", "queued", "running"} \cup JobFinished
OutboxState == {"absent", "pending", "failed", "succeeded"}  \* "running" is never set

Tasks == 1 .. MaxTasks   \* scheduler task ids, in the order of acceptance

VARIABLES
    lease,      \* the row of leases, or None
    held,       \* held[c]: fencing token of the Lease value c keeps, or 0
    leader,     \* history: the client that acquired last
    call,       \* call[c]: where c is inside WithDispatchLease
    paused,     \* runtime_state.paused
    job,        \* job[j]: the row of jobs
    outbox,     \* outbox[j]: the intent of job j, with its retry time
    units,      \* fairness: units accounted
    accepted,   \* the jobs of the tasks the scheduler accepted, in order
    orphans     \* submissions left running by killed processes

storeVars == <<lease, held, leader, call, paused, job, outbox, units,
               accepted, orphans>>
leaseVars == <<lease, held, leader, call>>
jobVars == <<job, outbox, units>>
taskVars == <<accepted, orphans>>

Lease == [holder : {Holder[c] : c \in Clients}, token : 1 .. MaxToken,
          live : BOOLEAN]

ASSUME NoLeaseAssumption == None \notin Lease

\* asked: the clock is read; open: fenced, not paused; sent: the scheduler
\* has the task.  "inTime": the lease had not expired when the clock was read.
Call == [stage : {"none", "asked", "open", "sent"}, job : Jobs \cup {None},
         inTime : BOOLEAN]
NoCall == [stage |-> "none", job |-> None, inTime |-> FALSE]

JobRow == [state : JobState, token : 0 .. 1, task : 0 .. MaxTasks,
           accounted : BOOLEAN, reconciled : BOOLEAN]
AbsentJob == [state |-> "absent", token |-> 0, task |-> 0,
              accounted |-> FALSE, reconciled |-> FALSE]

Intent == [state : OutboxState, due : BOOLEAN]
NoIntent == [state |-> "absent", due |-> FALSE]

StoreInit ==
    /\ lease = None
    /\ held = [c \in Clients |-> 0]
    /\ leader = None
    /\ call = [c \in Clients |-> NoCall]
    /\ paused = FALSE
    /\ job = [j \in Jobs |-> AbsentJob]
    /\ outbox = [j \in Jobs |-> NoIntent]
    /\ units = 0
    /\ accepted = <<>>
    /\ orphans = {}

----------------------------------------------------------------------------
(* The writer lock and the lease.                                          *)

\* SQLite's writer lock: no client is inside an open submission.
WriterFree == \A c \in Clients : call[c].stage \notin {"open", "sent"}

\* Faulty variant: the row is fenced by its token alone.
OwnsToken(c) == lease # None /\ lease.token = held[c]

\* The WHERE clause that fences: the row is still the one c acquired.
Owns(c) ==
    /\ lease # None
    /\ lease.holder = Holder[c]
    /\ lease.token = held[c]

Unexpired == lease # None /\ lease.live

\* Refused with ErrLeaseHeld while another holder's lease has not expired;
\* the same holder name may always acquire again.
AcquireLease(c) ==
    /\ WriterFree
    /\ call[c].stage = "none"
    /\ Unexpired => lease.holder = Holder[c]
    /\ LET token == IF lease = None THEN 1 ELSE lease.token + 1
       IN  /\ token <= MaxToken
           /\ lease' = [holder |-> Holder[c], token |-> token, live |-> TRUE]
           /\ held' = [held EXCEPT ![c] = token]
    /\ leader' = c
    /\ UNCHANGED <<call, paused, jobVars, taskVars>>

\* Renewal looks at the fence only: an expired lease nobody took is revived.
RenewLease(c) ==
    /\ WriterFree
    /\ call[c].stage = "none"
    /\ Owns(c)
    /\ lease' = [lease EXCEPT !.live = TRUE]
    /\ UNCHANGED <<held, leader, call, paused, jobVars, taskVars>>

\* The row is deleted, so the next lease starts again at token 1.
ReleaseLease(c) ==
    /\ WriterFree
    /\ call[c].stage = "none"
    /\ held[c] # 0
    /\ lease' = IF Owns(c) THEN None ELSE lease
    /\ held' = [held EXCEPT ![c] = 0]
    /\ UNCHANGED <<leader, call, paused, jobVars, taskVars>>

ExpireLease ==
    /\ Unexpired
    /\ lease' = [lease EXCEPT !.live = FALSE]
    /\ UNCHANGED <<held, leader, call, paused, jobVars, taskVars>>

----------------------------------------------------------------------------
(* WithDispatchLease, step by step.                                        *)

\* now := clock(), before the transaction begins.
AskSubmit(c, j) ==
    /\ call[c].stage = "none"
    /\ held[c] # 0
    /\ call' = [call EXCEPT ![c] =
                  [stage |-> "asked", job |-> j, inTime |-> Unexpired]]
    /\ UNCHANGED <<lease, held, leader, paused, jobVars, taskVars>>

\* The fencing UPDATE finds its row: expires_at is after the clock reading.
FencePasses(c) == Owns(c) /\ (lease.live \/ call[c].inTime)

OpenSubmit(c) ==
    /\ WriterFree
    /\ call[c].stage = "asked"
    /\ FencePasses(c)
    /\ ~paused
    /\ call' = [call EXCEPT ![c].stage = "open"]
    /\ UNCHANGED <<lease, held, leader, paused, jobVars, taskVars>>

\* ErrFenced.
FencedSubmit(c) ==
    /\ WriterFree
    /\ call[c].stage = "asked"
    /\ ~FencePasses(c)
    /\ call' = [call EXCEPT ![c] = NoCall]
    /\ UNCHANGED <<lease, held, leader, paused, jobVars, taskVars>>

\* ErrPaused; the renewal made by the fencing UPDATE is rolled back.
PausedSubmit(c) ==
    /\ WriterFree
    /\ call[c].stage = "asked"
    /\ FencePasses(c)
    /\ paused
    /\ call' = [call EXCEPT ![c] = NoCall]
    /\ UNCHANGED <<lease, held, leader, paused, jobVars, taskVars>>

\* The scheduler accepts the task; the caller does not know it yet.
Submit(c) ==
    /\ call[c].stage = "open"
    /\ Len(accepted) < MaxTasks
    /\ accepted' = Append(accepted, call[c].job)
    /\ call' = [call EXCEPT ![c].stage = "sent"]
    /\ UNCHANGED <<lease, held, leader, paused, jobVars, orphans>>

\* The answer arrived and the transaction, with the renewal, is committed.
CommitSubmit(c) ==
    /\ call[c].stage = "sent"
    /\ lease' = [lease EXCEPT !.live = TRUE]
    /\ call' = [call EXCEPT ![c] = NoCall]
    /\ UNCHANGED <<held, leader, paused, jobVars, taskVars>>

\* The submission or the commit reports an error and all is rolled back: the
\* scheduler may have refused the task, or have it nevertheless.
AbortSubmit(c) ==
    /\ call[c].stage \in {"open", "sent"}
    /\ call' = [call EXCEPT ![c] = NoCall]
    /\ UNCHANGED <<lease, held, leader, paused, jobVars, taskVars>>

----------------------------------------------------------------------------
(* Jobs, intents, pause and fairness.                                      *)

\* Faulty variant: the switch does not wait for an open submission.
SetPausedAtOnce(b) ==
    /\ paused' = b
    /\ UNCHANGED <<leaseVars, jobVars, taskVars>>

SetPaused(b) ==
    /\ WriterFree
    /\ paused' = b
    /\ UNCHANGED <<leaseVars, jobVars, taskVars>>

\* Faulty variant: a running job is claimed again.
ReclaimSubmission(j) ==
    /\ WriterFree
    /\ job[j].state \in {"absent", "queued", "running"}
    /\ job' = [job EXCEPT ![j].state = "running", ![j].token = @ + 1]
    /\ outbox' = IF outbox[j].state # "absent" THEN outbox
                 ELSE [outbox EXCEPT ![j] = [state |-> "pending", due |-> TRUE]]
    /\ UNCHANGED <<leaseVars, paused, units, taskVars>>

\* Enqueue, claim and publish the intent, all or nothing.  A job that is
\* already running keeps its claim and its intent (a duplicate); any finished
\* state is ErrConflict.
PrepareSubmission(j) ==
    /\ WriterFree
    /\ j \notin Direct
    /\ job[j].state \in {"absent", "queued", "running"}
    /\ job' = IF job[j].state = "running" THEN job
              ELSE [job EXCEPT ![j].state = "running", ![j].token = @ + 1]
    /\ outbox' = IF outbox[j].state # "absent" THEN outbox
                 ELSE [outbox EXCEPT ![j] = [state |-> "pending", due |-> TRUE]]
    /\ UNCHANGED <<leaseVars, paused, units, taskVars>>

\* A direct Try enqueues and claims in two calls, without an intent.
EnqueueJob(j) ==
    /\ WriterFree
    /\ j \in Direct
    /\ job[j].state = "absent"
    /\ job' = [job EXCEPT ![j].state = "queued"]
    /\ UNCHANGED <<leaseVars, paused, outbox, units, taskVars>>

ClaimJobByID(j) ==
    /\ WriterFree
    /\ job[j].state = "queued"
    /\ job' = [job EXCEPT ![j].state = "running", ![j].token = @ + 1]
    /\ UNCHANGED <<leaseVars, paused, outbox, units, taskVars>>

\* Faulty variant: a finish fenced by its token but not by the job's state.
FinishAgain(j, token, state) ==
    /\ WriterFree
    /\ job[j].state \in {"running"} \cup JobFinished
    /\ job[j].token = token
    /\ job' = [job EXCEPT ![j].state = state]
    /\ UNCHANGED <<leaseVars, paused, outbox, units, taskVars>>

FinishJob(j, token, state) ==
    /\ WriterFree
    /\ job[j].state = "running"
    /\ job[j].token = token
    /\ job' = [job EXCEPT ![j].state = state]
    /\ UNCHANGED <<leaseVars, paused, outbox, units, taskVars>>

\* Fills an empty binding or replays the same one; a task id names one job.
BindAllowed(j, t) ==
    /\ job[j].task \in {0, t}
    /\ \A k \in Jobs \ {j} : job[k].task # t

\* t is a task the scheduler reported; direct Tries bind none.
SetJobExternalRefs(j, token, t) ==
    /\ WriterFree
    /\ j \notin Direct
    /\ t <= Len(accepted)
    /\ job[j].token = token
    /\ BindAllowed(j, t)
    /\ job' = [job EXCEPT ![j].task = t]
    /\ UNCHANGED <<leaseVars, paused, outbox, units, taskVars>>

MarkJobReconciled(j, token) ==
    /\ WriterFree
    /\ job[j].state \in JobTerminal
    /\ job[j].token = token
    /\ job' = [job EXCEPT ![j].reconciled = TRUE]
    /\ UNCHANGED <<leaseVars, paused, outbox, units, taskVars>>

\* Neither fenced nor guarded by the present state of the intent.
SetOutboxState(j, state) ==
    /\ WriterFree
    /\ outbox[j].state # "absent"
    /\ outbox' = [outbox EXCEPT ![j] = [state |-> state, due |-> FALSE]]
    /\ UNCHANGED <<leaseVars, paused, job, units, taskVars>>

\* next_attempt_at of a failed intent passes.
RetryTime(j) ==
    /\ outbox[j] = [state |-> "failed", due |-> FALSE]
    /\ outbox' = [outbox EXCEPT ![j].due = TRUE]
    /\ UNCHANGED <<leaseVars, paused, job, units, taskVars>>

RecordDispatchOnce(j) ==
    /\ WriterFree
    /\ job[j].state # "absent"
    /\ units' = IF job[j].accounted THEN units ELSE units + 1
    /\ job' = [job EXCEPT ![j].accounted = TRUE]
    /\ UNCHANGED <<leaseVars, paused, outbox, taskVars>>

----------------------------------------------------------------------------
(* Failures.                                                               *)

\* A kill rolls an open transaction back.  The scheduler client it started
\* runs in a process group of its own and is not killed with it.
Kill(c) ==
    /\ held' = [held EXCEPT ![c] = 0]
    /\ call' = [call EXCEPT ![c] = NoCall]
    /\ orphans' = IF Orphans /\ call[c].stage = "open"
                  THEN orphans \cup {call[c].job} ELSE orphans
    /\ UNCHANGED <<lease, leader, paused, jobVars, accepted>>

LateSubmit(j) ==
    /\ j \in orphans
    /\ Len(accepted) < MaxTasks
    /\ accepted' = Append(accepted, j)
    /\ orphans' = orphans \ {j}
    /\ UNCHANGED <<leaseVars, paused, jobVars>>

LeaseStep ==
    \/ ExpireLease
    \/ \E c \in Clients : AcquireLease(c) \/ RenewLease(c) \/ ReleaseLease(c)

SubmitStep ==
    \E c \in Clients :
        \/ \E j \in Jobs \ Direct : AskSubmit(c, j)
        \/ OpenSubmit(c) \/ FencedSubmit(c) \/ PausedSubmit(c)
        \/ Submit(c) \/ CommitSubmit(c) \/ AbortSubmit(c)

JobStep ==
    \E j \in Jobs :
        \/ PrepareSubmission(j) \/ EnqueueJob(j) \/ ClaimJobByID(j)
        \/ RecordDispatchOnce(j) \/ RetryTime(j)
        \/ \E s \in JobFinished : FinishJob(j, 1, s)
        \/ \E t \in Tasks : SetJobExternalRefs(j, 1, t)
        \/ MarkJobReconciled(j, 1)
        \/ \E s \in {"failed", "succeeded"} : SetOutboxState(j, s)

StoreNext ==
    \/ LeaseStep
    \/ SubmitStep
    \/ JobStep
    \/ \E b \in BOOLEAN : SetPaused(b)
    \/ \E c \in Clients : Kill(c)
    \/ \E j \in Jobs : LateSubmit(j)

StoreSpec == StoreInit /\ [][StoreNext]_storeVars

----------------------------------------------------------------------------
(* Properties.                                                             *)

TypeOK ==
    /\ lease \in Lease \cup {None}
    /\ held \in [Clients -> 0 .. MaxToken]
    /\ leader \in Clients \cup {None}
    /\ call \in [Clients -> Call]
    /\ paused \in BOOLEAN
    /\ job \in [Jobs -> JobRow]
    /\ outbox \in [Jobs -> Intent]
    /\ units \in Nat
    /\ accepted \in Seq(Jobs)
    /\ orphans \subseteq Jobs

(***************************************************************************)
(* Only the leader submits.  From the moment WithDispatchLease has passed   *)
(* its fence until its transaction ends, no other client has acquired the  *)
(* lease: a daemon that stalled, expired and was replaced never submits on *)
(* its old lease, even though released leases start again at token 1.      *)
(***************************************************************************)
LeaderOnly ==
    \A c \in Clients : call[c].stage \in {"open", "sent"} => leader = c

(***************************************************************************)
(* A successful pause is not followed by a submission, however long ago    *)
(* the submitter looked: while the committed switch says paused, the       *)
(* scheduler accepts a task only from a client whose daemon was killed.    *)
(***************************************************************************)
PauseHonoured ==
    [][accepted' # accepted => ~paused \/ orphans' # orphans]_storeVars

(***************************************************************************)
(* There is no durable state in which a claimed job that needs the         *)
(* scheduler lacks its intent, and no job is ever claimed a second time.   *)
(***************************************************************************)
ClaimHasIntent ==
    \A j \in Jobs :
        /\ (j \notin Direct /\ job[j].state # "absent") => outbox[j].state # "absent"
        /\ job[j].token = (IF job[j].state \in {"absent", "queued"} THEN 0 ELSE 1)

(***************************************************************************)
(* What a job row once says of the past, it says for ever: a finished job  *)
(* keeps its state whatever late or stale caller finishes it again, a      *)
(* binding to a task is never replaced, and an imported job stays imported.*)
(* However often its accounting is retried after a crash, a dispatched job *)
(* is counted once.                                                        *)
(***************************************************************************)
RowKept(j) ==
    /\ job[j].state \in JobFinished => job'[j].state = job[j].state
    /\ job[j].task # 0 => job'[j].task = job[j].task
    /\ job[j].reconciled => job'[j].reconciled /\ job'[j].state \in JobTerminal
    /\ job[j].accounted => job'[j].accounted

CountedOnce ==
    units' # units => /\ units' = units + 1
                      /\ \E j \in Jobs : ~job[j].accounted /\ job'[j].accounted

JobHistory == [][(\A j \in Jobs : RowKept(j)) /\ CountedOnce]_storeVars

=============================================================================
