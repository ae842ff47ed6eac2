------------------------------ MODULE Dispatch ------------------------------
(***************************************************************************)
(* Daemons that dispatch prepared work to the scheduler, and the workers   *)
(* that carry it out: internal/controller, internal/worker and the         *)
(* canonical side of internal/controlplane, over the operational store.    *)
(*                                                                         *)
(* A tick acquires the lease of the Project, takes one snapshot of the     *)
(* scheduler, replays the terminal markers of workers into the store,      *)
(* imports what finished into the canonical Attempts, recovers the intents *)
(* that are due and then fills the free capacity of the pool.  Every       *)
(* access to the store, the scheduler, the marker directory or the         *)
(* canonical records is one step, between which other daemons, workers,    *)
(* the clock and failures act.  Linked worktrees share the store, the      *)
(* scheduler and the markers; each owns the Attempts of its scope.         *)
(*                                                                         *)
(* External, from how it is used: the scheduler (Pueue).  Abstracted: one  *)
(* pool, jobs of one unit, and Attempts reduced to their state, their task *)
(* reference and the source of their terminal observation.                 *)
(***************************************************************************)
EXTENDS Operation

CONSTANTS
    Scope,      \* Scope[x]: the canonical scope of a daemon or of a job
    Capacity,   \* tasks the pool may have active
    Faults      \* which of Fault this instance considers

\* kill: a daemon is killed; error: a step of a tick fails; pause: operators
\* pause and resume; die: a worker is killed; clean: a finished task is removed
\* from the scheduler; slow: a tick outlasts the retry time.
Fault == {"kill", "error", "pause", "die", "clean", "slow"}

ASSUME FaultsAssumption == Faults \subseteq Fault /\ Capacity \in Nat

VARIABLES
    tick,       \* tick[d]: where daemon d is in its tick, and what it keeps
    task,       \* task[t]: the stage of task t and of its worker
    result,     \* result[t]: the outcome the worker of t reports
    marker,     \* marker[j]: the terminal marker of job j, and its temporary
    attempt,    \* attempt[j]: the canonical Attempt
    runs        \* history: how often the workload of j was invoked

dispatchVars == <<tick, task, result, marker, attempt, runs>>
recordVars == <<task, result, marker, attempt, runs>>
vars == <<storeVars, dispatchVars>>

Outcome == {"succeeded", "failed"}

\* Stages of the worker: it has read a running job; a finished job; it found
\* no marker; it refuses the workload; the workload runs; the temporary is
\* created (after a refusal, or after a run); it is complete; no marker was in
\* its way; the marker is in place; a marker was found.
Working == {"claimed", "late", "clear", "refusing", "invoking", "denying",
            "writing", "written", "placing", "marked", "found"}
Stage == {"none", "queued", "gone"} \cup Working \cup Outcome

\* What the scheduler reports of a task.
Observed(stage) == CASE stage \in Working -> "running"
                     [] stage = "gone" -> "none"
                     [] OTHER -> stage
Seen == {"none", "queued", "running"} \cup Outcome

AttemptState == {"none", "planned", "queued", "running", "blocked"} \cup Outcome
Attempt == [state : AttemptState, ref : 0 .. MaxTasks,
            source : {"none", "pueue", "direct"}]
NoAttempt == [state |-> "none", ref |-> 0, source |-> "none"]

\* A file, or what is left of one.
File == Outcome \cup {"none", "partial"}
Marker == [final : File, temp : File]
NoMarker == [final |-> "none", temp |-> "none"]

Blank == [t \in Tasks |-> "none"]
Tick == [pc : {"idle", "snapshot", "list", "scan", "replay", "lost",
               "reconcile", "mark", "page", "recover", "retry", "giveup",
               "block", "submit", "refs", "account", "publish", "attach", "pool",
               "prepare", "intent", "authorize", "release"},
         snap : [Tasks -> Seen],        \* the scheduler snapshot
         todo : SUBSET Jobs,            \* what is left of the list being worked
         ended : SUBSET Jobs,           \* of these, whose task has ended
         job : Jobs \cup {None},
         task : 0 .. MaxTasks,
         mode : {"found", "resubmit", "dispatch", "end"},
         allow : BOOLEAN,               \* not paused when the tick looked
         why : {"", "torn", "finished", "scope", "conflict", "fenced", "ended", "blocked"}]
NoTick == [pc |-> "idle", snap |-> Blank, todo |-> {}, ended |-> {}, job |-> None,
           task |-> 0, mode |-> "found", allow |-> FALSE, why |-> ""]

Init ==
    /\ StoreInit
    /\ tick = [d \in Clients |-> NoTick]
    /\ task = Blank
    /\ result = Blank
    /\ marker = [j \in Jobs |-> NoMarker]
    /\ attempt = [j \in Jobs |-> NoAttempt]
    /\ runs = [j \in Jobs |-> 0]

----------------------------------------------------------------------------
(* Steps of a tick.                                                        *)

Goto(d, pc) == tick' = [tick EXCEPT ![d].pc = pc]
At(d, pc) == tick[d].pc = pc

\* Done with the job at hand.
Resume(d, pc) ==
    tick' = [tick EXCEPT ![d].pc = pc, ![d].job = None, ![d].task = 0, ![d].mode = "found"]
Leave(d) == tick' = [tick EXCEPT ![d] = [NoTick EXCEPT !.pc = "release"]]

\* The tick returns an error; the lease is released on the way out.
Fail(d, why) ==
    /\ tick' = [tick EXCEPT ![d] = [NoTick EXCEPT !.pc = "release", !.why = why]]
    /\ UNCHANGED <<storeVars, recordVars>>

\* The daemon moves on without changing anything shared.
Look(d, next) ==
    /\ tick' = [tick EXCEPT ![d] = next]
    /\ UNCHANGED <<storeVars, recordVars>>

Own(d) == {j \in Jobs : Scope[j] = Scope[d]}

BeginTick(d) ==
    /\ At(d, "idle")
    /\ AcquireLease(d)
    /\ Goto(d, "snapshot")
    /\ UNCHANGED recordVars

Snapshot(d) ==
    /\ At(d, "snapshot")
    /\ Look(d, [tick[d] EXCEPT !.pc = "list",
                    !.snap = [t \in Tasks |-> Observed(task[t])]])

\* ListJobs(running): of every scope.
ListRunning(d) ==
    /\ At(d, "list")
    /\ Look(d, [tick[d] EXCEPT !.pc = "scan",
                    !.todo = {j \in Jobs : job[j].state = "running"},
                    !.ended = {j \in Jobs : /\ job[j].state = "running"
                                            /\ job[j].task # 0
                                            /\ tick[d].snap[job[j].task] \in Outcome}])

----------------------------------------------------------------------------
(* Terminal markers: worker.LoadTerminal and readOrPromoteTerminal.        *)

\* What a reader finds: the marker, or else the temporary.
Content(j) == IF marker[j].final # "none" THEN marker[j].final ELSE marker[j].temp
Found(j) == Content(j) \in Outcome
Torn(j) == Content(j) = "partial"

\* A complete temporary is renamed into place by whoever reads it.
Promoted(m) == IF m.final = "none" /\ m.temp \in Outcome
               THEN [final |-> m.temp, temp |-> "none"] ELSE m

\* One running job: a marker is to be replayed, a task that ended without one
\* makes the job unknown, anything else is left alone.
ScanJob(d, j) ==
    /\ At(d, "scan")
    /\ j \in tick[d].todo
    /\ ~Torn(j)
    /\ Found(j) => Scope[j] = Scope[d]
    /\ marker' = [marker EXCEPT ![j] = Promoted(@)]
    /\ tick' = [tick EXCEPT ![d].todo = @ \ {j},
                    ![d].ended = @ \ {j},
                    ![d].job = IF Found(j) \/ j \in tick[d].ended THEN j ELSE None,
                    ![d].pc = IF Found(j) THEN "replay"
                              ELSE IF j \in tick[d].ended THEN "lost" ELSE "scan"]
    /\ UNCHANGED <<storeVars, task, result, attempt, runs>>

\* A marker that is still being written is not valid JSON.
ScanTorn(d) ==
    /\ At(d, "scan")
    /\ \E j \in tick[d].todo : Torn(j)
    /\ Fail(d, "torn")

\* The replay is refused when the job belongs to another scope.
ScanForeign(d) ==
    /\ At(d, "scan")
    /\ \E j \in tick[d].todo : Found(j) /\ Scope[j] # Scope[d]
    /\ Fail(d, "scope")

\* worker.Runner.Run reads the marker again; a fenced finish is ignored.
Replay(d) ==
    /\ At(d, "replay")
    /\ LET j == tick[d].job
       IN  IF Torn(j) THEN Fail(d, "torn")
           ELSE /\ \/ FinishJob(j, 1, Content(j))
                   \/ WriterFree /\ job[j].state # "running" /\ UNCHANGED storeVars
                /\ Resume(d, "scan")
                /\ UNCHANGED recordVars

\* FinishJob(unknown), or a replay of the same.
Unknown(j) ==
    \/ FinishJob(j, 1, "unknown")
    \/ WriterFree /\ job[j].state = "unknown" /\ UNCHANGED storeVars

MarkUnknown(d) ==
    /\ At(d, "lost")
    /\ Unknown(tick[d].job)
    /\ Resume(d, "scan")
    /\ UNCHANGED recordVars

MarkUnknownFenced(d) ==
    /\ At(d, "lost")
    /\ job[tick[d].job].state # "running"
    /\ Fail(d, "fenced")

ListTerminal(d) ==
    /\ At(d, "scan")
    /\ tick[d].todo = {}
    /\ Look(d, [tick[d] EXCEPT !.pc = "reconcile",
                    !.todo = {j \in Own(d) : job[j].state \in JobTerminal
                                             /\ ~job[j].reconciled}])

----------------------------------------------------------------------------
(* Adapter.ReconcileAcknowledged: one canonical transaction.               *)

\* Faulty variant: only a running task answers for its route.
RoutesRunning(d, j) == {t \in DOMAIN accepted : accepted[t] = j /\ tick[d].snap[t] = "running"}

Routes(d, j) == {t \in DOMAIN accepted : accepted[t] = j /\ tick[d].snap[t] # "none"}

\* The worker's observation comes from its marker, unless one was imported
\* before, or from the result kept with a terminal job.
ImportsMarker(d, j) == attempt[j].source # "direct" /\ Found(j)
Imports(d, j) == ImportsMarker(d, j) \/ j \in tick[d].todo

Imported(d, j) ==
    [state |-> IF ImportsMarker(d, j) THEN Content(j) ELSE job[j].state,
     ref |-> IF j \in tick[d].todo /\ job[j].task # 0 THEN job[j].task
             ELSE attempt[j].ref,
     source |-> "direct"]

\* What the scheduler shows of an Attempt, by its reference or its label.
Sighted(d, j) == IF attempt[j].ref = 0 THEN Routes(d, j)
                 ELSE Routes(d, j) \cap {attempt[j].ref}

\* Faulty variant: the scheduler's word is taken before the worker's.
ReconciledBySight(d, j) ==
    IF attempt[j].state \in {"none"} \cup Outcome THEN attempt[j]
    ELSE IF Sighted(d, j) = {}
    THEN IF Imports(d, j) THEN Imported(d, j) ELSE attempt[j]
    ELSE LET t == CHOOSE t \in Sighted(d, j) : TRUE
             s == tick[d].snap[t]
         IN  [state |-> s, ref |-> t,
              source |-> IF s \in Outcome THEN "pueue" ELSE "none"]

Reconciled(d, j) ==
    IF Imports(d, j) THEN Imported(d, j)
    ELSE IF attempt[j].state \in {"none"} \cup Outcome \/ Sighted(d, j) = {}
    THEN attempt[j]
    ELSE LET t == CHOOSE t \in Sighted(d, j) : TRUE
             s == tick[d].snap[t]
         IN  [state |-> s, ref |-> t,
              source |-> IF s \in Outcome THEN "pueue" ELSE "none"]

\* record.allowedAttemptTransition, and the refinement of a scheduler
\* observation by the worker's own.
Allowed(old, new) ==
    \/ old.state = new.state
    \/ old.state \in {"planned", "queued", "running"}
    \/ old.state = "blocked" /\ new.state \in {"planned", "queued"}
    \/ old.source = "pueue" /\ new.source = "direct"

\* An observation of the worker is immutable; importing it a second time, to
\* add the reference, would restate it with the time of the second import.
Restated(d, j) == attempt[j].source = "direct" /\ Reconciled(d, j) # attempt[j]

\* The whole reconciliation is refused: an illegal transition, a replaced
\* reference, a marker that contradicts the job, a repeated label.
Conflict(d) ==
    \/ \E j \in Own(d) :
         \/ ~Allowed(attempt[j], Reconciled(d, j)) \/ Restated(d, j)
         \/ attempt[j].ref \notin {0, Reconciled(d, j).ref}
         \/ ImportsMarker(d, j) /\ j \in tick[d].todo /\ job[j].state # Content(j)
    \/ \E j \in Jobs : Cardinality(Routes(d, j)) > 1

Reconcile(d) ==
    /\ At(d, "reconcile")
    /\ ~\E j \in Own(d) : attempt[j].state # "none" /\ attempt[j].source # "direct" /\ Torn(j)
    /\ ~Conflict(d)
    /\ attempt' = [j \in Jobs |-> IF j \in Own(d) THEN Reconciled(d, j) ELSE attempt[j]]
    /\ marker' = [j \in Jobs |-> IF j \in Own(d) /\ ImportsMarker(d, j)
                                 THEN Promoted(marker[j]) ELSE marker[j]]
    /\ Goto(d, "mark")
    /\ UNCHANGED <<storeVars, task, result, runs>>

ReconcileTorn(d) ==
    /\ At(d, "reconcile")
    /\ \E j \in Own(d) : attempt[j].state # "none" /\ attempt[j].source # "direct" /\ Torn(j)
    /\ Fail(d, "torn")

ReconcileConflict(d) ==
    /\ At(d, "reconcile")
    /\ Conflict(d)
    /\ Fail(d, "conflict")

\* Faulty variant: acknowledged before the canonical transaction.
MarkEarly(d, j) ==
    /\ At(d, "reconcile")
    /\ j \in tick[d].todo
    /\ MarkJobReconciled(j, 1)
    /\ tick' = [tick EXCEPT ![d].todo = @ \ {j}]
    /\ UNCHANGED recordVars

\* Every listed job was acknowledged: its Attempt exists and was imported.
MarkReconciled(d, j) ==
    /\ At(d, "mark")
    /\ j \in tick[d].todo
    /\ MarkJobReconciled(j, 1)
    /\ tick' = [tick EXCEPT ![d].todo = @ \ {j}]
    /\ UNCHANGED recordVars

\* RuntimeState: while paused, intents are matched but not submitted.
ReadPause(d) ==
    /\ At(d, "mark")
    /\ tick[d].todo = {}
    /\ Look(d, [tick[d] EXCEPT !.pc = "page", !.allow = ~paused])

----------------------------------------------------------------------------
(* recoverOutbox: the intents that are due, page by page.                  *)

Due(d) == {j \in Own(d) : outbox[j].state \in {"pending", "failed"} /\ outbox[j].due}

Page(d) ==
    /\ At(d, "page")
    /\ Look(d, [tick[d] EXCEPT !.todo = Due(d),
                    !.pc = IF Due(d) # {} THEN "recover"
                           ELSE IF tick[d].allow THEN "pool" ELSE "release"])

\* Take j off the page and go on with it at pc.
Take(d, j, pc, mode) ==
    tick' = [tick EXCEPT ![d].todo = @ \ {j}, ![d].job = j, ![d].pc = pc,
                 ![d].mode = mode]
Taking(d, j) == At(d, "recover") /\ j \in tick[d].todo
ReadOnly == UNCHANGED <<storeVars, recordVars>>

\* Nothing of the page is left: the next one, unless only matching.
PageDone(d) ==
    /\ At(d, "recover")
    /\ tick[d].todo = {}
    /\ Look(d, [tick[d] EXCEPT !.pc = IF tick[d].allow THEN "page" ELSE "release"])

RecoverUnknown(d, j) ==
    /\ Taking(d, j)
    /\ job[j].state = "unknown"
    /\ Take(d, j, "block", "found")
    /\ ReadOnly

\* The scheduler already has the task: only the bookkeeping is missing.
RecoverFound(d, j) ==
    /\ Taking(d, j)
    /\ job[j].state # "unknown"
    /\ \E t \in Tasks :   \* reconciling has refused a repeated label
         /\ Routes(d, j) = {t}
         /\ tick' = [tick EXCEPT ![d].todo = @ \ {j}, ![d].job = j, ![d].pc = "refs",
                         ![d].mode = "found", ![d].task = t]
    /\ ReadOnly

RecoverPaused(d, j) ==
    /\ Taking(d, j)
    /\ job[j].state # "unknown" /\ Routes(d, j) = {} /\ ~tick[d].allow
    /\ tick' = [tick EXCEPT ![d].todo = @ \ {j}]
    /\ ReadOnly

\* The route is not in the snapshot and submitting is allowed.
Missing(d, j) ==
    /\ Taking(d, j)
    /\ job[j].state # "unknown"
    /\ Routes(d, j) = {}
    /\ tick[d].allow

\* Faulty variant: waiting tasks are not counted.
UsedRunning(d) == Cardinality({t \in Tasks : tick[d].snap[t] = "running"})

Used(d) == Cardinality({t \in Tasks : tick[d].snap[t] \in {"queued", "running"}})

\* No unit is free, or the Source could not be checked: later.
RecoverLater(d, j) ==
    /\ Missing(d, j)
    /\ Used(d) >= Capacity \/ "error" \in Faults
    /\ Take(d, j, "retry", "resubmit")
    /\ ReadOnly

\* RevalidateSubmission: a Source may be unavailable at any time, and a job
\* that is no longer running is refused.
RecoverBlocked(d, j) ==
    /\ Missing(d, j)
    /\ Used(d) < Capacity
    /\ Take(d, j, "giveup", "found")
    /\ ReadOnly

RecoverSubmit(d, j) ==
    /\ Missing(d, j)
    /\ Used(d) < Capacity
    /\ job[j].state = "running"
    /\ AskSubmit(d, j)
    /\ Take(d, j, "submit", "resubmit")
    /\ UNCHANGED recordVars

\* SetOutboxState(failed): the next attempt is a minute away.
Retry(d) ==
    /\ At(d, "retry")
    /\ SetOutboxState(tick[d].job, "failed")
    /\ IF tick[d].mode = "resubmit" THEN Resume(d, "recover") ELSE Leave(d)
    /\ UNCHANGED recordVars

----------------------------------------------------------------------------
(* blockSubmission: the job becomes unknown, then the Attempt blocked.     *)

GiveUp(d) ==
    /\ At(d, "giveup")
    /\ Unknown(tick[d].job)
    /\ Goto(d, "block")
    /\ UNCHANGED recordVars

GiveUpFenced(d) ==
    /\ At(d, "giveup")
    /\ job[tick[d].job].state # "running"
    /\ Fail(d, "ended")

\* Faulty variant: the transition is not idempotent.
BlockableOnce(j) == attempt[j].state \in {"planned", "queued"}

Blockable(j) == attempt[j].state \in {"planned", "queued", "blocked"}

Block(d) ==
    /\ At(d, "block")
    /\ Blockable(tick[d].job)
    /\ attempt' = [attempt EXCEPT ![tick[d].job].state = "blocked"]
    /\ Goto(d, "publish")
    /\ UNCHANGED <<storeVars, task, result, marker, runs>>

BlockRefused(d) ==
    /\ At(d, "block")
    /\ ~Blockable(tick[d].job)
    /\ Fail(d, "blocked")

----------------------------------------------------------------------------
(* submitAuthorized, and what is recorded of an accepted task.             *)

SubmitOpens(d) ==
    /\ At(d, "submit")
    /\ OpenSubmit(d)
    /\ UNCHANGED dispatchVars

SubmitPaused(d) ==
    /\ At(d, "submit")
    /\ PausedSubmit(d)
    /\ Leave(d)
    /\ UNCHANGED recordVars

\* Recovery stops at once; a new dispatch first postpones its intent.
SubmitFenced(d) ==
    /\ At(d, "submit")
    /\ FencedSubmit(d)
    /\ IF tick[d].mode = "resubmit" THEN Leave(d) ELSE Goto(d, "retry")
    /\ UNCHANGED recordVars

SubmitTask(d) ==
    /\ At(d, "submit")
    /\ Submit(d)
    /\ LET t == Len(accepted) + 1
       IN  /\ task' = [task EXCEPT ![t] = "queued"]
           /\ tick' = [tick EXCEPT ![d].task = t]
    /\ UNCHANGED <<result, marker, attempt, runs>>

SubmitCommits(d) ==
    /\ At(d, "submit")
    /\ CommitSubmit(d)
    /\ Goto(d, "refs")
    /\ UNCHANGED recordVars

SubmitAborts(d) ==
    /\ "error" \in Faults
    /\ At(d, "submit")
    /\ AbortSubmit(d)
    /\ Goto(d, "retry")
    /\ UNCHANGED recordVars

Refs(d) ==
    /\ At(d, "refs")
    /\ SetJobExternalRefs(tick[d].job, 1, tick[d].task)
    /\ Goto(d, "account")
    /\ UNCHANGED recordVars

RefsConflict(d) ==
    /\ At(d, "refs")
    /\ ~BindAllowed(tick[d].job, tick[d].task)
    /\ Fail(d, "conflict")

Account(d) ==
    /\ At(d, "account")
    /\ RecordDispatchOnce(tick[d].job)
    /\ Goto(d, "publish")
    /\ UNCHANGED recordVars

\* Faulty variant: the intent is deleted.
PublishByDeleting(d) ==
    /\ At(d, "publish")
    /\ WriterFree
    /\ outbox' = [outbox EXCEPT ![tick[d].job] = NoIntent]
    /\ Leave(d)
    /\ UNCHANGED <<leaseVars, paused, job, units, taskVars, recordVars>>

Publish(d) ==
    /\ At(d, "publish")
    /\ SetOutboxState(tick[d].job, "succeeded")
    /\ CASE tick[d].mode = "found" -> Resume(d, "recover")
         [] tick[d].mode = "end" -> Leave(d)
         [] OTHER -> Goto(d, "attach")
    /\ UNCHANGED recordVars

\* Adapter.Submitted: a new reference makes the Attempt queued.
Attached(a, t) == IF a.ref = t THEN a ELSE [a EXCEPT !.ref = t, !.state = "queued"]
Attachable(a, t) == a.ref = t \/ (a.ref = 0 /\ Allowed(a, Attached(a, t)))

Attach(d) ==
    /\ At(d, "attach")
    /\ LET j == tick[d].job
           t == tick[d].task
       IN  /\ Attachable(attempt[j], t)
           /\ attempt' = [attempt EXCEPT ![j] = Attached(@, t)]
           /\ IF tick[d].mode = "end" THEN Leave(d)
              ELSE tick' = [tick EXCEPT ![d] =
                     [@ EXCEPT !.snap[t] = "queued", !.job = None, !.task = 0, !.mode = "found",
                               !.pc = IF tick[d].mode = "resubmit" THEN "recover" ELSE "pool"]]
    /\ UNCHANGED <<storeVars, task, result, marker, runs>>

AttachConflict(d) ==
    /\ At(d, "attach")
    /\ ~Attachable(attempt[tick[d].job], tick[d].task)
    /\ Fail(d, "conflict")

----------------------------------------------------------------------------
(* The pool: fill its free capacity with planned work.                     *)

\* Next: a planned Attempt without a task, or a frontier entry without an
\* Attempt.  Lanes and their order are abstracted to any candidate.
Candidates(d) ==
    {j \in Own(d) \ Direct : attempt[j].ref = 0 /\ attempt[j].state \in {"none", "planned"}}

PoolIdle(d) ==
    /\ At(d, "pool")
    /\ paused \/ Used(d) >= Capacity \/ Candidates(d) = {}
    /\ Leave(d)
    /\ ReadOnly

PoolPick(d, j) ==
    /\ At(d, "pool")
    /\ ~paused /\ Used(d) < Capacity
    /\ j \in Candidates(d)
    /\ tick' = [tick EXCEPT ![d].pc = "prepare", ![d].job = j, ![d].mode = "dispatch"]
    /\ ReadOnly

KeepLease(d) ==
    /\ At(d, "pool")
    /\ RenewLease(d)
    /\ UNCHANGED dispatchVars

KeepFenced(d) ==
    /\ At(d, "pool")
    /\ ~Owns(d)
    /\ Fail(d, "fenced")

\* Adapter.Prepare: Experiment, Run, Attempt, Plan and Queue in one
\* transaction; an Attempt that exists is taken as it is.
Prepare(d) ==
    /\ At(d, "prepare")
    /\ attempt' = [attempt EXCEPT ![tick[d].job] =
                     IF @.state = "none" THEN [@ EXCEPT !.state = "planned"] ELSE @]
    /\ Goto(d, "intent")
    /\ UNCHANGED <<storeVars, task, result, marker, runs>>

\* A new claim is submitted.  A duplicate is never resubmitted here: its
\* binding, if any, is attached and the tick is done with the pool.
PrepareIntent(d) ==
    /\ At(d, "intent")
    /\ LET j == tick[d].job
       IN  /\ PrepareSubmission(j)
           /\ IF job[j].state # "running" THEN Goto(d, "authorize")
              ELSE IF job[j].task = 0 THEN Leave(d)
              ELSE tick' = [tick EXCEPT ![d].pc = "attach", ![d].mode = "end",
                                        ![d].task = job[j].task]
    /\ UNCHANGED recordVars

\* The job has finished: ErrConflict.
IntentConflict(d) ==
    /\ At(d, "intent")
    /\ job[tick[d].job].state \in JobFinished
    /\ Fail(d, "finished")

\* revalidateSubmission.
AuthorizeBlocked(d) ==
    /\ At(d, "authorize")
    /\ tick' = [tick EXCEPT ![d].pc = "giveup", ![d].mode = "end"]
    /\ ReadOnly

AuthorizeLater(d) ==
    /\ "error" \in Faults
    /\ At(d, "authorize")
    /\ Goto(d, "retry")
    /\ ReadOnly

AuthorizeSubmit(d) ==
    /\ At(d, "authorize")
    /\ AskSubmit(d, tick[d].job)
    /\ Goto(d, "submit")
    /\ UNCHANGED recordVars

----------------------------------------------------------------------------
(* The end of a tick, and its failures.                                    *)

\* Deferred; a later tick of this daemon, or of the next one with the same
\* name, starts anew.
Release(d) ==
    /\ At(d, "release")
    /\ ReleaseLease(d)
    /\ tick' = [tick EXCEPT ![d] = NoTick]
    /\ UNCHANGED recordVars

\* Any access to the store, the records or the scheduler may fail.
StepFails(d) ==
    /\ "error" \in Faults
    /\ tick[d].pc \notin {"idle", "release", "submit"}
    /\ Fail(d, "")

Crash(d) ==
    /\ "kill" \in Faults
    /\ tick[d].pc # "idle"
    /\ Kill(d)
    /\ tick' = [tick EXCEPT ![d] = NoTick]
    /\ UNCHANGED recordVars

----------------------------------------------------------------------------
(* The worker of task t: worker.Runner.Run.                                *)

ToStage(t, stage) == task' = [task EXCEPT ![t] = stage]
Worker(t, stage) == t \in DOMAIN accepted /\ task[t] = stage

\* The scheduler starts the task; the worker reads its job.
StartTask(t) ==
    /\ Worker(t, "queued")
    /\ ToStage(t, IF job[accepted[t]].state = "running" THEN "claimed" ELSE "late")
    /\ UNCHANGED <<storeVars, tick, result, marker, attempt, runs>>

CheckMarker(t) ==
    /\ Worker(t, "claimed") \/ Worker(t, "late")
    /\ LET j == accepted[t]
       IN  /\ marker' = [marker EXCEPT ![j] = Promoted(@)]
           /\ ToStage(t, CASE Torn(j) -> "failed"
                            [] Found(j) -> IF task[t] = "late" THEN Content(j) ELSE "found"
                            [] OTHER -> IF task[t] = "late" THEN "failed" ELSE "clear")
           /\ result' = [result EXCEPT ![t] = IF Found(j) THEN Content(j) ELSE "none"]
    /\ UNCHANGED <<storeVars, tick, attempt, runs>>

\* A marker of an earlier run: the job is repaired, nothing is run.
ReplayMarker(t) ==
    /\ Worker(t, "found")
    /\ LET j == accepted[t]
       IN  \/ FinishJob(j, 1, result[t])
           \/ WriterFree /\ job[j].state # "running" /\ UNCHANGED storeVars
    /\ ToStage(t, result[t])
    /\ UNCHANGED <<tick, result, marker, attempt, runs>>

\* Preflight, Git identity or environment reject the workload.
Refuse(t) ==
    /\ Worker(t, "clear")
    /\ ToStage(t, "refusing")
    /\ UNCHANGED <<storeVars, tick, result, marker, attempt, runs>>

Invoke(t) ==
    /\ Worker(t, "clear")
    /\ ToStage(t, "invoking")
    /\ runs' = [runs EXCEPT ![accepted[t]] = @ + 1]
    /\ UNCHANGED <<storeVars, tick, result, marker, attempt>>

\* writeTerminal: the temporary is created exclusively,
CreateMarker(t) ==
    /\ Worker(t, "invoking") \/ Worker(t, "refusing")
    /\ LET j == accepted[t]
       IN  IF marker[j].temp # "none"
           THEN ToStage(t, "failed") /\ UNCHANGED marker
           ELSE /\ marker' = [marker EXCEPT ![j].temp = "partial"]
                /\ ToStage(t, IF task[t] = "invoking" THEN "writing" ELSE "denying")
    /\ UNCHANGED <<storeVars, tick, result, attempt, runs>>

\* completed,
WriteMarker(t, outcome) ==
    /\ Worker(t, "writing") \/ (Worker(t, "denying") /\ outcome = "failed")
    /\ marker' = [marker EXCEPT ![accepted[t]].temp = outcome]
    /\ result' = [result EXCEPT ![t] = outcome]
    /\ ToStage(t, "written")
    /\ UNCHANGED <<storeVars, tick, attempt, runs>>

\* and, unless a marker has appeared meanwhile,
CheckPlace(t) ==
    /\ Worker(t, "written")
    /\ LET j == accepted[t]
       IN  IF marker[j].final # "none"
           THEN ToStage(t, "failed") /\ marker' = [marker EXCEPT ![j].temp = "none"]
           ELSE ToStage(t, "placing") /\ UNCHANGED marker
    /\ UNCHANGED <<storeVars, tick, result, attempt, runs>>

\* renamed into place; the temporary may be gone by then.
PlaceMarker(t) ==
    /\ Worker(t, "placing")
    /\ LET j == accepted[t]
       IN  IF marker[j].temp = "none"
           THEN ToStage(t, "failed") /\ UNCHANGED marker
           ELSE /\ marker' = [marker EXCEPT ![j] = [final |-> @.temp, temp |-> "none"]]
                /\ ToStage(t, "marked")
    /\ UNCHANGED <<storeVars, tick, result, attempt, runs>>

\* Faulty variant: the store is told before the marker is in place.
FinishEarly(t) ==
    /\ Worker(t, "written")
    /\ LET j == accepted[t]
       IN  FinishJob(j, 1, result[t]) /\ ToStage(t, "placing")
    /\ UNCHANGED <<tick, result, marker, attempt, runs>>

\* FinishJob of the worker's own outcome; a fenced worker exits with an error.
FinishTask(t) ==
    /\ Worker(t, "marked")
    /\ LET j == accepted[t]
       IN  \/ FinishJob(j, 1, result[t]) /\ ToStage(t, result[t])
           \/ /\ WriterFree /\ job[j].state # "running"
              /\ ToStage(t, IF job[j].state = result[t] THEN result[t] ELSE "failed")
              /\ UNCHANGED storeVars
    /\ UNCHANGED <<tick, result, marker, attempt, runs>>

\* The worker is killed, or the machine restarts.
KillWorker(t) ==
    /\ "die" \in Faults
    /\ t \in DOMAIN accepted /\ task[t] \in Working
    /\ ToStage(t, "failed")
    /\ UNCHANGED <<storeVars, tick, result, marker, attempt, runs>>

\* An operator removes a finished task from the scheduler.
Clean(t) ==
    /\ "clean" \in Faults
    /\ t \in DOMAIN accepted /\ task[t] \in Outcome
    /\ ToStage(t, "gone")
    /\ UNCHANGED <<storeVars, tick, result, marker, attempt, runs>>

----------------------------------------------------------------------------
(* The next-state relation.                                                *)

\* A tick that does not hang leaves its recovery before an intent it has
\* postponed is due again.
Recovering(d) == tick[d].pc \in {"page", "recover", "retry", "giveup", "block",
                                 "submit", "refs", "account", "publish", "attach"}

Clock ==
    /\ \/ ExpireLease
       \/ \E j \in Jobs : RetryTime(j) /\ ("slow" \in Faults \/ ~\E d \in Clients : Recovering(d))
    /\ UNCHANGED dispatchVars

Switch ==
    /\ "pause" \in Faults
    /\ \E b \in BOOLEAN : SetPaused(b)
    /\ UNCHANGED dispatchVars

\* A submission left behind by a killed daemon reaches the scheduler.
LateTask(j) ==
    /\ LateSubmit(j)
    /\ task' = [task EXCEPT ![Len(accepted) + 1] = "queued"]
    /\ UNCHANGED <<tick, result, marker, attempt, runs>>

Import(d) ==
    \/ BeginTick(d) \/ Snapshot(d) \/ ListRunning(d)
    \/ \E j \in Jobs : ScanJob(d, j)
    \/ ScanTorn(d) \/ ScanForeign(d) \/ Replay(d)
    \/ MarkUnknown(d) \/ MarkUnknownFenced(d) \/ ListTerminal(d)
    \/ Reconcile(d) \/ ReconcileTorn(d) \/ ReconcileConflict(d)
    \/ \E j \in Jobs : MarkReconciled(d, j)
    \/ ReadPause(d)

Recover(d) ==
    \/ Page(d) \/ PageDone(d)
    \/ \E j \in Jobs :
         \/ RecoverUnknown(d, j) \/ RecoverFound(d, j)
         \/ RecoverPaused(d, j) \/ RecoverLater(d, j) \/ RecoverBlocked(d, j)
         \/ RecoverSubmit(d, j)
    \/ Retry(d) \/ GiveUp(d) \/ GiveUpFenced(d) \/ Block(d) \/ BlockRefused(d)

Submission(d) ==
    \/ SubmitOpens(d) \/ SubmitPaused(d) \/ SubmitFenced(d) \/ SubmitTask(d)
    \/ SubmitCommits(d) \/ SubmitAborts(d)
    \/ Refs(d) \/ RefsConflict(d) \/ Account(d) \/ Publish(d)
    \/ Attach(d) \/ AttachConflict(d)

Fill(d) ==
    \/ PoolIdle(d) \/ KeepFenced(d) \/ Prepare(d)
    \/ \E j \in Jobs : PoolPick(d, j)
    \/ PrepareIntent(d) \/ IntentConflict(d) \/ AuthorizeBlocked(d) \/ AuthorizeLater(d)
    \/ AuthorizeSubmit(d)
    \/ Release(d)

DaemonStep(d) == Import(d) \/ Recover(d) \/ Submission(d) \/ Fill(d)

WorkerStep(t) ==
    \/ StartTask(t) \/ CheckMarker(t) \/ ReplayMarker(t) \/ Refuse(t) \/ Invoke(t)
    \/ CreateMarker(t) \/ (\E o \in Outcome : WriteMarker(t, o))
    \/ CheckPlace(t) \/ PlaceMarker(t) \/ FinishTask(t)

Next ==
    \/ \E d \in Clients : DaemonStep(d) \/ KeepLease(d) \/ StepFails(d) \/ Crash(d)
    \/ \E t \in Tasks : WorkerStep(t) \/ KillWorker(t) \/ Clean(t)
    \/ Clock \/ Switch
    \/ \E j \in Jobs : LateTask(j)

Spec == Init /\ [][Next]_vars

\* The daemon is run and makes progress, and so does every worker; no store
\* call waits for ever (SQLite's busy timeout is above the length of a step).
FairSpec ==
    /\ Spec
    /\ \A d \in Clients : WF_vars(DaemonStep(d))
    /\ \A t \in Tasks : WF_vars(WorkerStep(t))

----------------------------------------------------------------------------
(* Properties.                                                             *)

DispatchTypeOK ==
    /\ tick \in [Clients -> Tick]
    /\ task \in [Tasks -> Stage]
    /\ result \in [Tasks -> Outcome \cup {"none"}]
    /\ marker \in [Jobs -> Marker]
    /\ attempt \in [Jobs -> Attempt]
    /\ runs \in [Jobs -> Nat]

(***************************************************************************)
(* No workload runs twice, whatever crashes between the submission and its *)
(* bookkeeping: recovery matches the task by its route before it submits.  *)
(***************************************************************************)
RunsOnce == \A j \in Jobs : runs[j] <= 1

(***************************************************************************)
(* The marker is the evidence.  No job is finished and no Attempt imported *)
(* from its worker without a durable terminal marker that says the same,   *)
(* so the operational store can be lost and rebuilt; and an Attempt is     *)
(* blocked "before scheduler start" only if the scheduler never had a task *)
(* for it.                                                                 *)
(***************************************************************************)
BlockedUnstarted ==
    \A j \in Jobs : attempt[j].state = "blocked" => \A t \in DOMAIN accepted : accepted[t] # j
MarkerTruth ==
    \A j \in Jobs :
        /\ job[j].state \in JobTerminal => marker[j].final = job[j].state
        /\ attempt[j].source = "direct" => marker[j].final = attempt[j].state
VerdictTruth == MarkerTruth /\ BlockedUnstarted

(***************************************************************************)
(* A job leaves the list of unreconciled jobs only when its canonical      *)
(* Attempt carries the same worker observation, so a crash between the two *)
(* stores never loses a result.                                            *)
(***************************************************************************)
ImportAcked ==
    \A j \in Jobs : job[j].reconciled =>
        attempt[j].source = "direct" /\ attempt[j].state = job[j].state

(***************************************************************************)
(* A ResourcePool is a hard capacity boundary: the tasks that wait or run  *)
(* never exceed it, although every tick counts them on a snapshot.         *)
(***************************************************************************)
Active == {t \in Tasks : task[t] \in {"queued"} \cup Working}
CapacityHeld == Cardinality(Active) <= Capacity

(***************************************************************************)
(* A submission that was given up is settled: no later tick is refused the *)
(* unknown job or the blocked Attempt it needs to publish the intent.      *)
(***************************************************************************)
GiveUpSettles == \A d \in Clients : tick[d].why \notin {"ended", "blocked"}

(***************************************************************************)
(* Reconciling converges: no sequence of crashes and retries leaves        *)
(* records that make it, and with it every later tick, fail.               *)
(***************************************************************************)
ImportSettles == \A d \in Clients : tick[d].why # "conflict"

(***************************************************************************)
(* A daemon survives the moment at which a worker publishes its marker.    *)
(***************************************************************************)
MarkersReadable == \A d \in Clients : tick[d].why # "torn"

(***************************************************************************)
(* A job of one linked worktree never stops the daemon of another.         *)
(***************************************************************************)
ScopesApart == \A d \in Clients : tick[d].why # "scope"

(***************************************************************************)
(* A terminal marker is eventually imported into the canonical Attempt,    *)
(* whether or not the worker lived to record it in the store.              *)
(***************************************************************************)
EvidenceImported ==
    \A j \in Jobs \ Direct : marker[j].final # "none" ~> attempt[j].source = "direct"

(***************************************************************************)
(* Every step of a daemon or a worker is an operation of the store, or     *)
(* leaves it alone: what is proved of the store holds of the whole.        *)
(***************************************************************************)
UsesStore == StoreSpec

=============================================================================
