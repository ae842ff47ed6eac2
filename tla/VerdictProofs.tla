---------------------------- MODULE VerdictProofs ----------------------------
(***************************************************************************)
(* What daemons conclude about jobs and Attempts is true.                  *)
(*                                                                         *)
(* The marker is the evidence, for any number of daemons and worktrees: a  *)
(* job has one task (OneTask), so at every step of a worker it is known    *)
(* what its marker and the temporary hold (Fits): nobody else writes them, *)
(* and whoever reads them can only rename a complete temporary into place. *)
(*                                                                         *)
(* Further conclusions hold of a host with one daemon: nobody takes away   *)
(* what it has read, so its snapshot stays true of tasks that ended and of *)
(* jobs that were lost (Solo), and with it what it blocks or gives up.     *)
(***************************************************************************)
EXTENDS DispatchProofs

\* What a worker at a stage finds of its marker m, if it reports outcome o.
FitsStage(stage, m, o) ==
    /\ stage # "found"
    /\ stage \in {"queued", "claimed", "late", "clear", "refusing", "invoking"} => m = NoMarker
    /\ stage \in {"writing", "denying"} => m = [final |-> "none", temp |-> "partial"]
    /\ stage \in {"written", "placing"} =>
         m \in {[final |-> "none", temp |-> o], [final |-> o, temp |-> "none"]}
    /\ stage = "marked" => m = [final |-> o, temp |-> "none"]
Fits(t) == FitsStage(task[t], marker[accepted[t]], result[t])

MarkInv ==
    /\ \A t \in DOMAIN accepted : Fits(t)
    /\ \A j \in Jobs : Untasked(j) => marker[j] = NoMarker
    /\ MarkerTruth

-----------------------------------------------------------------------------
(* What a step does to markers and verdicts.                               *)

\* Markers only change as their readers and their worker change them.
MarkersMove ==
    /\ UNCHANGED result
    /\ \A j \in Jobs : marker'[j] \in {marker[j], Promoted(marker[j])}

\* No verdict without the marker.
Verdicts ==
    \A j \in Jobs :
        /\ job'[j].state \in JobTerminal =>
             job'[j].state = job[j].state \/ job'[j].state = marker'[j].final
        /\ attempt'[j].source = "direct" =>
             \/ attempt[j].source = "direct" /\ attempt'[j].state = attempt[j].state
             \/ attempt'[j].state = marker'[j].final

LEMMA NoVerdict ==
  ASSUME DispatchInv, UNCHANGED <<job, attempt>> PROVE Verdicts
  BY DEF Verdicts

\* One job is finished.
LEMMA FinishVerdict ==
  ASSUME DispatchInv, NEW k \in Jobs, NEW s, FinishJob(k, 1, s), UNCHANGED attempt,
         s \in JobTerminal => s = marker'[k].final
  PROVE  Verdicts
<1>1. job \in [Jobs -> JobRow]
  BY DEF DispatchInv, StoreInv, TypeOK
<1>2. \A j \in Jobs : job'[j].state = IF j = k THEN s ELSE job[j].state
  BY <1>1 DEF FinishJob, JobRow
<1> QED BY <1>2 DEF Verdicts

\* The rows of jobs that operations other than FinishJob leave running.
LEMMA RowVerdict ==
  ASSUME DispatchInv, NEW k \in Jobs, UNCHANGED attempt,
         \/ PrepareSubmission(k) \/ RecordDispatchOnce(k) \/ MarkJobReconciled(k, 1)
         \/ \E t \in Tasks : SetJobExternalRefs(k, 1, t)
  PROVE  Verdicts
<1>1. job \in [Jobs -> JobRow]
  BY DEF DispatchInv, StoreInv, TypeOK
<1>2. \A j \in Jobs : job'[j].state \in {job[j].state, "running"}
  BY <1>1 DEF PrepareSubmission, RecordDispatchOnce, MarkJobReconciled, SetJobExternalRefs, JobRow
<1> QED BY <1>2 DEF Verdicts, JobTerminal

LEMMA FinishMoves ==
  ASSUME DispatchInv, NEW d \in Clients, Replay(d) \/ MarkUnknown(d) \/ GiveUp(d)
  PROVE  MarkersMove /\ Verdicts
<1>1. tick[d].job \in Jobs /\ (tick[d].pc = "replay" => marker[tick[d].job].final # "none")
  BY TicksTyped DEF Replay, MarkUnknown, GiveUp, At, Local, HasJob, Listed, Acting, Scheduling
<1> PICK k \in Jobs : k = tick[d].job
  BY <1>1
<1>2. UNCHANGED <<marker, result, attempt>>
  BY DEF Replay, MarkUnknown, GiveUp, Fail, recordVars
<1>3. \/ UNCHANGED job
      \/ FinishJob(k, 1, "unknown")
      \/ FinishJob(k, 1, Content(k)) /\ tick[d].pc = "replay"
  BY DEF Replay, MarkUnknown, GiveUp, Unknown, Fail, At, storeVars, jobVars
<1>4. CASE UNCHANGED job
  BY <1>2, <1>4, NoVerdict DEF MarkersMove
<1>5. CASE FinishJob(k, 1, "unknown")
  <2>1. "unknown" \notin JobTerminal
    BY DEF JobTerminal
  <2> QED BY <1>2, <1>5, <2>1, FinishVerdict DEF MarkersMove
<1>6. CASE FinishJob(k, 1, Content(k)) /\ tick[d].pc = "replay"
  <2>1. Content(k) = marker'[k].final
    BY <1>1, <1>2, <1>6 DEF Content
  <2> QED BY <1>2, <1>6, <2>1, FinishVerdict DEF MarkersMove
<1> QED BY <1>3, <1>4, <1>5, <1>6

LEMMA RowMoves ==
  ASSUME DispatchInv, NEW d \in Clients,
         (\E j \in Jobs : MarkReconciled(d, j)) \/ Refs(d) \/ Account(d) \/ PrepareIntent(d)
  PROVE  MarkersMove /\ Verdicts
<1>1. UNCHANGED recordVars
  BY DEF MarkReconciled, Refs, Account, PrepareIntent
<1>2. CASE \E j \in Jobs : MarkReconciled(d, j)
  BY <1>1, <1>2, RowVerdict DEF MarkReconciled, MarkersMove, recordVars
<1>3. CASE Refs(d) \/ Account(d) \/ PrepareIntent(d)
  <2>1. tick[d].job \in Jobs /\ (tick[d].pc = "refs" => tick[d].task \in Tasks)
    BY <1>3, AtHand DEF Refs, Account, PrepareIntent, At, AfterPage, Scheduling, HasTask
  <2> PICK k \in Jobs : k = tick[d].job
    BY <2>1
  <2>2. \/ PrepareSubmission(k) \/ RecordDispatchOnce(k)
        \/ \E t \in Tasks : SetJobExternalRefs(k, 1, t)
    BY <1>3, <2>1 DEF Refs, Account, PrepareIntent, At
  <2> QED BY <1>1, <2>2, RowVerdict DEF MarkersMove, recordVars
<1> QED BY <1>2, <1>3

LEMMA ScanJobMoves ==
  ASSUME DispatchInv, NEW d \in Clients, NEW j \in Jobs, ScanJob(d, j)
  PROVE  MarkersMove /\ Verdicts
<1>1. marker' = [marker EXCEPT ![j] = Promoted(marker[j])] /\ UNCHANGED <<result, job, attempt>>
  BY DEF ScanJob, storeVars, jobVars
<1>2. MarkersMove
  BY <1>1, TasksTyped DEF MarkersMove
<1> QED BY <1>1, <1>2, NoVerdict

LEMMA AttemptMoves ==
  ASSUME DispatchInv, NEW d \in Clients, Block(d) \/ Prepare(d) \/ Attach(d)
  PROVE  MarkersMove /\ Verdicts
<1>1. UNCHANGED <<marker, result, job>>
  BY DEF Block, Prepare, Attach, storeVars, jobVars
<1>2. RecordsKept
  BY AttemptTurns DEF Step
<1>3. attempt \in [Jobs -> Attempt]
  BY DEF DispatchInv, DispatchTypeOK
<1>4. \A j \in Jobs : attempt'[j].source = attempt[j].source
  <2>1. CASE Block(d) \/ Prepare(d)
    BY <1>3, <2>1 DEF Block, Prepare, Attempt
  <2>2. CASE Attach(d)
    BY <1>3, <2>2 DEF Attach, Attached, Attempt
  <2> QED BY <2>1, <2>2
<1> QED BY <1>1, <1>2, <1>4 DEF MarkersMove, Verdicts, RecordsKept

LEMMA ReconcileMoves ==
  ASSUME DispatchInv, MarkerTruth, NEW d \in Clients, Reconcile(d)
  PROVE  MarkersMove /\ Verdicts
<1>1. /\ tick[d].pc = "reconcile" /\ UNCHANGED <<job, result>> /\ ~Conflict(d)
      /\ \A j \in Jobs : attempt'[j] = IF j \in Own(d) THEN Reconciled(d, j) ELSE attempt[j]
      /\ \A j \in Jobs : marker'[j] = IF j \in Own(d) /\ ImportsMarker(d, j)
                                      THEN Promoted(marker[j]) ELSE marker[j]
  BY DEF Reconcile, At, storeVars, jobVars
<1>2. MarkersMove
  BY <1>1 DEF MarkersMove
<1>3. marker \in [Jobs -> Marker]
  BY DEF DispatchInv, DispatchTypeOK
<1>4. \A j \in tick[d].todo : job[j].state \in Outcome
  BY <1>1, TicksTyped DEF Local, Listed
<1>5. ASSUME NEW j \in Own(d), attempt'[j].source = "direct"
      PROVE  \/ attempt[j].source = "direct" /\ attempt'[j].state = attempt[j].state
             \/ attempt'[j].state = marker'[j].final
  <2>0. j \in Jobs /\ attempt'[j] = Reconciled(d, j)
    BY <1>1 DEF Own
  <2>1. CASE ImportsMarker(d, j)
    <3>1. attempt'[j].state = Content(j) /\ Content(j) \in Outcome
      BY <2>0, <2>1 DEF Reconciled, Imports, Imported, ImportsMarker, Found
    <3>2. marker'[j] = Promoted(marker[j])
      BY <1>1, <2>0, <2>1
    <3> QED BY <1>3, <2>0, <3>1, <3>2, PromotedFacts DEF Content, Marker
  <2>2. CASE ~ImportsMarker(d, j) /\ j \in tick[d].todo
    <3>1. attempt'[j].state = job[j].state /\ marker'[j] = marker[j]
      BY <1>1, <2>0, <2>2 DEF Reconciled, Imports, Imported
    <3>2. job[j].state \in JobTerminal
      BY <1>4, <2>2 DEF Outcome, JobTerminal
    <3> QED BY <2>0, <3>1, <3>2 DEF MarkerTruth
  <2>3. CASE ~Imports(d, j)
    <3>1. \/ Reconciled(d, j) = attempt[j]
          \/ Reconciled(d, j).source \in {"pueue", "none"}
      BY <2>3 DEF Reconciled
    <3> QED BY <1>5, <2>0, <3>1
  <2> QED BY <2>1, <2>2, <2>3 DEF Imports
<1>6. Verdicts
  BY <1>1, <1>5 DEF Verdicts
<1> QED BY <1>2, <1>6

LEMMA DaemonVerdicts ==
  ASSUME DispatchInv, MarkerTruth, NEW d \in Clients,
         DaemonStep(d) \/ KeepLease(d) \/ StepFails(d) \/ Crash(d)
  PROVE  MarkersMove /\ Verdicts
<1>1. UNCHANGED <<job, attempt, marker, result>> => MarkersMove /\ Verdicts
  BY NoVerdict DEF MarkersMove
<1>2. CASE Import(d)
  <2>1. \/ UNCHANGED <<job, attempt, marker, result>>
        \/ (\E j \in Jobs : ScanJob(d, j) \/ MarkReconciled(d, j))
        \/ Replay(d) \/ MarkUnknown(d) \/ Reconcile(d)
    BY <1>2 DEF Import, BeginTick, Snapshot, ListRunning, ScanTorn, ScanForeign,
       MarkUnknownFenced, ListTerminal, ReconcileTorn, ReconcileConflict, ReadPause, Look, Fail,
       AcquireLease, storeVars, recordVars, jobVars
  <2> QED BY <1>1, <2>1, ScanJobMoves, RowMoves, FinishMoves, ReconcileMoves
<1>3. CASE Recover(d)
  <2>1. UNCHANGED <<job, attempt, marker, result>> \/ GiveUp(d) \/ Block(d)
    BY <1>3 DEF Recover, Page, PageDone, RecoverUnknown, RecoverFound, RecoverPaused, RecoverLater,
       RecoverBlocked, RecoverSubmit, Retry, GiveUpFenced, BlockRefused, Look, Fail,
       ReadOnly, AskSubmit, SetOutboxState, storeVars, recordVars, jobVars
  <2> QED BY <1>1, <2>1, FinishMoves, AttemptMoves
<1>4. CASE Submission(d)
  <2>1. UNCHANGED <<job, attempt, marker, result>> \/ Refs(d) \/ Account(d) \/ Attach(d)
    BY <1>4 DEF Submission, SubmitOpens, SubmitPaused, SubmitFenced, SubmitTask, SubmitCommits,
       SubmitAborts, RefsConflict, Publish, AttachConflict, OpenSubmit, PausedSubmit,
       FencedSubmit, Submit, CommitSubmit, AbortSubmit, SetOutboxState, Fail, storeVars,
       recordVars, dispatchVars, jobVars
  <2> QED BY <1>1, <2>1, RowMoves, AttemptMoves
<1>5. CASE Fill(d)
  <2>1. UNCHANGED <<job, attempt, marker, result>> \/ Prepare(d) \/ PrepareIntent(d)
    BY <1>5 DEF Fill, PoolIdle, KeepFenced, PoolPick, IntentConflict, AuthorizeBlocked,
       AuthorizeLater, AuthorizeSubmit, Release, ReleaseLease, AskSubmit, Fail, ReadOnly,
       storeVars, recordVars, jobVars
  <2> QED BY <1>1, <2>1, RowMoves, AttemptMoves
<1>6. CASE KeepLease(d) \/ StepFails(d) \/ Crash(d)
  BY <1>1, <1>6 DEF KeepLease, StepFails, Crash, RenewLease, Kill, Fail, storeVars, recordVars,
     dispatchVars, jobVars
<1> QED BY <1>2, <1>3, <1>4, <1>5, <1>6 DEF DaemonStep

-----------------------------------------------------------------------------
(* The worker and its marker.                                              *)

\* A step of the worker of t: its own stage, outcome and marker.
Writes(t) ==
    /\ Fits(t)'
    /\ \A u \in Tasks \ {t} : task'[u] = task[u] /\ result'[u] = result[u]
    /\ \A j \in Jobs \ {accepted[t]} : marker'[j] = marker[j]
    /\ marker[accepted[t]].final # "none" =>
         marker'[accepted[t]].final = marker[accepted[t]].final

LEMMA WorkerWrites ==
  ASSUME DispatchInv, MarkInv, NEW t \in Tasks, WorkerStep(t) \/ KillWorker(t) \/ Clean(t)
  PROVE  Writes(t) /\ Verdicts /\ t \in DOMAIN accepted
<1>0. t \in DOMAIN accepted /\ accepted' = accepted /\ Fits(t)
  BY WorkerStages, WorkerEffects DEF MarkInv
<1> PICK j \in Jobs : j = accepted[t]
  BY <1>0, TasksAccepted
<1> PICK m \in Marker : m = marker[j]
  BY TasksTyped
<1> PICK o : o = result[t]
  OBVIOUS
<1>1. FitsStage(task[t], m, o)
  BY <1>0 DEF Fits
<1>2. ASSUME NEW s, task' = [task EXCEPT ![t] = s], NEW p, result' = [result EXCEPT ![t] = p],
             NEW n, marker' = [marker EXCEPT ![j] = n],
             FitsStage(s, n, p), m.final # "none" => n.final = m.final
      PROVE  Writes(t)
  <2>1. /\ task'[t] = s /\ result'[t] = p /\ marker'[j] = n
        /\ \A u \in Tasks \ {t} : task'[u] = task[u] /\ result'[u] = result[u]
        /\ \A i \in Jobs \ {j} : marker'[i] = marker[i]
    BY <1>2, TasksTyped
  <2>2. Fits(t)'
    BY <1>0, <1>2, <2>1 DEF Fits
  <2> QED BY <1>2, <2>1, <2>2 DEF Writes
<1>3. /\ UNCHANGED result => result' = [result EXCEPT ![t] = o]
      /\ UNCHANGED marker => marker' = [marker EXCEPT ![j] = m]
  BY TasksTyped
<1>4. ASSUME UNCHANGED <<storeVars, attempt>> PROVE Verdicts
  BY <1>4, NoVerdict DEF storeVars, jobVars
<1>5. CASE StartTask(t) \/ Refuse(t) \/ Invoke(t) \/ KillWorker(t) \/ Clean(t)
  <2>1. PICK s \in {"claimed", "late", "refusing", "invoking", "failed", "gone"} :
          /\ task' = [task EXCEPT ![t] = s] /\ UNCHANGED <<result, marker>>
          /\ s \in {"claimed", "late", "refusing", "invoking"} => task[t] \in {"queued", "clear"}
    BY <1>5 DEF StartTask, Refuse, Invoke, KillWorker, Clean, ToStage, Worker
  <2>2. FitsStage(s, m, o)
    BY <1>1, <2>1 DEF FitsStage
  <2>3. UNCHANGED <<storeVars, attempt>>
    BY <1>5 DEF StartTask, Refuse, Invoke, KillWorker, Clean
  <2> QED BY <1>0, <1>2, <1>3, <1>4, <2>1, <2>2, <2>3
<1>6. CASE CheckMarker(t)
  <2>1. task[t] \in {"claimed", "late"} /\ UNCHANGED <<storeVars, attempt>>
    BY <1>6 DEF CheckMarker, Worker
  <2>2. m = NoMarker
    BY <1>1, <2>1 DEF FitsStage
  <2>3. ~Torn(j) /\ ~Found(j) /\ Promoted(m) = m
    BY <2>2 DEF Torn, Found, Content, Promoted, NoMarker, Outcome
  <2>4. PICK s \in {"failed", "clear"} : task' = [task EXCEPT ![t] = s]
    BY <1>6, <2>3 DEF CheckMarker, ToStage
  <2>5. result' = [result EXCEPT ![t] = "none"] /\ marker' = [marker EXCEPT ![j] = m]
    BY <1>6, <2>3 DEF CheckMarker
  <2>6. FitsStage(s, m, "none")
    BY <2>2 DEF FitsStage
  <2> QED BY <1>0, <1>2, <1>4, <2>1, <2>4, <2>5, <2>6
<1>7. CASE CreateMarker(t)
  <2>1. task[t] \in {"invoking", "refusing"} /\ UNCHANGED <<storeVars, attempt, result>>
    BY <1>7 DEF CreateMarker, Worker
  <2>2. m = NoMarker
    BY <1>1, <2>1 DEF FitsStage
  <2> DEFINE n == [final |-> "none", temp |-> "partial"]
  <2>3. n = [m EXCEPT !.temp = "partial"]
    BY <2>2 DEF NoMarker
  <2>4. marker' = [marker EXCEPT ![j] = n]
    BY <1>7, <2>2, <2>3, TasksTyped DEF CreateMarker, NoMarker
  <2>5. PICK s \in {"writing", "denying"} : task' = [task EXCEPT ![t] = s]
    BY <1>7, <2>2 DEF CreateMarker, ToStage, NoMarker
  <2>6. FitsStage(s, n, o) /\ m.final = "none"
    BY <2>2 DEF FitsStage, NoMarker
  <2> QED BY <1>0, <1>2, <1>3, <1>4, <2>1, <2>4, <2>5, <2>6
<1>8. ASSUME NEW p \in Outcome, WriteMarker(t, p) PROVE Writes(t) /\ Verdicts
  <2>1. task[t] \in {"writing", "denying"} /\ UNCHANGED <<storeVars, attempt>>
    BY <1>8 DEF WriteMarker, Worker
  <2>2. m = [final |-> "none", temp |-> "partial"]
    BY <1>1, <2>1 DEF FitsStage
  <2> DEFINE n == [final |-> "none", temp |-> p]
  <2>3. n = [m EXCEPT !.temp = p]
    BY <2>2
  <2>4. marker' = [marker EXCEPT ![j] = n]
    BY <1>8, <2>3, TasksTyped DEF WriteMarker
  <2>5. task' = [task EXCEPT ![t] = "written"] /\ result' = [result EXCEPT ![t] = p]
    BY <1>8 DEF WriteMarker, ToStage
  <2>6. FitsStage("written", n, p) /\ m.final = "none"
    BY <2>2 DEF FitsStage
  <2> QED BY <1>2, <1>4, <2>1, <2>4, <2>5, <2>6
<1>9. CASE CheckPlace(t)
  <2>1. task[t] = "written" /\ UNCHANGED <<storeVars, attempt, result>>
    BY <1>9 DEF CheckPlace, Worker
  <2>2. FitsStage("placing", m, o)
    BY <1>1, <2>1 DEF FitsStage
  <2>3. CASE m.final = "none"
    <3>1. task' = [task EXCEPT ![t] = "placing"] /\ UNCHANGED marker
      BY <1>9, <2>3 DEF CheckPlace, ToStage
    <3> QED BY <1>0, <1>2, <1>3, <1>4, <2>1, <2>2, <3>1
  <2>4. CASE m.final # "none"
    <3> DEFINE n == [m EXCEPT !.temp = "none"]
    <3>1. n.final = m.final
      BY DEF Marker
    <3>2. task' = [task EXCEPT ![t] = "failed"] /\ marker' = [marker EXCEPT ![j] = n]
      BY <1>9, <2>4, TasksTyped DEF CheckPlace, ToStage
    <3>3. FitsStage("failed", n, o)
      BY DEF FitsStage
    <3> HIDE DEF n
    <3> QED BY <1>0, <1>2, <1>3, <1>4, <2>1, <3>1, <3>2, <3>3
  <2> QED BY <2>3, <2>4
<1>10. CASE PlaceMarker(t)
  <2>1. task[t] = "placing" /\ UNCHANGED <<storeVars, attempt, result>>
    BY <1>10 DEF PlaceMarker, Worker
  <2>2. m \in {[final |-> "none", temp |-> o], [final |-> o, temp |-> "none"]}
    BY <1>1, <2>1 DEF FitsStage
  <2>3. CASE m.temp = "none"
    <3>1. task' = [task EXCEPT ![t] = "failed"] /\ UNCHANGED marker
      BY <1>10, <2>3 DEF PlaceMarker, ToStage
    <3>2. FitsStage("failed", m, o)
      BY DEF FitsStage
    <3> QED BY <1>0, <1>2, <1>3, <1>4, <2>1, <3>1, <3>2
  <2>4. CASE m.temp # "none"
    <3> DEFINE n == [final |-> m.temp, temp |-> "none"]
    <3>1. m.final = "none" /\ n = [final |-> o, temp |-> "none"]
      BY <2>2, <2>4
    <3>2. task' = [task EXCEPT ![t] = "marked"] /\ marker' = [marker EXCEPT ![j] = n]
      BY <1>10, <2>4, TasksTyped DEF PlaceMarker, ToStage
    <3>3. FitsStage("marked", n, o)
      BY <3>1 DEF FitsStage
    <3> HIDE DEF n
    <3> QED BY <1>0, <1>2, <1>3, <1>4, <2>1, <3>1, <3>2, <3>3
  <2> QED BY <2>3, <2>4
<1>11. CASE FinishTask(t)
  <2>1. task[t] = "marked" /\ UNCHANGED <<attempt, result, marker>>
    BY <1>11 DEF FinishTask, Worker
  <2>2. m.final = o
    BY <1>1, <2>1 DEF FitsStage
  <2>3. o \in Outcome
    BY <2>1, TasksTyped
  <2>4. PICK s \in Outcome : task' = [task EXCEPT ![t] = s]
    BY <1>11, <2>3 DEF FinishTask, ToStage, Outcome
  <2>5. FitsStage(s, m, o)
    BY <2>4 DEF FitsStage, Outcome
  <2>6. Verdicts
    <3>1. CASE FinishJob(j, 1, o)
      BY <2>1, <2>2, <3>1, FinishVerdict
    <3> QED BY <1>4, <1>11, <2>1, <3>1 DEF FinishTask
  <2> QED BY <1>0, <1>2, <1>3, <2>1, <2>4, <2>5, <2>6
<1>12. ~ReplayMarker(t)
  BY <1>1 DEF ReplayMarker, Worker, FitsStage
<1> QED BY <1>0, <1>5, <1>6, <1>7, <1>8, <1>9, <1>10, <1>11, <1>12 DEF WorkerStep

-----------------------------------------------------------------------------
(* The invariant.                                                          *)

\* Completing a temporary tells its worker nothing new.
LEMMA PromotedFits ==
  ASSUME NEW s, NEW m \in Marker, NEW o, FitsStage(s, m, o)
  PROVE  FitsStage(s, Promoted(m), o) /\ (m.final # "none" => Promoted(m).final = m.final)
<1>1. CASE m.final = "none" /\ m.temp \in Outcome
  <2>1. Promoted(m) = [final |-> m.temp, temp |-> "none"]
    BY <1>1 DEF Promoted
  <2>2. m # NoMarker /\ m # [final |-> "none", temp |-> "partial"]
    BY <1>1 DEF NoMarker, Outcome
  <2>3. CASE s \in {"written", "placing"}
    <3>1. m.temp = o
      BY <1>1, <2>3 DEF FitsStage, Outcome
    <3> QED BY <1>1, <2>1, <2>3, <3>1 DEF FitsStage
  <2>4. CASE s \notin {"written", "placing", "marked"}
    BY <1>1, <2>2, <2>4 DEF FitsStage
  <2>5. s # "marked"
    BY <1>1 DEF FitsStage, Outcome
  <2> QED BY <1>1, <2>3, <2>4, <2>5
<1>2. CASE ~(m.final = "none" /\ m.temp \in Outcome)
  BY <1>2 DEF Promoted
<1> QED BY <1>1, <1>2

\* Evidence is never withdrawn.
FinalsKept == \A j \in Jobs : marker[j].final # "none" => marker'[j].final = marker[j].final

LEMMA TruthStays ==
  ASSUME DispatchInv, MarkerTruth, Verdicts, FinalsKept
  PROVE  MarkerTruth'
<1> SUFFICES ASSUME NEW j \in Jobs
             PROVE  /\ job'[j].state \in JobTerminal => marker'[j].final = job'[j].state
                    /\ attempt'[j].source = "direct" => marker'[j].final = attempt'[j].state
  BY DEF MarkerTruth
<1>1. attempt[j].source = "direct" => attempt[j].state # "none"
  BY DEF DispatchInv, Rows, Outcome
<1>2. job[j].state \in JobTerminal => job[j].state # "none"
  BY DEF JobTerminal
<1> QED BY <1>1, <1>2 DEF MarkerTruth, Verdicts, FinalsKept

LEMMA DaemonMarks ==
  ASSUME Base, SubInv, MarkInv, NEW d \in Clients,
         DaemonStep(d) \/ KeepLease(d) \/ StepFails(d) \/ Crash(d)
  PROVE  MarkInv'
<1> USE DEF Base
<1>1. MarkersMove /\ Verdicts
  BY DaemonVerdicts DEF MarkInv
<1>2. FinalsKept
  BY <1>1, TasksTyped, PromotedFacts DEF MarkersMove, FinalsKept
<1>3. ASSUME NEW t \in DOMAIN accepted, accepted'[t] = accepted[t], task'[t] = task[t]
      PROVE  Fits(t)'
  <2>1. PICK j \in Jobs : j = accepted[t]
    BY TasksAccepted
  <2>2. PICK m \in Marker : m = marker[j]
    BY TasksTyped
  <2>3. FitsStage(task[t], m, result[t])
    BY <2>1, <2>2 DEF MarkInv, Fits
  <2>4. marker'[j] \in {m, Promoted(m)}
    BY <1>1, <2>2 DEF MarkersMove
  <2>5. FitsStage(task[t], marker'[j], result[t])
    BY <2>3, <2>4, PromotedFits
  <2> QED BY <1>1, <1>3, <2>1, <2>5 DEF Fits, MarkersMove
<1>4. ASSUME NEW j \in Jobs, Untasked(j) PROVE marker'[j] = NoMarker
  BY <1>1, <1>4 DEF MarkInv, MarkersMove, Promoted, NoMarker, Outcome
<1>5. CASE UNCHANGED <<accepted, task>>
  BY <1>1, <1>2, <1>3, <1>4, <1>5, TruthStays DEF MarkInv, Untasked
<1>6. CASE SubmitTask(d)
  <2>1. /\ Leads(d) /\ call[d].stage = "open" /\ tick[d].job \in Jobs
        /\ accepted' = Append(accepted, tick[d].job)
        /\ task' = [task EXCEPT ![Len(accepted) + 1] = "queued"]
    BY <1>6, Submitter
  <2> PICK k \in Jobs : k = tick[d].job
    BY <2>1
  <2>2. /\ DOMAIN accepted' = DOMAIN accepted \cup {Len(accepted) + 1}
        /\ Len(accepted) + 1 \notin DOMAIN accepted
        /\ \A t \in DOMAIN accepted : accepted'[t] = accepted[t]
        /\ accepted'[Len(accepted) + 1] = k
    BY <2>1, Appended
  <2>3. marker'[k] = NoMarker
    BY <1>4, <2>1 DEF SubInv, Clear, Chosen
  <2>4. \A t \in DOMAIN accepted' : t \in Tasks
    <3>1. DispatchInv'
      BY <1>6, DispatchStep DEF Next, DaemonStep, Submission
    <3>2. accepted' \in Seq(Jobs) /\ Len(accepted') <= MaxTasks
      BY <3>1 DEF DispatchInv, Rows, StoreInv, TypeOK
    <3>3. DOMAIN accepted' = 1 .. Len(accepted')
      BY <3>2
    <3> QED BY <3>2, <3>3, OperationBounds DEF Tasks
  <2>5. ASSUME NEW t \in DOMAIN accepted' PROVE Fits(t)'
    <3>1. CASE t \in DOMAIN accepted
      <4>1. task'[t] = task[t]
        BY <2>1, <2>2, <2>4, <3>1, TasksTyped
      <4> QED BY <1>3, <2>2, <3>1, <4>1
    <3>2. CASE t = Len(accepted) + 1
      <4>1. task'[t] = "queued"
        BY <2>1, <2>4, <3>2, TasksTyped
      <4> QED BY <2>2, <2>3, <3>2, <4>1 DEF Fits, FitsStage
    <3> QED BY <2>2, <3>1, <3>2
  <2>6. \A j \in Jobs : Untasked(j)' => Untasked(j)
    BY <2>2 DEF Untasked
  <2> QED BY <1>1, <1>2, <1>4, <2>5, <2>6, TruthStays DEF MarkInv
<1> QED BY <1>5, <1>6, DaemonAccepts, OtherEffects

LEMMA WorkerMarks ==
  ASSUME Base, SubInv, MarkInv, NEW t \in Tasks, WorkerStep(t) \/ KillWorker(t) \/ Clean(t)
  PROVE  MarkInv'
<1> USE DEF Base
<1>1. Writes(t) /\ Verdicts /\ t \in DOMAIN accepted /\ accepted' = accepted
  BY WorkerWrites, WorkerEffects
<1>2. FinalsKept
  BY <1>1 DEF Writes, FinalsKept
<1>3. ASSUME NEW u \in DOMAIN accepted PROVE Fits(u)'
  <2>1. CASE u = t
    BY <1>1, <2>1 DEF Writes
  <2>2. CASE u # t
    <3>1. u \in Tasks /\ accepted[u] \in Jobs /\ accepted[u] # accepted[t]
      BY <1>1, <2>2, TasksAccepted DEF SubInv, OneTask
    <3>2. /\ task'[u] = task[u] /\ result'[u] = result[u]
          /\ marker'[accepted[u]] = marker[accepted[u]]
      BY <1>1, <2>2, <3>1 DEF Writes
    <3> QED BY <1>1, <3>2 DEF MarkInv, Fits
  <2> QED BY <2>1, <2>2
<1>4. ASSUME NEW j \in Jobs, Untasked(j) PROVE marker'[j] = NoMarker
  BY <1>1, <1>4 DEF MarkInv, Writes, Untasked
<1> QED BY <1>1, <1>2, <1>3, <1>4, TruthStays DEF MarkInv, Untasked

LEMMA MarkStep ==
  ASSUME Base, SubInv, MarkInv, [Next]_vars
  PROVE  MarkInv'
<1>1. CASE Clock \/ Switch \/ UNCHANGED vars
  <2>1. UNCHANGED <<accepted, task, result, marker, job, attempt>>
    BY <1>1 DEF Clock, Switch, ExpireLease, RetryTime, SetPaused, taskVars, jobVars, recordVars,
       dispatchVars, storeVars, vars
  <2> QED BY <2>1 DEF MarkInv, Fits, Untasked, MarkerTruth
<1>2. ~\E j \in Jobs : LateTask(j)
  BY DEF LateTask, LateSubmit, SubInv
<1> QED BY <1>1, <1>2, DaemonMarks, WorkerMarks DEF Next

LEMMA MarkInit ==
  ASSUME Init PROVE MarkInv
<1>1. DOMAIN accepted = {}
  BY DEF Init, StoreInit
<1>2. \A j \in Jobs : /\ marker[j] = NoMarker
                     /\ job[j].state = "absent"
                     /\ attempt[j].source = "none"
  BY DEF Init, StoreInit, NoAttempt, AbsentJob
<1> QED BY <1>1, <1>2 DEF MarkInv, MarkerTruth, JobTerminal

(***************************************************************************)
(* A job is finished, by its worker or by a scan of the daemon, and an     *)
(* Attempt is imported as the worker's own observation, only when the      *)
(* terminal marker of the job is in place and says the same outcome; no    *)
(* verdict is guessed, and no marker contradicts one (worker.WriteMarker,  *)
(* dispatch.ImportTerminalRuns).  The assumptions are those of             *)
(* OneTaskPerJob: two tasks of one job would share one result file.        *)
(***************************************************************************)
THEOREM VerdictsHaveMarkers ==
  ASSUME OwnNames, Calm PROVE Spec => []MarkerTruth
<1>1. Base /\ SubInv /\ MarkInv /\ [Next]_vars => MarkInv'
  BY MarkStep
<1>2. Init => MarkInv
  BY MarkInit
<1>3. MarkInv => MarkerTruth
  BY DEF MarkInv
<1> QED BY <1>1, <1>2, <1>3, BaseHolds, SubInvariant, PTL DEF Spec

-----------------------------------------------------------------------------
(* One daemon: what it concludes from its snapshot stays true.             *)

\* The host runs one daemon; it may be killed and started again at any step.
OneDaemon == \E d : Clients = {d}

\* The scheduler has task t for job j.
Named(t, j) == t \in DOMAIN accepted /\ accepted[t] = j

\* Bindings and references name tasks of their own job, and an intent was
\* published for a claimed job with an Attempt.
RefsTrue ==
    \A j \in Jobs :
        /\ job[j].task # 0 => Named(job[j].task, j)
        /\ attempt[j].ref # 0 => Named(attempt[j].ref, j)
        /\ outbox[j].state # "absent" => attempt[j].state # "none"

\* A job is lost when its task has ended, and an Attempt blocked when the job
\* never had one.
RowsTrue ==
    \A j \in Jobs :
        /\ job[j].state = "unknown" => \A t \in DOMAIN accepted : accepted[t] = j => task[t] \in Outcome
        /\ attempt[j].state = "blocked" => Untasked(j) /\ job[j].state = "unknown"

\* The task a daemon keeps is one of the job at hand, which is not lost.
KeepsTask(d) ==
    \/ tick[d].pc \in {"refs", "account", "attach"}
    \/ tick[d].pc = "publish" /\ tick[d].mode \in {"resubmit", "dispatch"}
    \/ call[d].stage = "sent"
TaskOf(d) ==
    KeepsTask(d) => Named(tick[d].task, tick[d].job) /\ job[tick[d].job].state # "unknown"

\* What the snapshot says of ended tasks, and of all tasks of lost jobs.
Sight(d) ==
    tick[d].pc \in After =>
        /\ \A t \in Tasks : tick[d].snap[t] \in Outcome => task[t] \in Outcome
        /\ \A t \in DOMAIN accepted : job[accepted[t]].state = "unknown" => tick[d].snap[t] \in Outcome

\* A job whose task ended on the snapshot.
EndedTask(d, j) == job[j].task # 0 /\ tick[d].snap[job[j].task] \in Outcome
Losing(d) ==
    /\ tick[d].pc \in {"scan", "replay", "lost"} => \A j \in tick[d].ended : EndedTask(d, j)
    /\ tick[d].pc = "lost" => EndedTask(d, tick[d].job)

\* After reconciling, a lost job never had a task or its Attempt has ended.
Past == {"mark", "page"} \cup AfterPage
Judged(d) ==
    tick[d].pc \in Past =>
        \A j \in Own(d) : job[j].state = "unknown" => Untasked(j) \/ attempt[j].state \in Outcome

Choice(d) ==
    /\ tick[d].pc = "intent" => attempt[tick[d].job].state # "none"
    /\ tick[d].pc = "block" => job[tick[d].job].state = "unknown"
    /\ tick[d].pc = "authorize" \/ call[d].stage \in {"asked", "open"} =>
         job[tick[d].job].state = "running"

Solo(d) ==
    /\ tick[d].pc # "idle" => Leads(d)
    /\ TaskOf(d) /\ Sight(d) /\ Losing(d) /\ Judged(d) /\ Choice(d)

SoloInv ==
    /\ RefsTrue /\ RowsTrue
    /\ \A t \in Tasks : t \notin DOMAIN accepted => task[t] = "none"
    /\ \A d \in Clients : Solo(d)

-----------------------------------------------------------------------------
(* What a step of the daemon d, or of a worker, does to rows and Attempts. *)

RowsOf(d, j) ==
    /\ job'[j].state = "unknown" =>
         \/ job[j].state = "unknown"
         \/ j = tick[d].job /\ tick[d].pc \in {"lost", "giveup"}
    /\ job[j].state = "running" =>
         \/ job'[j].state = "running"
         \/ j = tick[d].job /\ tick[d].pc \in {"replay", "lost", "giveup"}
         \/ ~Untasked(j)
    /\ \/ job'[j].task = job[j].task
       \/ j = tick[d].job /\ tick[d].pc = "refs" /\ job'[j].task = tick[d].task
    /\ outbox'[j].state # "absent" =>
         \/ outbox[j].state # "absent"
         \/ j = tick[d].job /\ tick[d].pc = "intent"

AttemptOf(d, j) ==
    /\ attempt[j].state # "none" => attempt'[j].state # "none"
    /\ attempt[j].state \in Outcome => attempt'[j].state \in Outcome
    /\ attempt'[j].state = "blocked" =>
         \/ attempt[j].state = "blocked"
         \/ j = tick[d].job /\ tick[d].pc = "block" /\ attempt[j].state \notin Outcome
    /\ attempt'[j].ref \in {0, attempt[j].ref} \/ Named(attempt'[j].ref, j)

RowsMove(d) == \A j \in Jobs : RowsOf(d, j)
AttemptsMove(d) == \A j \in Jobs : AttemptOf(d, j)

LEMMA RowsStill ==
  ASSUME NEW d, UNCHANGED <<job, outbox>> PROVE RowsMove(d)
  BY DEF RowsMove, RowsOf

LEMMA AttemptsStill ==
  ASSUME NEW d, UNCHANGED attempt PROVE AttemptsMove(d)
  BY DEF AttemptsMove, AttemptOf

LEMMA FinishRow ==
  ASSUME DispatchInv, NEW d \in Clients, NEW k \in Jobs, NEW s, FinishJob(k, 1, s),
         \/ k = tick[d].job /\ tick[d].pc \in {"lost", "giveup"}
         \/ k = tick[d].job /\ tick[d].pc = "replay" /\ s # "unknown"
         \/ ~Untasked(k) /\ s # "unknown"
  PROVE  RowsMove(d)
<1>1. job \in [Jobs -> JobRow]
  BY DEF DispatchInv, StoreInv, TypeOK
<1>2. /\ \A j \in Jobs : job'[j].state = IF j = k THEN s ELSE job[j].state
      /\ \A j \in Jobs : job'[j].task = job[j].task
      /\ outbox' = outbox
  BY <1>1 DEF FinishJob, JobRow
<1> QED BY <1>2 DEF RowsMove, RowsOf

\* Operations of the job at hand that do not finish it.
LEMMA HandRow ==
  ASSUME DispatchInv, NEW d \in Clients, NEW k \in Jobs, k = tick[d].job,
         \/ PrepareSubmission(k) /\ tick[d].pc = "intent"
         \/ SetJobExternalRefs(k, 1, tick[d].task) /\ tick[d].pc = "refs"
         \/ RecordDispatchOnce(k)
         \/ \E s : SetOutboxState(k, s)
  PROVE  RowsMove(d)
<1>1. job \in [Jobs -> JobRow] /\ outbox \in [Jobs -> Intent]
  BY DEF DispatchInv, StoreInv, TypeOK
<1>2. CASE PrepareSubmission(k) /\ tick[d].pc = "intent"
  <2>1. \A j \in Jobs : job'[j].state \in {job[j].state, "running"} /\ job'[j].task = job[j].task
    BY <1>1, <1>2 DEF PrepareSubmission, JobRow
  <2>2. \A j \in Jobs \ {k} : outbox'[j] = outbox[j]
    BY <1>1, <1>2 DEF PrepareSubmission
  <2> QED BY <1>2, <2>1, <2>2 DEF RowsMove, RowsOf
<1>3. CASE SetJobExternalRefs(k, 1, tick[d].task) /\ tick[d].pc = "refs"
  <2>1. /\ \A j \in Jobs : job'[j].state = job[j].state
        /\ \A j \in Jobs : job'[j].task = IF j = k THEN tick[d].task ELSE job[j].task
        /\ outbox' = outbox
    BY <1>1, <1>3 DEF SetJobExternalRefs, JobRow
  <2> QED BY <1>3, <2>1 DEF RowsMove, RowsOf
<1>4. CASE RecordDispatchOnce(k)
  <2>1. /\ \A j \in Jobs : job'[j].state = job[j].state /\ job'[j].task = job[j].task
        /\ outbox' = outbox
    BY <1>1, <1>4 DEF RecordDispatchOnce, JobRow
  <2> QED BY <2>1 DEF RowsMove, RowsOf
<1>5. ASSUME NEW s, SetOutboxState(k, s) PROVE RowsMove(d)
  <2>1. /\ UNCHANGED job
        /\ \A j \in Jobs : outbox'[j].state # "absent" => outbox[j].state # "absent"
    BY <1>1, <1>5 DEF SetOutboxState
  <2> QED BY <2>1 DEF RowsMove, RowsOf
<1> QED BY <1>2, <1>3, <1>4, <1>5

LEMMA MarkRow ==
  ASSUME DispatchInv, NEW d \in Clients, NEW k \in Jobs, MarkReconciled(d, k)
  PROVE  RowsMove(d)
<1>1. job \in [Jobs -> JobRow]
  BY DEF DispatchInv, StoreInv, TypeOK
<1>2. /\ \A j \in Jobs : job'[j].state = job[j].state /\ job'[j].task = job[j].task
      /\ outbox' = outbox
  BY <1>1 DEF MarkReconciled, MarkJobReconciled, JobRow
<1> QED BY <1>2 DEF RowsMove, RowsOf

LEMMA ReconcileAttempts ==
  ASSUME DispatchInv, RefsTrue, NEW d \in Clients, Reconcile(d)
  PROVE  AttemptsMove(d)
<1>1. /\ tick[d].pc = "reconcile" /\ ~Conflict(d)
      /\ \A j \in Jobs : attempt'[j] = IF j \in Own(d) THEN Reconciled(d, j) ELSE attempt[j]
  BY DEF Reconcile, At
<1>2. ASSUME NEW j \in Own(d) PROVE AttemptOf(d, j)
  <2>0. j \in Jobs /\ attempt'[j] = Reconciled(d, j)
    BY <1>1 DEF Own
  <2>1. CASE Imports(d, j)
    <3>1. Reconciled(d, j) = Imported(d, j) /\ Imported(d, j).source = "direct"
      BY <2>1 DEF Reconciled, Imported
    <3>2. attempt'[j].state \in Outcome
      BY <1>1, <2>0, <3>1, ReconciledFacts
    <3>3. \/ attempt'[j].ref = attempt[j].ref
          \/ attempt'[j].ref = job[j].task /\ job[j].task # 0
      BY <2>0, <3>1 DEF Imported
    <3> QED BY <2>0, <3>2, <3>3 DEF AttemptOf, RefsTrue, Outcome
  <2>2. CASE ~Imports(d, j) /\ (attempt[j].state \in {"none"} \cup Outcome \/ Sighted(d, j) = {})
    <3>1. attempt'[j] = attempt[j]
      BY <2>0, <2>2 DEF Reconciled
    <3> QED BY <3>1 DEF AttemptOf
  <2>3. CASE ~Imports(d, j) /\ ~(attempt[j].state \in {"none"} \cup Outcome \/ Sighted(d, j) = {})
    <3> DEFINE t == CHOOSE t \in Sighted(d, j) : TRUE
               s == tick[d].snap[t]
               src == IF s \in Outcome THEN "pueue" ELSE "none"
    <3>1. attempt'[j] = [state |-> s, ref |-> t, source |-> src]
      BY <2>0, <2>3 DEF Reconciled
    <3>2. t \in Sighted(d, j)
      BY <2>3
    <3>3. Named(t, j) /\ t \in Tasks /\ s # "none"
      BY <3>2, TasksAccepted DEF Sighted, Routes, Named
    <3>4. s \in Seen
      BY <3>3, TicksTyped, TickFields
    <3> HIDE DEF t, s, src
    <3>5. s # "blocked"
      BY <3>4 DEF Seen, Outcome
    <3> QED BY <2>3, <3>1, <3>3, <3>5 DEF AttemptOf
  <2> QED BY <2>1, <2>2, <2>3
<1> QED BY <1>1, <1>2 DEF AttemptsMove, AttemptOf

LEMMA HandAttempts ==
  ASSUME DispatchInv, NEW d \in Clients, TaskOf(d), Block(d) \/ Prepare(d) \/ Attach(d)
  PROVE  AttemptsMove(d)
<1>0. tick[d].pc \in {"block", "prepare", "attach"}
  BY DEF Block, Prepare, Attach, At
<1>1. tick[d].job \in Jobs
  BY <1>0, AtHand DEF AfterPage, Scheduling
<1> PICK k \in Jobs : k = tick[d].job
  BY <1>1
<1> PICK t : t = tick[d].task
  OBVIOUS
<1> PICK a \in Attempt : a = attempt[k]
  BY DEF DispatchInv, DispatchTypeOK
<1>2. ASSUME NEW b, attempt' = [attempt EXCEPT ![k] = b],
             a.state # "none" => b.state # "none",
             a.state \in Outcome => b.state \in Outcome,
             b.state = "blocked" =>
               a.state = "blocked" \/ (tick[d].pc = "block" /\ a.state \notin Outcome),
             b.ref \in {0, a.ref} \/ Named(b.ref, k)
      PROVE  AttemptsMove(d)
  <2>1. \A j \in Jobs : attempt'[j] = IF j = k THEN b ELSE attempt[j]
    BY <1>2 DEF DispatchInv, DispatchTypeOK
  <2> QED BY <1>2, <2>1 DEF AttemptsMove, AttemptOf
<1>3. CASE Block(d)
  <2> DEFINE b == [a EXCEPT !.state = "blocked"]
  <2>1. attempt' = [attempt EXCEPT ![k] = b] /\ Blockable(k) /\ tick[d].pc = "block"
    BY <1>3 DEF Block, At
  <2>2. b.state = "blocked" /\ b.ref = a.ref
    BY DEF Attempt
  <2>3. a.state \notin Outcome
    BY <2>1 DEF Blockable, Outcome
  <2> HIDE DEF b
  <2> QED BY <1>2, <2>1, <2>2, <2>3
<1>4. CASE Prepare(d)
  <2>1. CASE a.state = "none"
    <3> DEFINE b == [a EXCEPT !.state = "planned"]
    <3>1. attempt' = [attempt EXCEPT ![k] = b]
      BY <1>4, <2>1 DEF Prepare
    <3>2. b.state = "planned" /\ b.ref = a.ref
      BY DEF Attempt
    <3>3. a.state \notin Outcome
      BY <2>1 DEF Outcome
    <3> HIDE DEF b
    <3> QED BY <1>2, <3>1, <3>2, <3>3
  <2>2. CASE a.state # "none"
    <3>1. attempt' = [attempt EXCEPT ![k] = a]
      BY <1>4, <2>2 DEF Prepare
    <3> QED BY <1>2, <3>1
  <2> QED BY <2>1, <2>2
<1>5. CASE Attach(d)
  <2>1. attempt' = [attempt EXCEPT ![k] = Attached(a, t)] /\ Attachable(a, t) /\ Named(t, k)
    BY <1>5 DEF Attach, At, TaskOf, KeepsTask
  <2>2. CASE a.ref = t
    <3>1. Attached(a, t) = a
      BY <2>2 DEF Attached
    <3> QED BY <1>2, <2>1, <3>1
  <2>3. CASE a.ref # t
    <3> DEFINE b == [a EXCEPT !.ref = t, !.state = "queued"]
    <3>1. Attached(a, t) = b /\ Allowed(a, b)
      BY <2>1, <2>3 DEF Attached, Attachable
    <3>2. b.state = "queued" /\ b.ref = t /\ b.source = a.source
      BY DEF Attempt
    <3>3. a.state \notin Outcome
      BY <3>1, <3>2 DEF Allowed, Outcome
    <3> HIDE DEF b
    <3> QED BY <1>2, <2>1, <3>1, <3>2, <3>3
  <2> QED BY <2>2, <2>3
<1> QED BY <1>3, <1>4, <1>5

LEMMA FinishRows ==
  ASSUME DispatchInv, NEW d \in Clients, Replay(d) \/ MarkUnknown(d) \/ GiveUp(d)
  PROVE  RowsMove(d)
<1>1. tick[d].job \in Jobs
  BY TicksTyped DEF Replay, MarkUnknown, GiveUp, At, Local, HasJob, Acting, Scheduling
<1> PICK k \in Jobs : k = tick[d].job
  BY <1>1
<1>2. CASE UNCHANGED <<job, outbox>>
  BY <1>2, RowsStill
<1>3. CASE FinishJob(k, 1, "unknown") /\ tick[d].pc \in {"lost", "giveup"}
  BY <1>3, FinishRow
<1>4. CASE FinishJob(k, 1, Content(k)) /\ tick[d].pc = "replay"
  <2>1. Content(k) # "unknown"
    BY TasksTyped DEF Content, Marker, File, Outcome
  <2> QED BY <1>4, <2>1, FinishRow
<1> QED BY <1>2, <1>3, <1>4
        DEF Replay, MarkUnknown, GiveUp, Unknown, Fail, At, storeVars, jobVars

LEMMA HandRows ==
  ASSUME DispatchInv, NEW d \in Clients,
         Retry(d) \/ Refs(d) \/ Account(d) \/ Publish(d) \/ PrepareIntent(d)
  PROVE  RowsMove(d)
<1>1. tick[d].pc \in Scheduling
  BY DEF Retry, Refs, Account, Publish, PrepareIntent, At, Scheduling
<1>2. tick[d].job \in Jobs
  BY <1>1, AtHand DEF AfterPage
<1> QED BY <1>2, HandRow DEF Retry, Refs, Account, Publish, PrepareIntent, At

LEMMA DaemonMove ==
  ASSUME DispatchInv, RefsTrue, NEW d \in Clients, TaskOf(d),
         DaemonStep(d) \/ StepFails(d) \/ Crash(d)
  PROVE  RowsMove(d) /\ AttemptsMove(d)
<1> USE RowsStill, AttemptsStill
<1>1. CASE Import(d)
  <2>1. \/ UNCHANGED <<job, outbox, attempt>>
        \/ Reconcile(d) /\ UNCHANGED <<job, outbox>>
        \/ UNCHANGED attempt /\ (Replay(d) \/ MarkUnknown(d) \/ \E j \in Jobs : MarkReconciled(d, j))
    BY <1>1 DEF Import, BeginTick, Snapshot, ListRunning, ScanJob, ScanTorn, ScanForeign, Replay,
       MarkUnknown, MarkUnknownFenced, ListTerminal, Reconcile, ReconcileTorn, ReconcileConflict,
       MarkReconciled, ReadPause, Look, Fail, AcquireLease, storeVars, recordVars, jobVars
  <2> QED BY <2>1, ReconcileAttempts, FinishRows, MarkRow
<1>2. CASE Recover(d)
  <2>1. \/ UNCHANGED <<job, outbox, attempt>>
        \/ Block(d) /\ UNCHANGED <<job, outbox>>
        \/ UNCHANGED attempt /\ (Retry(d) \/ GiveUp(d))
    BY <1>2 DEF Recover, Page, PageDone, RecoverUnknown, RecoverFound, RecoverPaused, RecoverLater,
       RecoverBlocked, RecoverSubmit, Retry, GiveUp, GiveUpFenced, Block, BlockRefused, Look, Fail,
       ReadOnly, AskSubmit, storeVars, recordVars, jobVars
  <2> QED BY <2>1, HandAttempts, FinishRows, HandRows
<1>3. CASE Submission(d)
  <2>1. \/ UNCHANGED <<job, outbox, attempt>>
        \/ Attach(d) /\ UNCHANGED <<job, outbox>>
        \/ UNCHANGED attempt /\ (Refs(d) \/ Account(d) \/ Publish(d))
    BY <1>3 DEF Submission, SubmitOpens, SubmitPaused, SubmitFenced, SubmitTask, SubmitCommits,
       SubmitAborts, Refs, RefsConflict, Account, Publish, Attach, AttachConflict, OpenSubmit,
       PausedSubmit, FencedSubmit, Submit, CommitSubmit, AbortSubmit, Fail, storeVars,
       recordVars, jobVars, dispatchVars
  <2> QED BY <2>1, HandAttempts, HandRows
<1>4. CASE Fill(d)
  <2>1. \/ UNCHANGED <<job, outbox, attempt>>
        \/ Prepare(d) /\ UNCHANGED <<job, outbox>>
        \/ UNCHANGED attempt /\ PrepareIntent(d)
    BY <1>4 DEF Fill, PoolIdle, KeepFenced, Prepare, PoolPick, PrepareIntent, IntentConflict,
       AuthorizeBlocked, AuthorizeLater, AuthorizeSubmit, Release, ReleaseLease, AskSubmit, Fail,
       ReadOnly, storeVars, recordVars, jobVars
  <2> QED BY <2>1, HandAttempts, HandRows
<1>5. CASE StepFails(d) \/ Crash(d)
  BY <1>5 DEF StepFails, Crash, Kill, Fail, storeVars, recordVars, jobVars
<1> QED BY <1>1, <1>2, <1>3, <1>4, <1>5 DEF DaemonStep

\* A worker finishes a job that has a task.
LEMMA WorkerMove ==
  ASSUME DispatchInv, NEW d \in Clients, NEW t \in Tasks, WorkerStep(t) \/ KillWorker(t) \/ Clean(t)
  PROVE  RowsMove(d) /\ AttemptsMove(d)
<1>1. UNCHANGED attempt
  BY DEF WorkerStep, StartTask, CheckMarker, ReplayMarker, Refuse, Invoke, CreateMarker,
     WriteMarker, CheckPlace, PlaceMarker, FinishTask, KillWorker, Clean
<1>2. t \in DOMAIN accepted
  BY WorkerStages
<1> PICK k \in Jobs : k = accepted[t]
  BY <1>2, TasksAccepted
<1>3. UNCHANGED <<job, outbox>> \/ (FinishJob(k, 1, result[t]) /\ task[t] \in {"found", "marked"})
  BY DEF WorkerStep, StartTask, CheckMarker, ReplayMarker, Refuse, Invoke, CreateMarker,
     WriteMarker, CheckPlace, PlaceMarker, FinishTask, KillWorker, Clean, Worker, storeVars, jobVars
<1>4. CASE FinishJob(k, 1, result[t]) /\ task[t] \in {"found", "marked"}
  <2>1. result[t] # "unknown" /\ ~Untasked(k)
    BY <1>2, <1>4, TasksTyped DEF Outcome, Untasked
  <2> QED BY <1>1, <1>4, <2>1, FinishRow, AttemptsStill
<1> QED BY <1>1, <1>3, <1>4, RowsStill, AttemptsStill

-----------------------------------------------------------------------------
(* Which steps a daemon takes from where it is.                            *)

LEMMA ImportFrom ==
  ASSUME NEW d \in Clients, Import(d)
  PROVE  /\ tick[d].pc \in {"idle", "snapshot"} \cup ScanPc
         /\ tick[d].pc = "idle" => BeginTick(d)
         /\ tick[d].pc = "list" => ListRunning(d)
         /\ tick[d].pc = "scan" => \/ ScanTorn(d) \/ ScanForeign(d) \/ ListTerminal(d)
                                   \/ \E j \in Jobs : ScanJob(d, j)
         /\ tick[d].pc = "replay" => Replay(d)
         /\ tick[d].pc = "lost" => MarkUnknown(d) \/ MarkUnknownFenced(d)
         /\ tick[d].pc = "reconcile" => Reconcile(d) \/ ReconcileTorn(d) \/ ReconcileConflict(d)
  BY DEF Import, BeginTick, Snapshot, ListRunning, ScanJob, ScanTorn, ScanForeign, Replay,
     MarkUnknown, MarkUnknownFenced, ListTerminal, Reconcile, ReconcileTorn, ReconcileConflict,
     MarkReconciled, ReadPause, At, ScanPc

LEMMA RecoverFrom ==
  ASSUME NEW d \in Clients, Recover(d)
  PROVE  /\ tick[d].pc \in {"page", "recover", "retry", "giveup", "block"}
         /\ tick[d].pc = "giveup" => GiveUp(d) \/ GiveUpFenced(d)
         /\ tick[d].pc = "block" => Block(d) \/ BlockRefused(d)
         /\ tick[d].pc = "recover" =>
              \/ PageDone(d)
              \/ \E j \in Jobs : \/ RecoverUnknown(d, j) \/ RecoverFound(d, j)
                                 \/ RecoverPaused(d, j) \/ RecoverLater(d, j)
                                 \/ RecoverBlocked(d, j) \/ RecoverSubmit(d, j)
  BY DEF Recover, Page, PageDone, RecoverUnknown, RecoverFound, RecoverPaused, RecoverLater,
     RecoverBlocked, RecoverSubmit, Retry, GiveUp, GiveUpFenced, Block, BlockRefused, Missing,
     Taking, At

LEMMA SubmissionFrom ==
  ASSUME NEW d \in Clients, Submission(d)
  PROVE  tick[d].pc \in {"submit", "refs", "account", "publish", "attach"}
  BY DEF Submission, SubmitOpens, SubmitPaused, SubmitFenced, SubmitTask, SubmitCommits,
     SubmitAborts, Refs, RefsConflict, Account, Publish, Attach, AttachConflict, At

LEMMA FillFrom ==
  ASSUME NEW d \in Clients, Fill(d)
  PROVE  /\ tick[d].pc \in {"pool", "prepare", "intent", "authorize", "release"}
         /\ tick[d].pc = "prepare" => Prepare(d)
         /\ tick[d].pc = "intent" => PrepareIntent(d) \/ IntentConflict(d)
  BY DEF Fill, PoolIdle, KeepFenced, Prepare, PoolPick, PrepareIntent, IntentConflict,
     AuthorizeBlocked, AuthorizeLater, AuthorizeSubmit, Release, At

\* The daemon leads during its tick.
LEMMA HeldStep ==
  ASSUME Base, [Next]_vars, NEW d \in Clients, Clients = {d}, tick[d].pc # "idle" => Leads(d),
         tick'[d].pc # "idle"
  PROVE  Leads(d)'
<1> USE DEF Base
<1>1. CASE UNCHANGED <<held, leader>> /\ tick[d].pc # "idle"
  BY <1>1 DEF Leads
<1>2. CASE BeginTick(d)
  <2>1. lease # None => lease.token \in 1 .. MaxToken
    BY DEF DispatchInv, StoreInv, TypeOK, Lease
  <2>2. held \in [Clients -> 0 .. MaxToken]
    BY DEF DispatchInv, StoreInv, TypeOK
  <2> DEFINE token == IF lease = None THEN 1 ELSE lease.token + 1
  <2>3. token # 0
    BY <2>1
  <2>4. leader' = d /\ held' = [held EXCEPT ![d] = token]
    BY <1>2 DEF BeginTick, AcquireLease
  <2> HIDE DEF token
  <2> QED BY <2>2, <2>3, <2>4 DEF Leads
<1>3. CASE Release(d) \/ Crash(d)
  <2>1. tick' = [tick EXCEPT ![d] = NoTick] /\ NoTick.pc = "idle"
    BY <1>3 DEF Release, Crash, NoTick
  <2> QED BY <2>1, TickIs
<1>4. CASE DaemonStep(d) /\ ~BeginTick(d) /\ ~Release(d)
  <2>1. UNCHANGED <<held, leader>>
    BY <1>4, ImportEffects, RecoverEffects, SubmissionEffects, FillEffects DEF DaemonStep
  <2>2. tick[d].pc # "idle"
    BY <1>4, ImportFrom, RecoverFrom, SubmissionFrom, FillFrom DEF DaemonStep
  <2> QED BY <1>1, <2>1, <2>2
<1>5. CASE KeepLease(d) \/ StepFails(d)
  <2>1. UNCHANGED <<held, leader>>
    BY <1>5, OtherEffects
  <2>2. tick[d].pc # "idle"
    BY <1>5 DEF KeepLease, StepFails, At
  <2> QED BY <1>1, <2>1, <2>2
<1>6. ASSUME NEW t \in Tasks, WorkerStep(t) \/ KillWorker(t) \/ Clean(t) PROVE Leads(d)'
  BY <1>1, <1>6, WorkerEffects
<1>7. CASE Clock \/ Switch \/ (\E j \in Jobs : LateTask(j)) \/ UNCHANGED vars
  <2>1. UNCHANGED <<held, leader, tick>>
    BY <1>7 DEF Clock, Switch, LateTask, LateSubmit, ExpireLease, RetryTime, SetPaused,
       leaseVars, dispatchVars, storeVars, vars
  <2> QED BY <1>1, <2>1
<1> QED BY <1>2, <1>3, <1>4, <1>5, <1>6, <1>7 DEF Next

-----------------------------------------------------------------------------
(* What the tasks of the scheduler do meanwhile.                           *)

TasksKept(d) ==
    /\ \A t \in DOMAIN accepted : t \in DOMAIN accepted' /\ accepted'[t] = accepted[t]
    /\ \A t \in Tasks : task[t] \in Outcome => task'[t] \in Outcome
    /\ \A t \in Tasks : t \notin DOMAIN accepted' => task'[t] = "none"
    /\ \/ accepted' = accepted
       \/ /\ job' = job /\ tick[d].job \in Jobs /\ job[tick[d].job].state = "running"
          /\ \A t \in DOMAIN accepted' : t \in DOMAIN accepted \/ accepted'[t] = tick[d].job

LEMMA TasksMove ==
  ASSUME Base, Calm, SubInv, SoloInv, [Next]_vars, NEW d \in Clients, Clients = {d}
  PROVE  TasksKept(d)
<1> USE DEF Base
<1>0. \A t \in Tasks : t \notin DOMAIN accepted => task[t] = "none"
  BY DEF SoloInv
<1>1. CASE UNCHANGED <<accepted, task>>
  BY <1>0, <1>1 DEF TasksKept
<1>2. CASE SubmitTask(d)
  <2>1. /\ call[d].stage = "open" /\ tick[d].job \in Jobs /\ job' = job
        /\ accepted' = Append(accepted, tick[d].job)
        /\ task' = [task EXCEPT ![Len(accepted) + 1] = "queued"]
    BY <1>2, Submitter
  <2> PICK k \in Jobs : k = tick[d].job
    BY <2>1
  <2>2. /\ DOMAIN accepted' = DOMAIN accepted \cup {Len(accepted) + 1}
        /\ Len(accepted) + 1 \notin DOMAIN accepted
        /\ \A t \in DOMAIN accepted : accepted'[t] = accepted[t]
        /\ accepted'[Len(accepted) + 1] = k
    BY <2>1, Appended
  <2>3. \A t \in Tasks : task'[t] = IF t = Len(accepted) + 1 THEN "queued" ELSE task[t]
    BY <2>1, TasksTyped
  <2>4. job[k].state = "running"
    BY <2>1 DEF SoloInv, Solo, Choice
  <2>5. \A t \in Tasks : task[t] \in Outcome => t # Len(accepted) + 1
    BY <1>0, <2>2 DEF Outcome
  <2> QED BY <1>0, <2>1, <2>2, <2>3, <2>4, <2>5 DEF TasksKept
<1>3. ASSUME NEW t \in Tasks, WorkerStep(t) \/ KillWorker(t) \/ Clean(t)
      PROVE  TasksKept(d)
  <2>1. PICK s \in Stage : /\ task' = [task EXCEPT ![t] = s] /\ s # "gone"
                           /\ task[t] \in {"queued"} \cup Working
                           /\ t \in DOMAIN accepted
    BY <1>3, WorkerStages DEF Calm
  <2>2. accepted' = accepted
    BY <1>3, WorkerEffects
  <2>3. \A u \in Tasks : task'[u] = IF u = t THEN s ELSE task[u]
    BY <2>1, TasksTyped
  <2>4. task[t] \notin Outcome
    BY <2>1 DEF Working, Outcome
  <2> QED BY <1>0, <2>1, <2>2, <2>3, <2>4 DEF TasksKept
<1>4. CASE Clock \/ Switch \/ UNCHANGED vars
  <2>1. UNCHANGED <<accepted, task>>
    BY <1>4 DEF Clock, Switch, ExpireLease, RetryTime, SetPaused, taskVars, dispatchVars,
       storeVars, vars
  <2> QED BY <1>1, <2>1
<1>5. ~\E j \in Jobs : LateTask(j)
  BY DEF LateTask, LateSubmit, SubInv
<1>6. CASE DaemonStep(d) \/ KeepLease(d) \/ StepFails(d) \/ Crash(d)
  BY <1>1, <1>2, <1>6, DaemonAccepts, OtherEffects
<1> QED BY <1>3, <1>4, <1>5, <1>6 DEF Next

LEMMA UntaskedStays ==
  ASSUME NEW d, TasksKept(d), NEW j \in Jobs, Untasked(j), job'[j].state = "unknown"
  PROVE  Untasked(j)'
  BY DEF TasksKept, Untasked

LEMMA NamedStays ==
  ASSUME NEW d, TasksKept(d), NEW t, NEW j, Named(t, j)
  PROVE  Named(t, j)'
  BY DEF TasksKept, Named

\* A task of a job that is now lost.
LEMMA LostNow ==
  ASSUME Base, SubInv, SoloInv, NEW d \in Clients, Clients = {d}, RowsMove(d), TasksKept(d),
         NEW t \in DOMAIN accepted', job'[accepted'[t]].state = "unknown"
  PROVE  /\ t \in DOMAIN accepted /\ accepted'[t] = accepted[t] /\ t \in Tasks
         /\ accepted[t] \in Jobs
         /\ \/ job[accepted[t]].state = "unknown"
            \/ tick[d].pc = "lost" /\ tick[d].snap[t] \in Outcome
<1> USE DEF Base
<1>1. t \in DOMAIN accepted /\ accepted'[t] = accepted[t]
  BY DEF TasksKept
<1> PICK j \in Jobs : j = accepted[t]
  BY <1>1, TasksAccepted
<1>2. CASE job[j].state # "unknown"
  <2>1. j = tick[d].job /\ tick[d].pc \in {"lost", "giveup"}
    BY <1>1, <1>2 DEF RowsMove, RowsOf
  <2>2. tick[d].pc # "giveup"
    <3>1. ASSUME tick[d].pc = "giveup" PROVE Untasked(j)
      BY <2>1, <3>1 DEF SoloInv, Solo, SubInv, Clear, Chosen
    <3> QED BY <1>1, <3>1 DEF Untasked
  <2>3. EndedTask(d, j)
    BY <2>1, <2>2 DEF SoloInv, Solo, Losing
  <2>4. job[j].task \in DOMAIN accepted /\ accepted[job[j].task] = j
    BY <2>3 DEF SoloInv, RefsTrue, Named, EndedTask
  <2>5. job[j].task = t
    BY <1>1, <2>4 DEF SubInv, OneTask
  <2> QED BY <1>1, <2>1, <2>2, <2>3, <2>5, TasksAccepted DEF EndedTask
<1> QED BY <1>1, <1>2, TasksAccepted

LEMMA RefsStep ==
  ASSUME SoloInv, NEW d \in Clients, RowsMove(d), AttemptsMove(d), TasksKept(d)
  PROVE  RefsTrue'
<1> DEFINE Names(t, j) == t \in DOMAIN accepted' /\ accepted'[t] = j
<1> SUFFICES ASSUME NEW j \in Jobs
             PROVE  /\ job'[j].task # 0 => Names(job'[j].task, j)
                    /\ attempt'[j].ref # 0 => Names(attempt'[j].ref, j)
                    /\ outbox'[j].state # "absent" => attempt'[j].state # "none"
  BY DEF RefsTrue, Named
<1>1. /\ RowsOf(d, j) /\ AttemptOf(d, j) /\ TaskOf(d) /\ Choice(d)
      /\ job[j].task # 0 => Named(job[j].task, j)
      /\ attempt[j].ref # 0 => Named(attempt[j].ref, j)
      /\ outbox[j].state # "absent" => attempt[j].state # "none"
  BY DEF RowsMove, AttemptsMove, SoloInv, Solo, RefsTrue
<1>2. ASSUME job'[j].task # 0 PROVE Names(job'[j].task, j)
  <2>1. Named(job'[j].task, j)
    BY <1>1, <1>2 DEF RowsOf, TaskOf, KeepsTask
  <2> QED BY <2>1 DEF TasksKept, Named
<1>3. ASSUME attempt'[j].ref # 0 PROVE Names(attempt'[j].ref, j)
  <2>1. Named(attempt'[j].ref, j)
    BY <1>1, <1>3 DEF AttemptOf
  <2> QED BY <2>1 DEF TasksKept, Named
<1>4. outbox'[j].state # "absent" => attempt'[j].state # "none"
  BY <1>1 DEF RowsOf, AttemptOf, Choice
<1> QED BY <1>2, <1>3, <1>4

LEMMA RowsTrueStep ==
  ASSUME Base, SubInv, SoloInv, [Next]_vars, NEW d \in Clients, Clients = {d},
         RowsMove(d), AttemptsMove(d), TasksKept(d)
  PROVE  RowsTrue'
<1> USE DEF Base
<1>0. RowsKept
  BY DispatchStep, StoreKeepsRows
<1>1. ASSUME NEW t \in DOMAIN accepted', job'[accepted'[t]].state = "unknown"
      PROVE  task'[t] \in Outcome
  <2>1. /\ t \in Tasks /\ t \in DOMAIN accepted /\ accepted[t] \in Jobs
        /\ \/ job[accepted[t]].state = "unknown"
           \/ tick[d].pc = "lost" /\ tick[d].snap[t] \in Outcome
    BY <1>1, LostNow
  <2>2. task[t] \in Outcome
    BY <2>1 DEF SoloInv, RowsTrue, Solo, Sight, After, ScanPc
  <2> QED BY <2>1, <2>2 DEF TasksKept
<1>2. ASSUME NEW j \in Jobs, attempt'[j].state = "blocked"
      PROVE  Untasked(j)' /\ job'[j].state = "unknown"
  <2>1. Untasked(j) /\ job[j].state = "unknown"
    <3>1. CASE attempt[j].state = "blocked"
      BY <3>1 DEF SoloInv, RowsTrue
    <3>2. CASE attempt[j].state # "blocked"
      <4>1. j = tick[d].job /\ tick[d].pc = "block" /\ attempt[j].state \notin Outcome
        BY <1>2, <3>2 DEF AttemptsMove, AttemptOf
      <4>2. j \in Own(d)
        BY <4>1, AtHand DEF AfterPage, Scheduling
      <4> QED BY <4>1, <4>2 DEF SoloInv, Solo, Judged, Choice, Past, AfterPage, Scheduling
    <3> QED BY <3>1, <3>2
  <2>2. job'[j].state = "unknown"
    BY <1>0, <2>1 DEF RowsKept, RowKept, JobFinished
  <2> QED BY <2>1, <2>2, UntaskedStays
<1> QED BY <1>1, <1>2 DEF RowsTrue

-----------------------------------------------------------------------------
(* The daemon's own knowledge, step by step.                               *)

\* What is left of the ended jobs it has listed.
EndedKept(d) ==
    /\ Moves(d, {"scan", "replay", "lost"}, {"scan", "replay", "lost"})
    /\ tick'[d].snap = tick[d].snap /\ tick'[d].ended \subseteq tick[d].ended
    /\ tick'[d].pc = "lost" => tick'[d].job \in tick[d].ended

LEMMA ScanJobTo ==
  ASSUME DispatchInv, NEW d \in Clients, NEW j \in Jobs, ScanJob(d, j)
  PROVE  EndedKept(d)
<1>0. PICK x \in Tick : x = tick[d]
  BY TicksTyped
<1> DEFINE left == x.todo \ {j}
           ended == x.ended \ {j}
           k == IF Found(j) \/ j \in x.ended THEN j ELSE None
           pc == IF Found(j) THEN "replay" ELSE IF j \in x.ended THEN "lost" ELSE "scan"
           r == [x EXCEPT !.todo = left, !.ended = ended, !.job = k, !.pc = pc]
<1>1. tick' = [tick EXCEPT ![d] = r] /\ x.pc = "scan"
  BY <1>0 DEF ScanJob, At
<1>2. /\ pc \in {"scan", "replay", "lost"} /\ ended \subseteq x.ended
      /\ pc = "lost" => k \in x.ended
  OBVIOUS
<1> HIDE DEF left, ended, k, pc
<1>3. r.pc = pc /\ r.snap = x.snap /\ r.ended = ended /\ r.job = k
  BY DEF Tick
<1> HIDE DEF r
<1> QED BY <1>0, <1>1, <1>2, <1>3, TickIs DEF EndedKept, Moves

LEMMA ResumeTo ==
  ASSUME DispatchInv, NEW d \in Clients, Resume(d, "scan"), tick[d].pc \in {"replay", "lost"}
  PROVE  EndedKept(d)
<1>0. PICK x \in Tick : x = tick[d]
  BY TicksTyped
<1> DEFINE r == [x EXCEPT !.pc = "scan", !.job = None, !.task = 0, !.mode = "found"]
<1>1. tick' = [tick EXCEPT ![d] = r]
  BY <1>0 DEF Resume
<1>2. r.pc = "scan" /\ r.snap = x.snap /\ r.ended = x.ended
  BY DEF Tick
<1> HIDE DEF r
<1> QED BY <1>0, <1>1, <1>2, TickIs DEF EndedKept, Moves

\* Lists(d): it lists the running jobs, and which of them have ended.
Lists(d) ==
    /\ Moves(d, {"list"}, {"scan"}) /\ tick'[d].snap = tick[d].snap
    /\ \A j \in tick'[d].ended : j \in Jobs /\ EndedTask(d, j)

LEMMA ListTo ==
  ASSUME DispatchInv, NEW d \in Clients, ListRunning(d)
  PROVE  Lists(d)
<1>0. PICK x \in Tick : x = tick[d]
  BY TicksTyped
<1> DEFINE list == {j \in Jobs : job[j].state = "running"}
           over == {j \in Jobs : /\ job[j].state = "running"
                                 /\ job[j].task # 0
                                 /\ tick[d].snap[job[j].task] \in Outcome}
           r == [x EXCEPT !.pc = "scan", !.todo = list, !.ended = over]
<1>1. tick' = [tick EXCEPT ![d] = r] /\ x.pc = "list"
  BY <1>0 DEF ListRunning, Look, At
<1>2. \A j \in over : j \in Jobs /\ EndedTask(d, j)
  BY DEF EndedTask
<1> HIDE DEF list, over
<1>3. r.pc = "scan" /\ r.snap = x.snap /\ r.ended = over
  BY DEF Tick
<1> HIDE DEF r
<1> QED BY <1>0, <1>1, <1>2, <1>3, TickIs DEF Lists, Moves

\* The ways of a daemon through its scan, if it does not give up its tick.
LEMMA ScanWays ==
  ASSUME DispatchInv, NEW d \in Clients, Modes(d), DaemonStep(d) \/ StepFails(d) \/ Crash(d),
         tick[d].pc \in ScanPc
  PROVE  \/ Outs(d) \/ Lists(d) \/ EndedKept(d) \/ Reconcile(d)
         \/ tick[d].pc = "scan" /\ tick'[d].pc = "reconcile"
         \/ tick[d].pc = "mark" /\ tick'[d].pc \in {"mark", "page"}
<1>1. CASE StepFails(d) \/ Crash(d)
  BY <1>1, FailMoves, LeaseMoves
<1>2. CASE DaemonStep(d)
  <2>1. Import(d)
    BY <1>2, RecoverFrom, SubmissionFrom, FillFrom DEF DaemonStep, ScanPc
  <2>2. CASE tick[d].pc = "list"
    BY <2>1, <2>2, ImportFrom, ListTo
  <2>3. CASE tick[d].pc = "scan"
    <3>1. ListTerminal(d) => tick'[d].pc = "reconcile"
      <4> PICK x \in Tick : x = tick[d]
        BY TicksTyped
      <4> DEFINE list == {j \in Own(d) : job[j].state \in JobTerminal /\ ~job[j].reconciled}
                 r == [x EXCEPT !.pc = "reconcile", !.todo = list]
      <4>1. ListTerminal(d) => tick' = [tick EXCEPT ![d] = r]
        BY DEF ListTerminal, Look
      <4> HIDE DEF list
      <4>2. r.pc = "reconcile"
        BY DEF Tick
      <4> HIDE DEF r
      <4> QED BY <4>1, <4>2, TickIs
    <3> QED BY <2>1, <2>3, <3>1, ImportFrom, ScanJobTo, FailMoves
  <2>4. CASE tick[d].pc = "replay"
    <3>1. Replay(d)
      BY <2>1, <2>4, ImportFrom
    <3>2. Fail(d, "torn") \/ Resume(d, "scan")
      BY <3>1 DEF Replay
    <3> QED BY <2>4, <3>2, FailOuts, ResumeTo
  <2>5. CASE tick[d].pc = "lost"
    <3>1. MarkUnknownFenced(d) \/ Resume(d, "scan")
      BY <2>1, <2>5, ImportFrom DEF MarkUnknown
    <3> QED BY <2>5, <3>1, FailMoves, ResumeTo
  <2>6. CASE tick[d].pc = "reconcile"
    BY <2>1, <2>6, ImportFrom, FailMoves
  <2>7. CASE tick[d].pc = "mark"
    <3>1. PICK x \in Tick : x = tick[d]
      BY TicksTyped
    <3>2. (\E j \in Jobs : MarkReconciled(d, j)) \/ ReadPause(d)
      BY <2>1, <2>7 DEF Import, BeginTick, Snapshot, ListRunning, ScanJob, ScanTorn, ScanForeign,
         Replay, MarkUnknown, MarkUnknownFenced, ListTerminal, Reconcile, ReconcileTorn,
         ReconcileConflict, At
    <3>3. ASSUME NEW j \in Jobs, MarkReconciled(d, j) PROVE tick'[d].pc = "mark"
      <4> DEFINE left == x.todo \ {j}
                 r == [x EXCEPT !.todo = left]
      <4>1. tick' = [tick EXCEPT ![d] = r]
        BY <3>1, <3>3 DEF MarkReconciled
      <4> HIDE DEF left
      <4>2. r.pc = "mark"
        BY <2>7, <3>1 DEF Tick
      <4> HIDE DEF r
      <4> QED BY <4>1, <4>2, TickIs
    <3>4. CASE ReadPause(d)
      <4> DEFINE b == ~paused
                 r == [x EXCEPT !.pc = "page", !.allow = b]
      <4>1. tick' = [tick EXCEPT ![d] = r]
        BY <3>1, <3>4 DEF ReadPause, Look
      <4> HIDE DEF b
      <4>2. r.pc = "page"
        BY DEF Tick
      <4> HIDE DEF r
      <4> QED BY <2>7, <4>1, <4>2, TickIs
    <3> QED BY <2>7, <3>2, <3>3, <3>4
  <2> QED BY <2>2, <2>3, <2>4, <2>5, <2>6, <2>7 DEF ScanPc
<1> QED BY <1>1, <1>2

\* The hypotheses of a step of the one daemon, of a worker or of the clock.
OneStep(d) ==
    /\ Base /\ SubInv /\ SoloInv /\ [Next]_vars /\ Clients = {d}
    /\ RowsMove(d) /\ AttemptsMove(d) /\ TasksKept(d) /\ RowsKept

Acts(d) == DaemonStep(d) \/ StepFails(d) \/ Crash(d)

LEMMA SightKept ==
  ASSUME NEW d \in Clients, OneStep(d), tick[d].pc \in After, tick'[d].snap = tick[d].snap
  PROVE  Sight(d)'
<1>1. Sight(d)
  BY DEF OneStep, SoloInv, Solo
<1>2. \A t \in Tasks : tick'[d].snap[t] \in Outcome => task'[t] \in Outcome
  BY <1>1 DEF OneStep, TasksKept, Sight
<1>3. ASSUME NEW t \in DOMAIN accepted', job'[accepted'[t]].state = "unknown"
      PROVE  tick'[d].snap[t] \in Outcome
  <2>1. /\ t \in DOMAIN accepted
        /\ \/ job[accepted[t]].state = "unknown"
           \/ tick[d].pc = "lost" /\ tick[d].snap[t] \in Outcome
    BY <1>3, LostNow DEF OneStep
  <2> QED BY <1>1, <2>1 DEF Sight
<1> QED BY <1>2, <1>3 DEF Sight

LEMMA SightStep ==
  ASSUME NEW d \in Clients, OneStep(d), UNCHANGED tick \/ Route(d)
  PROVE  Sight(d)'
<1> SUFFICES ASSUME tick'[d].pc \in After
             PROVE  Sight(d)'
  BY DEF Sight
<1>0. DispatchInv
  BY DEF OneStep, Base
<1>1. CASE \/ UNCHANGED tick \/ Scans(d) \/ Pages(d) \/ Returns(d) \/ Takes(d) \/ Skips(d)
           \/ Goes(d) \/ Resumes(d) \/ Sends(d) \/ Picks(d)
  <2>1. tick'[d].snap = tick[d].snap
    BY <1>1 DEF Scans, Pages, Returns, Takes, Skips, Goes, Resumes, Sends, Picks, SameWork
  <2>2. tick[d].pc \in After
    BY <1>1 DEF Scans, Pages, Returns, Takes, Skips, Goes, Resumes, Sends, Picks, Moves, After,
       AfterPage, Scheduling
  <2> QED BY <2>1, <2>2, SightKept
<1>2. CASE Sees(d)
  <2>1. /\ tick[d].pc = "snapshot" /\ UNCHANGED <<task, accepted>>
        /\ \A t \in Tasks : tick'[d].snap[t] = Observed(task[t]) /\ task[t] \in Stage
    BY <1>0, <1>2, TasksTyped DEF Sees, Moves
  <2>2. \A s \in Stage : Observed(s) \in Outcome <=> s \in Outcome
    BY DEF Observed, Stage, Working, Outcome
  <2>3. ASSUME NEW t \in DOMAIN accepted', job'[accepted'[t]].state = "unknown"
        PROVE  tick'[d].snap[t] \in Outcome
    <3>1. /\ t \in DOMAIN accepted /\ t \in Tasks /\ accepted[t] \in Jobs
          /\ job[accepted[t]].state = "unknown"
      BY <2>1, <2>3, LostNow DEF OneStep
    <3>2. task[t] \in Outcome
      BY <3>1 DEF OneStep, SoloInv, RowsTrue
    <3> QED BY <2>1, <2>2, <3>1, <3>2
  <2> QED BY <2>1, <2>2, <2>3 DEF Sight
<1>3. CASE Attaches(d)
  <2>1. /\ tick[d].pc = "attach"
        /\ tick'[d].snap = [tick[d].snap EXCEPT ![tick[d].task] = "queued"]
    BY <1>3 DEF Attaches, Moves
  <2>2. Sight(d) /\ TaskOf(d)
    BY DEF OneStep, SoloInv, Solo
  <2>3. tick[d].snap \in [Tasks -> Seen]
    BY <1>0, TicksTyped, TickFields
  <2>4. \A t \in Tasks : tick'[d].snap[t] = IF t = tick[d].task THEN "queued" ELSE tick[d].snap[t]
    BY <2>1, <2>3
  <2>5. tick[d].pc \in After
    BY <2>1 DEF After, AfterPage, Scheduling
  <2>6. \A t \in Tasks : tick'[d].snap[t] \in Outcome => task'[t] \in Outcome
    BY <2>2, <2>4, <2>5 DEF Sight, OneStep, TasksKept, Outcome
  <2>7. ASSUME NEW t \in DOMAIN accepted', job'[accepted'[t]].state = "unknown"
        PROVE  tick'[d].snap[t] \in Outcome
    <3>1. t \in DOMAIN accepted /\ t \in Tasks /\ job[accepted[t]].state = "unknown"
      BY <2>1, <2>7, LostNow DEF OneStep
    <3>2. t # tick[d].task
      BY <2>1, <2>2, <3>1 DEF TaskOf, KeepsTask, Named
    <3> QED BY <2>2, <2>4, <2>5, <3>1, <3>2 DEF Sight
  <2> QED BY <2>6, <2>7 DEF Sight
<1>4. ~Outs(d)
  BY DEF Outs, After, ScanPc, AfterPage, Scheduling
<1> QED BY <1>1, <1>2, <1>3, <1>4 DEF Route

LEMMA LosingStep ==
  ASSUME NEW d \in Clients, OneStep(d), UNCHANGED tick \/ (Acts(d) /\ Route(d))
  PROVE  Losing(d)'
<1>0. DispatchInv /\ Modes(d) /\ Losing(d) /\ tick[d] \in Tick /\ Local(d)
  BY TicksTyped DEF OneStep, Base, SubInv, SoloInv, Solo
<1>1. ASSUME NEW j \in Jobs, EndedTask(d, j), tick'[d].snap = tick[d].snap
      PROVE  EndedTask(d, j)'
  BY <1>1 DEF EndedTask, OneStep, RowsKept, RowKept
<1>2. tick[d].ended \subseteq Jobs /\ (tick[d].pc = "lost" => tick[d].job \in Jobs)
  BY <1>0, TickFields DEF Local, HasJob, Acting
<1>3. CASE UNCHANGED tick
  BY <1>0, <1>1, <1>2, <1>3 DEF Losing
<1>4. CASE Acts(d) /\ Route(d) /\ tick'[d].pc \in {"scan", "replay", "lost"}
  <2>1. tick[d].pc \in ScanPc
    BY <1>4 DEF Route, Outs, Sees, Scans, Pages, Returns, Takes, Skips, Goes, Resumes, Attaches,
       Sends, Picks, Moves
  <2>2. Lists(d) \/ EndedKept(d)
    <3>1. ~Outs(d)
      BY <1>4 DEF Outs
    <3>2. ~Reconcile(d)
      <4>1. ASSUME Reconcile(d) PROVE FALSE
        <5>1. Goto(d, "mark") /\ "mark" \in TickPc
          BY <4>1 DEF Reconcile, TickPc
        <5> QED BY <1>0, <1>4, <5>1, GotoMoves DEF Moves
      <4> QED BY <4>1
    <3> QED BY <1>0, <1>4, <2>1, <3>1, <3>2, ScanWays DEF Acts
  <2>3. \A j \in tick'[d].ended : j \in Jobs /\ EndedTask(d, j)
    BY <1>0, <1>2, <2>2 DEF Lists, EndedKept, Moves, Losing
  <2>4. tick'[d].snap = tick[d].snap
    BY <2>2 DEF Lists, EndedKept
  <2>5. tick'[d].pc = "lost" => tick'[d].job \in Jobs /\ EndedTask(d, tick'[d].job)
    BY <1>0, <1>2, <2>2 DEF Lists, EndedKept, Moves, Losing
  <2> QED BY <1>1, <2>3, <2>4, <2>5 DEF Losing
<1> QED BY <1>3, <1>4 DEF Losing

\* A lost job is settled when results are imported: its task, which has ended,
\* answers for it.
LEMMA JudgedNow ==
  ASSUME NEW d \in Clients, OneStep(d), Reconcile(d), NEW j \in Own(d), job[j].state = "unknown"
  PROVE  Untasked(j) \/ attempt'[j].state \in Outcome
<1> SUFFICES ASSUME NEW t \in DOMAIN accepted, accepted[t] = j
             PROVE  attempt'[j].state \in Outcome
  BY DEF Untasked
<1>0. DispatchInv /\ SubInv /\ RefsTrue /\ Sight(d) /\ j \in Jobs
  BY DEF OneStep, Base, SoloInv, Solo, Own
<1>1. tick[d].pc = "reconcile" /\ ~Conflict(d) /\ attempt'[j] = Reconciled(d, j)
  BY <1>0 DEF Reconcile, At
<1>2. tick[d].snap[t] \in Outcome
  BY <1>0, <1>1 DEF Sight, After, ScanPc
<1>3. CASE Imports(d, j)
  <2>1. Reconciled(d, j).source = "direct"
    BY <1>3 DEF Reconciled, Imported
  <2> QED BY <1>0, <1>1, <2>1, ReconciledFacts
<1>4. CASE ~Imports(d, j) /\ attempt[j].state \in Outcome
  <2>1. Reconciled(d, j) = attempt[j]
    BY <1>4 DEF Reconciled
  <2> QED BY <1>1, <1>4, <2>1
<1>5. CASE ~Imports(d, j) /\ attempt[j].state \notin Outcome
  <2>1. attempt[j].state # "none"
    BY <1>0 DEF SubInv, TaskRows, Claimed, RefsTrue
  <2>2. t \in Routes(d, j) /\ \A u \in Routes(d, j) : u = t
    <3>1. t \in Routes(d, j)
      BY <1>2 DEF Routes, Outcome
    <3> QED BY <1>0, <3>1 DEF Routes, SubInv, OneTask
  <2>3. attempt[j].ref = 0 \/ attempt[j].ref = t
    BY <1>0 DEF RefsTrue, Named, SubInv, OneTask
  <2>4. Sighted(d, j) = {t}
    BY <2>2, <2>3 DEF Sighted
  <2>5. (CHOOSE u \in {t} : TRUE) = t
    OBVIOUS
  <2>6. Reconciled(d, j).state = tick[d].snap[t]
    BY <1>5, <2>1, <2>4, <2>5 DEF Reconciled
  <2> QED BY <1>1, <1>2, <2>6
<1> QED BY <1>3, <1>4, <1>5

LEMMA JudgedStep ==
  ASSUME NEW d \in Clients, OneStep(d), UNCHANGED tick \/ (Acts(d) /\ Route(d))
  PROVE  Judged(d)'
<1> SUFFICES ASSUME tick'[d].pc \in Past, NEW j \in Own(d), job'[j].state = "unknown"
             PROVE  Untasked(j)' \/ attempt'[j].state \in Outcome
  BY DEF Judged, Own
<1>0. /\ DispatchInv /\ SubInv /\ Solo(d) /\ RowsOf(d, j) /\ AttemptOf(d, j) /\ TasksKept(d)
      /\ j \in Jobs
  BY DEF OneStep, Base, SoloInv, RowsMove, AttemptsMove, Own
<1>1. CASE tick[d].pc \in Past
  <2>1. CASE job[j].state = "unknown"
    <3>1. Untasked(j) \/ attempt[j].state \in Outcome
      BY <1>0, <1>1, <2>1 DEF Solo, Judged
    <3> QED BY <1>0, <3>1, UntaskedStays DEF AttemptOf
  <2>2. CASE job[j].state # "unknown"
    <3>1. tick[d].pc = "giveup" /\ j = tick[d].job
      BY <1>0, <1>1, <2>2 DEF RowsOf, Past, AfterPage, Scheduling
    <3>2. Untasked(j)
      BY <1>0, <3>1 DEF Solo, SubInv, Clear, Chosen
    <3> QED BY <1>0, <3>2, UntaskedStays
  <2> QED BY <2>1, <2>2
<1>2. CASE Reconcile(d)
  <2>1. job' = job
    BY <1>2 DEF Reconcile, storeVars, jobVars
  <2> QED BY <1>0, <1>2, <2>1, JudgedNow, UntaskedStays
<1>3. tick[d].pc \in Past \/ Reconcile(d)
  <2>1. CASE UNCHANGED tick
    BY <2>1
  <2>2. CASE Acts(d) /\ Route(d) /\ tick[d].pc \notin Past
    <3>1. tick[d].pc \in ScanPc
      BY <2>2 DEF Route, Outs, Sees, Scans, Pages, Returns, Takes, Skips, Goes, Resumes, Attaches,
         Sends, Picks, Moves, Past, ScanPc, AfterPage, Scheduling
    <3>2. \/ Outs(d) \/ Lists(d) \/ EndedKept(d) \/ Reconcile(d)
          \/ tick[d].pc = "scan" /\ tick'[d].pc = "reconcile"
          \/ tick[d].pc = "mark" /\ tick'[d].pc \in {"mark", "page"}
      BY <1>0, <2>2, <3>1, ScanWays DEF Acts, SubInv
    <3> QED BY <2>2, <3>2 DEF Outs, Lists, EndedKept, Moves, Past, AfterPage, Scheduling
  <2> QED BY <2>1, <2>2
<1> QED BY <1>1, <1>2, <1>3

\* The jobs that recovery takes, and why.
LEMMA RecoverTo ==
  ASSUME DispatchInv, NEW d \in Clients, Modes(d), Acts(d), tick[d].pc = "recover",
         tick'[d].pc \in {"block", "refs"}
  PROVE  /\ tick'[d].pc = "block" => job[tick'[d].job].state = "unknown"
         /\ tick'[d].pc = "refs" => /\ job[tick'[d].job].state # "unknown"
                                    /\ Named(tick'[d].task, tick'[d].job)
<1>0. PICK x \in Tick : x = tick[d]
  BY TicksTyped
<1>1. ~Outs(d) /\ ~Pages(d) /\ ~Returns(d)
  BY DEF Outs, Pages, Returns, Moves
<1>2. Recover(d)
  BY <1>1, FailMoves, LeaseMoves, ImportFrom, SubmissionFrom, FillFrom
     DEF Acts, DaemonStep, ScanPc
<1> PICK j \in Jobs : \/ RecoverUnknown(d, j) \/ RecoverFound(d, j) \/ RecoverPaused(d, j)
                      \/ RecoverLater(d, j) \/ RecoverBlocked(d, j) \/ RecoverSubmit(d, j)
  BY <1>1, <1>2, RecoverFrom, PageMoves
<1> DEFINE left == x.todo \ {j}
<1>3. CASE RecoverFound(d, j)
  <2> PICK t \in Tasks :
        /\ Routes(d, j) = {t}
        /\ tick' = [tick EXCEPT ![d].todo = @ \ {j}, ![d].job = j, ![d].pc = "refs",
                                ![d].mode = "found", ![d].task = t]
    BY <1>3 DEF RecoverFound
  <2> DEFINE r == [x EXCEPT !.todo = left, !.job = j, !.pc = "refs", !.mode = "found",
                            !.task = t]
  <2>1. tick' = [tick EXCEPT ![d] = r]
    BY <1>0
  <2> HIDE DEF left
  <2>2. r.pc = "refs" /\ r.job = j /\ r.task = t
    BY DEF Tick
  <2> HIDE DEF r
  <2>3. Named(t, j)
    BY DEF Routes, Named
  <2> QED BY <1>3, <2>1, <2>2, <2>3, TickIs DEF RecoverFound
<1>4. ASSUME NEW pc \in {"block", "retry", "giveup", "submit"}, NEW mode, Take(d, j, pc, mode)
      PROVE  tick'[d].pc = pc /\ tick'[d].job = j
  <2> DEFINE r == [x EXCEPT !.todo = left, !.job = j, !.pc = pc, !.mode = mode]
  <2>1. tick' = [tick EXCEPT ![d] = r]
    BY <1>0, <1>4 DEF Take
  <2> HIDE DEF left
  <2>2. r.pc = pc /\ r.job = j
    BY DEF Tick
  <2> HIDE DEF r
  <2> QED BY <2>1, <2>2, TickIs
<1>5. CASE RecoverUnknown(d, j)
  BY <1>4, <1>5 DEF RecoverUnknown
<1>6. ~(RecoverLater(d, j) \/ RecoverBlocked(d, j) \/ RecoverSubmit(d, j))
  BY <1>4 DEF RecoverLater, RecoverBlocked, RecoverSubmit
<1>7. ~RecoverPaused(d, j)
  <2> SUFFICES ASSUME RecoverPaused(d, j) PROVE FALSE
    OBVIOUS
  <2> DEFINE r == [x EXCEPT !.todo = left]
  <2>1. tick' = [tick EXCEPT ![d] = r]
    BY <1>0 DEF RecoverPaused
  <2> HIDE DEF left
  <2>2. r.pc = x.pc
    BY DEF Tick
  <2> HIDE DEF r
  <2> QED BY <1>0, <2>1, <2>2, TickIs
<1> QED BY <1>3, <1>5, <1>6, <1>7

\* A job that was submitted before is attached to its task.
LEMMA IntentTo ==
  ASSUME DispatchInv, NEW d \in Clients, Modes(d), Acts(d), tick[d].pc = "intent",
         tick'[d].pc = "attach"
  PROVE  /\ tick'[d].job = tick[d].job /\ tick'[d].task = job[tick[d].job].task
         /\ tick'[d].task # 0 /\ job[tick[d].job].state = "running"
<1>0. PICK x \in Tick : x = tick[d]
  BY TicksTyped
<1>1. ~Outs(d)
  BY DEF Outs
<1>2. PrepareIntent(d)
  BY <1>1, FailMoves, LeaseMoves, ImportFrom, RecoverFrom, SubmissionFrom, FillFrom
     DEF Acts, DaemonStep, ScanPc
<1>3. ~Leave(d)
  <2>1. call'[d].stage = "none"
    BY <1>2, NotCalling DEF PrepareIntent, PrepareSubmission, leaseVars
  <2> QED BY <1>1, <2>1, LeaveOuts DEF Silent
<1>4. ~Goto(d, "authorize")
  BY GotoMoves DEF TickPc, Moves
<1> DEFINE t == job[tick[d].job].task
           r == [x EXCEPT !.pc = "attach", !.mode = "end", !.task = t]
<1>5. tick' = [tick EXCEPT ![d] = r] /\ t # 0 /\ job[tick[d].job].state = "running"
  BY <1>0, <1>2, <1>3, <1>4 DEF PrepareIntent
<1> HIDE DEF t
<1>6. r.job = x.job /\ r.task = t
  BY DEF Tick
<1> HIDE DEF r
<1> QED BY <1>0, <1>5, <1>6, TickIs DEF t

LEMMA ChoiceStep ==
  ASSUME NEW d \in Clients, OneStep(d), UNCHANGED <<tick, call>> \/ (Acts(d) /\ Route(d))
  PROVE  Choice(d)'
<1>0. /\ DispatchInv /\ SubInv /\ Modes(d) /\ Solo(d) /\ RowsKept /\ Local(d)
      /\ RowsMove(d) /\ AttemptsMove(d)
      /\ tick[d].pc \in Scheduling => tick[d].job \in Jobs
  BY TicksTyped DEF OneStep, Base, SubInv, SoloInv, Local, HasJob, Own
<1>a. Acts(d) => Outs(d) \/ DaemonStep(d)
  BY <1>0, FailMoves, LeaseMoves DEF Acts
<1>1. ASSUME tick'[d].pc = "intent" PROVE attempt'[tick'[d].job].state # "none"
  <2>1. CASE UNCHANGED <<tick, call>>
    BY <1>0, <1>1, <2>1 DEF Solo, Choice, AttemptsMove, AttemptOf, Scheduling
  <2>2. CASE Acts(d) /\ Route(d)
    <3>1. tick[d].pc = "prepare" /\ tick'[d].job = tick[d].job
      BY <1>1, <2>2 DEF Route, Outs, Sees, Scans, Pages, Returns, Takes, Skips, Goes, Resumes,
         Attaches, Sends, Picks, Moves, ScanPc
    <3>2. Prepare(d)
      BY <1>1, <1>a, <2>2, <3>1, ImportFrom, RecoverFrom, SubmissionFrom, FillFrom
         DEF DaemonStep, Outs, ScanPc
    <3> PICK k \in Jobs : k = tick[d].job
      BY <1>0, <3>1 DEF Scheduling
    <3>3. attempt'[k].state # "none"
      BY <1>0, <3>2 DEF Prepare, DispatchInv, DispatchTypeOK, Attempt
    <3> QED BY <3>1, <3>3
  <2> QED BY <2>1, <2>2
<1>2. ASSUME tick'[d].pc = "block" PROVE job'[tick'[d].job].state = "unknown"
  <2>1. CASE UNCHANGED <<tick, call>>
    BY <1>0, <1>2, <2>1 DEF Solo, Choice, RowsKept, RowKept, Scheduling, JobFinished
  <2>2. CASE Acts(d) /\ Route(d)
    <3>1. \/ Takes(d) /\ tick[d].pc = "recover"
          \/ tick[d].pc = "giveup" /\ tick'[d].job = tick[d].job
      BY <1>2, <2>2 DEF Route, Outs, Sees, Scans, Pages, Returns, Takes, Skips, Goes, Resumes,
         Attaches, Sends, Picks, Moves, ScanPc
    <3>2. CASE Takes(d) /\ tick[d].pc = "recover"
      BY <1>0, <1>2, <2>2, <3>2, RecoverTo DEF Takes
    <3>3. CASE tick[d].pc = "giveup" /\ tick'[d].job = tick[d].job
      <4>1. GiveUp(d) \/ GiveUpFenced(d)
        BY <1>2, <1>a, <2>2, <3>3, ImportFrom, RecoverFrom, SubmissionFrom, FillFrom
           DEF DaemonStep, Outs, ScanPc
      <4>2. GiveUp(d)
        BY <1>0, <1>2, <4>1, FailMoves DEF Outs
      <4> PICK k \in Jobs : k = tick[d].job
        BY <1>0, <3>3 DEF Scheduling
      <4>3. job'[k].state = "unknown"
        BY <1>0, <4>2 DEF GiveUp, Unknown, FinishJob, storeVars, jobVars,
           DispatchInv, StoreInv, TypeOK, JobRow
      <4> QED BY <3>3, <4>3
    <3> QED BY <3>1, <3>2, <3>3
  <2> QED BY <2>1, <2>2
<1>3. ASSUME tick'[d].pc = "authorize" \/ call'[d].stage \in {"asked", "open"}
      PROVE  job'[tick'[d].job].state = "running"
  <2>1. ASSUME tick[d].pc = "authorize" \/ call[d].stage \in {"asked", "open"},
               tick'[d].job = tick[d].job
        PROVE  job'[tick'[d].job].state = "running"
    <3>1. tick[d].pc \in {"authorize", "submit"}
      BY <1>0, <2>1 DEF Local, Calling
    <3> PICK k \in Jobs : k = tick[d].job
      BY <1>0, <3>1 DEF Scheduling
    <3>2. job[k].state = "running" /\ Untasked(k)
      BY <1>0, <2>1, <3>1 DEF Solo, Choice, SubInv, Clear, Chosen
    <3> QED BY <1>0, <2>1, <3>1, <3>2 DEF RowsMove, RowsOf
  <2>2. CASE UNCHANGED <<tick, call>>
    BY <1>3, <2>1, <2>2
  <2>3. CASE Takes(d)
    BY <1>3, <2>3 DEF Takes, Moves, Silent
  <2>4. CASE Goes(d)
    <3>1. \/ /\ tick[d].pc = "authorize" \/ call[d].stage \in {"asked", "open"}
             /\ tick'[d].job = tick[d].job
          \/ /\ tick[d].pc = "intent" /\ tick'[d].job = tick[d].job
             /\ PrepareSubmission(tick[d].job)
      BY <1>3, <2>4 DEF Goes, Moves, Silent
    <3>2. CASE /\ tick[d].pc = "intent" /\ tick'[d].job = tick[d].job
               /\ PrepareSubmission(tick[d].job)
      <4> PICK k \in Jobs : k = tick[d].job
        BY <1>0, <3>2 DEF Scheduling
      <4>1. job'[k].state = "running"
        BY <1>0, <3>2 DEF PrepareSubmission, DispatchInv, StoreInv, TypeOK, JobRow
      <4> QED BY <3>2, <4>1
    <3> QED BY <2>1, <3>1, <3>2
  <2>5. CASE Route(d) /\ ~Takes(d) /\ ~Goes(d)
    BY <1>3, <2>5 DEF Route, Outs, Sees, Scans, Pages, Returns, Skips, Resumes, Attaches, Sends,
       Picks, Moves, ScanPc, Silent
  <2> QED BY <2>2, <2>3, <2>4, <2>5
<1> QED BY <1>1, <1>2, <1>3 DEF Choice

\* The task it keeps is one of the job at hand.
TaskRight(d) == Named(tick[d].task, tick[d].job) /\ job[tick[d].job].state # "unknown"

LEMMA TaskOfStep ==
  ASSUME NEW d \in Clients, OneStep(d), UNCHANGED <<tick, call>> \/ (Acts(d) /\ Route(d))
  PROVE  TaskOf(d)'
<1> SUFFICES ASSUME KeepsTask(d)'
             PROVE  TaskRight(d)'
  BY DEF TaskOf, TaskRight
<1>0. /\ DispatchInv /\ SubInv /\ Modes(d) /\ Solo(d) /\ RowsKept /\ Local(d)
      /\ RowsMove(d) /\ TasksKept(d) /\ RefsTrue
      /\ tick[d].pc \in Scheduling => tick[d].job \in Jobs
  BY TicksTyped DEF OneStep, Base, SubInv, SoloInv, Local, HasJob, Own
<1>1. ASSUME NEW t, NEW j \in Jobs, Named(t, j), job[j].state # "unknown",
             tick[d].pc \notin {"lost", "giveup"}
      PROVE  tick'[d].task = t /\ tick'[d].job = j => TaskRight(d)'
  BY <1>0, <1>1 DEF TasksKept, Named, TaskRight, RowsMove, RowsOf
<1>2. ASSUME KeepsTask(d), tick'[d].job = tick[d].job, tick'[d].task = tick[d].task
      PROVE  TaskRight(d)'
  <2>1. tick[d].pc \in Scheduling /\ tick[d].pc \notin {"lost", "giveup"}
    BY <1>0, <1>2 DEF KeepsTask, Local, Calling, Scheduling
  <2>2. Named(tick[d].task, tick[d].job) /\ job[tick[d].job].state # "unknown"
    BY <1>0, <1>2 DEF Solo, TaskOf
  <2> QED BY <1>0, <1>1, <1>2, <2>1, <2>2
<1>3. CASE UNCHANGED <<tick, call>>
  BY <1>2, <1>3 DEF KeepsTask
<1>4. CASE Takes(d) /\ Acts(d)
  <2>1. tick[d].pc = "recover" /\ tick'[d].pc = "refs"
    BY <1>4 DEF Takes, Moves, KeepsTask, Silent
  <2>2. tick'[d].job \in Jobs
    BY <1>0, <1>4, <2>1, AtHand DEF Takes, AfterPage, Own
  <2> PICK k \in Jobs : k = tick'[d].job
    BY <2>2
  <2> PICK t : t = tick'[d].task
    OBVIOUS
  <2>3. Named(t, k) /\ job[k].state # "unknown"
    BY <1>0, <1>4, <2>1, RecoverTo
  <2> QED BY <1>1, <2>1, <2>3
<1>5. CASE Goes(d) /\ Acts(d)
  <2>1. tick[d].pc = "block" => tick[d].mode \in {"found", "end"}
    BY <1>0 DEF Local, HasTask
  <2>2. \/ KeepsTask(d) /\ tick'[d].job = tick[d].job /\ tick'[d].task = tick[d].task
        \/ tick[d].pc = "intent" /\ tick'[d].pc = "attach"
    BY <1>5, <2>1 DEF Goes, Moves, SameMode, SameTask, KeepsTask, Silent
  <2>3. CASE tick[d].pc = "intent" /\ tick'[d].pc = "attach"
    <3>1. PICK k \in Jobs : k = tick[d].job
      BY <1>0, <2>3 DEF Scheduling
    <3>2. /\ tick'[d].job = k /\ tick'[d].task = job[k].task
          /\ job[k].task # 0 /\ job[k].state = "running"
      BY <1>0, <1>5, <2>3, <3>1, IntentTo
    <3>3. Named(job[k].task, k)
      BY <1>0, <3>2 DEF RefsTrue
    <3> PICK t : t = job[k].task
      OBVIOUS
    <3> QED BY <1>1, <2>3, <3>2, <3>3
  <2> QED BY <1>2, <2>2, <2>3
<1>6. CASE Sends(d)
  <2>1. /\ call[d].stage = "open" /\ tick[d].pc = "submit" /\ tick[d].job \in Jobs
        /\ accepted' = Append(accepted, tick[d].job) /\ job' = job
    BY <1>6, Submitter DEF Sends, OneStep
  <2> PICK k \in Jobs : k = tick[d].job
    BY <2>1
  <2>2. /\ DOMAIN accepted' = DOMAIN accepted \cup {Len(accepted) + 1}
        /\ accepted'[Len(accepted) + 1] = k
    BY <1>0, <2>1, Appended
  <2>3. tick'[d].job = k /\ tick'[d].task = Len(accepted) + 1
    BY <1>6 DEF Sends
  <2>4. job[k].state = "running"
    BY <1>0, <2>1 DEF Solo, Choice
  <2> QED BY <2>1, <2>2, <2>3, <2>4 DEF Named, TaskRight
<1>7. CASE Route(d) /\ ~Takes(d) /\ ~Goes(d) /\ ~Sends(d)
  BY <1>7 DEF Route, Outs, Sees, Scans, Pages, Returns, Skips, Resumes, Attaches, Picks, Moves,
     ScanPc, Silent, KeepsTask
<1> QED BY <1>3, <1>4, <1>5, <1>6, <1>7

-----------------------------------------------------------------------------
(* The invariant of the one daemon.                                        *)

LEMMA OneStepTaken ==
  ASSUME Base, Calm, SubInv, SoloInv, [Next]_vars, NEW d \in Clients, Clients = {d}
  PROVE  /\ OneStep(d)
         /\ UNCHANGED <<tick, call>> \/ (Acts(d) /\ Route(d))
<1> USE DEF Base
<1>1. RowsKept /\ TasksKept(d)
  BY DispatchStep, StoreKeepsRows, TasksMove
<1>2. RowsMove(d) /\ AttemptsMove(d)
  <2>1. CASE Acts(d)
    BY <2>1, DaemonMove DEF Acts, SoloInv, Solo
  <2>2. ASSUME NEW t \in Tasks, WorkerStep(t) \/ KillWorker(t) \/ Clean(t)
        PROVE  RowsMove(d) /\ AttemptsMove(d)
    BY <2>2, WorkerMove
  <2>3. CASE UNCHANGED attempt /\ UNCHANGED <<job, outbox>>
    BY <2>3, RowsStill, AttemptsStill
  <2>4. CASE KeepLease(d) \/ Switch \/ UNCHANGED vars
    BY <2>3, <2>4 DEF KeepLease, RenewLease, Switch, SetPaused, jobVars, dispatchVars, storeVars,
       vars
  <2>5. CASE Clock
    <3>1. CASE ExpireLease
      BY <2>3, <2>5, <3>1 DEF Clock, ExpireLease, jobVars, dispatchVars
    <3>2. ASSUME NEW j \in Jobs, RetryTime(j) PROVE RowsMove(d)
      <4>1. outbox \in [Jobs -> Intent]
        BY DEF DispatchInv, StoreInv, TypeOK
      <4>2. job' = job /\ \A k \in Jobs : outbox'[k].state = outbox[k].state
        BY <3>2, <4>1 DEF RetryTime, Intent
      <4> QED BY <4>2 DEF RowsMove, RowsOf
    <3> QED BY <2>5, <3>1, <3>2, AttemptsStill DEF Clock, dispatchVars
  <2>6. ~\E j \in Jobs : LateTask(j)
    BY DEF LateTask, LateSubmit, SubInv
  <2> QED BY <2>1, <2>2, <2>4, <2>5, <2>6 DEF Next, Acts
<1>3. UNCHANGED <<tick, call>> \/ (Acts(d) /\ Route(d))
  BY Actors, DaemonMoves DEF Acts, SubInv
<1> QED BY <1>1, <1>2, <1>3 DEF OneStep

LEMMA SoloStep ==
  ASSUME OneDaemon, Base, Calm, SubInv, SoloInv, [Next]_vars
  PROVE  SoloInv'
<1> PICK d : Clients = {d}
  BY DEF OneDaemon
<1>1. d \in Clients
  OBVIOUS
<1>2. OneStep(d) /\ (UNCHANGED <<tick, call>> \/ (Acts(d) /\ Route(d)))
  BY <1>1, OneStepTaken
<1>3. RefsTrue' /\ RowsTrue'
  BY <1>1, <1>2, RefsStep, RowsTrueStep DEF OneStep
<1>4. \A t \in Tasks : t \notin DOMAIN accepted' => task'[t] = "none"
  BY <1>2 DEF OneStep, TasksKept
<1>5. tick'[d].pc # "idle" => Leads(d)'
  BY <1>1, HeldStep DEF SoloInv, Solo
<1>6. TaskOf(d)' /\ Sight(d)' /\ Losing(d)' /\ Judged(d)' /\ Choice(d)'
  BY <1>1, <1>2, TaskOfStep, SightStep, LosingStep, JudgedStep, ChoiceStep
<1>7. Solo(d)'
  BY <1>5, <1>6 DEF Solo
<1> QED BY <1>3, <1>4, <1>7 DEF SoloInv

LEMMA SoloInit ==
  ASSUME Init PROVE SoloInv
<1>1. DOMAIN accepted = {} /\ \A t \in Tasks : task[t] = "none"
  BY DEF Init, StoreInit, Blank
<1>2. \A j \in Jobs : /\ job[j].task = 0 /\ job[j].state = "absent" /\ outbox[j].state = "absent"
                     /\ attempt[j].ref = 0 /\ attempt[j].state = "none"
  BY DEF Init, StoreInit, AbsentJob, NoIntent, NoAttempt
<1>3. RefsTrue /\ RowsTrue
  BY <1>2 DEF RefsTrue, RowsTrue
<1>4. \A d \in Clients : tick[d].pc = "idle" /\ call[d].stage = "none"
  BY DEF Init, StoreInit, NoTick, NoCall
<1>5. \A d \in Clients : Solo(d)
  BY <1>4 DEF Solo, TaskOf, KeepsTask, Sight, Losing, Judged, Choice, After, ScanPc, Past,
     AfterPage, Scheduling
<1> QED BY <1>1, <1>3, <1>5 DEF SoloInv

(***************************************************************************)
(* No verdict is wrong, of a host with one daemon: beyond the markers of   *)
(* VerdictsHaveMarkers, an Attempt stands as blocked "before scheduler     *)
(* start" (blockSubmission) only while the scheduler never had a task for  *)
(* it.  The daemon may fail or be killed and started again at any step,    *)
(* its workers may die, and operators may pause it.  Two daemons of one    *)
(* worktree can break it: one, stalled before it gives a job up, goes on   *)
(* after its successor submitted it.                                       *)
(***************************************************************************)
THEOREM VerdictsAreTrue ==
  ASSUME Calm, OneDaemon PROVE Spec => []VerdictTruth
<1>1. OwnNames
  BY DEF OwnNames, OneDaemon
<1>2. Base /\ SubInv /\ SoloInv /\ [Next]_vars => SoloInv'
  BY SoloStep
<1>3. SoloInv => BlockedUnstarted
  BY DEF SoloInv, RowsTrue, BlockedUnstarted, Untasked
<1>4. MarkerTruth /\ BlockedUnstarted => VerdictTruth
  BY DEF VerdictTruth
<1>5. (Spec => []Base) /\ (Spec => []SubInv) /\ (Spec => []MarkerTruth)
  BY <1>1, BaseHolds, SubInvariant, VerdictsHaveMarkers
<1> QED BY <1>2, <1>3, <1>4, <1>5, SoloInit, PTL DEF Spec

-----------------------------------------------------------------------------
(* A submission that is given up is settled.                               *)

\* Why a daemon leaves its tick: only the two refusals of giving up say so.
WhyKept(d) == tick'[d].why \in {"ended", "blocked"} => tick[d].why \in {"ended", "blocked"}

LEMMA WhyOf ==
  ASSUME DispatchInv, NEW d \in Clients, NEW r, tick' = [tick EXCEPT ![d] = r],
         r.why \notin {"ended", "blocked"} \/ r.why = tick[d].why
  PROVE  WhyKept(d)
  BY TickIs DEF WhyKept

LEMMA WhyGoto ==
  ASSUME DispatchInv, NEW d \in Clients, NEW pc, Goto(d, pc)
  PROVE  WhyKept(d)
<1> PICK x \in Tick : x = tick[d]
  BY TicksTyped
<1> DEFINE r == [x EXCEPT !.pc = pc]
<1>1. tick' = [tick EXCEPT ![d] = r]
  BY DEF Goto
<1>2. r.why = x.why
  BY DEF Tick
<1> HIDE DEF r
<1> QED BY <1>1, <1>2, WhyOf

LEMMA WhyResume ==
  ASSUME DispatchInv, NEW d \in Clients, NEW pc, Resume(d, pc)
  PROVE  WhyKept(d)
<1> PICK x \in Tick : x = tick[d]
  BY TicksTyped
<1> DEFINE r == [x EXCEPT !.pc = pc, !.job = None, !.task = 0, !.mode = "found"]
<1>1. tick' = [tick EXCEPT ![d] = r]
  BY DEF Resume
<1>2. r.why = x.why
  BY DEF Tick
<1> HIDE DEF r
<1> QED BY <1>1, <1>2, WhyOf

LEMMA WhyFail ==
  ASSUME DispatchInv, NEW d \in Clients,
         NEW why \in {"", "torn", "finished", "scope", "conflict", "fenced"}, Fail(d, why)
  PROVE  WhyKept(d)
<1> DEFINE r == [NoTick EXCEPT !.pc = "release", !.why = why]
<1>1. tick' = [tick EXCEPT ![d] = r]
  BY DEF Fail
<1>2. r.why = why
  BY DEF NoTick
<1> HIDE DEF r
<1> QED BY <1>1, <1>2, WhyOf

LEMMA WhyLeave ==
  ASSUME DispatchInv, NEW d \in Clients, Leave(d) \/ tick' = [tick EXCEPT ![d] = NoTick]
  PROVE  WhyKept(d)
<1> DEFINE r == [NoTick EXCEPT !.pc = "release"]
<1>1. r.why = "" /\ NoTick.why = ""
  BY DEF NoTick
<1>2. tick' = [tick EXCEPT ![d] = r] \/ tick' = [tick EXCEPT ![d] = NoTick]
  BY DEF Leave
<1> HIDE DEF r
<1> QED BY <1>1, <1>2, WhyOf

\* The steps that change other fields of their tick.
LEMMA WhyFields ==
  ASSUME NEW x \in Tick, NEW a, NEW b, NEW c, NEW e, NEW f
  PROVE  /\ [x EXCEPT !.pc = a, !.snap = b].why = x.why
         /\ [x EXCEPT !.pc = a, !.todo = b, !.ended = c].why = x.why
         /\ [x EXCEPT !.pc = a, !.todo = b].why = x.why
         /\ [x EXCEPT !.todo = a, !.pc = b].why = x.why
         /\ [x EXCEPT !.pc = a, !.allow = b].why = x.why
         /\ [x EXCEPT !.pc = a].why = x.why
         /\ [x EXCEPT !.todo = a].why = x.why
         /\ [x EXCEPT !.task = a].why = x.why
         /\ [x EXCEPT !.pc = a, !.mode = b].why = x.why
         /\ [x EXCEPT !.pc = a, !.mode = b, !.task = c].why = x.why
         /\ [x EXCEPT !.pc = a, !.job = b, !.mode = c].why = x.why
         /\ [x EXCEPT !.todo = a, !.ended = b, !.job = c, !.pc = e].why = x.why
         /\ [x EXCEPT !.todo = a, !.job = b, !.pc = c, !.mode = e].why = x.why
         /\ [x EXCEPT !.todo = a, !.job = b, !.pc = c, !.mode = e, !.task = f].why = x.why
         /\ [x EXCEPT !.snap = a, !.job = b, !.task = c, !.mode = e, !.pc = f].why = x.why
  BY DEF Tick

LEMMA WhyImport ==
  ASSUME DispatchInv, NEW d \in Clients, Import(d)
  PROVE  WhyKept(d)
<1>0. PICK x \in Tick : x = tick[d]
  BY TicksTyped
<1>1. CASE \/ ScanTorn(d) \/ ScanForeign(d) \/ MarkUnknownFenced(d) \/ ReconcileTorn(d)
           \/ ReconcileConflict(d)
  BY <1>1, WhyFail DEF ScanTorn, ScanForeign, MarkUnknownFenced, ReconcileTorn, ReconcileConflict
<1>2. CASE BeginTick(d) \/ Reconcile(d)
  BY <1>2, WhyGoto DEF BeginTick, Reconcile
<1>3. CASE Replay(d) \/ MarkUnknown(d)
  BY <1>3, WhyFail, WhyResume DEF Replay, MarkUnknown
<1>4. CASE Snapshot(d)
  <2> DEFINE seen == [t \in Tasks |-> Observed(task[t])]
             r == [x EXCEPT !.pc = "list", !.snap = seen]
  <2>1. tick' = [tick EXCEPT ![d] = r]
    BY <1>0, <1>4 DEF Snapshot, Look
  <2> HIDE DEF seen
  <2>2. r.why = x.why
    BY WhyFields
  <2> HIDE DEF r
  <2> QED BY <1>0, <2>1, <2>2, WhyOf
<1>5. CASE ListRunning(d)
  <2> DEFINE list == {j \in Jobs : job[j].state = "running"}
             over == {j \in Jobs : /\ job[j].state = "running"
                                   /\ job[j].task # 0
                                   /\ tick[d].snap[job[j].task] \in Outcome}
             r == [x EXCEPT !.pc = "scan", !.todo = list, !.ended = over]
  <2>1. tick' = [tick EXCEPT ![d] = r]
    BY <1>0, <1>5 DEF ListRunning, Look
  <2> HIDE DEF list, over
  <2>2. r.why = x.why
    BY WhyFields
  <2> HIDE DEF r
  <2> QED BY <1>0, <2>1, <2>2, WhyOf
<1>6. ASSUME NEW j \in Jobs, ScanJob(d, j) PROVE WhyKept(d)
  <2> DEFINE left == x.todo \ {j}
             ended == x.ended \ {j}
             k == IF Found(j) \/ j \in x.ended THEN j ELSE None
             pc == IF Found(j) THEN "replay" ELSE IF j \in x.ended THEN "lost" ELSE "scan"
             r == [x EXCEPT !.todo = left, !.ended = ended, !.job = k, !.pc = pc]
  <2>1. tick' = [tick EXCEPT ![d] = r]
    BY <1>0, <1>6 DEF ScanJob
  <2> HIDE DEF left, ended, k, pc
  <2>2. r.why = x.why
    BY WhyFields
  <2> HIDE DEF r
  <2> QED BY <1>0, <2>1, <2>2, WhyOf
<1>7. CASE ListTerminal(d)
  <2> DEFINE list == {j \in Own(d) : job[j].state \in JobTerminal /\ ~job[j].reconciled}
             r == [x EXCEPT !.pc = "reconcile", !.todo = list]
  <2>1. tick' = [tick EXCEPT ![d] = r]
    BY <1>0, <1>7 DEF ListTerminal, Look
  <2> HIDE DEF list
  <2>2. r.why = x.why
    BY WhyFields
  <2> HIDE DEF r
  <2> QED BY <1>0, <2>1, <2>2, WhyOf
<1>8. ASSUME NEW j \in Jobs, MarkReconciled(d, j) PROVE WhyKept(d)
  <2> DEFINE left == x.todo \ {j}
             r == [x EXCEPT !.todo = left]
  <2>1. tick' = [tick EXCEPT ![d] = r]
    BY <1>0, <1>8 DEF MarkReconciled
  <2> HIDE DEF left
  <2>2. r.why = x.why
    BY WhyFields
  <2> HIDE DEF r
  <2> QED BY <1>0, <2>1, <2>2, WhyOf
<1>9. CASE ReadPause(d)
  <2> DEFINE b == ~paused
             r == [x EXCEPT !.pc = "page", !.allow = b]
  <2>1. tick' = [tick EXCEPT ![d] = r]
    BY <1>0, <1>9 DEF ReadPause, Look
  <2> HIDE DEF b
  <2>2. r.why = x.why
    BY WhyFields
  <2> HIDE DEF r
  <2> QED BY <1>0, <2>1, <2>2, WhyOf
<1> QED BY <1>1, <1>2, <1>3, <1>4, <1>5, <1>6, <1>7, <1>8, <1>9 DEF Import

LEMMA WhyRecover ==
  ASSUME DispatchInv, NEW d \in Clients, Recover(d)
  PROVE  WhyKept(d) \/ GiveUpFenced(d) \/ BlockRefused(d)
<1>0. PICK x \in Tick : x = tick[d]
  BY TicksTyped
<1>1. CASE Retry(d) \/ GiveUp(d) \/ Block(d)
  BY <1>1, WhyGoto, WhyResume, WhyLeave DEF Retry, GiveUp, Block
<1>2. CASE Page(d)
  <2> DEFINE due == Due(d)
             pc == IF Due(d) # {} THEN "recover"
                   ELSE IF tick[d].allow THEN "pool" ELSE "release"
             r == [x EXCEPT !.todo = due, !.pc = pc]
  <2>1. tick' = [tick EXCEPT ![d] = r]
    BY <1>0, <1>2 DEF Page, Look
  <2> HIDE DEF due, pc
  <2>2. r.why = x.why
    BY WhyFields
  <2> HIDE DEF r
  <2> QED BY <1>0, <2>1, <2>2, WhyOf
<1>3. CASE PageDone(d)
  <2> DEFINE pc == IF tick[d].allow THEN "page" ELSE "release"
             r == [x EXCEPT !.pc = pc]
  <2>1. tick' = [tick EXCEPT ![d] = r]
    BY <1>0, <1>3 DEF PageDone, Look
  <2> HIDE DEF pc
  <2>2. r.why = x.why
    BY WhyFields
  <2> HIDE DEF r
  <2> QED BY <1>0, <2>1, <2>2, WhyOf
<1>4. ASSUME NEW j \in Jobs, NEW pc, NEW mode, Take(d, j, pc, mode) PROVE WhyKept(d)
  <2> DEFINE left == x.todo \ {j}
             r == [x EXCEPT !.todo = left, !.job = j, !.pc = pc, !.mode = mode]
  <2>1. tick' = [tick EXCEPT ![d] = r]
    BY <1>0, <1>4 DEF Take
  <2> HIDE DEF left
  <2>2. r.why = x.why
    BY WhyFields
  <2> HIDE DEF r
  <2> QED BY <1>0, <2>1, <2>2, WhyOf
<1>5. ASSUME NEW j \in Jobs, RecoverFound(d, j) PROVE WhyKept(d)
  <2> PICK t \in Tasks :
        /\ Routes(d, j) = {t}
        /\ tick' = [tick EXCEPT ![d].todo = @ \ {j}, ![d].job = j, ![d].pc = "refs",
                                ![d].mode = "found", ![d].task = t]
    BY <1>5 DEF RecoverFound
  <2> DEFINE left == x.todo \ {j}
             r == [x EXCEPT !.todo = left, !.job = j, !.pc = "refs", !.mode = "found",
                            !.task = t]
  <2>1. tick' = [tick EXCEPT ![d] = r]
    BY <1>0
  <2> HIDE DEF left
  <2>2. r.why = x.why
    BY WhyFields
  <2> HIDE DEF r
  <2> QED BY <1>0, <2>1, <2>2, WhyOf
<1>6. ASSUME NEW j \in Jobs, RecoverPaused(d, j) PROVE WhyKept(d)
  <2> DEFINE left == x.todo \ {j}
             r == [x EXCEPT !.todo = left]
  <2>1. tick' = [tick EXCEPT ![d] = r]
    BY <1>0, <1>6 DEF RecoverPaused
  <2> HIDE DEF left
  <2>2. r.why = x.why
    BY WhyFields
  <2> HIDE DEF r
  <2> QED BY <1>0, <2>1, <2>2, WhyOf
<1> QED BY <1>1, <1>2, <1>3, <1>4, <1>5, <1>6
        DEF Recover, RecoverUnknown, RecoverLater, RecoverBlocked, RecoverSubmit

LEMMA WhySubmission ==
  ASSUME DispatchInv, NEW d \in Clients, Submission(d)
  PROVE  WhyKept(d)
<1>0. PICK x \in Tick : x = tick[d]
  BY TicksTyped
<1>1. CASE SubmitOpens(d)
  BY <1>1 DEF SubmitOpens, dispatchVars, WhyKept
<1>2. CASE \/ SubmitPaused(d) \/ SubmitFenced(d) \/ SubmitCommits(d) \/ SubmitAborts(d)
           \/ Refs(d) \/ Account(d) \/ Publish(d)
  BY <1>2, WhyGoto, WhyResume, WhyLeave DEF SubmitPaused, SubmitFenced, SubmitCommits,
     SubmitAborts, Refs, Account, Publish
<1>3. CASE RefsConflict(d) \/ AttachConflict(d)
  BY <1>3, WhyFail DEF RefsConflict, AttachConflict
<1>4. CASE SubmitTask(d)
  <2> DEFINE t == Len(accepted) + 1
             r == [x EXCEPT !.task = t]
  <2>1. tick' = [tick EXCEPT ![d] = r]
    BY <1>0, <1>4 DEF SubmitTask
  <2> HIDE DEF t
  <2>2. r.why = x.why
    BY WhyFields
  <2> HIDE DEF r
  <2> QED BY <1>0, <2>1, <2>2, WhyOf
<1>5. CASE Attach(d)
  <2>1. CASE Leave(d)
    BY <2>1, WhyLeave
  <2>2. CASE ~Leave(d)
    <3> DEFINE snap == [x.snap EXCEPT ![x.task] = "queued"]
               pc == IF x.mode = "resubmit" THEN "recover" ELSE "pool"
               r == [x EXCEPT !.snap = snap, !.job = None, !.task = 0, !.mode = "found",
                              !.pc = pc]
    <3>1. tick' = [tick EXCEPT ![d] = r]
      BY <1>0, <1>5, <2>2 DEF Attach
    <3> HIDE DEF snap, pc
    <3>2. r.why = x.why
      BY WhyFields
    <3> HIDE DEF r
    <3> QED BY <1>0, <3>1, <3>2, WhyOf
  <2> QED BY <2>1, <2>2
<1> QED BY <1>1, <1>2, <1>3, <1>4, <1>5 DEF Submission

LEMMA WhyFill ==
  ASSUME DispatchInv, NEW d \in Clients, Fill(d) \/ StepFails(d) \/ Crash(d)
  PROVE  WhyKept(d)
<1>0. PICK x \in Tick : x = tick[d]
  BY TicksTyped
<1>1. CASE PoolIdle(d) \/ Prepare(d) \/ AuthorizeLater(d) \/ AuthorizeSubmit(d)
  BY <1>1, WhyGoto, WhyLeave DEF PoolIdle, Prepare, AuthorizeLater, AuthorizeSubmit
<1>2. CASE KeepFenced(d) \/ IntentConflict(d) \/ StepFails(d)
  BY <1>2, WhyFail DEF KeepFenced, IntentConflict, StepFails
<1>3. CASE Release(d) \/ Crash(d)
  BY <1>3, WhyLeave DEF Release, Crash
<1>4. ASSUME NEW j \in Jobs, PoolPick(d, j) PROVE WhyKept(d)
  <2> DEFINE r == [x EXCEPT !.pc = "prepare", !.job = j, !.mode = "dispatch"]
  <2>1. tick' = [tick EXCEPT ![d] = r]
    BY <1>0, <1>4 DEF PoolPick
  <2>2. r.why = x.why
    BY WhyFields
  <2> HIDE DEF r
  <2> QED BY <1>0, <2>1, <2>2, WhyOf
<1>5. CASE PrepareIntent(d)
  <2>1. CASE Goto(d, "authorize") \/ Leave(d)
    BY <2>1, WhyGoto, WhyLeave
  <2>2. CASE ~(Goto(d, "authorize") \/ Leave(d))
    <3> DEFINE t == job[tick[d].job].task
               r == [x EXCEPT !.pc = "attach", !.mode = "end", !.task = t]
    <3>1. tick' = [tick EXCEPT ![d] = r]
      BY <1>0, <1>5, <2>2 DEF PrepareIntent
    <3> HIDE DEF t
    <3>2. r.why = x.why
      BY WhyFields
    <3> HIDE DEF r
    <3> QED BY <1>0, <3>1, <3>2, WhyOf
  <2> QED BY <2>1, <2>2
<1>6. CASE AuthorizeBlocked(d)
  <2> DEFINE r == [x EXCEPT !.pc = "giveup", !.mode = "end"]
  <2>1. tick' = [tick EXCEPT ![d] = r]
    BY <1>0, <1>6 DEF AuthorizeBlocked
  <2>2. r.why = x.why
    BY WhyFields
  <2> HIDE DEF r
  <2> QED BY <1>0, <2>1, <2>2, WhyOf
<1> QED BY <1>1, <1>2, <1>3, <1>4, <1>5, <1>6 DEF Fill

LEMMA WhyStep ==
  ASSUME DispatchInv, NEW d \in Clients, Acts(d)
  PROVE  WhyKept(d) \/ GiveUpFenced(d) \/ BlockRefused(d)
  BY WhyImport, WhyRecover, WhySubmission, WhyFill DEF Acts, DaemonStep

-----------------------------------------------------------------------------
(* What is known of a job that is given up, while no worker dies.          *)

\* A task ends with its marker, and no worker finds its job finished.
EndsMarked(t) == task[t] # "late" /\ (task[t] \in Outcome => marker[accepted[t]].final \in Outcome)

\* A job is lost before it has a task, its Attempt starts with one, and its
\* intent is as old as its claim.
Unsent(j) ==
    /\ job[j].state = "unknown" => Untasked(j)
    /\ Untasked(j) => attempt[j].state \in {"none", "planned", "blocked"}
    /\ outbox[j].state # "absent" => Claimed(j)

Giving(d) ==
    /\ tick[d].pc # "lost"
    /\ tick[d].pc = "giveup" => job[tick[d].job].state = "running"
    /\ tick[d].pc \in {"giveup", "block"} => outbox[tick[d].job].state # "absent"
    /\ tick[d].why \notin {"ended", "blocked"}

GiveInv ==
    /\ \A t \in DOMAIN accepted : EndsMarked(t)
    /\ \A j \in Jobs : Unsent(j)
    /\ \A d \in Clients : Giving(d)

\* No marker, no verdict: such a job is running.
LEMMA StillRunning ==
  ASSUME DispatchInv, MarkInv, NEW j \in Jobs, Claimed(j), marker[j] = NoMarker,
         job[j].state # "unknown"
  PROVE  job[j].state = "running"
<1>1. job[j].state \in JobState /\ job[j].state # "cancelled"
  BY DEF DispatchInv, StoreInv, TypeOK, JobRow, Rows
<1>2. job[j].state \notin JobTerminal
  BY DEF MarkInv, MarkerTruth, NoMarker, JobTerminal
<1> QED BY <1>1, <1>2 DEF JobState, JobFinished, Claimed

LEMMA WorkerEnds ==
  ASSUME Base, SubInv, MarkInv, GiveInv, Calm, "die" \notin Faults,
         NEW t \in Tasks, WorkerStep(t) \/ KillWorker(t) \/ Clean(t)
  PROVE  EndsMarked(t)'
<1> USE DEF Base
<1>0. /\ t \in DOMAIN accepted /\ accepted' = accepted /\ Fits(t) /\ Writes(t)
      /\ EndsMarked(t)
  BY WorkerStages, WorkerEffects, WorkerWrites DEF MarkInv, GiveInv
<1> PICK j \in Jobs : j = accepted[t]
  BY <1>0, TasksAccepted
<1> PICK m \in Marker : m = marker[j]
  BY TasksTyped
<1> PICK o : o = result[t]
  OBVIOUS
<1>1. FitsStage(task[t], m, o) /\ task[t] # "late"
  BY <1>0 DEF Fits, EndsMarked
<1>2. ASSUME NEW s, task' = [task EXCEPT ![t] = s], s # "late",
             s \in Outcome => m.final \in Outcome
      PROVE  EndsMarked(t)'
  <2>1. task'[t] = s
    BY <1>2, TasksTyped
  <2>2. s \in Outcome => marker'[j].final \in Outcome
    BY <1>0, <1>2 DEF Writes, Outcome
  <2> QED BY <1>0, <1>2, <2>1, <2>2 DEF EndsMarked
<1>3. CASE StartTask(t)
  <2>1. task[t] = "queued"
    BY <1>3 DEF StartTask, Worker
  <2>2. m = NoMarker
    BY <1>1, <2>1 DEF FitsStage
  <2>3. Claimed(j) /\ job[j].state # "unknown"
    BY <1>0 DEF SubInv, TaskRows, GiveInv, Unsent, Untasked
  <2>4. job[j].state = "running"
    BY <2>2, <2>3, StillRunning
  <2>5. task' = [task EXCEPT ![t] = "claimed"]
    BY <1>3, <2>4 DEF StartTask, ToStage
  <2> QED BY <1>2, <2>5 DEF Outcome
<1>4. CASE Refuse(t) \/ Invoke(t) \/ \E p \in Outcome : WriteMarker(t, p)
  <2>1. PICK s \in {"refusing", "invoking", "written"} : task' = [task EXCEPT ![t] = s]
    BY <1>4 DEF Refuse, Invoke, WriteMarker, ToStage
  <2> QED BY <1>2, <2>1 DEF Outcome
<1>5. CASE CheckMarker(t)
  <2>1. task[t] = "claimed"
    BY <1>1, <1>5 DEF CheckMarker, Worker
  <2>2. m = NoMarker
    BY <1>1, <2>1 DEF FitsStage
  <2>3. ~Torn(j) /\ ~Found(j)
    BY <2>2 DEF Torn, Found, Content, NoMarker, Outcome
  <2>4. task' = [task EXCEPT ![t] = "clear"]
    BY <1>5, <2>1, <2>3 DEF CheckMarker, ToStage
  <2> QED BY <1>2, <2>4 DEF Outcome
<1>6. CASE CreateMarker(t)
  <2>1. m = NoMarker
    BY <1>1, <1>6 DEF FitsStage, CreateMarker, Worker
  <2>2. PICK s \in {"writing", "denying"} : task' = [task EXCEPT ![t] = s]
    BY <1>6, <2>1 DEF CreateMarker, ToStage, NoMarker
  <2> QED BY <1>2, <2>2 DEF Outcome
<1>7. CASE CheckPlace(t) \/ PlaceMarker(t) \/ FinishTask(t)
  <2>1. task[t] \in {"written", "placing", "marked"}
    BY <1>7 DEF CheckPlace, PlaceMarker, FinishTask, Worker
  <2>2. o \in Outcome
    BY <2>1, TasksTyped
  <2>3. \/ m = [final |-> "none", temp |-> o] /\ task[t] # "marked"
        \/ m = [final |-> o, temp |-> "none"]
    BY <1>1, <2>1 DEF FitsStage
  <2>4. m.final \in Outcome \/ (m.final = "none" /\ m.temp # "none" /\ task[t] # "marked")
    BY <2>2, <2>3 DEF Outcome
  <2>5. \E s \in {"failed", "placing", "marked"} \cup Outcome :
           /\ task' = [task EXCEPT ![t] = s]
           /\ s \in Outcome => m.final # "none" \/ m.temp = "none" \/ task[t] = "marked"
    BY <1>7, <2>1, <2>2 DEF CheckPlace, PlaceMarker, FinishTask, ToStage, Worker, Outcome
  <2> QED BY <1>2, <2>4, <2>5 DEF Outcome
<1>8. ~ReplayMarker(t) /\ ~KillWorker(t) /\ ~Clean(t)
  BY <1>1 DEF ReplayMarker, KillWorker, Clean, Worker, FitsStage, Calm
<1> QED BY <1>3, <1>4, <1>5, <1>6, <1>7, <1>8 DEF WorkerStep

LEMMA EndsStep ==
  ASSUME Base, SubInv, MarkInv, GiveInv, Calm, "die" \notin Faults, [Next]_vars
  PROVE  \A t \in DOMAIN accepted' : EndsMarked(t)'
<1> USE DEF Base
<1>1. CASE UNCHANGED <<accepted, task, marker>>
  BY <1>1 DEF GiveInv, EndsMarked
<1>2. ASSUME NEW t \in Tasks, WorkerStep(t) \/ KillWorker(t) \/ Clean(t)
      PROVE  \A u \in DOMAIN accepted' : EndsMarked(u)'
  <2> SUFFICES ASSUME NEW u \in DOMAIN accepted', u # t PROVE EndsMarked(u)'
    BY <1>2, WorkerEnds
  <2>1. accepted' = accepted /\ Writes(t) /\ t \in DOMAIN accepted
    BY <1>2, WorkerEffects, WorkerWrites
  <2>2. u \in Tasks /\ accepted[u] \in Jobs /\ accepted[u] # accepted[t]
    BY <2>1, TasksAccepted DEF SubInv, OneTask
  <2>3. task'[u] = task[u] /\ marker'[accepted[u]] = marker[accepted[u]]
    BY <2>1, <2>2 DEF Writes
  <2> QED BY <2>1, <2>3 DEF GiveInv, EndsMarked
<1>3. ASSUME NEW d \in Clients, DaemonStep(d) \/ KeepLease(d) \/ StepFails(d) \/ Crash(d)
      PROVE  \A u \in DOMAIN accepted' : EndsMarked(u)'
  <2> SUFFICES ASSUME NEW u \in DOMAIN accepted' PROVE EndsMarked(u)'
    OBVIOUS
  <2>1. MarkersMove
    BY <1>3, DaemonVerdicts DEF MarkInv
  <2>2. ASSUME u \in DOMAIN accepted, accepted'[u] = accepted[u], task'[u] = task[u]
        PROVE  EndsMarked(u)'
    <3> PICK j \in Jobs : j = accepted[u]
      BY <2>2, TasksAccepted
    <3>1. marker[j].final \in Outcome => marker'[j].final = marker[j].final
      BY <2>1, TasksTyped, PromotedFacts DEF MarkersMove, Outcome
    <3> QED BY <2>2, <3>1 DEF GiveInv, EndsMarked
  <2>3. CASE UNCHANGED <<accepted, task>>
    BY <2>2, <2>3
  <2>4. CASE SubmitTask(d)
    <3> PICK k \in Jobs : k = tick[d].job
      BY <2>4, Submitter
    <3>1. /\ accepted' = Append(accepted, k)
          /\ task' = [task EXCEPT ![Len(accepted) + 1] = "queued"]
      BY <2>4, Submitter
    <3>2. /\ DOMAIN accepted' = DOMAIN accepted \cup {Len(accepted) + 1}
          /\ \A t \in DOMAIN accepted : accepted'[t] = accepted[t]
          /\ Len(accepted) + 1 \notin DOMAIN accepted
      BY <3>1, Appended
    <3>3. CASE u \in DOMAIN accepted
      <4>1. u \in Tasks /\ u # Len(accepted) + 1
        BY <3>2, <3>3, TasksAccepted
      <4>2. task'[u] = task[u]
        BY <3>1, <4>1, TasksTyped
      <4> QED BY <2>2, <3>2, <3>3, <4>2
    <3>4. CASE u = Len(accepted) + 1
      <4>1. u \in Tasks
        <5>1. Len(accepted) < MaxTasks /\ accepted \in Seq(Jobs)
          BY <2>4 DEF SubmitTask, Submit, DispatchInv, StoreInv, TypeOK
        <5> QED BY <3>4, <5>1, OperationBounds DEF Tasks
      <4>2. task'[u] = "queued"
        BY <3>1, <3>4, <4>1, TasksTyped
      <4> QED BY <4>2 DEF EndsMarked, Outcome
    <3> QED BY <3>2, <3>3, <3>4
  <2> QED BY <1>3, <2>3, <2>4, DaemonAccepts, OtherEffects
<1>4. CASE Clock \/ Switch \/ UNCHANGED vars
  <2>1. UNCHANGED <<accepted, task, marker>>
    BY <1>4 DEF Clock, Switch, ExpireLease, RetryTime, SetPaused, taskVars, dispatchVars,
       storeVars, vars
  <2> QED BY <1>1, <2>1
<1>5. ~\E j \in Jobs : LateTask(j)
  BY DEF LateTask, LateSubmit, SubInv
<1> QED BY <1>2, <1>3, <1>4, <1>5 DEF Next

\* The steps that change Attempts.
LEMMA AttemptSteps ==
  ASSUME NEW d \in Clients, Acts(d)
  PROVE  UNCHANGED attempt \/ Reconcile(d) \/ Block(d) \/ Prepare(d) \/ Attach(d)
<1>1. CASE Import(d)
  BY <1>1 DEF Import, BeginTick, Snapshot, ListRunning, ScanJob, ScanTorn, ScanForeign, Replay,
     MarkUnknown, MarkUnknownFenced, ListTerminal, ReconcileTorn, ReconcileConflict,
     MarkReconciled, ReadPause, Look, Fail, recordVars
<1>2. CASE Recover(d)
  BY <1>2 DEF Recover, Page, PageDone, RecoverUnknown, RecoverFound, RecoverPaused, RecoverLater,
     RecoverBlocked, RecoverSubmit, Retry, GiveUp, GiveUpFenced, BlockRefused, Look, Fail,
     ReadOnly, recordVars
<1>3. CASE Submission(d)
  BY <1>3 DEF Submission, SubmitOpens, SubmitPaused, SubmitFenced, SubmitTask, SubmitCommits,
     SubmitAborts, Refs, RefsConflict, Account, Publish, AttachConflict, Fail, recordVars,
     dispatchVars
<1>4. CASE Fill(d)
  BY <1>4 DEF Fill, PoolIdle, KeepFenced, PoolPick, PrepareIntent, IntentConflict,
     AuthorizeBlocked, AuthorizeLater, AuthorizeSubmit, Release, Fail, ReadOnly, recordVars
<1>5. CASE StepFails(d) \/ Crash(d)
  BY <1>5 DEF StepFails, Crash, Fail, recordVars
<1> QED BY <1>1, <1>2, <1>3, <1>4, <1>5 DEF Acts, DaemonStep

\* Without a task, an Attempt is only planned or blocked.
LEMMA AttemptUnsent ==
  ASSUME DispatchInv, MarkInv, NEW d \in Clients, Acts(d), TaskOf(d), NEW j \in Jobs, Untasked(j),
         attempt[j].state \in {"none", "planned", "blocked"}
  PROVE  attempt'[j].state \in {"none", "planned", "blocked"}
<1>0. attempt \in [Jobs -> Attempt]
  BY DEF DispatchInv, DispatchTypeOK
<1>1. CASE Reconcile(d)
  <2>1. attempt'[j] = IF j \in Own(d) THEN Reconciled(d, j) ELSE attempt[j]
    BY <1>1 DEF Reconcile
  <2>2. ~Found(j) /\ job[j].state \notin JobTerminal
    BY DEF MarkInv, MarkerTruth, Found, Content, NoMarker, Outcome, JobTerminal
  <2>3. j \notin tick[d].todo
    BY <1>1, <2>2, TicksTyped DEF Local, Listed, Reconcile, At, Outcome, JobTerminal
  <2>4. Routes(d, j) = {}
    BY DEF Routes, Untasked
  <2>5. ~Imports(d, j) /\ Sighted(d, j) = {}
    BY <2>2, <2>3, <2>4 DEF Imports, ImportsMarker, Sighted
  <2>6. Reconciled(d, j) = attempt[j]
    BY <2>5 DEF Reconciled
  <2> QED BY <2>1, <2>6
<1>2. CASE Block(d)
  BY <1>0, <1>2 DEF Block, Attempt
<1>3. CASE Prepare(d)
  BY <1>0, <1>3 DEF Prepare, Attempt
<1>4. CASE Attach(d)
  <2>1. Named(tick[d].task, tick[d].job)
    BY <1>4 DEF Attach, At, TaskOf, KeepsTask
  <2>2. j # tick[d].job
    BY <2>1 DEF Named, Untasked
  <2>3. attempt'[j] = attempt[j]
    BY <1>0, <1>4, <2>2 DEF Attach
  <2> QED BY <2>3
<1> QED BY <1>1, <1>2, <1>3, <1>4, AttemptSteps

\* While the daemon does nothing, jobs change only by their workers.
LEMMA Bystander ==
  ASSUME Base, SubInv, [Next]_vars, NEW d \in Clients, Clients = {d}, ~Acts(d)
  PROVE  /\ UNCHANGED <<tick, attempt>>
         /\ \A j \in Jobs : /\ Untasked(j) => job'[j].state = job[j].state
                            /\ outbox'[j].state # "absent" => outbox[j].state # "absent"
<1> USE DEF Base
<1>0. job \in [Jobs -> JobRow] /\ outbox \in [Jobs -> Intent]
  BY DEF DispatchInv, StoreInv, TypeOK
<1>1. CASE KeepLease(d) \/ Switch \/ UNCHANGED vars
  <2>1. UNCHANGED <<tick, attempt, job, outbox>>
    BY <1>1 DEF KeepLease, RenewLease, Switch, SetPaused, jobVars, dispatchVars, storeVars, vars
  <2> QED BY <2>1
<1>2. CASE Clock
  <2>1. UNCHANGED <<tick, attempt, job>>
    BY <1>2 DEF Clock, ExpireLease, RetryTime, jobVars, dispatchVars
  <2>2. \A j \in Jobs : outbox'[j].state # "absent" => outbox[j].state # "absent"
    BY <1>0, <1>2 DEF Clock, ExpireLease, RetryTime, jobVars, Intent
  <2> QED BY <2>1, <2>2
<1>3. ASSUME NEW t \in Tasks, WorkerStep(t) \/ KillWorker(t) \/ Clean(t)
      PROVE  /\ UNCHANGED <<tick, attempt, outbox>>
             /\ \A j \in Jobs : Untasked(j) => job'[j].state = job[j].state
  <2>1. UNCHANGED attempt
    BY <1>3 DEF WorkerStep, StartTask, CheckMarker, ReplayMarker, Refuse, Invoke, CreateMarker,
       WriteMarker, CheckPlace, PlaceMarker, FinishTask, KillWorker, Clean
  <2>2. UNCHANGED <<tick, outbox>> /\ t \in DOMAIN accepted
    BY <1>3, WorkerEffects, WorkerStages
  <2>3. UNCHANGED job \/ FinishJob(accepted[t], 1, result[t])
    BY <1>3 DEF WorkerStep, StartTask, CheckMarker, ReplayMarker, Refuse, Invoke, CreateMarker,
       WriteMarker, CheckPlace, PlaceMarker, FinishTask, KillWorker, Clean, storeVars, jobVars
  <2>4. \A j \in Jobs : Untasked(j) => job'[j].state = job[j].state
    BY <1>0, <2>2, <2>3 DEF FinishJob, Untasked, JobRow
  <2> QED BY <2>1, <2>2, <2>4
<1>4. ~\E j \in Jobs : LateTask(j)
  BY DEF LateTask, LateSubmit, SubInv
<1> QED BY <1>1, <1>2, <1>3, <1>4 DEF Next, Acts

\* A new intent is one of a claimed job.
LEMMA IntentClaimed ==
  ASSUME DispatchInv, NEW d \in Clients, Acts(d), NEW j \in Jobs,
         outbox[j].state = "absent", outbox'[j].state # "absent"
  PROVE  Claimed(j)'
<1>1. job \in [Jobs -> JobRow] /\ outbox \in [Jobs -> Intent]
  BY DEF DispatchInv, StoreInv, TypeOK
<1>2. Retry(d) \/ Publish(d) \/ PrepareIntent(d)
  <2>1. ~(StepFails(d) \/ Crash(d))
    BY DEF StepFails, Crash, Kill, Fail, storeVars, jobVars
  <2>2. UNCHANGED outbox => FALSE
    OBVIOUS
  <2> QED BY <2>1, <2>2, ImportEffects, RecoverEffects, SubmissionEffects, FillEffects
          DEF Acts, DaemonStep
<1>3. tick[d].job \in Jobs
  BY <1>2, AtHand DEF Retry, Publish, PrepareIntent, At, AfterPage, Scheduling
<1> PICK k \in Jobs : k = tick[d].job
  BY <1>3
<1>4. ASSUME NEW s, SetOutboxState(k, s) PROVE FALSE
  BY <1>1, <1>4 DEF SetOutboxState
<1>5. PrepareSubmission(k)
  BY <1>2, <1>4 DEF Retry, Publish, PrepareIntent
<1>6. j = k
  BY <1>1, <1>5 DEF PrepareSubmission
<1>7. job'[k].state = "running"
  BY <1>1, <1>5 DEF PrepareSubmission, JobRow
<1> QED BY <1>6, <1>7 DEF Claimed

LEMMA UnsentStep ==
  ASSUME MarkInv, GiveInv, [Next]_vars, NEW d \in Clients, OneStep(d)
  PROVE  \A j \in Jobs : Unsent(j)'
<1> USE DEF Base
<1>0. /\ Base /\ SubInv /\ Clients = {d} /\ RowsMove(d) /\ TasksKept(d) /\ Solo(d)
      /\ [StoreNext]_storeVars
  BY DispatchStep DEF OneStep, SoloInv
<1> TAKE j \in Jobs
<1>1. Unsent(j) /\ RowsOf(d, j) /\ Giving(d)
  BY <1>0 DEF GiveInv, RowsMove
<1>2. ASSUME job'[j].state = "unknown" PROVE Untasked(j)'
  <2>1. Untasked(j)
    <3>1. CASE job[j].state = "unknown"
      BY <1>1, <3>1 DEF Unsent
    <3>2. CASE job[j].state # "unknown"
      <4>1. j = tick[d].job /\ tick[d].pc = "giveup"
        BY <1>1, <1>2, <3>2 DEF RowsOf, Giving
      <4> QED BY <1>0, <4>1 DEF Solo, SubInv, Clear, Chosen
    <3> QED BY <3>1, <3>2
  <2> QED BY <1>0, <1>2, <2>1, UntaskedStays
<1>3. ASSUME Untasked(j)' PROVE attempt'[j].state \in {"none", "planned", "blocked"}
  <2>1. Untasked(j)
    BY <1>0, <1>3 DEF TasksKept, Untasked
  <2>2. attempt[j].state \in {"none", "planned", "blocked"}
    BY <1>1, <2>1 DEF Unsent
  <2>3. CASE Acts(d)
    BY <1>0, <2>1, <2>2, <2>3, AttemptUnsent DEF Solo
  <2>4. CASE ~Acts(d)
    BY <1>0, <2>2, <2>4, Bystander
  <2> QED BY <2>3, <2>4
<1>4. ASSUME outbox'[j].state # "absent" PROVE Claimed(j)'
  <2>1. CASE outbox[j].state # "absent"
    BY <1>0, <1>1, <2>1, ClaimsKept DEF Unsent
  <2>2. CASE outbox[j].state = "absent"
    <3>1. Acts(d)
      BY <1>0, <1>4, <2>2, Bystander
    <3> QED BY <1>0, <1>4, <2>2, <3>1, IntentClaimed
  <2> QED BY <2>1, <2>2
<1> QED BY <1>2, <1>3, <1>4 DEF Unsent

\* A job is lost when its task has ended and no marker is found.
LEMMA LostTo ==
  ASSUME DispatchInv, NEW d \in Clients, Modes(d), Acts(d), tick[d].pc # "lost",
         tick'[d].pc = "lost"
  PROVE  \E j \in Jobs : ~Found(j) /\ j \in tick[d].ended /\ tick[d].pc = "scan"
<1>0. PICK x \in Tick : x = tick[d]
  BY TicksTyped
<1>1. tick[d].pc \in ScanPc
  BY DaemonMoves DEF Acts, Route, Outs, Sees, Scans, Pages, Returns, Takes, Skips, Goes, Resumes,
     Attaches, Sends, Picks, Moves, ScanPc
<1>2. ~Outs(d)
  BY DEF Outs
<1>3. Import(d)
  BY <1>1, <1>2, FailMoves, LeaseMoves, RecoverFrom, SubmissionFrom, FillFrom
     DEF Acts, DaemonStep, ScanPc
<1>4. ~Reconcile(d)
  <2>1. Reconcile(d) => Goto(d, "mark") /\ "mark" \in TickPc
    BY DEF Reconcile, TickPc
  <2> QED BY <2>1, GotoMoves DEF Moves
<1>5. tick[d].pc \in {"scan", "replay"}
  BY <1>1, <1>2, <1>4, ScanWays DEF Acts, Lists, EndedKept, Moves
<1>6. tick[d].pc # "replay"
  <2> SUFFICES ASSUME Replay(d) PROVE FALSE
    BY <1>3, ImportFrom
  <2>1. ~Fail(d, "torn")
    BY <1>2, FailOuts DEF Replay, At
  <2>2. Resume(d, "scan")
    BY <2>1 DEF Replay
  <2>3. tick'[d].pc = "scan"
    <3> DEFINE r == [x EXCEPT !.pc = "scan", !.job = None, !.task = 0, !.mode = "found"]
    <3>1. tick' = [tick EXCEPT ![d] = r]
      BY <1>0, <2>2 DEF Resume
    <3>2. r.pc = "scan"
      BY DEF Tick
    <3> HIDE DEF r
    <3> QED BY <3>1, <3>2, TickIs
  <2> QED BY <2>3
<1>7. ~ListTerminal(d)
  <2> DEFINE list == {j \in Own(d) : job[j].state \in JobTerminal /\ ~job[j].reconciled}
             r == [x EXCEPT !.pc = "reconcile", !.todo = list]
  <2>1. ListTerminal(d) => tick' = [tick EXCEPT ![d] = r]
    BY <1>0 DEF ListTerminal, Look
  <2> HIDE DEF list
  <2>2. r.pc = "reconcile"
    BY DEF Tick
  <2> HIDE DEF r
  <2> QED BY <2>1, <2>2, TickIs
<1>8. PICK j \in Jobs : ScanJob(d, j)
  BY <1>2, <1>3, <1>5, <1>6, <1>7, ImportFrom, FailMoves
<1> DEFINE left == x.todo \ {j}
           ended == x.ended \ {j}
           k == IF Found(j) \/ j \in x.ended THEN j ELSE None
           pc == IF Found(j) THEN "replay" ELSE IF j \in x.ended THEN "lost" ELSE "scan"
           r == [x EXCEPT !.todo = left, !.ended = ended, !.job = k, !.pc = pc]
<1>9. tick' = [tick EXCEPT ![d] = r]
  BY <1>0, <1>8 DEF ScanJob
<1>10. pc = "lost" => ~Found(j) /\ j \in x.ended
  OBVIOUS
<1> HIDE DEF left, ended, k, pc
<1>11. r.pc = pc
  BY DEF Tick
<1> HIDE DEF r
<1> QED BY <1>0, <1>5, <1>6, <1>9, <1>10, <1>11, TickIs

\* The marker of an ended task is found.
LEMMA NotLostStep ==
  ASSUME GiveInv, NEW d \in Clients, OneStep(d), Acts(d)
  PROVE  tick'[d].pc # "lost"
<1> SUFFICES ASSUME tick'[d].pc = "lost" PROVE FALSE
  OBVIOUS
<1>0. DispatchInv /\ Modes(d) /\ Solo(d) /\ RefsTrue /\ Giving(d) /\ d \in Clients
  BY DEF OneStep, Base, SubInv, SoloInv, GiveInv
<1>1. PICK j \in Jobs : ~Found(j) /\ j \in tick[d].ended /\ tick[d].pc = "scan"
  BY <1>0, LostTo DEF Giving
<1> PICK t : t = job[j].task
  OBVIOUS
<1>2. t # 0 /\ tick[d].snap[t] \in Outcome
  BY <1>0, <1>1 DEF Solo, Losing, EndedTask
<1>3. t \in DOMAIN accepted /\ accepted[t] = j
  BY <1>0, <1>2 DEF RefsTrue, Named
<1>4. task[t] \in Outcome
  BY <1>0, <1>1, <1>2, <1>3, TasksAccepted DEF Solo, Sight, After, ScanPc
<1>5. marker[j].final \in Outcome
  BY <1>3, <1>4 DEF GiveInv, EndsMarked
<1> QED BY <1>1, <1>5 DEF Found, Content, Outcome

\* The submission that is about to be given up is one that was never made.
LEMMA GivingStep ==
  ASSUME MarkInv, GiveInv, SubInv', Calm, [Next]_vars, NEW d \in Clients, OneStep(d), SoloInv'
  PROVE  Giving(d)'
<1>0. /\ DispatchInv /\ SubInv /\ Solo(d) /\ Local(d) /\ RowsKept /\ RowsMove(d) /\ TasksKept(d)
      /\ Giving(d) /\ Clear(d) /\ Claims(d) /\ Modes(d) /\ Base /\ Clients = {d}
      /\ RefsTrue
  BY TicksTyped DEF OneStep, Base, SubInv, SoloInv, GiveInv
<1>1. tick[d].pc \in Scheduling => tick[d].job \in Jobs
  BY <1>0 DEF Local, HasJob, Own
<1>a. ASSUME tick[d].pc \in {"authorize", "giveup"} PROVE Untasked(tick[d].job)
  BY <1>0, <1>a DEF Solo, Clear, Chosen
<1>2. CASE ~Acts(d)
  <2>1. UNCHANGED tick
    BY <1>0, <1>2, Bystander
  <2>2. ASSUME tick[d].pc = "giveup" PROVE job'[tick[d].job].state = "running"
    <3> PICK k \in Jobs : k = tick[d].job
      BY <1>1, <2>2 DEF Scheduling
    <3>1. job'[k].state = job[k].state
      BY <1>0, <1>2, <1>a, <2>2, Bystander
    <3> QED BY <1>0, <2>2, <3>1 DEF Giving
  <2> QED BY <1>0, <1>1, <2>1, <2>2 DEF Giving, RowsKept, Scheduling
<1>3. CASE Acts(d)
  <2>1. Route(d)
    BY <1>0, <1>3, DaemonMoves DEF Acts
  <2>2. tick'[d].pc # "lost"
    BY <1>3, NotLostStep
  <2>3. ASSUME Takes(d), tick'[d].pc \in {"giveup", "block"}
        PROVE  /\ outbox'[tick'[d].job].state # "absent"
               /\ tick'[d].pc = "giveup" => job'[tick'[d].job].state = "running"
    <3>1. tick[d].pc = "recover" /\ UNCHANGED <<job, outbox>>
      BY <2>3 DEF Takes, Moves
    <3> PICK k \in Jobs : k = tick'[d].job
      BY <1>0, <2>3, <3>1, AtHand DEF Takes, AfterPage, Own
    <3>2. outbox[k].state # "absent"
      BY <1>0, <2>3, <3>1, AtHand DEF Takes, AfterPage
    <3>3. ASSUME tick'[d].pc = "giveup" PROVE job[k].state = "running"
      <4>1. Clear(d)' /\ Leads(d)'
        BY <3>3 DEF SubInv, SoloInv, Solo
      <4>2. Untasked(k)'
        BY <3>3, <4>1 DEF Clear, Chosen
      <4>3. Untasked(k)
        BY <1>0, <4>2 DEF TasksKept, Untasked
      <4>4. Claimed(k) /\ marker[k] = NoMarker
        BY <3>2, <4>3 DEF GiveInv, Unsent, MarkInv
      <4>5. job[k].state # "unknown"
        BY <2>3, <3>3 DEF Takes, Missing
      <4> QED BY <1>0, <4>4, <4>5, StillRunning
    <3> QED BY <3>1, <3>2, <3>3
  <2>4. ASSUME Goes(d), tick'[d].pc \in {"giveup", "block"}
        PROVE  /\ outbox'[tick'[d].job].state # "absent"
               /\ tick'[d].pc = "giveup" => job'[tick'[d].job].state = "running"
    <3>1. /\ tick'[d].job = tick[d].job
          /\ \/ tick[d].pc = "giveup" /\ tick'[d].pc = "block"
             \/ tick[d].pc = "authorize" /\ tick'[d].pc = "giveup"
      BY <2>4 DEF Goes, Moves
    <3> PICK k \in Jobs : k = tick[d].job
      BY <1>1, <3>1 DEF Scheduling
    <3>2. outbox[k].state # "absent"
      BY <1>0, <3>1 DEF Giving, Claims, Claimed
    <3>3. ASSUME tick[d].pc = "authorize" PROVE job'[k].state = "running"
      BY <1>0, <1>a, <3>3 DEF Solo, Choice, RowsMove, RowsOf
    <3> QED BY <1>0, <3>1, <3>2, <3>3 DEF RowsKept
  <2>5. ASSUME tick'[d].pc \in {"giveup", "block"} PROVE Takes(d) \/ Goes(d)
    BY <2>1, <2>5 DEF Route, Outs, Sees, Scans, Pages, Returns, Skips, Resumes, Attaches, Sends,
       Picks, Moves, ScanPc
  <2>6. ~GiveUpFenced(d)
    BY <1>0 DEF GiveUpFenced, At, Giving
  <2>7. ~BlockRefused(d)
    <3> SUFFICES ASSUME BlockRefused(d) PROVE FALSE
      OBVIOUS
    <3>1. tick[d].pc = "block"
      BY DEF BlockRefused, At
    <3> PICK k \in Jobs : k = tick[d].job
      BY <1>1, <3>1 DEF Scheduling
    <3>2. job[k].state = "unknown" /\ outbox[k].state # "absent"
      BY <1>0, <3>1 DEF Solo, Choice, Giving
    <3>3. attempt[k].state \in {"none", "planned", "blocked"} /\ attempt[k].state # "none"
      BY <1>0, <3>2 DEF GiveInv, Unsent, RefsTrue
    <3> QED BY <3>3 DEF BlockRefused, Blockable
  <2>8. tick'[d].why \notin {"ended", "blocked"}
    BY <1>0, <1>3, <2>6, <2>7, WhyStep DEF WhyKept, Giving
  <2> QED BY <2>2, <2>3, <2>4, <2>5, <2>8 DEF Giving
<1> QED BY <1>2, <1>3

LEMMA GiveStep ==
  ASSUME OneDaemon, Calm, "die" \notin Faults,
         Base, SubInv, SubInv', MarkInv, SoloInv, SoloInv', GiveInv, [Next]_vars
  PROVE  GiveInv'
<1> PICK d : Clients = {d}
  BY DEF OneDaemon
<1>1. d \in Clients
  OBVIOUS
<1>2. OneStep(d)
  BY <1>1, OneStepTaken
<1>3. \A t \in DOMAIN accepted' : EndsMarked(t)'
  BY EndsStep
<1>4. \A j \in Jobs : Unsent(j)'
  BY <1>1, <1>2, UnsentStep
<1>5. Giving(d)'
  BY <1>1, <1>2, GivingStep
<1> QED BY <1>3, <1>4, <1>5 DEF GiveInv

LEMMA GiveInit ==
  ASSUME Init PROVE GiveInv
<1>1. DOMAIN accepted = {}
  BY DEF Init, StoreInit
<1>2. \A j \in Jobs : /\ job[j].state = "absent" /\ outbox[j].state = "absent"
                     /\ attempt[j].state = "none"
  BY DEF Init, StoreInit, AbsentJob, NoIntent, NoAttempt
<1>3. \A d \in Clients : tick[d].pc = "idle" /\ tick[d].why = ""
  BY DEF Init, NoTick
<1> QED BY <1>1, <1>2, <1>3 DEF GiveInv, Unsent, Giving

(***************************************************************************)
(* A submission that a daemon gives up is settled, of a host with one      *)
(* daemon whose workers live to write their markers: the job it makes      *)
(* unknown was still running, and the Attempt it blocks had not started,   *)
(* so neither FinishJob nor Adapter.Block refuses it, however often the    *)
(* daemon failed or was killed between the two (blockSubmission).  A       *)
(* worker that dies can break it: its lost job has an Attempt that ended.  *)
(***************************************************************************)
THEOREM GivingUpSettles ==
  ASSUME Calm, OneDaemon, "die" \notin Faults PROVE Spec => []GiveUpSettles
<1>1. OwnNames
  BY DEF OwnNames, OneDaemon
<1>2. Base /\ SubInv /\ SubInv' /\ MarkInv /\ SoloInv /\ SoloInv' /\ GiveInv /\ [Next]_vars
        => GiveInv'
  BY GiveStep
<1>3. Base /\ SubInv /\ MarkInv /\ [Next]_vars => MarkInv'
  BY MarkStep
<1>4. Base /\ SubInv /\ SoloInv /\ [Next]_vars => SoloInv'
  BY SoloStep
<1>5. GiveInv => GiveUpSettles
  BY DEF GiveInv, Giving, GiveUpSettles
<1>6. (Spec => []Base) /\ (Spec => []SubInv)
  BY <1>1, BaseHolds, SubInvariant
<1>7. (Init => MarkInv) /\ (Init => SoloInv) /\ (Init => GiveInv)
  BY MarkInit, SoloInit, GiveInit
<1> QED BY <1>2, <1>3, <1>4, <1>5, <1>6, <1>7, PTL DEF Spec

=============================================================================
