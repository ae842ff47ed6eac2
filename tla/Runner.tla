------------------------------- MODULE Runner -------------------------------
(***************************************************************************)
(* One job's worker and the evidence it leaves: the result file the        *)
(* workload writes, the terminal marker, and the job's row.                *)
(*                                                                         *)
(* Runner.Run prepares an empty result file, checks the checkouts, runs    *)
(* the workload while it watches the file, judges what it left, freezes a  *)
(* sanitized copy in a new file, and only then publishes the marker that   *)
(* names the copy's digest.  The row follows the marker.  The worker can   *)
(* be killed at any step and started again; the daemon reads the evidence  *)
(* at any time, and promotes a complete temporary marker.                  *)
(*                                                                         *)
(* A text stands for its digest.  Dispatch has the fencing of the claim,   *)
(* so here one worker runs at a time.                                      *)
(***************************************************************************)
EXTENDS Naturals, Sequences

CONSTANTS
    Payloads,   \* the jobs
    Renames,    \* a descendant may put a new file at EXP_RESULT_PATH after the
                \* freeze (FALSE: it writes only to a file it has open)
    MaxRuns     \* how often the worker is started

VARIABLES
    payload,    \* the decoded job
    turn,       \* the step of the worker and of the daemon
    row,        \* the state of the job's row
    output,     \* the result file: [file, text, sealed]; file 0 when there is none
    mark,       \* the terminal marker and its temporary file
    load,       \* whether the workload runs
    fds,        \* the files processes that outlived the workload's group have open
    self,       \* what the worker remembers
    touched,    \* what the workload did to the checkouts, the data and its outputs
    signalled,  \* the worker's context is cancelled
    starts      \* how often the worker was started

runnerVars == <<payload, turn, row, output, mark, load, fds, self, touched,
                signalled, starts>>

Readers == {"worker", "daemon"}
Files == 1 .. 4
Writings == {"good", "secret", "broken", "huge"}    \* what a workload may write
States == {"succeeded", "failed", "cancelled"}

NoTerminal == [state |-> "none", digest |-> "empty"]
Fresh == CHOOSE n \in Files : n \notin fds \cup {output.file}

To(r, stage) == turn' = [turn EXCEPT ![r] = stage]
-----------------------------------------------------------------------------
\* decodeWorkload: a formal payload is v2, names its clean Sources in strict
\* order, and only the execution Source is writable.
Formal(p) == p.sources # <<>>
FormalValid(p) ==
    /\ p.schema = "v2"
    /\ \A i, k \in DOMAIN p.sources :
          i < k => p.sources[i].id < p.sources[k].id
    /\ \E i \in DOMAIN p.sources : p.sources[i].id = p.execution
    /\ \A i \in DOMAIN p.sources :
          /\ p.sources[i].clean
          /\ p.sources[i].readOnly <=> p.sources[i].id # p.execution

Decodes(p) ==
    /\ p.schema \in {"v1", "v2", "v3"}
    /\ p.inputs <=> p.schema = "v3"
    /\ Formal(p) => FormalValid(p)

Checkouts(p) ==
    IF Formal(p) THEN {p.sources[i].id : i \in DOMAIN p.sources} ELSE {p.execution}
ReadOnlySources(p) == {p.sources[i].id : i \in {k \in DOMAIN p.sources : p.sources[k].readOnly}}

\* verifyWorkloadGit: each checkout is as its snapshot says.
SnapshotUnchanged(p) == p.execution \notin touched.sources
FormalUnchanged(p) == \A i \in DOMAIN p.sources : p.sources[i].id \notin touched.sources
Unchanged(p) == IF Formal(p) THEN FormalUnchanged(p) ELSE SnapshotUnchanged(p)

\* What the checks after the run look at: the read-only Sources and the input data.
SourcesKept(p) == touched.sources \cap ReadOnlySources(p) = {}
InputsKept(p) == p.inputs => ~touched.inputs
KeptApart(p) == SourcesKept(p) /\ InputsKept(p)
-----------------------------------------------------------------------------
(* The evidence, as Run and LoadTerminal read it. *)

Published == mark.final.state # "none"

\* readDurableResult: the file still has the digest the marker names.
Durable(terminal) == output.file # 0 /\ output.text = terminal.digest

\* readOrPromoteTerminal.  A torn temporary file, or one whose result is not
\* the frozen one, is an error for the worker as for the daemon.
LookAt(r) ==
    /\ turn[r] = "look"
    /\ \/ Published /\ Durable(mark.final) /\ To(r, "found")
       \/ Published /\ ~Durable(mark.final) /\ To(r, "out")
       \/ ~Published /\ mark.temp.state \in States /\ Durable(mark.temp) /\ To(r, "holding")
       \/ /\ ~Published
          /\ mark.temp.state # "none"
          /\ mark.temp.state \in States => ~Durable(mark.temp)
          /\ To(r, "out")
       \/ /\ ~Published
          /\ mark.temp.state = "none"
          /\ To(r, IF r = "worker" /\ row = "running" THEN "prepare" ELSE "out")
    /\ UNCHANGED <<payload, row, output, mark, load, fds, self, touched, signalled, starts>>

Promote(r) ==
    /\ turn[r] = "holding"
    /\ IF mark.temp.state = "none"
       THEN UNCHANGED mark /\ To(r, IF Published THEN "found" ELSE "out")
       ELSE mark' = [final |-> mark.temp, temp |-> NoTerminal] /\ To(r, "found")
    /\ UNCHANGED <<payload, row, output, load, fds, self, touched, signalled, starts>>

\* FinishJob with the marker's state.  A row that is settled is left alone; a
\* cancelled context leaves the row to a later reader.
Settle(r) ==
    /\ turn[r] = "found"
    /\ row' = IF row = "running" /\ ~(r = "worker" /\ signalled)
              THEN mark.final.state ELSE row
    /\ To(r, "out")
    /\ UNCHANGED <<payload, output, mark, load, fds, self, touched, signalled, starts>>

Observe ==
    /\ turn["daemon"] = "out" /\ To("daemon", "look")
    /\ UNCHANGED <<payload, row, output, mark, load, fds, self, touched, signalled, starts>>
-----------------------------------------------------------------------------
(* The worker before the workload runs. *)

Start ==
    /\ turn["worker"] = "out"
    /\ starts < MaxRuns
    /\ Decodes(payload)
    /\ To("worker", "look")
    /\ starts' = starts + 1
    /\ signalled' = FALSE
    /\ UNCHANGED <<payload, row, output, mark, load, fds, self, touched>>

\* The process context is cancelled: a signal to the worker.
Signal ==
    /\ turn["worker"] # "out"
    /\ ~signalled
    /\ signalled' = TRUE
    /\ UNCHANGED <<payload, turn, row, output, mark, load, fds, self, touched, starts>>

NewFile(text, sealed) == output' = [file |-> Fresh, text |-> text, sealed |-> sealed]
Remember(what) == self' = [f \in DOMAIN self |-> IF f \in DOMAIN what THEN what[f] ELSE self[f]]

\* prepareResultFile: whatever is at the name is removed.
PrepareResult ==
    /\ turn["worker"] = "prepare"
    /\ NewFile("empty", FALSE)
    /\ self' = [file |-> Fresh, cause |-> "none", state |-> "none", text |-> "empty"]
    /\ To("worker", "verify")
    /\ UNCHANGED <<payload, row, mark, load, fds, touched, signalled, starts>>

\* finishBeforeInvocation: the envelope, the timeout, the preflight, the
\* checkouts or the environment do not allow the run.
RefuseInvocation ==
    /\ turn["worker"] = "verify"
    /\ Remember([state |-> "failed", cause |-> "refused"])
    /\ To("worker", "freeze")
    /\ UNCHANGED <<payload, row, output, mark, load, fds, touched, signalled, starts>>

InvokeWorkload ==
    /\ turn["worker"] = "verify"
    /\ Unchanged(payload) /\ ~signalled
    /\ load' = TRUE
    /\ To("worker", "wait")
    /\ UNCHANGED <<payload, row, output, mark, fds, self, touched, signalled, starts>>
-----------------------------------------------------------------------------
(* The workload, and the descendants that leave its process group. *)

WriteOutput ==
    /\ load
    /\ output.file # 0
    /\ \E text \in Writings : output' = [output EXCEPT !.text = text]
    /\ UNCHANGED <<payload, turn, row, mark, load, fds, self, touched, signalled, starts>>

\* The workload removes the result file or renames another over it.
ReplaceOutput ==
    /\ load
    /\ \E text \in Writings, file \in {0, Fresh} :
          output' = [file |-> file, text |-> text, sealed |-> FALSE]
    /\ UNCHANGED <<payload, turn, row, mark, load, fds, self, touched, signalled, starts>>

Touch ==
    /\ load
    /\ \/ \E id \in Checkouts(payload) : touched' = [touched EXCEPT !.sources = @ \cup {id}]
       \/ payload.inputs /\ touched' = [touched EXCEPT !.inputs = TRUE]
       \/ payload.outputs /\ touched' = [touched EXCEPT !.outputs = TRUE]
    /\ UNCHANGED <<payload, turn, row, output, mark, load, fds, self, signalled, starts>>

\* A descendant with the result file open leaves the process group, which is
\* killed once the workload has ended.
Escape ==
    /\ load
    /\ output.file \notin {0} \cup fds
    /\ fds = {}
    /\ fds' = {output.file}
    /\ UNCHANGED <<payload, turn, row, output, mark, load, self, touched, signalled, starts>>

Linger ==
    /\ ~load
    /\ \E text \in Writings :
          \/ output.file \in fds /\ output' = [output EXCEPT !.text = text]
          \/ Renames /\ fds # {} /\ output' = [file |-> Fresh, text |-> text, sealed |-> FALSE]
    /\ UNCHANGED <<payload, turn, row, mark, load, fds, self, touched, signalled, starts>>
-----------------------------------------------------------------------------
(* The worker after the workload has run. *)

\* validateLiveResultFile, and the monitor's test while the workload runs.
LiveSound == output.file = self.file /\ output.text # "huge"

\* OSInvoker.Invoke returns: the workload ended, ran out of time, was
\* cancelled by the caller, or was stopped by the monitor.
End ==
    /\ turn["worker"] = "wait"
    /\ \E cause \in {"exit", "crash", "timeout", "cancel", "alarm"} :
          /\ cause = "cancel" => signalled
          /\ cause = "alarm" => ~LiveSound
          /\ Remember([cause |-> cause])
    /\ load' = FALSE
    /\ To("worker", "judge")
    /\ UNCHANGED <<payload, row, output, mark, fds, touched, signalled, starts>>

Verdict(cause) ==
    CASE cause = "exit" -> "succeeded" [] cause = "cancel" -> "cancelled" [] OTHER -> "failed"

\* A file that is not the one prepared, or is too long, is replaced by an
\* empty one (resetResultFile) and the run has failed.
Judge ==
    /\ turn["worker"] = "judge"
    /\ IF LiveSound /\ self.cause # "alarm"
       THEN UNCHANGED output /\ Remember([state |-> Verdict(self.cause)])
       ELSE NewFile("empty", FALSE) /\ Remember([state |-> "failed", file |-> Fresh])
    /\ To("worker", "recheck")
    /\ UNCHANGED <<payload, row, mark, load, fds, touched, signalled, starts>>

\* verifyReadOnlySourceWorkload and exploration.VerifyInputs; with a cancelled
\* context they fail.
Recheck ==
    /\ turn["worker"] = "recheck"
    /\ IF /\ self.state = "succeeded"
          /\ \/ ~KeptApart(payload)
             \/ signalled /\ (ReadOnlySources(payload) # {} \/ payload.inputs)
       THEN Remember([state |-> "failed"]) ELSE UNCHANGED self
    /\ To("worker", "read")
    /\ UNCHANGED <<payload, row, output, mark, load, fds, touched, signalled, starts>>

\* sanitizeWorkloadResult: secrets in values are replaced.
Sanitized(text) == IF text = "secret" THEN "redacted" ELSE text

\* The result is read within its bound; one that is unreadable, replaced or not
\* publishable fails the run and is frozen as an empty file.
ReadResult ==
    /\ turn["worker"] = "read"
    /\ IF output.file # self.file \/ output.text \in {"huge", "broken"}
       THEN Remember([state |-> "failed", text |-> "empty"])
       ELSE Remember([text |-> Sanitized(output.text)])
    /\ To("worker", "freeze")
    /\ UNCHANGED <<payload, row, output, mark, load, fds, touched, signalled, starts>>

\* Faulty variant: the live file itself is made read-only.
FreezeInPlace ==
    /\ turn["worker"] = "freeze"
    /\ output' = [output EXCEPT !.text = self.text, !.sealed = TRUE]
    /\ To("worker", "outputs")
    /\ UNCHANGED <<payload, row, mark, load, fds, self, touched, signalled, starts>>

\* freezeResultFile: what was read goes to a new file renamed over the name.
Freeze ==
    /\ turn["worker"] = "freeze"
    /\ NewFile(self.text, TRUE)
    /\ To("worker", "outputs")
    /\ UNCHANGED <<payload, row, mark, load, fds, self, touched, signalled, starts>>

\* verifyExpectedOutputs.
HashOutputs ==
    /\ turn["worker"] = "outputs"
    /\ IF self.state = "succeeded" /\ payload.outputs /\ (signalled \/ ~touched.outputs)
       THEN Remember([state |-> "failed"]) ELSE UNCHANGED self
    /\ To("worker", "create")
    /\ UNCHANGED <<payload, row, output, mark, load, fds, touched, signalled, starts>>

(* writeTerminal: create, fill and check are three steps, and a reader may    *)
(* promote the filled file before the worker renames it.                      *)
CreateTemporary ==
    /\ turn["worker"] = "create"
    /\ mark.temp.state = "none"
    /\ mark' = [mark EXCEPT !.temp = [state |-> "torn", digest |-> "empty"]]
    /\ To("worker", "fill")
    /\ UNCHANGED <<payload, row, output, load, fds, self, touched, signalled, starts>>

FillTemporary ==
    /\ turn["worker"] = "fill"
    /\ mark' = [mark EXCEPT !.temp = [state |-> self.state, digest |-> self.text]]
    /\ To("worker", "check")
    /\ UNCHANGED <<payload, row, output, load, fds, self, touched, signalled, starts>>

\* A marker that appeared meanwhile is an error; the temporary file is removed.
CheckPlaced ==
    /\ turn["worker"] = "check"
    /\ IF Published THEN mark' = [mark EXCEPT !.temp = NoTerminal] /\ To("worker", "out")
                    ELSE UNCHANGED mark /\ To("worker", "place")
    /\ UNCHANGED <<payload, row, output, load, fds, self, touched, signalled, starts>>

Place ==
    /\ turn["worker"] = "place"
    /\ IF mark.temp.state = "none" THEN UNCHANGED mark /\ To("worker", "out")
       ELSE mark' = [final |-> mark.temp, temp |-> NoTerminal] /\ To("worker", "finish")
    /\ UNCHANGED <<payload, row, output, load, fds, self, touched, signalled, starts>>

\* FinishJob is called with the run's context, except after a refusal.
FinishRow ==
    /\ turn["worker"] = "finish"
    /\ row' = IF row = "running" /\ (~signalled \/ self.cause = "refused")
              THEN self.state ELSE row
    /\ To("worker", "out")
    /\ UNCHANGED <<payload, output, mark, load, fds, self, touched, signalled, starts>>

\* The worker is killed.  A workload it ran goes on with the file it has open.
WorkerKilled ==
    /\ turn["worker"] # "out"
    /\ To("worker", "out")
    /\ load' = FALSE
    /\ fds' = IF load /\ output.file # 0 /\ fds = {} THEN {output.file} ELSE fds
    /\ UNCHANGED <<payload, row, output, mark, self, touched, signalled, starts>>
-----------------------------------------------------------------------------
RunnerInit ==
    /\ payload \in Payloads
    /\ turn = [r \in Readers |-> "out"]
    /\ row = "running"
    /\ output = [file |-> 0, text |-> "empty", sealed |-> FALSE]
    /\ mark = [final |-> NoTerminal, temp |-> NoTerminal]
    /\ load = FALSE
    /\ fds = {}
    /\ self = [file |-> 0, cause |-> "none", state |-> "none", text |-> "empty"]
    /\ touched = [sources |-> {}, inputs |-> FALSE, outputs |-> FALSE]
    /\ signalled = FALSE
    /\ starts = 0

RunnerNext ==
    \/ \E r \in Readers : LookAt(r) \/ Promote(r) \/ Settle(r)
    \/ Observe \/ Start \/ Signal \/ PrepareResult \/ RefuseInvocation \/ InvokeWorkload
    \/ WriteOutput \/ ReplaceOutput \/ Touch \/ Escape \/ Linger
    \/ End \/ Judge \/ Recheck \/ ReadResult \/ Freeze \/ HashOutputs
    \/ CreateTemporary \/ FillTemporary \/ CheckPlaced \/ Place \/ FinishRow
    \/ WorkerKilled

RunnerSpec == RunnerInit /\ [][RunnerNext]_runnerVars

\* What a published success claims.
Earned ==
    /\ self.cause = "exit"
    /\ KeptApart(payload)
    /\ payload.outputs => touched.outputs

\* The marker in place names the result that is there; the result is safe to
\* publish, a success is one the workload and the checks earned, and the row
\* says what the marker says.
Evidence ==
    /\ Published => /\ Durable(mark.final)
                    /\ output.text \in {"empty", "good", "redacted"}
                    /\ mark.final.state = "succeeded" => Earned
    /\ row # "running" => row = mark.final.state

EvidenceStep == Evidence' /\ (Published => mark'.final = mark.final)

\* Every step keeps the evidence, and a marker in place is never changed,
\* whatever a descendant of the workload still has open (runner.go: "publishes a
\* durable terminal marker before updating the operational database").
EvidenceHolds == [][EvidenceStep]_runnerVars

=============================================================================
