--------------------------- MODULE EvidenceProofs ---------------------------
(***************************************************************************)
(* What a finished run says of itself stays true.                          *)
(*                                                                         *)
(* Runner: a terminal marker tells the truth about the result it names,    *)
(* for any jobs and any number of starts, kills and observers, as long as  *)
(* nobody renames a file over the frozen result.  The marker a reader may  *)
(* find, in place or in its temporary file (Kept), is backed from the      *)
(* moment it is filled on: the result file is then one that nobody has     *)
(* open, the workload is over, and a success was earned.  Until then the   *)
(* worker is at a step (Before) at which no marker exists, and what it     *)
(* remembers is what the checks so far have shown.                         *)
(*                                                                         *)
(* Archive: a manifest that says it is saved lists files that can be had.  *)
(* Only the holder of the receipt's lock copies, uploads and writes the    *)
(* receipt, and a saved receipt is final; a command that has read the      *)
(* revision the Attempt still has knows whether it is saved, and has its   *)
(* descriptions (Read).                                                    *)
(***************************************************************************)
EXTENDS Runner, Archive, TLAPS

-----------------------------------------------------------------------------
(* Types.                                                                  *)

\* The steps of the worker at which it has published nothing.
Before == {"prepare", "verify", "wait", "judge", "recheck", "read", "freeze",
           "outputs", "create"}
Frozen == {"outputs", "create", "fill"}
Safe == {"empty", "good", "redacted"}
Texts == Writings \cup Safe
Terminals == [state : States \cup {"none", "torn"}, digest : Texts]

RunnerTypes ==
    /\ turn \in [Readers -> Before \cup {"out", "look", "found", "holding", "fill",
                                         "check", "place", "finish"}]
    /\ turn["daemon"] \in {"out", "look", "found", "holding"}
    /\ output \in [file : 0 .. 4, text : Texts, sealed : BOOLEAN]
    /\ \E n \in Files : fds \subseteq {n}
    /\ mark \in [final : Terminals, temp : Terminals]
    /\ row \in States \cup {"running"}
    /\ self \in [file : 0 .. 4, text : Texts, state : States \cup {"none"},
                 cause : {"none", "refused", "exit", "crash", "timeout", "cancel", "alarm"}]

-----------------------------------------------------------------------------
(* The inductive invariant.                                                *)

\* The marker that is in place or that a reader may put there.
Filled == Published \/ mark.temp.state \in States
Kept == IF Published THEN mark.final ELSE mark.temp

\* What the worker is about to publish, or has.
Mine == [state |-> self.state, digest |-> self.text]

\* Who may write the result file is gone.
Shut == ~load /\ output.file # 0 /\ output.file \notin fds

OutputsMade == payload.outputs => touched.outputs
ApartKept == KeptApart(payload)

\* Where the marker is, for each step of the worker and of the daemon.
MarkInv ==
    /\ mark.final.state # "torn"
    /\ mark.temp.state = "none" => mark.temp = NoTerminal
    /\ Published => mark.temp = NoTerminal
    /\ turn["worker"] \in Before => ~Published /\ mark.temp = NoTerminal
    /\ turn["worker"] = "fill" => ~Published /\ mark.temp.state = "torn"
    /\ turn["worker"] \in {"check", "place"} => Filled /\ Kept = Mine
    /\ turn["worker"] = "finish" => Published /\ Kept = Mine
    /\ \A r \in Readers : /\ turn[r] = "holding" => Filled
                          /\ turn[r] = "found" => Published
    /\ row # "running" => Published /\ row = mark.final.state

\* A marker that is filled is backed.
Backed ==
    Filled => /\ Shut /\ Durable(Kept) /\ output.text \in Safe
              /\ Kept.state = "succeeded" => self.cause = "exit" /\ ApartKept /\ OutputsMade

\* What the worker knows at each step.
WorkInv ==
    /\ load => turn["worker"] = "wait"
    /\ turn["worker"] \in {"recheck", "read", "freeze"} \cup Frozen => self.state \in States
    /\ turn["worker"] \in {"freeze"} \cup Frozen => self.text \in Safe
    /\ turn["worker"] = "verify" => self.text = "empty"
    /\ turn["worker"] \in Frozen => Shut /\ output.text = self.text
    /\ self.state = "succeeded" =>
        /\ turn["worker"] \in {"recheck", "read", "freeze"} \cup Frozen => self.cause = "exit"
        /\ turn["worker"] \in {"read", "freeze"} \cup Frozen => ApartKept
        /\ turn["worker"] \in {"create", "fill"} => OutputsMade

RunnerInv == RunnerTypes /\ MarkInv /\ Backed /\ WorkInv

LEMMA EvidenceOf == RunnerInv => Evidence
BY DEF RunnerInv, MarkInv, Backed, Filled, Kept, Shut, Durable, ApartKept,
       OutputsMade, Safe, Evidence, Earned

LEMMA SameChecks ==
  ASSUME UNCHANGED <<payload, touched>>
  PROVE  (ApartKept' <=> ApartKept) /\ (OutputsMade' <=> OutputsMade)
BY DEF ApartKept, OutputsMade, KeptApart, SourcesKept, InputsKept, ReadOnlySources

LEMMA FreshFile ==
  ASSUME RunnerTypes
  PROVE  /\ Fresh \in 0 .. 4 /\ Fresh # 0
         /\ Fresh \notin fds /\ Fresh # output.file
<1>1. \E n \in Files : n \notin fds \cup {output.file}
  BY DEF RunnerTypes, Files
<1> QED BY <1>1 DEF Fresh, Files

LEMMA Remembered ==
  ASSUME RunnerTypes, NEW what, Remember(what),
         DOMAIN what \subseteq {"file", "text", "state", "cause"}
  PROVE  /\ DOMAIN self' = {"file", "text", "state", "cause"}
         /\ self' = [f \in {"file", "text", "state", "cause"} |-> self'[f]]
         /\ \A f \in {"file", "text", "state", "cause"} :
                self'[f] = IF f \in DOMAIN what THEN what[f] ELSE self[f]
BY DEF RunnerTypes, Remember

LEMMA RunnerInitInv == RunnerInit => RunnerInv
<1> SUFFICES ASSUME RunnerInit PROVE RunnerInv
  OBVIOUS
<1> USE DEF RunnerInit
<1>1. RunnerTypes
  BY DEF RunnerTypes, Readers, Texts, Safe, Writings, Files, NoTerminal, Terminals, States
<1>2. MarkInv /\ Backed /\ WorkInv
  BY DEF MarkInv, Backed, WorkInv, Filled, Published, NoTerminal, Readers, Before, Frozen, States
<1> QED BY <1>1, <1>2 DEF RunnerInv


-----------------------------------------------------------------------------
(* Each step keeps the invariant, and a marker that is in place.           *)

FinalKept == Published => mark'.final = mark.final
Good == RunnerInv' /\ FinalKept

(* A step of a reader, or one that only moves the worker between steps at  *)
(* which nothing is known.                                                 *)
LEMMA ReadersStep ==
  ASSUME RunnerInv, NEW r \in Readers, LookAt(r) \/ Settle(r)
  PROVE  Good
<1> USE DEF RunnerInv, Before, Frozen
<1>0. UNCHANGED <<payload, output, mark, load, fds, self, touched>>
  BY DEF LookAt, Settle
<1>1. \E s \in {"found", "out", "holding", "prepare"} :
          /\ turn' = [turn EXCEPT ![r] = s]
          /\ s = "prepare" => r = "worker"
  BY DEF LookAt, Settle, To
<1>2. RunnerTypes'
  BY <1>0, <1>1 DEF RunnerTypes, Readers, LookAt, Settle, MarkInv, States, Terminals, Published
<1>3. MarkInv'
  <2>1. CASE LookAt(r)
    BY <1>0, <2>1 DEF MarkInv, LookAt, To, Filled, Kept, Published, Mine, RunnerTypes, Readers
  <2>2. CASE Settle(r)
    BY <1>0, <2>2 DEF MarkInv, Settle, To, Filled, Kept, Published, Mine, RunnerTypes, Readers
  <2> QED BY <2>1, <2>2
<1>4. Backed'
  BY <1>0, SameChecks DEF Backed, Filled, Kept, Published, Shut, Durable
<1>5. WorkInv'
  BY <1>0, <1>1, SameChecks DEF WorkInv, MarkInv, RunnerTypes, Readers, Shut, LookAt, Settle, To
<1> QED BY <1>0, <1>2, <1>3, <1>4, <1>5 DEF Good, FinalKept

LEMMA PromoteStep ==
  ASSUME RunnerInv, NEW r \in Readers, Promote(r)
  PROVE  Good
<1> USE DEF RunnerInv, Before, Frozen
<1>0. UNCHANGED <<payload, row, output, load, fds, self, touched>>
  BY DEF Promote
<1>1. /\ turn[r] = "holding" /\ Filled
      /\ r = "worker" => turn["worker"] = "holding"
  BY DEF Promote, MarkInv
<1>2. CASE Published
  <2>1. mark' = mark /\ turn' = [turn EXCEPT ![r] = "found"]
    BY <1>2 DEF Promote, MarkInv, NoTerminal, To
  <2>2. RunnerTypes'
    BY <1>0, <2>1 DEF RunnerTypes, Readers
  <2>3. MarkInv'
    BY <1>0, <1>2, <2>1 DEF MarkInv, Filled, Kept, Published, Mine, RunnerTypes, Readers
  <2>4. Backed'
    BY <1>0, <2>1, SameChecks DEF Backed, Filled, Kept, Published, Shut, Durable
  <2>5. WorkInv'
    BY <1>0, <1>1, <2>1, SameChecks DEF WorkInv, RunnerTypes, Readers, Shut
  <2> QED BY <2>1, <2>2, <2>3, <2>4, <2>5 DEF Good, FinalKept
<1>3. CASE ~Published
  <2>1. mark.temp.state \in States
    BY <1>1, <1>3 DEF Filled
  <2>2. /\ mark' = [final |-> mark.temp, temp |-> NoTerminal]
        /\ turn' = [turn EXCEPT ![r] = "found"]
    BY <2>1 DEF Promote, To, States
  <2>3. mark'.final = mark.temp /\ mark'.temp = NoTerminal
    BY <2>2
  <2>4. Kept' = Kept /\ Filled' /\ Filled /\ Published'
    BY <1>3, <2>1, <2>3 DEF Kept, Published, Filled, States
  <2>5. RunnerTypes'
    BY <1>0, <2>2, <2>3 DEF RunnerTypes, Readers, NoTerminal, Terminals, Texts, Safe
  <2>6. MarkInv'
    BY <1>0, <1>3, <2>1, <2>2, <2>3, <2>4
       DEF MarkInv, Mine, RunnerTypes, Readers, States, NoTerminal, Published
  <2>7. Backed'
    BY <1>0, <2>4, SameChecks DEF Backed, Shut, Durable
  <2>8. WorkInv'
    BY <1>0, <1>1, <2>2, SameChecks DEF WorkInv, RunnerTypes, Readers, Shut
  <2> QED BY <1>3, <2>5, <2>6, <2>7, <2>8 DEF Good, FinalKept
<1> QED BY <1>2, <1>3

LEMMA OutsideStep ==
  ASSUME RunnerInv, Observe \/ Start \/ Signal
  PROVE  Good
<1> USE DEF RunnerInv, Before, Frozen
<1>0. UNCHANGED <<payload, row, output, mark, load, fds, self, touched>>
  BY DEF Observe, Start, Signal
<1>1. \/ turn' = turn
      \/ \E r \in Readers : turn[r] = "out" /\ turn' = [turn EXCEPT ![r] = "look"]
  BY DEF Observe, Start, Signal, To, Readers
<1>2. RunnerTypes'
  BY <1>0, <1>1 DEF RunnerTypes, Readers
<1>3. MarkInv'
  BY <1>0, <1>1 DEF MarkInv, Filled, Kept, Published, Mine, RunnerTypes, Readers
<1>4. Backed'
  BY <1>0, SameChecks DEF Backed, Filled, Kept, Published, Shut, Durable
<1>5. WorkInv'
  BY <1>0, <1>1, SameChecks DEF WorkInv, RunnerTypes, Readers, Shut
<1> QED BY <1>0, <1>2, <1>3, <1>4, <1>5 DEF Good, FinalKept

(* Steps of the worker before there is a marker: the next step is known,   *)
(* and no reader holds or has found anything.                              *)
Ahead(s) ==
    /\ UNCHANGED <<row, mark>>
    /\ turn["worker"] \in Before
    /\ turn' = [turn EXCEPT !["worker"] = s]
    /\ s \in Before

LEMMA AheadMark ==
  ASSUME RunnerInv, NEW s, Ahead(s)
  PROVE  MarkInv' /\ Backed' /\ FinalKept
         /\ turn'["worker"] = s
         /\ turn' \in [Readers -> Before \cup {"out", "look", "found", "holding", "fill",
                                         "check", "place", "finish"}]
         /\ turn'["daemon"] = turn["daemon"]
<1> USE DEF RunnerInv, Ahead
<1>1. turn'["worker"] = s /\ turn'["daemon"] = turn["daemon"]
      /\ turn' \in [Readers -> Before \cup {"out", "look", "found", "holding", "fill",
                                         "check", "place", "finish"}]
  BY DEF RunnerTypes, Readers
<1>2. ~Published /\ mark.temp = NoTerminal /\ ~Filled
  BY DEF MarkInv, Filled, NoTerminal, States
<1>3. ~Published' /\ ~Filled'
  BY <1>2 DEF Filled, Published
<1>4. MarkInv'
  BY <1>1, <1>2, <1>3 DEF MarkInv, Before, Readers, RunnerTypes
<1> QED BY <1>1, <1>2, <1>3, <1>4 DEF Backed, FinalKept


LEMMA PrepareStep ==
  ASSUME RunnerInv, PrepareResult PROVE Good
<1> USE DEF RunnerInv, PrepareResult
<1>1. Ahead("verify")
  BY DEF Ahead, To, Before
<1>2. Fresh \in 0 .. 4 /\ Fresh # 0 /\ Fresh \notin fds
  BY FreshFile
<1>3. /\ output' = [file |-> Fresh, text |-> "empty", sealed |-> FALSE]
      /\ self' = [file |-> Fresh, cause |-> "none", state |-> "none", text |-> "empty"]
  BY DEF NewFile
<1> HIDE DEF PrepareResult
<1>4. "empty" \in Texts
  BY DEF Texts, Safe
<1>5. output' \in [file : 0 .. 4, text : Texts, sealed : BOOLEAN]
  BY <1>2, <1>3, <1>4
<1>6. self' \in [file : 0 .. 4, text : Texts, state : States \cup {"none"},
                cause : {"none", "refused", "exit", "crash", "timeout", "cancel", "alarm"}]
  BY <1>2, <1>3, <1>4
<1>7. RunnerTypes'
  BY <1>1, <1>5, <1>6, AheadMark DEF RunnerTypes, Ahead, PrepareResult
<1>8. WorkInv'
  BY <1>1, <1>3, AheadMark DEF WorkInv, Frozen, PrepareResult
<1> QED BY <1>1, <1>7, <1>8, AheadMark DEF Good

LEMMA RefuseStep ==
  ASSUME RunnerInv, RefuseInvocation PROVE Good
<1> USE DEF RunnerInv, RefuseInvocation
<1>1. Ahead("freeze")
  BY DEF Ahead, To, Before
<1>2. /\ self' = [f \in {"file", "text", "state", "cause"} |-> self'[f]]
      /\ self'.state = "failed" /\ self'.cause = "refused"
      /\ self'.file = self.file /\ self'.text = self.text
  BY Remembered
<1>3. RunnerTypes'
  BY <1>1, <1>2, AheadMark DEF RunnerTypes, Ahead, States
<1>4. WorkInv'
  BY <1>1, <1>2, AheadMark DEF WorkInv, Frozen, Safe, States
<1> QED BY <1>1, <1>3, <1>4, AheadMark DEF Good

LEMMA InvokeStep ==
  ASSUME RunnerInv, InvokeWorkload PROVE Good
<1> USE DEF RunnerInv, InvokeWorkload
<1>1. Ahead("wait")
  BY DEF Ahead, To, Before
<1>2. RunnerTypes'
  BY <1>1, AheadMark DEF RunnerTypes, Ahead
<1>3. WorkInv'
  BY <1>1, AheadMark DEF WorkInv, Frozen
<1> QED BY <1>1, <1>2, <1>3, AheadMark DEF Good

(* What the workload does while it runs.                                   *)
LEMMA WorkloadStep ==
  ASSUME RunnerInv, WriteOutput \/ ReplaceOutput \/ Touch \/ Escape PROVE Good
<1> USE DEF RunnerInv
<1>1. load /\ UNCHANGED <<turn, row, mark, load, self, payload>>
  BY DEF WriteOutput, ReplaceOutput, Touch, Escape
<1>2. turn["worker"] = "wait"
  BY <1>1 DEF WorkInv
<1>3. ~Published /\ mark.temp = NoTerminal /\ ~Filled
  BY <1>2 DEF MarkInv, Before, Filled, NoTerminal, States
<1>4. ~Published' /\ ~Filled'
  BY <1>1, <1>3 DEF Published, Filled
<1>5. RunnerTypes'
  <2>1. CASE WriteOutput
    BY <1>1, <2>1 DEF WriteOutput, RunnerTypes, Texts
  <2>2. CASE ReplaceOutput
    BY <1>1, <2>2, FreshFile DEF ReplaceOutput, RunnerTypes, Texts
  <2>3. CASE Touch
    BY <1>1, <2>3 DEF Touch, RunnerTypes
  <2>4. CASE Escape
    BY <1>1, <2>4 DEF Escape, RunnerTypes, Files
  <2> QED BY <2>1, <2>2, <2>3, <2>4
<1>6. MarkInv'
  BY <1>1, <1>2, <1>3, <1>4 DEF MarkInv, Before, Mine
<1>7. WorkInv'
  BY <1>1, <1>2 DEF WorkInv, Frozen
<1> QED BY <1>1, <1>4, <1>5, <1>6, <1>7 DEF Backed, Good, FinalKept

(* What a descendant does after it: it writes to a file it has open.       *)
LEMMA LingerStep ==
  ASSUME RunnerInv, ~Renames, Linger PROVE Good
<1> USE DEF RunnerInv, Linger
<1>1. PICK text \in Writings : output.file \in fds /\ output' = [output EXCEPT !.text = text]
  OBVIOUS
<1>2. ~Filled /\ turn["worker"] \notin Frozen
  BY <1>1 DEF Backed, WorkInv, Shut
<1>3. ~Filled'
  BY <1>2 DEF Filled, Published
<1>4. RunnerTypes'
  BY <1>1 DEF RunnerTypes, Texts
<1>5. MarkInv'
  BY <1>2, <1>3 DEF MarkInv, Filled, Published
<1>6. WorkInv'
  BY <1>2, SameChecks DEF WorkInv
<1> QED BY <1>3, <1>4, <1>5, <1>6 DEF Backed, Good, FinalKept

LEMMA EndStep ==
  ASSUME RunnerInv, End PROVE Good
<1> USE DEF RunnerInv, End
<1>1. Ahead("judge")
  BY DEF Ahead, To, Before
<1>2. PICK cause \in {"exit", "crash", "timeout", "cancel", "alarm"} :
          Remember([cause |-> cause])
  OBVIOUS
<1>3. /\ self' = [f \in {"file", "text", "state", "cause"} |-> self'[f]]
      /\ self'.cause = cause /\ self'.state = self.state
      /\ self'.file = self.file /\ self'.text = self.text
  BY <1>2, Remembered
<1>4. RunnerTypes'
  BY <1>1, <1>3, AheadMark DEF RunnerTypes, Ahead
<1>5. WorkInv'
  BY <1>1, AheadMark DEF WorkInv, Frozen
<1> QED BY <1>1, <1>4, <1>5, AheadMark DEF Good

LEMMA JudgeStep ==
  ASSUME RunnerInv, Judge PROVE Good
<1> USE DEF RunnerInv, Judge
<1>1. Ahead("recheck")
  BY DEF Ahead, To, Before
<1>2. Fresh \in 0 .. 4 /\ Fresh # 0 /\ Fresh \notin fds
  BY FreshFile
<1>3. /\ self' = [f \in {"file", "text", "state", "cause"} |-> self'[f]]
      /\ self'.cause = self.cause /\ self'.text = self.text
      /\ self'.state \in States
      /\ self'.state = "succeeded" => self.cause = "exit"
      /\ self'.file \in {self.file, Fresh}
  <2>1. CASE LiveSound /\ self.cause # "alarm"
    <3>1. Remember([state |-> Verdict(self.cause)])
      BY <2>1
    <3>2. Verdict(self.cause) \in States /\ (Verdict(self.cause) = "succeeded" => self.cause = "exit")
      BY DEF Verdict, States
    <3> QED BY <3>1, <3>2, Remembered
  <2>2. CASE ~(LiveSound /\ self.cause # "alarm")
    <3>1. Remember([state |-> "failed", file |-> Fresh])
      BY <2>2
    <3> QED BY <3>1, Remembered DEF States
  <2> QED BY <2>1, <2>2
<1>4. output' \in [file : 0 .. 4, text : Texts, sealed : BOOLEAN]
  <2>1. "empty" \in Texts
    BY DEF Texts, Safe
  <2>2. output' = output \/ output' = [file |-> Fresh, text |-> "empty", sealed |-> FALSE]
    BY DEF NewFile
  <2> HIDE DEF Judge
  <2>3. CASE output' = output
    BY <2>3 DEF RunnerTypes
  <2>4. CASE output' = [file |-> Fresh, text |-> "empty", sealed |-> FALSE]
    BY <1>2, <2>1, <2>4
  <2> QED BY <2>2, <2>3, <2>4
<1>5. RunnerTypes'
  BY <1>1, <1>2, <1>3, <1>4, AheadMark DEF RunnerTypes, Ahead
<1>6. WorkInv'
  BY <1>1, <1>3, AheadMark DEF WorkInv, Frozen
<1> QED BY <1>1, <1>5, <1>6, AheadMark DEF Good

LEMMA RecheckStep ==
  ASSUME RunnerInv, Recheck PROVE Good
<1> USE DEF RunnerInv, Recheck
<1>1. Ahead("read")
  BY DEF Ahead, To, Before
<1>2. \/ self' = self
      \/ Remember([state |-> "failed"])
  OBVIOUS
<1>3. /\ self' = [f \in {"file", "text", "state", "cause"} |-> self'[f]]
      /\ self'.cause = self.cause /\ self'.text = self.text /\ self'.file = self.file
      /\ self'.state \in {self.state, "failed"}
  BY <1>2, Remembered DEF RunnerTypes
<1>4. self'.state = "succeeded" => self.state = "succeeded" /\ ApartKept
  BY <1>3, Remembered DEF ApartKept
<1>5. RunnerTypes'
  BY <1>1, <1>3, AheadMark DEF RunnerTypes, Ahead, States
<1>6. WorkInv'
  BY <1>1, <1>3, <1>4, AheadMark, SameChecks DEF WorkInv, Frozen, States
<1> QED BY <1>1, <1>5, <1>6, AheadMark DEF Good

LEMMA ReadStep ==
  ASSUME RunnerInv, ReadResult PROVE Good
<1> USE DEF RunnerInv, ReadResult
<1>1. Ahead("freeze")
  BY DEF Ahead, To, Before
<1>2. \/ Remember([state |-> "failed", text |-> "empty"])
      \/ /\ output.text \notin {"huge", "broken"}
         /\ Remember([text |-> Sanitized(output.text)])
  OBVIOUS
<1>3. output.text \notin {"huge", "broken"} => Sanitized(output.text) \in Safe
  BY DEF Sanitized, Safe, RunnerTypes, Texts, Writings
<1>4. /\ self' = [f \in {"file", "text", "state", "cause"} |-> self'[f]]
      /\ self'.cause = self.cause /\ self'.file = self.file
      /\ self'.state \in {self.state, "failed"}
      /\ self'.text \in Safe
  BY <1>2, <1>3, Remembered DEF Safe
<1>5. RunnerTypes'
  BY <1>1, <1>4, AheadMark DEF RunnerTypes, Ahead, States, Texts
<1>6. WorkInv'
  BY <1>1, <1>4, AheadMark, SameChecks DEF WorkInv, Frozen, States
<1> QED BY <1>1, <1>5, <1>6, AheadMark DEF Good

LEMMA FreezeStep ==
  ASSUME RunnerInv, Freeze PROVE Good
<1> USE DEF RunnerInv, Freeze
<1>1. Ahead("outputs")
  BY DEF Ahead, To, Before
<1>2. Fresh \in 0 .. 4 /\ Fresh # 0 /\ Fresh \notin fds
  BY FreshFile
<1>3. output' = [file |-> Fresh, text |-> self.text, sealed |-> TRUE] /\ ~load
  BY DEF NewFile, WorkInv
<1>4. RunnerTypes'
  BY <1>1, <1>2, <1>3, AheadMark DEF RunnerTypes, Ahead
<1>5. Shut' /\ output'.text = self.text
  BY <1>2, <1>3 DEF Shut
<1>6. WorkInv'
  BY <1>1, <1>3, <1>5, AheadMark, SameChecks DEF WorkInv, Frozen
<1> QED BY <1>1, <1>4, <1>6, AheadMark DEF Good

LEMMA OutputsStep ==
  ASSUME RunnerInv, HashOutputs PROVE Good
<1> USE DEF RunnerInv, HashOutputs
<1>1. Ahead("create")
  BY DEF Ahead, To, Before
<1>2. \/ self' = self
      \/ Remember([state |-> "failed"])
  OBVIOUS
<1>3. /\ self' = [f \in {"file", "text", "state", "cause"} |-> self'[f]]
      /\ self'.cause = self.cause /\ self'.text = self.text /\ self'.file = self.file
      /\ self'.state \in {self.state, "failed"}
  BY <1>2, Remembered DEF RunnerTypes
<1>4. self'.state = "succeeded" => self.state = "succeeded" /\ OutputsMade
  BY <1>3, Remembered DEF OutputsMade
<1>5. RunnerTypes'
  BY <1>1, <1>3, AheadMark DEF RunnerTypes, Ahead, States
<1>6. WorkInv'
  BY <1>1, <1>3, <1>4, AheadMark, SameChecks DEF WorkInv, Frozen, States, Shut
<1> QED BY <1>1, <1>5, <1>6, AheadMark DEF Good


LEMMA CreateStep ==
  ASSUME RunnerInv, CreateTemporary PROVE Good
<1> USE DEF RunnerInv
<1>0. UNCHANGED <<payload, row, output, load, fds, self, touched>>
  BY DEF CreateTemporary
<1>1. /\ turn["worker"] = "create" /\ turn' = [turn EXCEPT !["worker"] = "fill"]
      /\ mark'.final = mark.final /\ mark'.temp = [state |-> "torn", digest |-> "empty"]
      /\ mark' \in [final : Terminals, temp : Terminals]
  <2>1. [state |-> "torn", digest |-> "empty"] \in Terminals
    BY DEF Terminals, Texts, Safe
  <2> QED BY <2>1 DEF CreateTemporary, To, RunnerTypes
<1>2. ~Published /\ ~Filled
  BY <1>1 DEF MarkInv, Before, Filled, NoTerminal, States
<1>3. ~Published' /\ ~Filled' /\ mark'.temp.state = "torn"
  BY <1>1, <1>2 DEF Published, Filled, States
<1>4. turn'["worker"] = "fill" /\ turn'["daemon"] = turn["daemon"]
  BY <1>1 DEF RunnerTypes, Readers
<1>5. RunnerTypes'
  BY <1>0, <1>1, <1>4 DEF RunnerTypes, Readers
<1>6. MarkInv'
  BY <1>0, <1>1, <1>2, <1>3, <1>4 DEF MarkInv, Before, Readers
<1>7. WorkInv'
  BY <1>0, <1>1, <1>4, SameChecks DEF WorkInv, Frozen, Shut
<1> QED BY <1>2, <1>3, <1>5, <1>6, <1>7 DEF Good, FinalKept, Backed

LEMMA FillStep ==
  ASSUME RunnerInv, FillTemporary PROVE Good
<1> USE DEF RunnerInv
<1>0. UNCHANGED <<payload, row, output, load, fds, self, touched>>
  BY DEF FillTemporary
<1>1. turn["worker"] = "fill" /\ turn' = [turn EXCEPT !["worker"] = "check"]
  BY DEF FillTemporary, To
<1>2. /\ ~Published /\ self.state \in States /\ self.text \in Safe /\ Shut
      /\ output.text = self.text
      /\ self.state = "succeeded" => self.cause = "exit" /\ ApartKept /\ OutputsMade
  BY <1>1 DEF MarkInv, WorkInv, Frozen
<1>3. Mine \in Terminals
  BY <1>2 DEF Mine, Terminals, Texts
<1>4. /\ mark'.final = mark.final /\ mark'.temp = Mine
      /\ mark' \in [final : Terminals, temp : Terminals]
  BY <1>3 DEF FillTemporary, Mine, RunnerTypes
<1>5. ~Published' /\ Filled' /\ Kept' = Mine /\ Mine' = Mine
  BY <1>0, <1>2, <1>4 DEF Published, Filled, Kept, Mine
<1>6. turn'["worker"] = "check" /\ turn'["daemon"] = turn["daemon"]
  BY <1>1 DEF RunnerTypes, Readers
<1>7. RunnerTypes'
  BY <1>0, <1>1, <1>4, <1>6 DEF RunnerTypes, Readers
<1>8. MarkInv'
  <2>1. mark'.temp.state # "none"
    BY <1>2, <1>4 DEF Mine, States
  <2> QED BY <1>0, <1>1, <1>2, <1>4, <1>5, <1>6, <2>1 DEF MarkInv, Before, Readers
<1>9. Backed'
  <2>1. Kept'.state = self.state /\ Kept'.digest = self.text
    BY <1>5 DEF Mine
  <2> QED BY <1>0, <1>2, <2>1, SameChecks DEF Backed, Shut, Durable
<1>10. WorkInv'
  BY <1>0, <1>1, <1>6 DEF WorkInv, Frozen
<1> QED BY <1>2, <1>7, <1>8, <1>9, <1>10 DEF Good, FinalKept

LEMMA CheckStep ==
  ASSUME RunnerInv, CheckPlaced PROVE Good
<1> USE DEF RunnerInv
<1>0. UNCHANGED <<payload, row, output, load, fds, self, touched>>
  BY DEF CheckPlaced
<1>1. turn["worker"] = "check" /\ Filled /\ Kept = Mine
  BY DEF CheckPlaced, MarkInv
<1>2. mark' = mark
  <2>1. CASE Published
    BY <2>1 DEF CheckPlaced, MarkInv, RunnerTypes
  <2>2. CASE ~Published
    BY <2>2 DEF CheckPlaced
  <2> QED BY <2>1, <2>2
<1>3. \E s \in {"out", "place"} : turn' = [turn EXCEPT !["worker"] = s]
  BY DEF CheckPlaced, To
<1>4. RunnerTypes'
  BY <1>0, <1>2, <1>3 DEF RunnerTypes, Readers
<1>5. MarkInv'
  BY <1>0, <1>1, <1>2, <1>3 DEF MarkInv, Filled, Kept, Published, Mine, Before, RunnerTypes, Readers
<1>6. Backed'
  BY <1>0, <1>2, SameChecks DEF Backed, Filled, Kept, Published, Shut, Durable
<1>7. WorkInv'
  BY <1>0, <1>1, <1>3 DEF WorkInv, Frozen, RunnerTypes, Readers
<1> QED BY <1>2, <1>4, <1>5, <1>6, <1>7 DEF Good, FinalKept

LEMMA PlaceStep ==
  ASSUME RunnerInv, Place PROVE Good
<1> USE DEF RunnerInv
<1>0. UNCHANGED <<payload, row, output, load, fds, self, touched>>
  BY DEF Place
<1>1. turn["worker"] = "place" /\ Filled /\ Kept = Mine
  BY DEF Place, MarkInv
<1>2. CASE mark.temp.state = "none"
  <2>1. mark' = mark /\ turn' = [turn EXCEPT !["worker"] = "out"]
    BY <1>2 DEF Place, To
  <2>2. RunnerTypes'
    BY <1>0, <2>1 DEF RunnerTypes, Readers
  <2>3. MarkInv'
    BY <1>0, <1>1, <2>1 DEF MarkInv, Filled, Kept, Published, Mine, Before, RunnerTypes, Readers
  <2>4. Backed'
    BY <1>0, <2>1, SameChecks DEF Backed, Filled, Kept, Published, Shut, Durable
  <2>5. WorkInv'
    BY <1>0, <1>1, <2>1 DEF WorkInv, Frozen, RunnerTypes, Readers
  <2> QED BY <2>1, <2>2, <2>3, <2>4, <2>5 DEF Good, FinalKept
<1>3. CASE mark.temp.state # "none"
  <2>1. ~Published /\ mark.temp = Mine /\ mark.temp.state \in States
    BY <1>1, <1>3 DEF MarkInv, NoTerminal, Kept, Filled
  <2>2. /\ mark' = [final |-> mark.temp, temp |-> NoTerminal]
        /\ turn' = [turn EXCEPT !["worker"] = "finish"]
    BY <1>3 DEF Place, To
  <2>3. mark'.final = mark.temp /\ mark'.temp = NoTerminal
    BY <2>2
  <2>4. Kept' = Kept /\ Filled' /\ Published' /\ Mine' = Mine
    BY <1>0, <1>1, <2>1, <2>3 DEF Kept, Published, Filled, States, Mine
  <2>5. RunnerTypes'
    BY <1>0, <2>2, <2>3 DEF RunnerTypes, Readers, NoTerminal, Terminals, Texts, Safe
  <2>6. MarkInv'
    BY <1>0, <1>1, <2>1, <2>2, <2>3, <2>4
       DEF MarkInv, RunnerTypes, Readers, States, Before
  <2>7. Backed'
    BY <1>0, <1>1, <2>4, SameChecks DEF Backed, Shut, Durable
  <2>8. WorkInv'
    BY <1>0, <1>1, <2>2 DEF WorkInv, Frozen, RunnerTypes, Readers
  <2> QED BY <2>1, <2>5, <2>6, <2>7, <2>8 DEF Good, FinalKept
<1> QED BY <1>2, <1>3

LEMMA FinishStep ==
  ASSUME RunnerInv, FinishRow PROVE Good
<1> USE DEF RunnerInv
<1>0. UNCHANGED <<payload, mark, output, load, fds, self, touched>>
  BY DEF FinishRow
<1>1. /\ turn["worker"] = "finish" /\ Published
      /\ mark.final.state = self.state
      /\ turn' = [turn EXCEPT !["worker"] = "out"]
  BY DEF FinishRow, To, MarkInv, Kept, Mine
<1>2. row' \in {row, self.state}
  BY DEF FinishRow
<1>3. self.state \in States
  BY <1>1 DEF RunnerTypes, Terminals, MarkInv, Published
<1>4. RunnerTypes'
  BY <1>0, <1>1, <1>2, <1>3 DEF RunnerTypes, Readers
<1>5. MarkInv'
  BY <1>0, <1>1, <1>2 DEF MarkInv, Filled, Kept, Published, Mine, Before, RunnerTypes, Readers
<1>6. Backed'
  BY <1>0, SameChecks DEF Backed, Filled, Kept, Published, Shut, Durable
<1>7. WorkInv'
  BY <1>0, <1>1 DEF WorkInv, Frozen, RunnerTypes, Readers
<1> QED BY <1>0, <1>4, <1>5, <1>6, <1>7 DEF Good, FinalKept

LEMMA KillStep ==
  ASSUME RunnerInv, WorkerKilled PROVE Good
<1> USE DEF RunnerInv
<1>0. /\ UNCHANGED <<payload, row, mark, output, self, touched>>
      /\ ~load' /\ turn' = [turn EXCEPT !["worker"] = "out"]
  BY DEF WorkerKilled, To
<1>1. Filled => fds' = fds
  BY DEF WorkerKilled, Backed, Shut
<1>2. \E n \in Files : fds' \subseteq {n}
  <2>1. fds' = fds \/ (fds' = {output.file} /\ output.file # 0)
    BY DEF WorkerKilled
  <2>2. output.file # 0 => output.file \in Files
    BY DEF RunnerTypes, Files
  <2>3. \E n \in Files : fds \subseteq {n}
    BY DEF RunnerTypes
  <2> QED BY <2>1, <2>2, <2>3
<1>3. RunnerTypes'
  BY <1>0, <1>2 DEF RunnerTypes, Readers
<1>4. MarkInv'
  BY <1>0 DEF MarkInv, Filled, Kept, Published, Mine, Before, RunnerTypes, Readers
<1>5. Backed'
  BY <1>0, <1>1, SameChecks DEF Backed, Filled, Kept, Published, Shut, Durable
<1>6. WorkInv'
  BY <1>0 DEF WorkInv, Frozen, RunnerTypes, Readers
<1> QED BY <1>0, <1>3, <1>4, <1>5, <1>6 DEF Good, FinalKept

LEMMA RunnerStep ==
  ASSUME RunnerInv, ~Renames, [RunnerNext]_runnerVars
  PROVE  RunnerInv' /\ [EvidenceStep]_runnerVars
<1>1. CASE UNCHANGED runnerVars
  <2>1. RunnerTypes' /\ MarkInv' /\ Backed' /\ WorkInv'
    BY <1>1, SameChecks DEF runnerVars, RunnerInv, RunnerTypes, MarkInv, Backed, WorkInv,
           Filled, Kept, Published, Mine, Shut, Durable
  <2> QED BY <1>1, <2>1 DEF RunnerInv
<1>2. CASE RunnerNext
  <2>1. Good
    BY <1>2, ReadersStep, PromoteStep, OutsideStep, PrepareStep, RefuseStep, InvokeStep,
       WorkloadStep, LingerStep, EndStep, JudgeStep, RecheckStep, ReadStep, FreezeStep,
       OutputsStep, CreateStep, FillStep, CheckStep, PlaceStep, FinishStep, KillStep
       DEF RunnerNext
  <2>2. Evidence'
    <3>1. RunnerInv'
      BY <2>1 DEF Good
    <3> QED BY <3>1, EvidenceOf, PTL
  <2> QED BY <2>1, <2>2 DEF Good, FinalKept, EvidenceStep
<1> QED BY <1>1, <1>2

(* Whatever a workload and its descendants write, and wherever the worker  *)
(* is killed and started again, a marker that is in place names the result *)
(* that is there, a sanitized one, is never replaced, claims success only  *)
(* for a run whose exit, Sources, inputs and outputs were checked, and the *)
(* row says what the marker says, as long as nobody renames a file over    *)
(* the frozen result (Runner.Run, freezeResultFile, writeTerminal).        *)
THEOREM EvidenceStands ==
  ASSUME ~Renames
  PROVE  RunnerSpec => EvidenceHolds
  BY RunnerInitInv, RunnerStep, PTL DEF RunnerSpec, EvidenceHolds


-----------------------------------------------------------------------------
(* The archive of the outputs: module Archive.                             *)

Entry == [digest : Contents, note : Users \cup {Void}]
Manifests == UNION {[S -> Entry] : S \in SUBSET Names}
SaveSteps == {"out", "publish", "lock", "copy", "uploaded", "manifest", "describe"}
Active == SaveSteps \ {"out", "publish"}
Jobs == [step : SaveSteps, seen : Nat, list : Manifests, state : {"pending", "saved"}]
Attempts == [revision : Nat, phase : {"none", "planned", "terminal"},
             archive : {"pending", "saved"}, list : Manifests]

ArchiveTypes ==
    /\ profile \in Profiles
    /\ routing \in Profiles \cup {Void}
    /\ trial \in Attempts
    /\ receipt \in [state : {"none", "pending", "saved"}, list : Manifests]
    /\ outputs \in [Names -> Contents \cup {Void}]
    /\ remote \in [Names -> Contents \cup {Void}]
    /\ keeper \in Users \cup {Void}
    /\ chore \in [Users -> Jobs]

-----------------------------------------------------------------------------
(* Manifests.                                                              *)

LEMMA ManifestShape ==
  ASSUME NEW m \in Manifests
  PROVE  /\ DOMAIN m \subseteq Names
         /\ \A n \in DOMAIN m : m[n] \in Entry
         /\ m \in [DOMAIN m -> Entry]
BY DEF Manifests

LEMMA ManifestMade ==
  ASSUME NEW S \in SUBSET Names, NEW m \in [S -> Entry] PROVE m \in Manifests
BY DEF Manifests

LEMMA NoListShape == NoList \in Manifests /\ DOMAIN NoList = {}
<1>1. NoList \in [{} -> Entry]
  BY DEF NoList
<1> QED BY <1>1 DEF Manifests, NoList

LEMMA EmptyIsNoList ==
  ASSUME NEW m \in Manifests, DOMAIN m = {} PROVE m = NoList
<1>1. m \in [{} -> Entry]
  BY ManifestShape
<1> QED BY <1>1 DEF NoList

LEMMA NotedShape ==
  ASSUME NEW list \in Manifests, NEW current \in Manifests
  PROVE  /\ Noted(list, current) \in Manifests
         /\ DOMAIN Noted(list, current) = DOMAIN list
         /\ Digests(Noted(list, current)) = Digests(list)
         /\ \A n \in DOMAIN list \cap DOMAIN current :
                Noted(list, current)[n].note = current[n].note
<1> DEFINE made == Noted(list, current)
<1>1. DOMAIN made = DOMAIN list
  BY DEF Noted
<1>2. ASSUME NEW n \in DOMAIN list
      PROVE  /\ made[n] \in Entry /\ made[n].digest = list[n].digest
             /\ n \in DOMAIN current => made[n].note = current[n].note
  <2>1. list[n] \in Entry
    BY ManifestShape
  <2>2. CASE n \in DOMAIN current
    <3>1. made[n] = [list[n] EXCEPT !.note = current[n].note]
      BY <2>2 DEF Noted
    <3>2. current[n].note \in Users \cup {Void}
      BY <2>2, ManifestShape DEF Entry
    <3> QED BY <2>1, <2>2, <3>1, <3>2 DEF Entry
  <2>3. CASE n \notin DOMAIN current
    BY <2>1, <2>3 DEF Noted
  <2> QED BY <2>2, <2>3
<1>3. made \in [DOMAIN list -> Entry]
  <2>1. made = [n \in DOMAIN list |-> made[n]]
    BY DEF Noted
  <2> HIDE DEF made
  <2> QED BY <1>2, <2>1
<1>4. made \in Manifests
  BY <1>3, ManifestShape, ManifestMade
<1> HIDE DEF made
<1>5. Digests(made) = Digests(list)
  BY <1>1, <1>2 DEF Digests
<1> QED BY <1>1, <1>2, <1>4, <1>5 DEF made

LEMMA ScanShape ==
  ASSUME ArchiveTypes PROVE Scan(outputs) \in Manifests
<1> DEFINE S == {m \in Names : outputs[m] # Void}
<1>1. \A n \in S : [digest |-> outputs[n], note |-> Void] \in Entry
  BY DEF ArchiveTypes, Entry
<1>2. Scan(outputs) \in [S -> Entry]
  BY <1>1 DEF Scan
<1> QED BY <1>2, ManifestMade

(* What a command lists has the descriptions of the Attempt it has read.   *)
LEMMA ListedShape ==
  ASSUME ArchiveTypes, receipt.state = "pending" => receipt.list # NoList,
         NEW current \in Manifests
  PROVE  /\ ListToSave(current) \in Manifests
         /\ \A n \in DOMAIN ListToSave(current) \cap DOMAIN current :
                receipt.state # "saved" => ListToSave(current)[n].note = current[n].note
<1>1. receipt.list \in Manifests /\ receipt.state \in {"none", "pending", "saved"}
  BY DEF ArchiveTypes
<1>2. CASE receipt.state = "none"
  <2>1. CASE current = NoList
    BY <1>2, <2>1, ScanShape, NoListShape DEF ListToSave
  <2>2. CASE current # NoList
    BY <1>2, <2>2 DEF ListToSave
  <2> QED BY <2>1, <2>2
<1>3. CASE receipt.state # "none"
  <2> DEFINE known == Noted(receipt.list, current)
  <2>1. /\ known \in Manifests /\ DOMAIN known = DOMAIN receipt.list
        /\ \A n \in DOMAIN known \cap DOMAIN current : known[n].note = current[n].note
    BY <1>1, NotedShape
  <2>2. CASE known = NoList
    <3>1. receipt.list = NoList
      BY <1>1, <2>1, <2>2, NoListShape, EmptyIsNoList
    <3>2. receipt.state = "saved"
      BY <1>1, <1>3, <3>1
    <3>3. ListToSave(current) = Scan(outputs)
      BY <1>3, <2>2 DEF ListToSave
    <3> QED BY <3>2, <3>3, ScanShape
  <2>3. CASE known # NoList
    <3>1. ListToSave(current) = known
      BY <1>3, <2>3 DEF ListToSave
    <3> QED BY <2>1, <3>1
  <2> QED BY <2>2, <2>3
<1> QED BY <1>2, <1>3

LEMMA DescribedShape ==
  ASSUME NEW list \in Manifests, NEW n \in DOMAIN list, NEW u \in Users
  PROVE  LET made == [list EXCEPT ![n].note = u]
         IN  /\ made \in Manifests /\ DOMAIN made = DOMAIN list
             /\ Digests(made) = Digests(list)
             /\ made[n].note = u
             /\ \A k \in DOMAIN list \ {n} : made[k] = list[k]
<1> DEFINE made == [list EXCEPT ![n].note = u]
<1>1. list \in [DOMAIN list -> Entry] /\ DOMAIN list \in SUBSET Names
  BY ManifestShape
<1>2. /\ DOMAIN made = DOMAIN list /\ made \in [DOMAIN list -> Entry]
      /\ made[n].note = u
      /\ \A k \in DOMAIN list : made[k].digest = list[k].digest
      /\ \A k \in DOMAIN list \ {n} : made[k] = list[k]
  BY <1>1 DEF Entry
<1>3. made \in Manifests
  BY <1>1, <1>2, ManifestMade
<1> HIDE DEF made
<1>4. Digests(made) = Digests(list)
  BY <1>2 DEF Digests
<1> QED BY <1>2, <1>3, <1>4 DEF made

LEMMA SameDigests ==
  ASSUME NEW a, NEW b, Digests(a) = Digests(b)
  PROVE  DOMAIN a = DOMAIN b /\ \A n \in DOMAIN a : a[n].digest = b[n].digest
<1>1. DOMAIN Digests(a) = DOMAIN a /\ DOMAIN Digests(b) = DOMAIN b
  BY DEF Digests
<1>2. \A n \in DOMAIN a : Digests(a)[n] = a[n].digest
  BY DEF Digests
<1>3. \A n \in DOMAIN b : Digests(b)[n] = b[n].digest
  BY DEF Digests
<1> QED BY <1>1, <1>2, <1>3

-----------------------------------------------------------------------------
(* The inductive invariant of Archive.                                     *)

\* Before the run is over nobody saves, and one command publishes the Attempt.
StartInv ==
    /\ trial.phase # "none" => routing # Void
    /\ \A u \in Users : Doing(u, "publish") => trial.phase = "none" /\ routing # Void
    /\ \A u, v \in Users : Doing(u, "publish") /\ Doing(v, "publish") => u = v
    /\ trial.phase # "terminal" =>
        /\ \A u \in Users : chore[u].step \notin Active
        /\ receipt.state = "none" /\ trial.list = NoList /\ trial.archive = "pending"

KeeperInv == \A u \in Users : keeper = u <=> chore[u].step \in {"copy", "uploaded"}

\* A saved receipt is final: nobody holds its lock, and its files are held.
ReceiptInv ==
    /\ receipt.state = "saved" =>
          keeper = Void /\ \A n \in DOMAIN receipt.list : Held(receipt.list[n].digest, n)
    /\ receipt.state = "pending" => receipt.list # NoList

AttemptInv == trial.archive = "saved" =>
    receipt.state = "saved" /\ Digests(trial.list) = Digests(receipt.list)

\* What the revision a command has read still tells it about the Attempt.
Read(u) ==
    /\ chore[u].step \in {"lock", "describe"} => chore[u].list = trial.list
    /\ Doing(u, "manifest") /\ chore[u].state = "pending" => trial.archive # "saved"
    /\ \A n \in DOMAIN chore[u].list \cap DOMAIN trial.list :
           chore[u].list[n].note = trial.list[n].note

JobOK(u) == chore[u].step \in Active =>
    /\ chore[u].seen <= trial.revision
    /\ chore[u].seen = trial.revision => Read(u)
    /\ chore[u].state = "saved" => receipt.state = "saved"
    /\ Doing(u, "manifest") /\ chore[u].state = "saved" =>
           Digests(chore[u].list) = Digests(receipt.list)
    /\ Doing(u, "uploaded") => /\ routing.kind = "mlflow"
                               /\ \A n \in DOMAIN chore[u].list : remote[n] = chore[u].list[n].digest

JobInv == \A u \in Users : JobOK(u)

ArchiveInv == ArchiveTypes /\ StartInv /\ KeeperInv /\ ReceiptInv /\ AttemptInv /\ JobInv

LEMMA ArchiveInitInv ==
  ASSUME Distinct PROVE ArchiveInit => ArchiveInv
<1> SUFFICES ASSUME ArchiveInit PROVE ArchiveInv
  OBVIOUS
<1> USE DEF ArchiveInit
<1>1. ArchiveTypes
  BY NoListShape DEF ArchiveTypes, Attempts, Jobs, Unused, SaveSteps
<1>2. StartInv /\ KeeperInv /\ ReceiptInv /\ AttemptInv /\ JobInv
  BY DEF Distinct, StartInv, KeeperInv, ReceiptInv, AttemptInv, JobInv, JobOK, Active,
         SaveSteps, Unused, Doing
<1> QED BY <1>1, <1>2 DEF ArchiveInv

LEMMA SavedHeld == ArchiveInv => SavedIsHeld
BY SameDigests DEF ArchiveInv, AttemptInv, ReceiptInv, SavedIsHeld

LEMMA Became ==
  ASSUME ArchiveTypes, NEW u \in Users, NEW what, Become(u, what)
  PROVE  /\ chore' = [chore EXCEPT ![u] = chore'[u]]
         /\ chore'[u] = [f \in {"step", "seen", "list", "state"} |-> chore'[u][f]]
BY DEF ArchiveTypes, Become, Jobs

LEMMA Left ==
  ASSUME ArchiveTypes, NEW u \in Users, Forget(u)
  PROVE  /\ \A v \in Users \ {u} : chore'[v] = chore[v]
         /\ chore'[u] = Unused /\ chore' \in [Users -> Jobs]
         /\ chore'[u].step = "out"
BY NoListShape DEF ArchiveTypes, Forget, Unused, Jobs, SaveSteps

(* A chore whose surroundings stay, or where only the Attempt has moved on.  *)
LEMMA JobStays ==
  ASSUME NEW v \in Users, JobOK(v), chore'[v] = chore[v],
         UNCHANGED <<trial, receipt, remote, routing>>
  PROVE  JobOK(v)'
BY DEF JobOK, Read, Doing

LEMMA JobOutdated ==
  ASSUME ArchiveTypes, NEW v \in Users, JobOK(v), chore'[v] = chore[v],
         UNCHANGED <<receipt, remote, routing>>,
         trial'.revision = trial.revision + 1
  PROVE  JobOK(v)'
<1>1. trial.revision \in Nat /\ chore[v].seen \in Nat
  BY DEF ArchiveTypes, Attempts, Jobs
<1> QED BY <1>1 DEF JobOK, Doing


-----------------------------------------------------------------------------
(* Each step keeps the invariant, and what is saved.                       *)

SavedKept ==
    /\ trial.archive = "saved" =>
          trial'.archive = "saved" /\ Digests(trial'.list) = Digests(trial.list)
    /\ \A n \in DOMAIN trial.list \cap DOMAIN trial'.list :
          trial'.list[n].note # trial.list[n].note =>
              \E u \in Users : Doing(u, "describe") /\ trial'.list[n].note = u

Archived == ArchiveInv' /\ SavedKept

LEMMA JobTyped ==
  ASSUME ArchiveTypes, NEW u \in Users, chore' = [chore EXCEPT ![u] = chore'[u]],
         chore'[u] = [f \in {"step", "seen", "list", "state"} |-> chore'[u][f]],
         chore'[u].step \in SaveSteps, chore'[u].seen \in Nat,
         chore'[u].list \in Manifests, chore'[u].state \in {"pending", "saved"}
  PROVE  chore' \in [Users -> Jobs]
<1> DEFINE j == chore'[u]
<1>1. j \in Jobs
  BY DEF Jobs
<1>2. chore' = [chore EXCEPT ![u] = j]
  OBVIOUS
<1> HIDE DEF j
<1> QED BY <1>1, <1>2 DEF ArchiveTypes

(* A step that changes only what one command remembers and holds.          *)
LEMMA CommandStep ==
  ASSUME ArchiveInv, ArchiveTypes', NEW u \in Users,
         UNCHANGED <<trial, receipt, remote, routing>>,
         objects \subseteq objects',
         \A v \in Users \ {u} : chore'[v] = chore[v],
         chore'[u].step # "publish",
         chore'[u].step \in Active => trial.phase = "terminal",
         KeeperInv', receipt.state = "saved" => keeper' = Void,
         JobOK(u)'
  PROVE  Archived
<1> USE DEF ArchiveInv
<1>1. StartInv'
  BY DEF StartInv, Doing
<1>2. ReceiptInv'
  BY DEF ReceiptInv, Held
<1>3. AttemptInv'
  BY DEF AttemptInv
<1>4. JobInv'
  BY JobStays DEF JobInv
<1>5. SavedKept
  BY DEF SavedKept
<1> QED BY <1>1, <1>2, <1>3, <1>4, <1>5 DEF Archived

LEMMA BeginSaveStep ==
  ASSUME ArchiveInv, NEW u \in Users, BeginSave(u) PROVE Archived
<1> USE DEF ArchiveInv
<1>1. /\ chore[u].step = "out" /\ trial.phase = "terminal"
      /\ UNCHANGED <<profile, routing, trial, receipt, outputs, objects, remote, keeper>>
      /\ Become(u, [step |-> "lock", seen |-> trial.revision, list |-> trial.list,
                    state |-> trial.archive])
  BY DEF BeginSave, Doing
<1>2. /\ \A v \in Users \ {u} : chore'[v] = chore[v]
      /\ chore'[u].step = "lock" /\ chore'[u].seen = trial.revision
      /\ chore'[u].list = trial.list /\ chore'[u].state = trial.archive
      /\ chore' \in [Users -> Jobs]
  <2>1. /\ \A v \in Users \ {u} : chore'[v] = chore[v]
        /\ chore'[u].step = "lock" /\ chore'[u].seen = trial.revision
        /\ chore'[u].list = trial.list /\ chore'[u].state = trial.archive
    BY <1>1 DEF ArchiveTypes, Become, Jobs
  <2>2. /\ chore' = [chore EXCEPT ![u] = chore'[u]]
        /\ chore'[u] = [f \in {"step", "seen", "list", "state"} |-> chore'[u][f]]
    BY <1>1, Became
  <2> QED BY <1>1, <2>1, <2>2, JobTyped DEF ArchiveTypes, Attempts, SaveSteps
<1>3. ArchiveTypes'
  BY <1>1, <1>2 DEF ArchiveTypes
<1>4. KeeperInv'
  BY <1>1, <1>2 DEF KeeperInv
<1>5. JobOK(u)'
  BY <1>1, <1>2 DEF JobOK, Read, Doing, AttemptInv, ArchiveTypes, Attempts
<1>6. receipt.state = "saved" => keeper' = Void
  BY <1>1 DEF ReceiptInv
<1> QED BY <1>1, <1>2, <1>3, <1>4, <1>5, <1>6, CommandStep

LEMMA BeginDescribeStep ==
  ASSUME ArchiveInv, NEW u \in Users, BeginDescribe(u) PROVE Archived
<1> USE DEF ArchiveInv
<1>1. /\ chore[u].step = "out" /\ trial.phase = "terminal"
      /\ UNCHANGED <<profile, routing, trial, receipt, outputs, objects, remote, keeper>>
      /\ Become(u, [step |-> "describe", seen |-> trial.revision, list |-> trial.list,
                    state |-> trial.archive])
  BY DEF BeginDescribe, Doing, StartInv
<1>2. /\ \A v \in Users \ {u} : chore'[v] = chore[v]
      /\ chore'[u].step = "describe" /\ chore'[u].seen = trial.revision
      /\ chore'[u].list = trial.list /\ chore'[u].state = trial.archive
      /\ chore' \in [Users -> Jobs]
  <2>1. /\ \A v \in Users \ {u} : chore'[v] = chore[v]
        /\ chore'[u].step = "describe" /\ chore'[u].seen = trial.revision
        /\ chore'[u].list = trial.list /\ chore'[u].state = trial.archive
    BY <1>1 DEF ArchiveTypes, Become, Jobs
  <2>2. /\ chore' = [chore EXCEPT ![u] = chore'[u]]
        /\ chore'[u] = [f \in {"step", "seen", "list", "state"} |-> chore'[u][f]]
    BY <1>1, Became
  <2> QED BY <1>1, <2>1, <2>2, JobTyped DEF ArchiveTypes, Attempts, SaveSteps
<1>3. ArchiveTypes'
  BY <1>1, <1>2 DEF ArchiveTypes
<1>4. KeeperInv'
  BY <1>1, <1>2 DEF KeeperInv
<1>5. JobOK(u)'
  BY <1>1, <1>2 DEF JobOK, Read, Doing, AttemptInv, ArchiveTypes, Attempts
<1>6. receipt.state = "saved" => keeper' = Void
  BY <1>1 DEF ReceiptInv
<1> QED BY <1>1, <1>2, <1>3, <1>4, <1>5, <1>6, CommandStep

LEMMA ReadReceiptStep ==
  ASSUME ArchiveInv, Distinct, NEW u \in Users, ReadReceipt(u) PROVE Archived
<1> USE DEF ArchiveInv
<1>1. /\ chore[u].step = "lock" /\ keeper = Void
      /\ UNCHANGED <<profile, routing, trial, receipt, outputs, objects, remote>>
  BY DEF ReadReceipt, Doing
<1>2. /\ chore[u].list \in Manifests /\ receipt.list \in Manifests
      /\ chore[u] \in Jobs /\ trial \in Attempts
      /\ JobOK(u) /\ chore[u].step \in Active /\ trial.phase = "terminal"
  BY <1>1 DEF ArchiveTypes, Jobs, JobInv, StartInv, Active, SaveSteps
<1>3. CASE receipt.state = "saved"
  <2> DEFINE list == Noted(receipt.list, chore[u].list)
  <2>1. Become(u, [step |-> "manifest", list |-> list, state |-> "saved"]) /\ keeper' = keeper
    BY <1>3 DEF ReadReceipt
  <2>2. /\ list \in Manifests /\ Digests(list) = Digests(receipt.list)
        /\ \A n \in DOMAIN list \cap DOMAIN chore[u].list : list[n].note = chore[u].list[n].note
    BY <1>2, NotedShape
  <2> HIDE DEF list
  <2>3. /\ \A v \in Users \ {u} : chore'[v] = chore[v]
        /\ chore'[u].step = "manifest" /\ chore'[u].seen = chore[u].seen
        /\ chore'[u].list = list /\ chore'[u].state = "saved"
        /\ chore' \in [Users -> Jobs]
    <3>1. /\ \A v \in Users \ {u} : chore'[v] = chore[v]
          /\ chore'[u].step = "manifest" /\ chore'[u].seen = chore[u].seen
          /\ chore'[u].list = list /\ chore'[u].state = "saved"
      BY <1>2, <2>1, <2>2 DEF ArchiveTypes, Become, Jobs
    <3>2. /\ chore' = [chore EXCEPT ![u] = chore'[u]]
          /\ chore'[u] = [f \in {"step", "seen", "list", "state"} |-> chore'[u][f]]
      BY <2>1, Became
    <3> QED BY <1>2, <2>1, <2>2, <3>1, <3>2, JobTyped DEF Jobs, SaveSteps
  <2>4. ArchiveTypes'
    BY <1>1, <2>1, <2>3 DEF ArchiveTypes
  <2>5. KeeperInv'
    BY <1>1, <2>1, <2>3 DEF KeeperInv
  <2>6. JobOK(u)'
    BY <1>1, <1>2, <1>3, <2>2, <2>3 DEF JobOK, Read, Doing
  <2> QED BY <1>1, <1>2, <2>1, <2>3, <2>4, <2>5, <2>6, CommandStep
<1>4. CASE receipt.state # "saved"
  <2> DEFINE list == ListToSave(chore[u].list)
  <2>1. Become(u, [step |-> "copy", list |-> list]) /\ keeper' = u
    BY <1>4 DEF ReadReceipt
  <2>2. /\ list \in Manifests
        /\ \A n \in DOMAIN list \cap DOMAIN chore[u].list : list[n].note = chore[u].list[n].note
    BY <1>2, <1>4, ListedShape DEF ReceiptInv
  <2> HIDE DEF list
  <2>3. /\ \A v \in Users \ {u} : chore'[v] = chore[v]
        /\ chore'[u].step = "copy" /\ chore'[u].seen = chore[u].seen
        /\ chore'[u].list = list /\ chore'[u].state = chore[u].state
        /\ chore' \in [Users -> Jobs]
    <3>1. /\ \A v \in Users \ {u} : chore'[v] = chore[v]
          /\ chore'[u].step = "copy" /\ chore'[u].seen = chore[u].seen
          /\ chore'[u].list = list /\ chore'[u].state = chore[u].state
      BY <1>2, <2>1, <2>2 DEF ArchiveTypes, Become, Jobs
    <3>2. /\ chore' = [chore EXCEPT ![u] = chore'[u]]
          /\ chore'[u] = [f \in {"step", "seen", "list", "state"} |-> chore'[u][f]]
      BY <2>1, Became
    <3> QED BY <1>2, <2>1, <2>2, <3>1, <3>2, JobTyped DEF Jobs, SaveSteps
  <2>4. ArchiveTypes'
    BY <1>1, <2>1, <2>3 DEF ArchiveTypes
  <2>5. KeeperInv'
    BY <1>1, <2>1, <2>3 DEF KeeperInv, Distinct
  <2>6. JobOK(u)'
    BY <1>1, <1>2, <1>4, <2>2, <2>3 DEF JobOK, Read, Doing
  <2> QED BY <1>1, <1>2, <1>4, <2>1, <2>3, <2>4, <2>5, <2>6, CommandStep
<1> QED BY <1>3, <1>4

(* A command gives up or is killed, or has nothing to remember.            *)
LEMMA LeaveStep ==
  ASSUME ArchiveInv, NEW u \in Users, Forget(u), Distinct,
         UNCHANGED <<profile, routing, trial, receipt, outputs, remote>>,
         objects \subseteq objects',
         keeper' = IF keeper = u THEN Void ELSE keeper
  PROVE  Archived
<1> USE DEF ArchiveInv
<1>1. /\ \A v \in Users \ {u} : chore'[v] = chore[v]
      /\ chore'[u].step = "out" /\ chore' \in [Users -> Jobs]
  BY Left
<1>2. ArchiveTypes'
  BY <1>1 DEF ArchiveTypes
<1>3. KeeperInv'
  BY <1>1 DEF KeeperInv, Distinct
<1>4. JobOK(u)' /\ chore'[u].step \notin Active
  BY <1>1 DEF JobOK, Active
<1>5. receipt.state = "saved" => keeper' = Void
  BY DEF ReceiptInv
<1> QED BY <1>1, <1>2, <1>3, <1>4, <1>5, CommandStep

LEMMA CopyStep ==
  ASSUME ArchiveInv, Distinct, NEW u \in Users, CopyVerified(u) PROVE Archived
<1> USE DEF ArchiveInv
<1>1. /\ chore[u].step = "copy" /\ keeper = u /\ JobOK(u)
      /\ UNCHANGED <<profile, routing, trial, receipt, outputs, remote>>
      /\ trial.phase = "terminal"
  BY DEF CopyVerified, Doing, KeeperInv, JobInv, StartInv, Active, SaveSteps
<1>2. \/ UNCHANGED <<keeper, chore>> /\ objects \subseteq objects'
      \/ keeper' = Void /\ Forget(u) /\ objects' = objects
  BY DEF CopyVerified
<1>3. CASE UNCHANGED <<keeper, chore>> /\ objects \subseteq objects'
  <2>1. ArchiveTypes' /\ KeeperInv' /\ JobOK(u)'
    BY <1>1, <1>3, JobStays DEF ArchiveTypes, KeeperInv
  <2> QED BY <1>1, <1>3, <2>1, CommandStep DEF ReceiptInv
<1>4. CASE keeper' = Void /\ Forget(u) /\ objects' = objects
  BY <1>1, <1>4, LeaveStep
<1> QED BY <1>2, <1>3, <1>4

LEMMA KillSaveStep ==
  ASSUME ArchiveInv, Distinct, NEW u \in Users, KillSave(u) PROVE Archived
BY LeaveStep DEF KillSave

LEMMA FetchStep ==
  ASSUME ArchiveInv, NEW u \in Users, Fetch(u) PROVE Archived
<1> USE DEF ArchiveInv
<1>1. /\ chore[u].step = "out" /\ objects \subseteq objects'
      /\ UNCHANGED <<profile, routing, trial, receipt, outputs, remote, keeper, chore>>
  BY DEF Fetch, Doing
<1>2. ArchiveTypes' /\ KeeperInv' /\ JobOK(u)'
  BY <1>1 DEF ArchiveTypes, KeeperInv, JobOK, Active
<1> QED BY <1>1, <1>2, CommandStep DEF ReceiptInv, Active

(* The receipt is written by the one who holds its lock.                   *)
LEMMA ReceiptStep ==
  ASSUME ArchiveInv, Distinct, NEW u \in Users, NEW state \in {"pending", "saved"},
         chore[u].step \in {"copy", "uploaded"}, PublishReceipt(u, state),
         UNCHANGED <<profile, routing, trial, outputs, objects>>,
         remote' \in [Names -> Contents \cup {Void}],
         state = "pending" => chore[u].list # NoList,
         state = "saved" =>
            \A n \in DOMAIN chore[u].list :
                IF routing.kind = "local"
                THEN Object(routing.root, chore[u].list[n].digest) \in objects
                ELSE remote'[n] = chore[u].list[n].digest
  PROVE  Archived
<1> USE DEF ArchiveInv
<1>1. /\ receipt' = [state |-> state, list |-> chore[u].list]
      /\ receipt'.state = state /\ receipt'.list = chore[u].list
      /\ keeper' = Void
      /\ Become(u, [step |-> "manifest", state |-> state])
  BY DEF PublishReceipt
<1>2. /\ keeper = u /\ u # Void /\ JobOK(u) /\ chore[u] \in Jobs
      /\ \A v \in Users \ {u} : chore[v].step \notin {"copy", "uploaded"}
      /\ chore[u].step \in Active /\ trial.phase = "terminal"
  BY DEF KeeperInv, Distinct, JobInv, ArchiveTypes, Active, SaveSteps, StartInv
<1>3. receipt.state # "saved" /\ trial.archive # "saved"
  BY <1>2 DEF ReceiptInv, AttemptInv
<1>4. /\ \A v \in Users \ {u} : chore'[v] = chore[v]
      /\ chore'[u].step = "manifest" /\ chore'[u].seen = chore[u].seen
      /\ chore'[u].list = chore[u].list /\ chore'[u].state = state
      /\ chore' \in [Users -> Jobs]
  <2>1. /\ \A v \in Users \ {u} : chore'[v] = chore[v]
        /\ chore'[u].step = "manifest" /\ chore'[u].seen = chore[u].seen
        /\ chore'[u].list = chore[u].list /\ chore'[u].state = state
    BY <1>1 DEF ArchiveTypes, Become, Jobs
  <2>2. /\ chore' = [chore EXCEPT ![u] = chore'[u]]
        /\ chore'[u] = [f \in {"step", "seen", "list", "state"} |-> chore'[u][f]]
    BY <1>1, Became
  <2> QED BY <1>2, <2>1, <2>2, JobTyped DEF Jobs, SaveSteps
<1>5. ArchiveTypes'
  BY <1>1, <1>2, <1>4 DEF ArchiveTypes, Jobs
<1>6. StartInv'
  BY <1>2, <1>4 DEF StartInv, Doing
<1>7. KeeperInv'
  BY <1>1, <1>2, <1>4 DEF KeeperInv, Distinct
<1>8. ReceiptInv'
  BY <1>1 DEF ReceiptInv, Held
<1>9. AttemptInv'
  BY <1>3 DEF AttemptInv
<1>10. ASSUME NEW v \in Users PROVE JobOK(v)'
  <2>1. CASE v = u
    BY <1>1, <1>2, <1>3, <1>4, <2>1 DEF JobOK, Read, Doing
  <2>2. CASE v # u
    BY <1>2, <1>3, <1>4, <2>2 DEF JobInv, JobOK, Read, Doing
  <2> QED BY <2>1, <2>2
<1>11. SavedKept
  BY DEF SavedKept
<1> QED BY <1>5, <1>6, <1>7, <1>8, <1>9, <1>10, <1>11 DEF Archived, JobInv

LEMMA SaveLocallyStep ==
  ASSUME ArchiveInv, Distinct, NEW u \in Users, SaveLocally(u) PROVE Archived
<1>1. \A n \in DOMAIN chore[u].list :
          /\ routing.kind = "local"
          /\ Object(routing.root, chore[u].list[n].digest) \in objects
  BY NoListShape DEF SaveLocally, Copied, Uncopied
<1> QED BY <1>1, ReceiptStep DEF SaveLocally, Copied, Doing, ArchiveInv, ArchiveTypes

LEMMA WithholdStep ==
  ASSUME ArchiveInv, Distinct, NEW u \in Users, Withhold(u) PROVE Archived
BY ReceiptStep DEF Withhold, Remotely, Copied, Doing, ArchiveInv, ArchiveTypes

LEMMA ConfirmStep ==
  ASSUME ArchiveInv, Distinct, NEW u \in Users, Confirm(u) PROVE Archived
<1>1. /\ routing.kind = "mlflow"
      /\ \A n \in DOMAIN chore[u].list : remote[n] = chore[u].list[n].digest
  BY DEF Confirm, Doing, ArchiveInv, JobInv, JobOK, Active, SaveSteps
<1> QED BY <1>1, ReceiptStep DEF Confirm, Doing, ArchiveInv, ArchiveTypes

(* The transfer may fail at any point, and its answer may be unusable.     *)
LEMMA UploadStep ==
  ASSUME ArchiveInv, Distinct, NEW u \in Users, Upload(u) PROVE Archived
<1> USE DEF ArchiveInv
<1>1. /\ chore[u].step = "copy" /\ routing.kind = "mlflow" /\ chore[u].list # NoList
      /\ UNCHANGED <<profile, routing, trial, outputs, objects>>
  BY DEF Upload, Remotely, Copied, Doing
<1>2. PICK done \in SUBSET DOMAIN chore[u].list :
          /\ remote' = [n \in Names |-> IF n \in done THEN chore[u].list[n].digest ELSE remote[n]]
          /\ \/ done = DOMAIN chore[u].list /\ Become(u, [step |-> "uploaded"])
                /\ UNCHANGED <<receipt, keeper>>
             \/ PublishReceipt(u, "pending")
             \/ /\ keeper' = Void
                /\ Become(u, [step |-> "manifest", state |-> "pending"])
                /\ UNCHANGED receipt
  BY DEF Upload
<1>3. /\ keeper = u /\ u # Void /\ JobOK(u) /\ chore[u] \in Jobs /\ trial \in Attempts
      /\ \A v \in Users \ {u} : chore[v].step \notin {"copy", "uploaded"}
      /\ trial.phase = "terminal"
  BY <1>1 DEF KeeperInv, Distinct, JobInv, ArchiveTypes, Active, SaveSteps, StartInv
<1>4. receipt.state # "saved" /\ trial.archive # "saved"
  BY <1>3 DEF ReceiptInv, AttemptInv
<1>5. remote' \in [Names -> Contents \cup {Void}]
  <2>1. chore[u].list \in Manifests
    BY <1>3 DEF Jobs
  <2>2. \A n \in done : n \in Names /\ chore[u].list[n].digest \in Contents
    BY <2>1, ManifestShape DEF Entry
  <2> QED BY <1>2, <2>2 DEF ArchiveTypes
<1>6. CASE PublishReceipt(u, "pending")
  BY <1>1, <1>5, <1>6, ReceiptStep
<1>7. ASSUME UNCHANGED receipt, chore' \in [Users -> Jobs], keeper' \in Users \cup {Void},
             \A v \in Users \ {u} : chore'[v] = chore[v],
             chore'[u].step \in Active, KeeperInv', JobOK(u)'
      PROVE  Archived
  <2>1. ArchiveTypes'
    BY <1>1, <1>5, <1>7 DEF ArchiveTypes
  <2>2. StartInv'
    BY <1>1, <1>3, <1>7 DEF StartInv, Doing, Active
  <2>3. ReceiptInv' /\ AttemptInv'
    BY <1>1, <1>4, <1>7 DEF ReceiptInv, AttemptInv
  <2>4. ASSUME NEW v \in Users \ {u} PROVE JobOK(v)'
    BY <1>1, <1>3, <1>7, <2>4 DEF JobInv, JobOK, Read, Doing
  <2>5. SavedKept
    BY <1>1 DEF SavedKept
  <2> QED BY <1>7, <2>1, <2>2, <2>3, <2>4, <2>5 DEF Archived, JobInv
<1>8. CASE /\ done = DOMAIN chore[u].list /\ Become(u, [step |-> "uploaded"])
           /\ UNCHANGED <<receipt, keeper>>
  <2>1. /\ \A v \in Users \ {u} : chore'[v] = chore[v]
        /\ chore'[u].step = "uploaded" /\ chore'[u].seen = chore[u].seen
        /\ chore'[u].list = chore[u].list /\ chore'[u].state = chore[u].state
    BY <1>8 DEF ArchiveTypes, Become, Jobs
  <2>2. /\ chore' = [chore EXCEPT ![u] = chore'[u]]
        /\ chore'[u] = [f \in {"step", "seen", "list", "state"} |-> chore'[u][f]]
    BY <1>8, Became
  <2>3. chore' \in [Users -> Jobs]
    BY <1>3, <2>1, <2>2, JobTyped DEF Jobs, SaveSteps
  <2>4. chore'[u].step \in Active /\ KeeperInv'
    BY <1>1, <1>3, <1>8, <2>1 DEF Active, SaveSteps, KeeperInv
  <2>5. \A n \in DOMAIN chore[u].list : remote'[n] = chore[u].list[n].digest
    <3>1. DOMAIN chore[u].list \subseteq Names
      BY <1>3, ManifestShape DEF Jobs
    <3> QED BY <1>2, <1>8, <3>1
  <2>6. JobOK(u)'
    BY <1>1, <1>3, <1>8, <2>1, <2>5 DEF JobOK, Read, Doing, Active, SaveSteps
  <2> QED BY <1>3, <1>7, <1>8, <2>1, <2>3, <2>4, <2>6
<1>9. CASE /\ keeper' = Void /\ UNCHANGED receipt
           /\ Become(u, [step |-> "manifest", state |-> "pending"])
  <2>1. /\ \A v \in Users \ {u} : chore'[v] = chore[v]
        /\ chore'[u].step = "manifest" /\ chore'[u].seen = chore[u].seen
        /\ chore'[u].list = chore[u].list /\ chore'[u].state = "pending"
    BY <1>9 DEF ArchiveTypes, Become, Jobs
  <2>2. /\ chore' = [chore EXCEPT ![u] = chore'[u]]
        /\ chore'[u] = [f \in {"step", "seen", "list", "state"} |-> chore'[u][f]]
    BY <1>9, Became
  <2>3. chore' \in [Users -> Jobs]
    BY <1>3, <2>1, <2>2, JobTyped DEF Jobs, SaveSteps
  <2>4. chore'[u].step \in Active /\ KeeperInv'
    BY <1>1, <1>3, <1>9, <2>1 DEF Active, SaveSteps, KeeperInv, Distinct
  <2>5. JobOK(u)'
    BY <1>1, <1>3, <1>4, <1>9, <2>1 DEF JobOK, Read, Doing, Active, SaveSteps
  <2> QED BY <1>3, <1>7, <1>9, <2>1, <2>3, <2>4, <2>5
<1> QED BY <1>2, <1>6, <1>8, <1>9

(* A command replaces the revision of the Attempt that it has read.        *)
LEMMA ReplaceStep ==
  ASSUME ArchiveInv, Distinct, NEW u \in Users, Forget(u), chore[u].step \in Active \ {"copy", "uploaded"},
         UNCHANGED <<profile, routing, receipt, outputs, objects, remote, keeper>>,
         trial' \in Attempts, trial'.phase = "terminal",
         trial'.revision = trial.revision + 1,
         trial'.archive = "saved" =>
             receipt.state = "saved" /\ Digests(trial'.list) = Digests(receipt.list),
         SavedKept
  PROVE  Archived
<1> USE DEF ArchiveInv
<1>1. /\ \A v \in Users \ {u} : chore'[v] = chore[v]
      /\ chore'[u].step = "out" /\ chore' \in [Users -> Jobs]
  BY Left
<1>2. ArchiveTypes'
  BY <1>1 DEF ArchiveTypes
<1>3. trial.phase = "terminal"
  BY DEF StartInv, ArchiveTypes, Attempts
<1>4. StartInv'
  BY <1>1, <1>3 DEF StartInv, Doing
<1>5. KeeperInv'
  BY <1>1 DEF KeeperInv
<1>6. ReceiptInv' /\ AttemptInv'
  BY DEF ReceiptInv, AttemptInv, Held
<1>7. ASSUME NEW v \in Users PROVE JobOK(v)'
  <2>1. CASE v = u
    BY <1>1, <2>1 DEF JobOK, Active
  <2>2. CASE v # u
    BY <1>1, <2>2, JobOutdated DEF JobInv
  <2> QED BY <2>1, <2>2
<1> QED BY <1>2, <1>4, <1>5, <1>6, <1>7 DEF Archived, JobInv

LEMMA PublishManifestStep ==
  ASSUME ArchiveInv, Distinct, NEW u \in Users, PublishManifest(u) PROVE Archived
<1> USE DEF ArchiveInv
<1>1. /\ chore[u].step = "manifest" /\ Forget(u)
      /\ UNCHANGED <<profile, routing, receipt, outputs, objects, remote, keeper>>
  BY DEF PublishManifest, Doing
<1>2. /\ keeper # u /\ JobOK(u) /\ chore[u] \in Jobs /\ trial \in Attempts
      /\ chore[u].step \in Active \ {"copy", "uploaded"} /\ trial.phase = "terminal"
  BY <1>1 DEF KeeperInv, JobInv, ArchiveTypes, Active, SaveSteps, StartInv
<1>3. CASE trial.revision # chore[u].seen
  <2>1. trial' = trial
    BY <1>3 DEF PublishManifest
  <2> QED BY <1>1, <1>2, <2>1, LeaveStep
<1>4. CASE trial.revision = chore[u].seen
  <2>1. trial' = [trial EXCEPT !.revision = @ + 1, !.archive = chore[u].state,
                                   !.list = chore[u].list]
    BY <1>4 DEF PublishManifest
  <2>2. /\ trial' \in Attempts /\ trial'.phase = "terminal"
        /\ trial'.revision = trial.revision + 1
        /\ trial'.archive = chore[u].state /\ trial'.list = chore[u].list
    <3>1. /\ trial.revision + 1 \in Nat /\ chore[u].list \in Manifests
          /\ chore[u].state \in {"pending", "saved"}
      BY <1>2 DEF Attempts, Jobs
    <3> QED BY <1>2, <2>1, <3>1 DEF Attempts
  <2>3. /\ chore[u].state = "pending" => trial.archive # "saved"
        /\ \A n \in DOMAIN chore[u].list \cap DOMAIN trial.list :
               chore[u].list[n].note = trial.list[n].note
        /\ chore[u].state = "saved" =>
               receipt.state = "saved" /\ Digests(chore[u].list) = Digests(receipt.list)
    BY <1>1, <1>2, <1>4 DEF JobOK, Read, Doing
  <2>4. SavedKept
    <3>1. chore[u].state \in {"pending", "saved"}
      BY <1>2 DEF Jobs
    <3> QED BY <2>2, <2>3, <3>1 DEF SavedKept, AttemptInv
  <2> QED BY <1>1, <1>2, <2>2, <2>3, <2>4, ReplaceStep
<1> QED BY <1>3, <1>4

LEMMA DescribeStep ==
  ASSUME ArchiveInv, Distinct, NEW u \in Users, DescribeArtifact(u) PROVE Archived
<1> USE DEF ArchiveInv
<1>1. /\ chore[u].step = "describe" /\ Forget(u)
      /\ UNCHANGED <<profile, routing, receipt, outputs, objects, remote, keeper>>
  BY DEF DescribeArtifact, Doing
<1>2. PICK n \in DOMAIN chore[u].list :
          trial' = IF trial.revision # chore[u].seen THEN trial
                     ELSE [trial EXCEPT !.revision = @ + 1,
                                          !.list = [chore[u].list EXCEPT ![n].note = u]]
  BY DEF DescribeArtifact
<1>3. /\ keeper # u /\ JobOK(u) /\ chore[u] \in Jobs /\ trial \in Attempts
      /\ chore[u].step \in Active \ {"copy", "uploaded"} /\ trial.phase = "terminal"
  BY <1>1 DEF KeeperInv, JobInv, ArchiveTypes, Active, SaveSteps, StartInv
<1>4. CASE trial.revision # chore[u].seen
  <2>1. trial' = trial
    BY <1>2, <1>4
  <2> QED BY <1>1, <1>3, <2>1, LeaveStep
<1>5. CASE trial.revision = chore[u].seen
  <2> DEFINE list == [chore[u].list EXCEPT ![n].note = u]
  <2>1. trial' = [trial EXCEPT !.revision = @ + 1, !.list = list]
    BY <1>2, <1>5
  <2>2. chore[u].list = trial.list /\ trial.list \in Manifests
    BY <1>1, <1>3, <1>5 DEF JobOK, Read, Doing, Attempts
  <2>3. /\ list \in Manifests /\ DOMAIN list = DOMAIN trial.list
        /\ Digests(list) = Digests(trial.list) /\ list[n].note = u
        /\ \A k \in DOMAIN trial.list \ {n} : list[k] = trial.list[k]
    BY <2>2, DescribedShape
  <2> HIDE DEF list
  <2>4. /\ trial' \in Attempts /\ trial'.phase = "terminal"
        /\ trial'.revision = trial.revision + 1
        /\ trial'.archive = trial.archive /\ trial'.list = list
    <3>1. trial.revision + 1 \in Nat /\ list \in Manifests
      BY <1>3, <2>3 DEF Attempts
    <3> QED BY <1>3, <2>1, <3>1 DEF Attempts
  <2>5. SavedKept
    <3>1. Doing(u, "describe")
      BY <1>1 DEF Doing
    <3>2. \A k \in DOMAIN trial.list :
              list[k].note # trial.list[k].note => list[k].note = u
      BY <2>3
    <3> QED BY <2>3, <2>4, <3>1, <3>2 DEF SavedKept
  <2> QED BY <1>1, <1>3, <2>3, <2>4, <2>5, ReplaceStep DEF AttemptInv
<1> QED BY <1>4, <1>5

(* Before the run is over there is nothing to save.                        *)
LEMMA StartStep ==
  ASSUME ArchiveInv, ArchiveTypes', StartInv', trial.phase # "terminal",
         UNCHANGED <<receipt, objects, remote, keeper>>,
         trial'.list = trial.list, trial'.archive = trial.archive,
         \A u \in Users : chore'[u].step \in Active => chore'[u] = chore[u]
  PROVE  Archived
<1> USE DEF ArchiveInv
<1>1. /\ receipt.state = "none" /\ trial.list = NoList /\ trial.archive = "pending"
      /\ \A u \in Users : chore[u].step \notin Active
  BY DEF StartInv
<1>2. \A u \in Users : chore'[u].step \notin Active
  BY <1>1
<1>3. KeeperInv'
  BY <1>1, <1>2 DEF KeeperInv, Active, SaveSteps
<1>4. ReceiptInv' /\ AttemptInv'
  BY <1>1 DEF ReceiptInv, AttemptInv
<1>5. JobInv'
  BY <1>2 DEF JobInv, JobOK
<1>6. SavedKept
  BY <1>1 DEF SavedKept
<1> QED BY <1>3, <1>4, <1>5, <1>6 DEF Archived

LEMMA PersistStep ==
  ASSUME ArchiveInv, Distinct, NEW u \in Users, PersistExecution(u) PROVE Archived
<1> USE DEF ArchiveInv
<1>1. /\ chore[u].step = "out" /\ routing = Void /\ routing' = profile
      /\ Become(u, [step |-> "publish"])
      /\ UNCHANGED <<profile, trial, receipt, outputs, objects, remote, keeper>>
  BY DEF PersistExecution, Doing
<1>2. /\ trial.phase = "none" /\ profile # Void /\ chore[u] \in Jobs
      /\ \A v \in Users : chore[v].step # "publish"
  BY <1>1 DEF StartInv, Doing, ArchiveTypes, Distinct
<1>3. /\ \A v \in Users \ {u} : chore'[v] = chore[v]
      /\ chore'[u].step = "publish" /\ chore'[u].seen = chore[u].seen
      /\ chore'[u].list = chore[u].list /\ chore'[u].state = chore[u].state
  BY <1>1 DEF ArchiveTypes, Become, Jobs
<1>4. /\ chore' = [chore EXCEPT ![u] = chore'[u]]
      /\ chore'[u] = [f \in {"step", "seen", "list", "state"} |-> chore'[u][f]]
  BY <1>1, Became
<1>5. chore' \in [Users -> Jobs]
  BY <1>2, <1>3, <1>4, JobTyped DEF Jobs, SaveSteps
<1>6. ArchiveTypes'
  BY <1>1, <1>5 DEF ArchiveTypes
<1>7. StartInv'
  BY <1>1, <1>2, <1>3 DEF StartInv, Doing, Active, SaveSteps
<1> QED BY <1>1, <1>2, <1>3, <1>6, <1>7, StartStep DEF Active, SaveSteps

LEMMA PublishAttemptStep ==
  ASSUME ArchiveInv, NEW u \in Users, PublishAttempt(u) PROVE Archived
<1> USE DEF ArchiveInv
<1>1. /\ chore[u].step = "publish" /\ Forget(u)
      /\ trial' = [trial EXCEPT !.phase = "planned", !.revision = 1]
      /\ UNCHANGED <<profile, routing, receipt, outputs, objects, remote, keeper>>
  BY DEF PublishAttempt, Doing
<1>2. /\ trial.phase = "none" /\ routing # Void /\ trial \in Attempts
      /\ \A v \in Users \ {u} : chore[v].step # "publish"
  BY <1>1 DEF StartInv, Doing, ArchiveTypes
<1>3. /\ trial' \in Attempts /\ trial'.phase = "planned"
      /\ trial'.list = trial.list /\ trial'.archive = trial.archive
  BY <1>1, <1>2 DEF Attempts
<1>4. /\ \A v \in Users \ {u} : chore'[v] = chore[v]
      /\ chore'[u].step = "out" /\ chore' \in [Users -> Jobs]
  BY <1>1, Left
<1>5. ArchiveTypes'
  BY <1>1, <1>3, <1>4 DEF ArchiveTypes
<1>6. StartInv'
  BY <1>1, <1>2, <1>3, <1>4 DEF StartInv, Doing, Active
<1> QED BY <1>1, <1>2, <1>3, <1>4, <1>5, <1>6, StartStep DEF Active

LEMMA WorkloadEnds ==
  ASSUME ArchiveInv, RunWorkload PROVE Archived
<1> USE DEF ArchiveInv
<1>1. /\ trial.phase = "planned" /\ outputs' \in [Names -> Contents \cup {Void}]
      /\ trial' = [trial EXCEPT !.phase = "terminal", !.revision = @ + 1]
      /\ UNCHANGED <<profile, routing, receipt, objects, remote, keeper, chore>>
  BY DEF RunWorkload
<1>2. trial \in Attempts
  BY DEF ArchiveTypes
<1>3. /\ trial' \in Attempts /\ trial'.phase = "terminal"
      /\ trial'.list = trial.list /\ trial'.archive = trial.archive
  <2>1. trial.revision + 1 \in Nat
    BY <1>2 DEF Attempts
  <2> QED BY <1>1, <1>2, <2>1 DEF Attempts
<1>4. ArchiveTypes'
  BY <1>1, <1>3 DEF ArchiveTypes
<1>5. StartInv'
  BY <1>1, <1>3 DEF StartInv, Doing
<1> QED BY <1>1, <1>3, <1>4, <1>5, StartStep

(* People change the settings, the files and the copies.                   *)
LEMMA PeopleStep ==
  ASSUME ArchiveInv, ChangeProfile \/ EditOutput \/ DropObjects PROVE Archived
<1> USE DEF ArchiveInv
<1>1. /\ UNCHANGED <<routing, trial, receipt, remote, keeper, chore>>
      /\ objects' # objects => routing.kind = "mlflow"
  BY DEF ChangeProfile, EditOutput, DropObjects
<1>2. ArchiveTypes'
  BY DEF ChangeProfile, EditOutput, DropObjects, ArchiveTypes
<1>3. StartInv' /\ KeeperInv' /\ AttemptInv'
  BY <1>1 DEF StartInv, Doing, KeeperInv, AttemptInv
<1>4. ReceiptInv'
  BY <1>1 DEF ReceiptInv, Held
<1>5. JobInv'
  BY <1>1, JobStays DEF JobInv
<1>6. SavedKept
  BY <1>1 DEF SavedKept
<1> QED BY <1>2, <1>3, <1>4, <1>5, <1>6 DEF Archived

LEMMA ArchiveStep ==
  ASSUME Distinct PROVE ArchiveInv /\ [ArchiveNext]_archiveVars => Archived
<1> SUFFICES ASSUME ArchiveInv, [ArchiveNext]_archiveVars PROVE Archived
  OBVIOUS
<1>1. CASE ArchiveNext
  <2>1. CASE \E u \in Users :
          \/ PersistExecution(u) \/ PublishAttempt(u)
          \/ BeginSave(u) \/ ReadReceipt(u) \/ CopyVerified(u) \/ SaveLocally(u)
          \/ Withhold(u) \/ Upload(u) \/ Confirm(u) \/ PublishManifest(u)
          \/ BeginDescribe(u) \/ DescribeArtifact(u) \/ Fetch(u) \/ KillSave(u)
    BY <2>1, PersistStep, PublishAttemptStep, BeginSaveStep, ReadReceiptStep, CopyStep,
       SaveLocallyStep, WithholdStep, UploadStep, ConfirmStep, PublishManifestStep,
       BeginDescribeStep, DescribeStep, FetchStep, KillSaveStep
  <2>2. CASE RunWorkload \/ ChangeProfile \/ EditOutput \/ DropObjects
    BY <2>2, WorkloadEnds, PeopleStep
  <2> QED BY <1>1, <2>1, <2>2 DEF ArchiveNext
<1>2. CASE UNCHANGED archiveVars
  <2>1. ArchiveInv'
    BY <1>2 DEF archiveVars, ArchiveInv, ArchiveTypes, StartInv, Doing, KeeperInv, ReceiptInv,
       Held, AttemptInv, JobInv, JobOK, Read
  <2> QED BY <1>2, <2>1 DEF archiveVars, Archived, SavedKept
<1> QED BY <1>1, <1>2

(* What an archived Attempt says of its files is true: a manifest that     *)
(* says it is saved lists what the host's receipt lists, every file of it  *)
(* can be had from the storage the run was prepared with, and from then on *)
(* only a description changes, and only by the command that describes;     *)
(* whoever saves, uploads, fetches, describes or is killed at the same     *)
(* time, and however often the files and the settings change               *)
(* (SaveArtifacts and DescribeArtifact).                                   *)
THEOREM ArchiveStaysHonest ==
  ASSUME Distinct
  PROVE  ArchiveSpec => ArchiveHonest
<1>1. ArchiveInit => ArchiveInv
  BY ArchiveInitInv
<1>2. ArchiveInv /\ [ArchiveNext]_archiveVars => ArchiveInv' /\ SavedKept
  BY ArchiveStep DEF Archived
<1>3. ArchiveInv => SavedIsHeld
  BY SavedHeld
<1>4. SavedIsHeld' /\ SavedKept => HonestStep
  BY DEF SavedKept, HonestStep
<1> QED BY <1>1, <1>2, <1>3, <1>4, PTL DEF ArchiveSpec, ArchiveHonest

=============================================================================
