-------------------------------- MODULE MCWork --------------------------------
(***************************************************************************)
(* Small instances of canonical transactions and of the parts that run,    *)
(* keep and place the work.  A behaviour is about one of them, its         *)
(* subject, and the others stay as they are.  They are extended, as        *)
(* theorems are about them, so that the properties checked are those       *)
(* proved.                                                                 *)
(***************************************************************************)
EXTENDS Transaction, Runner, Archive, Worktrees, Sources, TLC

CONSTANTS p1, p2, w1, w2

VARIABLE subject

restVars == <<runnerVars, archiveVars, worktreeVars, sourceVars>>

(***************************************************************************)
(* Module Transaction: two processes, both in one worktree ("shared") or   *)
(* each in a linked worktree of its own ("linked").  Processes and their   *)
(* deaths only: module MCParts has the edits and the power losses.         *)
(***************************************************************************)
SharedHome == [p \in Procs |-> w1]
OwnHome == [p \in Procs |-> IF p = p1 THEN w1 ELSE w2]

\* Home is the shared one; the other constants are the same in both.
Linked == INSTANCE Transaction WITH Home <- OwnHome

\* Bound: linked worktrees start with a transaction that was discarded, so
\* that they have one less.
Bygone ==
    /\ phase[MaxTx] = "free"
    /\ phase' = [phase EXCEPT ![MaxTx] = "discarded"]
    /\ stablePhase' = phase'
    /\ UNCHANGED <<disk, stable, temp, journal, staged, procVars, acked, faultVars>>

SharedNext == \E p \in Procs : Client(p) \/ Tool(p) \/ Kill(p)
LinkedNext ==
    \/ Bygone
    \/ /\ phase[MaxTx] # "free"
       /\ \E p \in Procs : Linked!Client(p) \/ Linked!Tool(p) \/ Linked!Kill(p)

(***************************************************************************)
(* One job's worker and its evidence, module Runner: a formal job with a   *)
(* read-only Source and an expected output, and one that explores data.    *)
(***************************************************************************)
Bind(id, readOnly) == [id |-> id, readOnly |-> readOnly, clean |-> TRUE]
Workloads == {[schema |-> "v2", execution |-> 1, sources |-> <<Bind(1, FALSE), Bind(2, TRUE)>>,
               inputs |-> FALSE, outputs |-> TRUE],
              [schema |-> "v3", execution |-> 1, sources |-> <<>>,
               inputs |-> TRUE, outputs |-> FALSE]}

(***************************************************************************)
(* The outputs of a run and their archive, module Archive: a local storage *)
(* and an MLflow one whose transfers are within or above its threshold.    *)
(***************************************************************************)
Storage(root, kind, small) == [root |-> root, kind |-> kind, small |-> small]
Storages == {Storage("disk", "local", TRUE), Storage("spare", "mlflow", TRUE),
             Storage("spare", "mlflow", FALSE)}

(***************************************************************************)
(* Clones of code in one another, module Sources.                          *)
(***************************************************************************)
Nesting == [r1 |-> 1, r2 |-> 2]

----------------------------------------------------------------------------
\* A part that is not the subject: as it starts.
NoTransaction == Init /\ \A w \in Worktrees, q \in Paths : disk[w][q] = Original
NoRunner == RunnerInit /\ Formal(payload)
NoArchive == ArchiveInit /\ profile.kind = "local"
NoWorktree == WorktreesInit /\ owner = "try"

Topics == {"shared", "linked", "runner", "archive", "worktree", "sources"}

\* Sources has one initial state.
WorkInit ==
    /\ subject \in Topics
    /\ \/ subject = "shared" /\ Init /\ \A q \in Paths : disk[w2][q] = Absent
       \/ subject = "linked" /\ Init
       \/ subject \notin {"shared", "linked"} /\ NoTransaction
    /\ \/ subject = "runner" /\ RunnerInit
       \/ subject # "runner" /\ NoRunner
    /\ \/ subject = "archive" /\ ArchiveInit
       \/ subject # "archive" /\ NoArchive
    /\ \/ subject = "worktree" /\ WorktreesInit
       \/ subject # "worktree" /\ NoWorktree
    /\ SourcesInit

RunnerPart == UNCHANGED <<vars, archiveVars, worktreeVars, sourceVars>>
ArchivePart == UNCHANGED <<vars, runnerVars, worktreeVars, sourceVars>>
WorktreePart == UNCHANGED <<vars, runnerVars, archiveVars, sourceVars>>
SourcePart == UNCHANGED <<vars, runnerVars, archiveVars, worktreeVars>>

\* Processes at a transaction may not deadlock; the other parts stop at their
\* bounds.
Rest == subject \notin {"shared", "linked"} /\ UNCHANGED <<vars, restVars>>

WorkNext ==
    /\ UNCHANGED subject
    /\ \/ subject = "shared" /\ SharedNext /\ UNCHANGED restVars
       \/ subject = "linked" /\ LinkedNext /\ UNCHANGED restVars
       \/ subject = "runner" /\ RunnerNext /\ RunnerPart
       \/ subject = "archive" /\ ArchiveNext /\ ArchivePart
       \/ subject = "worktree" /\ WorktreesNext /\ WorktreePart
       \/ subject = "sources" /\ SourcesNext /\ SourcePart
       \/ Rest

\* The constants meet the assumptions of the theorems.
ASSUME WorkAssumption == Distinct /\ Distinguished /\ Placed

WorkSpec == WorkInit /\ [][WorkNext]_<<subject, vars, restVars>>

=============================================================================
