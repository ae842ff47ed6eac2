------------------------------- MODULE MCLive -------------------------------
(***************************************************************************)
(* The liveness properties of Dispatch, TryFlow and Transaction on small   *)
(* instances.  A behaviour is about one of the three, its subject; the     *)
(* variables of the others keep their initial values.                      *)
(***************************************************************************)
EXTENDS Dispatch, TryFlow

CONSTANTS d1, j1, c1, c2

VARIABLES
    subject,
    disk, stable, temp, phase, stablePhase, journal, staged, lock, pc, op,
    acked, crashes, edits

transactionVars == <<disk, stable, temp, phase, stablePhase, journal, staged,
                     lock, pc, op, acked, crashes, edits>>
liveVars == <<subject, vars, tryVars, transactionVars>>

OwnHolder == [c \in Clients |-> c]
OneScope == [x \in Clients \cup Jobs |-> "main"]

\* Two processes in linked worktrees, one transaction; either may die.
OwnHome == [c \in Commands |-> IF c = c1 THEN "w1" ELSE "w2"]
T == INSTANCE Transaction
       WITH Procs <- Commands, Worktrees <- {"w1", "w2"}, Home <- OwnHome,
            Paths <- {1}, Faults <- {"kill"}, Changes <- {"write"},
            MaxTx <- 1, MaxCrashes <- 1, MaxEdits <- 0, Retention <- 0

DispatchStep(A) == /\ subject = "dispatch" /\ A
                   /\ UNCHANGED <<subject, tryVars, transactionVars>>
TryStep(A) == /\ subject = "try" /\ A
              /\ UNCHANGED <<subject, dispatchVars, transactionVars>>
TransactStep(A) == /\ subject = "transact" /\ A
                   /\ UNCHANGED <<subject, vars, tryVars>>

\* Only the subject has a choice of initial states.
LiveInit ==
    /\ subject \in {"dispatch", "try", "transact"}
    /\ Init /\ TryInit /\ T!Init
    /\ disk["w2"][1] = T!Absent
    /\ subject # "transact" => disk["w1"][1] = T!Absent
LiveNext ==
    \/ DispatchStep(Next) \/ TryStep(TryNext)
    \/ TransactStep(\E c \in Commands : T!Client(c) \/ T!Tool(c) \/ T!Kill(c))

\* The subject never changes, so one fairness condition serves two of them.
LiveSpec ==
    /\ LiveInit /\ [][LiveNext]_liveVars
    /\ \A d \in Clients : WF_liveVars(DispatchStep(DaemonStep(d)))
    /\ \A t \in Tasks : WF_liveVars(DispatchStep(WorkerStep(t)))
    /\ \A c \in Commands :
         /\ WF_liveVars(TryStep(Continue(c)) \/ TransactStep(T!Tool(c) \/ T!Recover(c)))
         /\ SF_liveVars(TryStep(BeginResume(c)) \/ TransactStep(T!Acquire(c)))
         /\ SF_liveVars(TryStep(BeginReconcile(c)))
    /\ \A a \in Attempts : WF_liveVars(TryStep(ExpireClaim(a)))

(* Of two processes that read, write and recover canonical records: a      *)
(* prepared journal is finished, and whoever waits for the lock gets its   *)
(* turn and ends, although the other may die holding it.  (The two are     *)
(* alike, so one of them stands for both.)                                 *)
Progress == T!PreparedIsFinished /\ T!WaiterEnds(c1)

=============================================================================
