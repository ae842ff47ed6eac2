------------------------------ MODULE MCStore ------------------------------
(***************************************************************************)
(* The operational store under its own calls in any order, and under the   *)
(* ticks of two daemons of one worktree.  A behaviour is about one of the  *)
(* two, its subject.                                                       *)
(***************************************************************************)
EXTENDS Dispatch, TLC

CONSTANTS d1, d2, j1, j2

VARIABLE subject

\* Daemons with names of their own, or with one that was given to both.
OwnHolder == [c \in Clients |-> c]
SharedHolder == [c \in Clients |-> "daemon"]
OneScope == [x \in Clients \cup Jobs |-> "main"]

\* The calls in any order concern the direct job only while nobody is inside
\* WithDispatchLease; the daemons meet no such limit.
Lone == subject = "store" /\ (\E c \in Clients : call[c].stage # "none") =>
            \A j \in Direct : job[j].state = "absent"

\* Daemons of one worktree, with names of their own, are interchangeable.
ClientSymmetry == Permutations(Clients)

StoresInit == subject \in {"store", "daemons"} /\ Init

StoresNext ==
    /\ UNCHANGED subject
    /\ \/ subject = "store" /\ StoreNext /\ UNCHANGED <<tick, recordVars>>
       \/ subject = "daemons" /\ Next

StoresSpec == StoresInit /\ [][StoresNext]_<<subject, vars>>

=============================================================================
