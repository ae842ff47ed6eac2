---------------------------- MODULE AtomicCommit ----------------------------
(***************************************************************************)
(* What record.Store.Transact promises: each transaction happens at most   *)
(* once, in one worktree, and changes all of its canonical paths in one    *)
(* step, whatever crashes before, during or after it; what its caller was  *)
(* told has happened, and stays.  Nothing else the tool does changes a     *)
(* canonical path.                                                         *)
(***************************************************************************)
EXTENDS Integers

CONSTANTS Worktrees, Paths, MaxTx

TxIds == 1 .. MaxTx
Absent == <<"absent", 0>>
Original == <<"original", 0>>
Written(t) == <<"tx", t>>

VARIABLES
    canon,      \* canon[w][q]: canonical content of path q in worktree w
    committed,  \* transactions that have happened
    acked       \* transactions whose caller was told so

vars == <<canon, committed, acked>>

Init == /\ canon \in [Worktrees -> [Paths -> {Absent, Original}]]
        /\ committed = {}
        /\ acked = {}

\* Transaction t happens in one worktree: it writes the paths in new and deletes
\* the paths in gone.
Commit(t) ==
    /\ t \notin committed
    /\ committed' = committed \cup {t}
    /\ UNCHANGED acked
    /\ \E w \in Worktrees, new, gone \in SUBSET Paths :
         /\ new \cup gone # {}
         /\ new \cap gone = {}
         /\ \A q \in gone : canon[w][q] # Absent
         /\ canon' = [canon EXCEPT ![w] = [q \in Paths |->
                         IF q \in new THEN Written(t)
                         ELSE IF q \in gone THEN Absent ELSE canon[w][q]]]

Acknowledge(t) ==
    /\ t \in committed
    /\ acked' = acked \cup {t}
    /\ UNCHANGED <<canon, committed>>

Next == \E t \in TxIds : Commit(t) \/ Acknowledge(t)

Spec == Init /\ [][Next]_vars

=============================================================================
