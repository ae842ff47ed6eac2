----------------------------- MODULE MCDispatch -----------------------------
(* Instances of Dispatch for TLC. *)
EXTENDS Dispatch, TLC

CONSTANTS d1, d2, j1, j2

OwnHolder == [c \in Clients |-> c]

\* Daemons of one worktree, with names of their own, are interchangeable.
Daemons == Permutations(Clients)

Symmetry == Daemons \cup Permutations(Jobs)

\* The daemon of another worktree ticks only while the first one is between two
\* ticks, about to give up a lost job, or about to renew its lease.
Aside == tick[d2].pc # "idle" => tick[d1].pc \in {"idle", "lost", "pool"}

\* One worktree, or two linked ones.
OneScope == [x \in Clients \cup Jobs |-> "main"]
TwoScopes == [x \in Clients \cup Jobs |-> IF x \in {d1, j1} THEN "main" ELSE "linked"]

=============================================================================
