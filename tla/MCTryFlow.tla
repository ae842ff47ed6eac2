----------------------------- MODULE MCTryFlow -----------------------------
(* Instances of TryFlow for TLC. *)
EXTENDS TryFlow, TLC

CONSTANTS c1, c2

NoHolder == [c \in {} |-> c]

CommandSymmetry == Permutations(Commands)

\* With a second Attempt the Try stays open and keeps its worktrees, and no
\* heartbeat stalls: closing, cleaning up and stalling are explored on one Attempt.
Focus ==
    row[2].state # "absent" =>
        /\ try = "open"
        /\ \A a \in Attempts : ~row[a].cleaned
        /\ \A c \in Commands : cmd[c].op \notin {"conclude", "adopt", "cleanup"}
        /\ \A a \in Attempts : Tended(a) /\ job[a].state = "running" => live[a]

=============================================================================
