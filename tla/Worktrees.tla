----------------------------- MODULE Worktrees -----------------------------
(***************************************************************************)
(* The managed worktree of one owner, internal/experimentgit: an           *)
(* Experiment's is prepared, worked in by an agent and committed, a Try's  *)
(* is prepared, run in and cleaned up.  The commands call git again and    *)
(* again while somebody may work in the worktree; an Experiment's commands *)
(* take no lock.                                                           *)
(*                                                                         *)
(* A commit is a number; nothing in the repository rewrites the branch.    *)
(* The Experiment stays active, the Try's Attempt terminal.                *)
(***************************************************************************)
EXTENDS Naturals, Sequences, FiniteSets

CONSTANTS
    Commands,     \* processes that run the commands
    TreePaths,    \* paths of the repository
    Globs,        \* the paths that the allowlist matches
    Metadata,     \* the paths below the canonical metadata of the Project
    Gone,         \* no worktree, no branch
    MaxRounds,    \* bound on the commands begun
    MaxHands      \* bound on what is done in the worktree by hand

Base == 1   \* the commit that the commands name

\* A worktree: the branch it is on, its index and its files.
FileTrees == [TreePaths -> Nat]
WorkingTrees == [on : {"owner", "other"}, index : FileTrees, file : FileTrees]

\* What stands for no worktree and no branch is no worktree and no commit.
Distinguished == Gone \notin Nat /\ Gone \notin WorkingTrees

VARIABLES
    commits,   \* the commits: parents, tree
    branch,    \* the commit of the owner's branch
    checkout,  \* the worktree: its branch, its index, its files
    owner,     \* the kind of the owner
    act,       \* what each process does
    reports,   \* history: the change sets that were reported
    began, hands

worktreeVars == <<commits, branch, checkout, owner, act, reports, began, hands>>

StartTree == [p \in TreePaths |-> 1]
Idle == [pc |-> "idle", kind |-> "none"]
NewTree(c, b) == [on |-> b, index |-> commits[c].tree, file |-> commits[c].tree]

WorktreesInit ==
    /\ commits = <<[parents |-> <<>>, tree |-> StartTree]>>
    /\ owner \in {"experiment", "try"}
    /\ branch = IF owner = "try" THEN Base ELSE Gone
    /\ checkout = IF owner = "try"
                  THEN [on |-> "owner", index |-> StartTree, file |-> StartTree] ELSE Gone
    /\ act = [c \in Commands |-> Idle]
    /\ reports = {}
    /\ began = 0 /\ hands = 0

(***************************************************************************)
(* What git tells                                                          *)
(***************************************************************************)
Present == checkout # Gone
Tip == IF checkout.on = "owner" THEN branch ELSE Base
OnBranch == Present /\ checkout.on = "owner"
Tree(c) == commits[c].tree
Differ(f, g) == {p \in TreePaths : f[p] # g[p]}

\* git diff HEAD and git ls-files --others together: the index does not count.
ChangedPaths == Differ(checkout.file, Tree(Tip))
StagedPaths == Differ(checkout.index, Tree(Tip))
Settled == checkout.file = Tree(Tip) /\ checkout.index = Tree(Tip)

ForbiddenPath(p) == p \in Metadata
AllowedPath(p) == p \in Globs
Permitted(ps) == \A p \in ps : ~ForbiddenPath(p) /\ AllowedPath(p)

\* Faulty variant: anything that comes from the base.
RequireDescent(head) == head # Base

RequireSingleParent(head) == commits[head].parents = <<Base>>
CommittedPaths(head) == Differ(Tree(Base), Tree(head))

(***************************************************************************)
(* Steps of a command                                                      *)
(***************************************************************************)
Move(c, pc) == act' = [act EXCEPT ![c].pc = pc]
With(c, pc, r) == act' = [act EXCEPT ![c] = [r EXCEPT !.pc = pc]]
EndCommand(c) == act' = [act EXCEPT ![c] = Idle]
Go(c, ok, pc) == IF ok THEN Move(c, pc) ELSE EndCommand(c)
AtStep(c, pc) == act[c].pc = pc
Local == UNCHANGED <<commits, branch, checkout, owner, reports, began, hands>>

(***************************************************************************)
(* Which provider prepares                                                 *)
(***************************************************************************)
Providers == {"native_git", "dev_cli"}

\* The flag, or the configuration: what it asks for, whether its layer is trusted
\* and the provider enabled, and whether native git may stand in.
Wishes == [flag : Providers \cup {"none"}, asked : Providers, trusted : BOOLEAN,
           enabled : BOOLEAN, native : BOOLEAN]
Flagged(w) == w.flag # "none"
Requested(w) == IF Flagged(w) THEN w.flag ELSE w.asked
SelectionAllowed(w) == Flagged(w) \/ (w.trusted /\ w.enabled)
Fallback(w) == Requested(w) = "dev_cli" /\ (Flagged(w) \/ w.native)

\* dev_cli supports nothing yet.
Supports(provider) == provider = "native_git"
Resolves(w) == SelectionAllowed(w) /\ (Supports(Requested(w)) \/ Fallback(w))

\* exp experiment workspace prepare and commit, exp experiment agent, which is
\* both with the agent between, and the cleanup of a Try's clean worktree.
Kinds == IF owner = "experiment" THEN {"prepare", "commit", "agent"} ELSE {"cleanup"}

First == [prepare |-> "vacant", agent |-> "vacant", commit |-> "locate", cleanup |-> "lock"]

BeginCommand(c) ==
    /\ AtStep(c, "idle") /\ began < MaxRounds
    /\ \E k \in Kinds, w \in Wishes :
         IF k \in {"prepare", "agent"} /\ ~Resolves(w)
         THEN EndCommand(c)
         ELSE With(c, First[k], [kind |-> k, pc |-> "", head |-> Base, paths |-> {}, round |-> 1])
    /\ began' = began + 1
    /\ UNCHANGED <<commits, branch, checkout, owner, reports, hands>>

(***************************************************************************)
(* Prepare                                                                 *)
(***************************************************************************)
\* The clone is clean, the place is outside every worktree and free.
VacantPlace(c) == AtStep(c, "vacant") /\ Go(c, ~Present, "branch") /\ Local

\* git worktree add -b makes the branch first.
AddBranch(c) ==
    /\ AtStep(c, "branch")
    /\ Go(c, branch = Gone, "worktree")
    /\ branch' = IF branch = Gone THEN Base ELSE branch
    /\ UNCHANGED <<commits, checkout, owner, reports, began, hands>>
AddWorktree(c) ==
    /\ AtStep(c, "worktree")
    /\ Go(c, ~Present, "identity")
    /\ checkout' = IF Present THEN checkout ELSE NewTree(branch, "owner")
    /\ UNCHANGED <<commits, branch, owner, reports, began, hands>>

RequireWorkspaceIdentity(c) ==
    AtStep(c, "identity") /\ Go(c, OnBranch /\ branch = Base, "clean") /\ Local
RequireClean(c) ==
    AtStep(c, "clean") /\ Go(c, Present /\ Settled, "prepared") /\ Local

\* What the agent did is committed if it comes to an end and reports as asked.
RunAgent(c) ==
    /\ AtStep(c, "prepared") /\ Local
    /\ \E reported \in BOOLEAN : Go(c, act[c].kind = "agent" /\ reported, "locate")

(***************************************************************************)
(* Commit                                                                  *)
(***************************************************************************)
Locate(c) == AtStep(c, "locate") /\ Go(c, Present, "head") /\ Local

ReadTip(c) ==
    /\ AtStep(c, "head") /\ Local
    /\ IF Present THEN With(c, "onbranch", [act[c] EXCEPT !.head = Tip]) ELSE EndCommand(c)

\* A HEAD that is not the base is a commit made before: it is verified.
RequireBranch(c) ==
    /\ AtStep(c, "onbranch") /\ Local
    /\ Go(c, OnBranch, IF act[c].head # Base THEN "parent" ELSE "changes")

ListChanges(c) ==
    /\ AtStep(c, "changes") /\ Local
    /\ IF ChangedPaths # {} /\ Permitted(ChangedPaths)
       THEN With(c, "add", [act[c] EXCEPT !.paths = ChangedPaths])
       ELSE EndCommand(c)

AddChanges(c) ==
    /\ AtStep(c, "add")
    /\ checkout' = [checkout EXCEPT !.index =
                      [p \in TreePaths |-> IF p \in act[c].paths THEN checkout.file[p] ELSE @[p]]]
    /\ Move(c, "staged")
    /\ UNCHANGED <<commits, branch, owner, reports, began, hands>>

VerifyStaged(c) ==
    AtStep(c, "staged") /\ Go(c, StagedPaths = act[c].paths, "commit") /\ Local

\* git commit takes the index as it is by now, and refuses an empty one.
Recorded(parents) ==
    /\ commits' = Append(commits, [parents |-> parents, tree |-> checkout.index])
    /\ IF checkout.on = "owner" THEN branch' = Len(commits) + 1 ELSE UNCHANGED branch

CommitIndex(c) ==
    /\ AtStep(c, "commit")
    /\ IF StagedPaths = {}
       THEN EndCommand(c) /\ UNCHANGED <<commits, branch>>
       ELSE Recorded(<<Tip>>) /\ Move(c, "reread")
    /\ UNCHANGED <<checkout, owner, reports, began, hands>>

RereadHead(c) ==
    AtStep(c, "reread") /\ Local /\ With(c, "parent", [act[c] EXCEPT !.head = Tip])

\* committedChangeSet: the commit itself, and the paths checked if there are any.
VerifyParent(c) ==
    AtStep(c, "parent") /\ Local /\ Go(c, RequireSingleParent(act[c].head), "committed")
VerifyPaths(c) ==
    /\ AtStep(c, "committed") /\ Local
    /\ LET ps == CommittedPaths(act[c].head)
       IN  IF ps # {} /\ Permitted(ps) /\ (act[c].paths # {} => ps = act[c].paths)
           THEN With(c, "settled", [act[c] EXCEPT !.paths = ps]) ELSE EndCommand(c)
RequireSettled(c) ==
    /\ AtStep(c, "settled")
    /\ reports' = IF Settled THEN reports \cup {[head |-> act[c].head, paths |-> act[c].paths]}
                  ELSE reports
    /\ EndCommand(c)
    /\ UNCHANGED <<commits, branch, checkout, owner, began, hands>>

(***************************************************************************)
(* Cleanup                                                                 *)
(***************************************************************************)
Serial == {"inspect", "status", "paths", "remove"}

\* The lock of the workspace; who finds the worktree gone is done.
LockWorkspace(c) ==
    /\ AtStep(c, "lock") /\ \A d \in Commands : act[d].pc \notin Serial
    /\ Go(c, Present, "inspect") /\ Local

\* Inspect asks for HEAD and the branch, then the status, then the paths.
Inspect(c) ==
    AtStep(c, "inspect") /\ Go(c, Present /\ OnBranch /\ Tip = Base, "status") /\ Local
InspectStatus(c) == AtStep(c, "status") /\ Go(c, Present /\ Settled, "paths") /\ Local
InspectPaths(c) ==
    /\ AtStep(c, "paths") /\ Local
    /\ IF Present /\ ChangedPaths \cup CommittedPaths(Tip) = {}
       THEN With(c, IF act[c].round = 1 THEN "inspect" ELSE "remove",
                 [act[c] EXCEPT !.round = 2])
       ELSE EndCommand(c)

\* git worktree remove without --force refuses what is not clean.
RemoveAllowed == Settled

RemoveWorktree(c) ==
    /\ AtStep(c, "remove")
    /\ checkout' = IF Present /\ RemoveAllowed THEN Gone ELSE checkout
    /\ EndCommand(c)
    /\ UNCHANGED <<commits, branch, owner, reports, began, hands>>

(***************************************************************************)
(* Work in the worktree                                                    *)
(***************************************************************************)
ByHand(files, index) ==
    /\ Present /\ hands < MaxHands
    /\ hands' = hands + 1
    /\ checkout' = [checkout EXCEPT !.file = files, !.index = index]
    /\ UNCHANGED <<commits, branch, owner, act, reports, began>>

WriteByHand(p) == Present /\ ByHand([checkout.file EXCEPT ![p] = hands + 2], checkout.index)
StageByHand == Present /\ ByHand(checkout.file, checkout.file)

\* A commit, also one that merges, and another branch.
HandCommit ==
    /\ Present /\ StagedPaths # {} /\ hands < MaxHands
    /\ hands' = hands + 1
    /\ Recorded(<<Tip>>) \/ Recorded(<<Tip, Base>>)
    /\ UNCHANGED <<checkout, owner, act, reports, began>>
SwitchBranch ==
    /\ OnBranch /\ Settled /\ hands < MaxHands
    /\ hands' = hands + 1
    /\ checkout' = NewTree(Base, "other")
    /\ UNCHANGED <<commits, branch, owner, act, reports, began>>

\* A killed command releases its lock.
Die(c) == ~AtStep(c, "idle") /\ EndCommand(c) /\ Local

WorktreesNext ==
    \/ \E c \in Commands :
         \/ BeginCommand(c) \/ Die(c)
         \/ VacantPlace(c) \/ AddBranch(c) \/ AddWorktree(c)
         \/ RequireWorkspaceIdentity(c) \/ RequireClean(c) \/ RunAgent(c)
         \/ Locate(c) \/ ReadTip(c) \/ RequireBranch(c) \/ ListChanges(c)
         \/ AddChanges(c) \/ VerifyStaged(c) \/ CommitIndex(c) \/ RereadHead(c)
         \/ VerifyParent(c) \/ VerifyPaths(c) \/ RequireSettled(c)
         \/ LockWorkspace(c) \/ Inspect(c) \/ InspectStatus(c) \/ InspectPaths(c)
         \/ RemoveWorktree(c)
    \/ \E p \in TreePaths : WriteByHand(p)
    \/ StageByHand \/ HandCommit \/ SwitchBranch

WorktreesSpec == WorktreesInit /\ [][WorktreesNext]_worktreeVars

(***************************************************************************)
(* Properties                                                              *)
(***************************************************************************)
\* Whoever commits, and however often: all the change sets that are reported are
\* the same one, a single commit on the base with exactly its paths, all allowed.
ReportsExact ==
    /\ \A r, s \in reports : r = s
    /\ \A r \in reports : /\ commits[r.head].parents = <<Base>>
                          /\ r.paths = Differ(Tree(Base), Tree(r.head))
                          /\ r.paths \subseteq Globs \ Metadata

\* The worktree that is removed holds nothing that is not in a commit, and the
\* branch stays where it is.
WorkKept == Present /\ checkout' = Gone => Settled /\ branch' = branch

Careful == ReportsExact' /\ WorkKept

\* Commands that meet in a worktree where somebody works report one change set,
\* and remove only what holds no work.
WorktreeCareful == [][Careful]_worktreeVars

=============================================================================
