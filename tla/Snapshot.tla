------------------------------ MODULE Snapshot ------------------------------
(***************************************************************************)
(* What a Try is seeded with: internal/sourcesnapshot captures a clone     *)
(* that may be dirty and publishes its bytes as a bundle;                  *)
(* internal/workspacebackend seeds a new worktree from the bundle.         *)
(*                                                                         *)
(* A capture asks git and the file system one thing after the other while  *)
(* people go on working in the clone, then asks everything again.  A clone *)
(* has no version to compare: a file that is changed and put back between  *)
(* the two looks is not noticed, so here nobody puts back what was there   *)
(* before.  Git objects never change: what HEAD and the base commit differ *)
(* in follows from the two, and is left out.                               *)
(***************************************************************************)
EXTENDS Naturals, FiniteSets

CONSTANTS
    Inside, Outside,   \* paths below the subdirectory of the Source, and the others
    Tracked,         \* the paths that HEAD has when the capture begins
    Unset,             \* nothing yet
    MaxWork            \* bound on what people do

Places == Inside \cup Outside
Missing == 0

\* The paths of HEAD are paths.
Tidy == Tracked \subseteq Places

VARIABLES
    clone,    \* HEAD, its tree, the files, the index, submodules and odd nodes
    cap,      \* the capture and the preparation that follows it
    bundle,   \* the published bundle, Unset if there is none that authenticates
    plot,     \* the new worktree
    seen,     \* history: the clone at every moment of the capture
    work      \* what people have done so far

snapshotVars == <<clone, cap, bundle, plot, seen, work>>

Initial(p) == IF p \in Tracked THEN 1 ELSE Missing

SnapshotInit ==
    /\ \E dirty \in SUBSET Inside :
         clone = [head |-> 1, tree |-> [p \in Places |-> Initial(p)],
                  file |-> [p \in Places |-> IF p \in dirty THEN 2 ELSE Initial(p)],
                  tracked |-> Tracked, flagged |-> {},
                  gitlinks |-> "recorded", odd |-> FALSE]
    /\ cap \in {[pc |-> "flags", mode |-> m] : m \in {"clean", "dirty"}}
    /\ bundle = Unset
    /\ plot = Unset
    /\ seen = {clone}
    /\ work = 0

(***************************************************************************)
(* What git tells of a clone                                               *)
(***************************************************************************)
\* A path whose index entry is flagged assume-unchanged is not looked at.
Changed(c) == {p \in c.tracked \ c.flagged : c.file[p] # c.tree[p]}
New(c) == {p \in Places \ c.tracked : c.file[p] # Missing}

\* Porcelain status names the paths, and the blobs of HEAD, not the bytes.
Status(c) == [changed |-> {<<p, c.tree[p]>> : p \in Changed(c)}, new |-> New(c)]
Patch(c) == {<<p, c.tree[p], c.file[p]>> : p \in Changed(c)}
Bytes(c, ps) == {<<p, c.file[p]>> : p \in ps}

ChangedIn(status) == {e[1] : e \in status.changed}
Contained(status) == ChangedIn(status) \cup status.new \subseteq Inside

\* Every index entry is an ordinary one.
OrdinaryIndex(c) == c.flagged = {}
Submodules(c) == c.gitlinks = "recorded"
SupportedNodes(c) == ~c.odd

(***************************************************************************)
(* Capture                                                                 *)
(***************************************************************************)
Failed == [pc |-> "failed", mode |-> cap.mode]
Reject == cap' = Failed /\ UNCHANGED plot
Note(field, value) ==
    [x \in {field} \cup DOMAIN cap |-> IF x = field THEN value ELSE cap[x]]

\* One look at the clone: goes on to the next, or ends the capture.
Look(at, next, ok, found) ==
    /\ cap.pc = at
    /\ cap' = IF ok THEN [found EXCEPT !.pc = next] ELSE Failed
    /\ UNCHANGED <<clone, bundle, plot, work>>

IsDirty == cap.mode = "dirty"

\* validateIdentity: the clone is the registered one, then its index and HEAD.
ReadIndexFlags == Look("flags", "head", OrdinaryIndex(clone), cap)
ReadHead == Look("head", "status", TRUE, Note("head", clone.head))

\* A clean capture wants an empty status, a dirty one paths of the Source.
ReadStatus ==
    LET s == Status(clone)
    IN  IF IsDirty
        THEN Look("status", "patch", Contained(s), Note("status", s))
        ELSE Look("status", "flags2", s.changed = {} /\ s.new = {}, Note("status", s))

\* The patch and the list of its paths are two calls of git.
TrackedPatch == Look("patch", "paths", TRUE, Note("patch", Patch(clone)))
TrackedPaths ==
    Look("paths", "gitlinks",
         /\ Cardinality(Changed(clone)) = 0 <=> cap.patch = {}
         /\ Changed(clone) = ChangedIn(cap.status), cap)
CaptureSubmodules == Look("gitlinks", "nodes", Submodules(clone), cap)

\* Nothing to capture is an error, too.
RejectNodes ==
    Look("nodes", "files",
         SupportedNodes(clone) /\ ChangedIn(cap.status) \cup cap.status.new # {},
         Note("files", {}))

\* Untracked files one by one; a file that is gone ends the capture.
Unread == cap.status.new \ {f[1] : f \in cap.files}

CaptureUntracked ==
    /\ cap.pc = "files" /\ Unread # {}
    /\ \E p \in Unread :
         Look("files", "files", clone.file[p] # Missing,
              Note("files", cap.files \cup Bytes(clone, {p})))

\* The state every dirty path is to have in the worktree.
CaptureSeedPaths ==
    /\ cap.pc = "files" /\ Unread = {}
    /\ Look("files", "flags2", TRUE,
            Note("seeds", Bytes(clone, ChangedIn(cap.status)) \cup cap.files))

(***************************************************************************)
(* The second look                                                         *)
(***************************************************************************)
RecheckIndexFlags == Look("flags2", "head2", OrdinaryIndex(clone), cap)
RecheckHead == Look("head2", "status2", clone.head = cap.head, cap)
RecheckStatus ==
    Look("status2", IF IsDirty THEN "patch2" ELSE "captured", Status(clone) = cap.status, cap)
RecheckPatch ==
    Look("patch2", "gitlinks2", Patch(clone) = cap.patch /\ Changed(clone) = ChangedIn(cap.status), cap)
RecheckSubmodules == Look("gitlinks2", "nodes2", Submodules(clone), cap)
RecheckNodes == Look("nodes2", "files2", SupportedNodes(clone), Note("again", {}))

\* Faulty variant: the files must only be there.
SameNames(found) == {f[1] : f \in found} = {f[1] : f \in cap.files}

SameFiles(found) == found = cap.files

RecheckUntracked ==
    /\ cap.pc = "files2"
    /\ LET left == cap.status.new \ {f[1] : f \in cap.again}
       IN  IF left = {}
           THEN Look("files2", "publish", SameFiles(cap.again), cap)
           ELSE \E p \in left :
                  Look("files2", "files2", clone.file[p] # Missing,
                       Note("again", cap.again \cup Bytes(clone, {p})))

(***************************************************************************)
(* The bundle                                                              *)
(***************************************************************************)
\* The manifest names and authenticates everything that was captured.
Manifest == [head |-> cap.head, patch |-> cap.patch, files |-> cap.files, seeds |-> cap.seeds]

Parts == {"manifest", "patch", "files"}

\* A private staging directory is renamed to the name of its digest.
RenameBundle ==
    /\ cap.pc = "publish"
    /\ cap' = [cap EXCEPT !.pc = "reopen"]
    /\ bundle' = [manifest |-> Manifest, sound |-> Parts]
    /\ UNCHANGED <<clone, plot, work>>

\* The manifest is the one of this digest, nothing is missing or added, and
\* every payload has the size and the hash the manifest gives it.
ValidManifest == "manifest" \in bundle.sound /\ bundle.manifest = Manifest
ListedEntries == bundle.sound = Parts
ValidPayload(part) == part \in bundle.sound

Opens ==
    /\ bundle # Unset
    /\ ValidManifest /\ ListedEntries /\ ValidPayload("patch") /\ ValidPayload("files")

\* A bundle that does not validate is removed again.
ReopenBundle ==
    /\ cap.pc = "reopen"
    /\ cap' = IF Opens THEN [cap EXCEPT !.pc = "captured"] ELSE Failed
    /\ bundle' = IF Opens THEN bundle ELSE Unset
    /\ UNCHANGED <<clone, plot, work>>

(***************************************************************************)
(* The worktree                                                            *)
(***************************************************************************)
\* The tree of the captured commit.
TreeOf(h) == [p \in Places |-> (CHOOSE c \in seen : c.head = h).tree[p]]

PrepareCheckout ==
    /\ cap.pc = "captured"
    /\ IF IsDirty /\ ~Opens
       THEN Reject
       ELSE /\ plot' = TreeOf(cap.head)
            /\ cap' = [cap EXCEPT !.pc = IF IsDirty THEN "apply" ELSE "verify"]
    /\ UNCHANGED <<clone, bundle, work>>

\* git apply refuses a file that is not what the patch starts from.
Applies == \A e \in cap.patch : plot[e[1]] = e[2]

ApplyPatch ==
    /\ cap.pc = "apply"
    /\ IF Opens /\ Applies
       THEN /\ plot' = [p \in Places |-> IF \E e \in cap.patch : e[1] = p
                                        THEN (CHOOSE e \in cap.patch : e[1] = p)[3]
                                        ELSE plot[p]]
            /\ cap' = [Note("restored", {}) EXCEPT !.pc = "restore"]
       ELSE Reject
    /\ UNCHANGED <<clone, bundle, work>>

\* An existing path is refused, and what was created before is removed.
RestoreUntracked ==
    /\ cap.pc = "restore"
    /\ LET left == {f \in cap.files : f[1] \notin cap.restored}
       IN  IF left = {}
           THEN cap' = [cap EXCEPT !.pc = "verify"] /\ UNCHANGED plot
           ELSE \E f \in left :
                  IF Opens /\ plot[f[1]] = Missing
                  THEN /\ plot' = [plot EXCEPT ![f[1]] = f[2]]
                       /\ cap' = [cap EXCEPT !.restored = @ \cup {f[1]}]
                  ELSE /\ plot' = [p \in Places |-> IF p \in cap.restored THEN Missing ELSE plot[p]]
                       /\ cap' = Failed
    /\ UNCHANGED <<clone, bundle, work>>

\* The dirty digest covers the patch and the untracked files, and HEAD.
DirtyDigest == {<<e[1], e[3]>> : e \in cap.patch} \cup cap.files

\* The worktree is captured in its turn and must give the same digest.
Recaptured ==
    {<<p, plot[p]>> : p \in {q \in Places : plot[q] # TreeOf(cap.head)[q]}} =
        (IF IsDirty THEN DirtyDigest ELSE {})

VerifyPrepared ==
    /\ cap.pc = "verify"
    /\ IF Recaptured THEN cap' = [cap EXCEPT !.pc = "ready"] ELSE cap' = Failed
    /\ UNCHANGED <<clone, bundle, plot, work>>

(***************************************************************************)
(* People at work                                                          *)
(***************************************************************************)
Work(c) ==
    /\ work < MaxWork /\ cap.pc \notin {"ready", "failed"}
    /\ clone' = c
    /\ work' = work + 1
    /\ UNCHANGED <<cap, bundle, plot>>

\* Contents are numbered as they are written.
Write(p) == Work([clone EXCEPT !.file[p] = work + 3])
Delete(p) == clone.file[p] \in {1, 2} /\ Work([clone EXCEPT !.file[p] = Missing])
Add(p) == p \in New(clone) /\ Work([clone EXCEPT !.tracked = @ \cup {p}])
GitCommit ==
    /\ Changed(clone) # {}
    /\ Work([clone EXCEPT !.head = @ + 1,
                !.tree = [p \in Places |-> IF p \in Changed(clone) THEN clone.file[p] ELSE @[p]]])
Flag(p) == p \in clone.tracked \ clone.flagged /\ Work([clone EXCEPT !.flagged = @ \cup {p}])
MoveSubmodule == Submodules(clone) /\ Work([clone EXCEPT !.gitlinks = "moved"])
PlaceNode == SupportedNodes(clone) /\ Work([clone EXCEPT !.odd = TRUE])

\* The cache may lose a bundle or a part of it, and somebody may work in the new
\* worktree.
DamageBundle ==
    /\ bundle # Unset /\ work < MaxWork
    /\ bundle' \in {Unset} \cup {[bundle EXCEPT !.sound = @ \ {part}] : part \in bundle.sound}
    /\ work' = work + 1
    /\ UNCHANGED <<clone, cap, plot>>
Touch(p) ==
    /\ plot # Unset /\ cap.pc # "ready" /\ work < MaxWork
    /\ plot' = [plot EXCEPT ![p] = work + 3] /\ work' = work + 1
    /\ UNCHANGED <<clone, cap, bundle>>

Observe ==
    \/ ReadIndexFlags \/ ReadHead \/ ReadStatus \/ TrackedPatch \/ TrackedPaths
    \/ CaptureSubmodules \/ RejectNodes \/ CaptureUntracked \/ CaptureSeedPaths
    \/ RecheckIndexFlags \/ RecheckHead \/ RecheckStatus \/ RecheckPatch
    \/ RecheckSubmodules \/ RecheckNodes \/ RecheckUntracked

SnapshotNext ==
    /\ \/ Observe \/ RenameBundle \/ ReopenBundle
       \/ PrepareCheckout \/ ApplyPatch \/ RestoreUntracked \/ VerifyPrepared
       \/ \E p \in Places : Write(p) \/ Delete(p) \/ Add(p) \/ Flag(p) \/ Touch(p)
       \/ GitCommit \/ MoveSubmodule \/ PlaceNode \/ DamageBundle
    /\ seen' = IF cap.pc \in {"captured", "apply", "restore", "verify", "ready", "failed"}
               THEN seen ELSE seen \cup {clone'}

SnapshotSpec == SnapshotInit /\ [][SnapshotNext]_snapshotVars

(***************************************************************************)
(* Properties                                                              *)
(***************************************************************************)
\* A clone the capture supports, with the HEAD it names.
Fit(c) == c.head = cap.head /\ OrdinaryIndex(c) /\ Status(c) = cap.status

\* All of what a dirty capture has collected is what the clone was like at one
\* moment between the beginning of the capture and its end.
Captured(c) ==
    /\ Fit(c)
    /\ IsDirty =>
         /\ Submodules(c) /\ SupportedNodes(c)
         /\ Patch(c) = cap.patch
         /\ Bytes(c, New(c)) = cap.files
         /\ Bytes(c, Changed(c) \cup New(c)) = cap.seeds

Returned == {"captured", "apply", "restore", "verify", "ready"}

\* HEAD and the flags of the index are looked at again before the patch is, and
\* the patch leaves out what is flagged and what is in HEAD by then: a commit or
\* a flag between the two looks is not noticed.
Rebased == \E c \in seen : c.head > cap.head \/ ~OrdinaryIndex(c)

\* The files come from different moments, the result is of one: so is the
\* worktree that is handed out.
SnapshotIsInstant ==
    cap.pc \in Returned /\ ~Rebased =>
        \E c \in seen : Captured(c) /\ (cap.pc = "ready" => plot = c.file)

=============================================================================
