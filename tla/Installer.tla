----------------------------- MODULE Installer -----------------------------
(***************************************************************************)
(* The installer of the bundled agent skill: internal/skill/install.go,    *)
(* its lock, and the derived replacement of internal/record/atomic.go it   *)
(* publishes with.  Binaries of several versions install into one          *)
(* destination and check it; the directory at the destination may be       *)
(* replaced, files may be edited by hand and any command may die.          *)
(*                                                                         *)
(* An installer works on the directory it has opened and asks before and   *)
(* after every file whether that is still the one at the destination.  A   *)
(* check takes no lock.                                                    *)
(***************************************************************************)
EXTENDS Naturals

CONSTANTS
    Installers,   \* processes of "exp skill"
    Bundles,      \* contents of the bundle, one for each binary
    Size,         \* number of bundled files; they are written and read in order
    Folders,      \* directories that may stand at the destination
    AtRest,       \* a user without a command
    MaxRuns, MaxTouches   \* bounds on commands, and on edits by hand and replaced directories

\* The bundle has files; edited content is no bundle's, and an absent directory,
\* or nobody's lock, is none of those there are.
Installable ==
    /\ Size \in Nat \ {0}
    /\ "edited" \notin Bundles
    /\ "none" \notin Folders
    /\ AtRest \notin Installers

VARIABLES
    folder,   \* the directory that stands at the destination, "none" if there is none
    file,     \* file[d][n]: the n-th file of directory d
    spare,    \* spare[d]: whose publication temporaries are in directory d
    latch,    \* who holds the lock beside the destination
    link,     \* what is found where the link of the consumer belongs
    run,      \* the command of each user
    whole,    \* history: checks during which their directory was complete
    count     \* commands, edits and replaced directories so far

installerVars == <<folder, file, spare, latch, link, run, whole, count>>

Bundled == 1 .. Size
Complete(d, v) == \A n \in Bundled : file[d][n] = v

InstallerInit ==
    /\ folder \in Folders \cup {"none"}
    /\ \E v \in Bundles :
         file = [d \in Folders |-> [n \in Bundled |-> IF d = folder THEN v ELSE "absent"]]
    /\ spare = [d \in Folders |-> {}]
    /\ latch = AtRest
    /\ link \in {"missing", "wrong"}
    /\ run = [u \in Installers |-> AtRest]
    /\ whole = {}
    /\ count = [runs |-> 0, edits |-> 0, swaps |-> 0]

Doing(u, pc) == run[u] # AtRest /\ run[u].pc = pc
SetRun(u, r) == run' = [run EXCEPT ![u] = r]
GoTo(u, pc) == SetRun(u, [run[u] EXCEPT !.pc = pc])
Ready(u) == run[u] = AtRest /\ count.runs < MaxRuns
Launch(u, r) == SetRun(u, r) /\ count' = [count EXCEPT !.runs = @ + 1]
files == <<file, spare>>

\* An error ends the command: its temporary is removed and the lock released.
GiveUp(u) ==
    /\ SetRun(u, AtRest)
    /\ spare' = IF latch = u THEN [spare EXCEPT ![run[u].root] = @ \ {u}] ELSE spare
    /\ latch' = IF latch = u THEN AtRest ELSE latch

(***************************************************************************)
(* Install                                                                 *)
(***************************************************************************)
\* A missing destination is created before the lock is taken.
ResolveDestination(u, v) ==
    /\ Ready(u)
    /\ \E d \in Folders :
         /\ folder = d \/ (folder = "none" /\ Complete(d, "absent") /\ spare[d] = {})
         /\ folder' = d
         /\ Launch(u, [pc |-> "lock", ver |-> v, root |-> d, n |-> 1, old |-> "absent",
                       good |-> FALSE, edits |-> count.edits])
    /\ UNCHANGED <<files, latch, link>>

\* Faulty variant: the lock does not keep others out.
Unlatched(u) == TRUE

LatchFree(u) == latch = AtRest

\* The opened directory, the canonical and the requested path are one.
Steady(u) == folder = run[u].root

\* Temporaries of publications that were interrupted are removed first.
LockAndClean(u) ==
    /\ Doing(u, "lock") /\ LatchFree(u)
    /\ IF Steady(u)
       THEN /\ latch' = u
            /\ spare' = [spare EXCEPT ![run[u].root] = {}]
            /\ GoTo(u, "inspect")
       ELSE GiveUp(u)
    /\ UNCHANGED <<folder, file, link, count>>

\* The next file, unless the directory was replaced meanwhile.
NextFile(u) ==
    IF ~Steady(u) THEN GiveUp(u)
    ELSE /\ SetRun(u, [run[u] EXCEPT !.n = @ + 1,
                       !.pc = IF run[u].n = Size THEN "link" ELSE "inspect"])
         /\ UNCHANGED latch

InspectFile(u) ==
    /\ Doing(u, "inspect")
    /\ LET r == run[u]
           found == file[r.root][r.n]
       IN  IF found = r.ver
           THEN NextFile(u) /\ (Steady(u) => UNCHANGED spare)
           ELSE /\ SetRun(u, [r EXCEPT !.old = found, !.pc = "verify"])
                /\ spare' = [spare EXCEPT ![r.root] = @ \cup {u}]
                /\ UNCHANGED latch
    /\ UNCHANGED <<folder, file, link, count>>

\* The content that was read must still be there; what comes after this last
\* look is replaced all the same, unless there was no file.
VerifyFile(u) ==
    /\ Doing(u, "verify")
    /\ IF file[run[u].root][run[u].n] = run[u].old
       THEN GoTo(u, "rename") /\ UNCHANGED <<spare, latch>>
       ELSE GiveUp(u)
    /\ UNCHANGED <<folder, file, link, count>>

RenameFile(u) ==
    /\ Doing(u, "rename")
    /\ LET r == run[u]
       IN  IF r.old = "absent" /\ file[r.root][r.n] # "absent"
           THEN GiveUp(u) /\ UNCHANGED file
           ELSE /\ file' = [file EXCEPT ![r.root][r.n] = r.ver]
                /\ GoTo(u, "tidy")
                /\ UNCHANGED <<spare, latch>>
    /\ UNCHANGED <<folder, link, count>>

\* The backup is removed, the directory synced and the destination revisited.
TidyFile(u) ==
    /\ Doing(u, "tidy")
    /\ spare' = [spare EXCEPT ![run[u].root] = @ \ {u}]
    /\ NextFile(u)
    /\ UNCHANGED <<folder, file, link, count>>

\* Only a missing link is created; a symlink elsewhere is an error.  The
\* destination is revisited a last time.
Success(u) == Steady(u) /\ link # "wrong"

InstallLink(u) ==
    /\ Doing(u, "link")
    /\ link' = IF Steady(u) /\ link = "missing" THEN "right" ELSE link
    /\ IF Success(u)
       THEN SetRun(u, [run[u] EXCEPT !.pc = "unlock", !.good = TRUE]) /\ UNCHANGED <<spare, latch>>
       ELSE GiveUp(u)
    /\ UNCHANGED <<folder, file, count>>

Unlock(u) ==
    /\ Doing(u, "unlock")
    /\ GiveUp(u)
    /\ UNCHANGED <<folder, file, link, count>>

\* Any access to a file, and the deadline, may end an installation.
InstallFails(u) ==
    /\ run[u] # AtRest /\ run[u].pc \in {"lock", "inspect", "verify", "rename", "tidy", "link"}
    /\ GiveUp(u)
    /\ UNCHANGED <<folder, file, link, count>>

(***************************************************************************)
(* Check                                                                   *)
(***************************************************************************)
BeginCheck(u, v) ==
    /\ Ready(u) /\ folder # "none"
    /\ Launch(u, [pc |-> "read", ver |-> v, root |-> folder, n |-> 1, old |-> "absent",
                  good |-> TRUE, edits |-> count.edits])
    /\ UNCHANGED <<folder, files, latch, link>>

ReadFile(u) == file[run[u].root][run[u].n]

CheckFile(u) ==
    /\ Doing(u, "read")
    /\ SetRun(u, [run[u] EXCEPT !.good = @ /\ ReadFile(u) = run[u].ver, !.n = @ + 1,
                             !.pc = IF run[u].n = Size THEN "walk" ELSE "read"])
    /\ UNCHANGED <<folder, files, latch, link, count>>

\* A temporary tells of an interrupted installation; then the link is read.
CheckRest(u) ==
    /\ Doing(u, "walk")
    /\ SetRun(u, [run[u] EXCEPT !.good = @ /\ spare[run[u].root] = {} /\ link = "right",
                             !.pc = "report"])
    /\ UNCHANGED <<folder, files, latch, link, count>>

Report(u) ==
    /\ Doing(u, "report")
    /\ SetRun(u, AtRest)
    /\ UNCHANGED <<folder, files, latch, link, count>>

(***************************************************************************)
(* Around them                                                             *)
(***************************************************************************)
\* The operating system releases the lock of a process that dies.
DieInstall(u) ==
    /\ run[u] # AtRest
    /\ SetRun(u, AtRest)
    /\ latch' = IF latch = u THEN AtRest ELSE latch
    /\ UNCHANGED <<folder, files, link, count>>

EditFile(d, n) ==
    /\ count.edits + count.swaps < MaxTouches
    /\ file' = [file EXCEPT ![d][n] = "edited"]
    /\ count' = [count EXCEPT !.edits = @ + 1]
    /\ UNCHANGED <<folder, spare, latch, link, run>>

SwapFolder(d) ==
    /\ count.edits + count.swaps < MaxTouches /\ d # folder
    /\ folder' = d
    /\ count' = [count EXCEPT !.swaps = @ + 1]
    /\ UNCHANGED <<files, latch, link, run>>

InstallStep(u) ==
    \/ \E v \in Bundles : ResolveDestination(u, v) \/ BeginCheck(u, v)
    \/ LockAndClean(u) \/ InspectFile(u) \/ VerifyFile(u) \/ RenameFile(u) \/ TidyFile(u)
    \/ InstallLink(u) \/ Unlock(u) \/ InstallFails(u)
    \/ CheckFile(u) \/ CheckRest(u) \/ Report(u)
    \/ DieInstall(u)

Checking(u) == run[u] # AtRest /\ run[u].pc \in {"read", "walk", "report"}

\* What a check may have seen at one instant.
Witnessed ==
    whole' = {u \in Installers :
        Checking(u)' /\ (u \in whole \/ Complete(run[u].root, run[u].ver)')}

InstallerNext ==
    /\ \/ \E u \in Installers : InstallStep(u)
       \/ \E d \in Folders : SwapFolder(d) \/ \E n \in Bundled : EditFile(d, n)
    /\ Witnessed

InstallerSpec == InstallerInit /\ [][InstallerNext]_installerVars

(***************************************************************************)
(* Properties                                                              *)
(***************************************************************************)
\* Nobody has edited a file by hand since the command of u began.
Undisturbed(u) == count'.edits = run[u].edits

\* An installation that succeeds has put its own version, the whole of it and
\* nothing of a publication under way, where it was asked to.
SuccessIsWhole(u) ==
    Doing(u, "unlock")' /\ ~Doing(u, "unlock") /\ Undisturbed(u) =>
        (folder # "none" /\ Complete(folder, run[u].ver) /\ spare[folder] = {})'

\* A check reads file after file while installers of other versions write, yet
\* what it calls current has existed as a whole.
CurrentWasWhole(u) ==
    Doing(u, "report")' /\ ~Doing(u, "report") /\ run'[u].good /\ Undisturbed(u) => u \in whole'

\* No installer removes the temporary of a publication that is under way.
TemporariesKept(u) ==
    Doing(u, "rename") /\ Doing(u, "rename")' => u \in spare'[run[u].root]

InstallHonest ==
    \A u \in Installers : SuccessIsWhole(u) /\ CurrentWasWhole(u) /\ TemporariesKept(u)

\* What "skill install" and "skill check" report is true of the directory.
InstallReports == [][InstallHonest]_installerVars

=============================================================================
