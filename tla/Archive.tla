------------------------------- MODULE Archive -------------------------------
(***************************************************************************)
(* The managed outputs of one exploration Attempt and their archive.       *)
(*                                                                         *)
(* The execution receipt freezes the storage profile before the Attempt is *)
(* published.  Saving lists the files the run left, copies them into the   *)
(* content-addressed objects of that storage, uploads them to MLflow when  *)
(* the profile says so, writes the host's archive receipt, and only then   *)
(* replaces the manifest in the canonical Attempt.  Saving may fail or be  *)
(* killed between any two of these and may be repeated by anyone; files    *)
(* may be edited, profiles changed and artifacts described meanwhile.      *)
(*                                                                         *)
(* A content stands for its digest.  A manifest is a function from file    *)
(* names to [digest, note].                                                *)
(***************************************************************************)
EXTENDS Naturals, FiniteSets

CONSTANTS
    Users,        \* the commands
    Names,        \* files a run may leave
    Contents,     \* what they may contain
    Profiles,     \* storage profiles: [root, kind, small], kind "local" or "mlflow",
                  \* small when the artifacts are within its transfer threshold
    Void,         \* no command, no content
    MaxAlterations, \* bound on changes of files, profiles and objects
    MaxCommands   \* bound on commands

\* Void is neither a command nor a profile.
Distinct == Void \notin Users \cup Profiles

VARIABLES
    profile,      \* the storage profile the settings select
    routing,      \* the execution receipt: the profile frozen for the Attempt
    trial,      \* the canonical Attempt: [revision, phase, archive, list]
    receipt,      \* the archive receipt of this host: [state, list]
    outputs,      \* the output directory
    objects,      \* the content-addressed copies: pairs of a root and a content
    remote,       \* the files of the MLflow run that belongs to the Attempt
    keeper,       \* who holds the lock of the archive receipt
    chore,          \* what each command does and remembers
    changes, issued

archiveVars == <<profile, routing, trial, receipt, outputs, objects, remote,
                 keeper, chore, changes, issued>>

NoList == [n \in {} |-> Void]
Unused == [step |-> "out", seen |-> 0, list |-> NoList, state |-> "pending"]

Doing(u, step) == chore[u].step = step
Become(u, what) ==
    chore' = [chore EXCEPT ![u] = [f \in DOMAIN @ |-> IF f \in DOMAIN what THEN what[f] ELSE @[f]]]
Forget(u) == chore' = [chore EXCEPT ![u] = Unused]
-----------------------------------------------------------------------------
(* Manifests. *)

\* Scan: every file of the directory with its digest.
Scan(dir) == [n \in {m \in Names : dir[m] # Void} |-> [digest |-> dir[n], note |-> Void]]
Digests(list) == [n \in DOMAIN list |-> list[n].digest]
Object(root, content) == <<root, content>>

\* Faulty variant: the receipt's list as it is.
NotedNever(list, current) == list

\* The descriptions of the canonical manifest, put on the receipt's list.
Noted(list, current) ==
    [n \in DOMAIN list |->
        IF n \in DOMAIN current THEN [list[n] EXCEPT !.note = current[n].note] ELSE list[n]]

\* The list to archive: that of the receipt, else that of the Attempt, else
\* what the directory holds now.
ListToSave(current) ==
    LET known == IF receipt.state = "none" THEN current ELSE Noted(receipt.list, current)
    IN  IF known = NoList THEN Scan(outputs) ELSE known
-----------------------------------------------------------------------------
(* The Attempt is prepared, published and run. *)

\* Prepare reads the settings; PersistExecution writes the receipt under its lock.
PersistExecution(u) ==
    /\ Doing(u, "out") /\ issued < MaxCommands
    /\ routing = Void
    /\ routing' = profile
    /\ issued' = issued + 1
    /\ Become(u, [step |-> "publish"])
    /\ UNCHANGED <<profile, trial, receipt, outputs, objects, remote, keeper, changes>>

PublishAttempt(u) ==
    /\ Doing(u, "publish")
    /\ trial' = [trial EXCEPT !.phase = "planned", !.revision = 1]
    /\ Forget(u)
    /\ UNCHANGED <<profile, routing, receipt, outputs, objects, remote, keeper, changes, issued>>

\* The workload writes its outputs, and the Attempt becomes terminal.
RunWorkload ==
    /\ trial.phase = "planned"
    /\ outputs' \in [Names -> Contents \cup {Void}]
    /\ trial' = [trial EXCEPT !.phase = "terminal", !.revision = @ + 1]
    /\ UNCHANGED <<profile, routing, receipt, objects, remote, keeper, chore, changes, issued>>
-----------------------------------------------------------------------------
(* SaveArtifacts, at the end of a run or by exp results save. *)

BeginSave(u) ==
    /\ Doing(u, "out") /\ issued < MaxCommands
    /\ trial.phase = "terminal"
    /\ issued' = issued + 1
    /\ Become(u, [step |-> "lock", seen |-> trial.revision, list |-> trial.list,
                  state |-> trial.archive])
    /\ UNCHANGED <<profile, routing, trial, receipt, outputs, objects, remote, keeper, changes>>

\* Save takes the lock and reads the receipt; a saved one is final.
ReadReceipt(u) ==
    /\ Doing(u, "lock") /\ keeper = Void
    /\ IF receipt.state = "saved"
       THEN /\ Become(u, [step |-> "manifest", list |-> Noted(receipt.list, chore[u].list),
                          state |-> "saved"])
            /\ UNCHANGED keeper
       ELSE /\ Become(u, [step |-> "copy", list |-> ListToSave(chore[u].list)])
            /\ keeper' = u
    /\ UNCHANGED <<profile, routing, trial, receipt, outputs, objects, remote, changes, issued>>

Uncopied(u) ==
    {n \in DOMAIN chore[u].list : Object(routing.root, chore[u].list[n].digest) \notin objects}

\* CopyVerified: an object is there already, or the file still has the digest
\* it was listed with.
CopyVerified(u) ==
    /\ Doing(u, "copy")
    /\ \E n \in Uncopied(u) :
          IF outputs[n] = chore[u].list[n].digest
          THEN objects' = objects \cup {Object(routing.root, outputs[n])} /\ UNCHANGED <<keeper, chore>>
          ELSE keeper' = Void /\ Forget(u) /\ UNCHANGED objects
    /\ UNCHANGED <<profile, routing, trial, receipt, outputs, remote, changes, issued>>

Copied(u) == Doing(u, "copy") /\ Uncopied(u) = {}

\* The receipt is written, the lock released, and the manifest is next.
PublishReceipt(u, state) ==
    /\ receipt' = [state |-> state, list |-> chore[u].list]
    /\ keeper' = Void
    /\ Become(u, [step |-> "manifest", state |-> state])

\* A local profile, or a run that left nothing: the copies are the archive.
SaveLocally(u) ==
    /\ Copied(u)
    /\ routing.kind = "local" \/ chore[u].list = NoList
    /\ PublishReceipt(u, "saved")
    /\ UNCHANGED <<profile, routing, trial, outputs, objects, remote, changes, issued>>

Remotely(u) == Copied(u) /\ routing.kind = "mlflow" /\ chore[u].list # NoList

\* Above the threshold the transfer needs --allow-large.
Withhold(u) ==
    /\ Remotely(u) /\ ~routing.small
    /\ PublishReceipt(u, "pending")
    /\ UNCHANGED <<profile, routing, trial, outputs, objects, remote, changes, issued>>

\* The bridge finds or creates the run of the Attempt and logs every file.  It
\* may fail after any of them, and its answer may be unusable.
Upload(u) ==
    /\ Remotely(u)
    /\ \E done \in SUBSET DOMAIN chore[u].list :
          /\ remote' = [n \in Names |-> IF n \in done THEN chore[u].list[n].digest ELSE remote[n]]
          /\ \/ done = DOMAIN chore[u].list /\ Become(u, [step |-> "uploaded"]) /\ UNCHANGED <<receipt, keeper>>
             \/ PublishReceipt(u, "pending")
             \/ /\ keeper' = Void
                /\ Become(u, [step |-> "manifest", state |-> "pending"])
                /\ UNCHANGED receipt
    /\ UNCHANGED <<profile, routing, trial, outputs, objects, changes, issued>>

Confirm(u) ==
    /\ Doing(u, "uploaded")
    /\ PublishReceipt(u, "saved")
    /\ UNCHANGED <<profile, routing, trial, outputs, objects, remote, changes, issued>>

\* saveExplorationMetadata: the manifest replaces the one of the revision read,
\* also when saving has failed after the files were listed.
PublishManifest(u) ==
    /\ Doing(u, "manifest")
    /\ trial' = IF trial.revision # chore[u].seen THEN trial
                  ELSE [trial EXCEPT !.revision = @ + 1, !.archive = chore[u].state,
                                       !.list = chore[u].list]
    /\ Forget(u)
    /\ UNCHANGED <<profile, routing, receipt, outputs, objects, remote, keeper, changes, issued>>
-----------------------------------------------------------------------------
(* Other commands on the archive. *)

\* DescribeArtifact reads the Attempt and replaces one description.
BeginDescribe(u) ==
    /\ Doing(u, "out") /\ issued < MaxCommands
    /\ trial.list # NoList
    /\ issued' = issued + 1
    /\ Become(u, [step |-> "describe", seen |-> trial.revision, list |-> trial.list,
                  state |-> trial.archive])
    /\ UNCHANGED <<profile, routing, trial, receipt, outputs, objects, remote, keeper, changes>>

DescribeArtifact(u) ==
    /\ Doing(u, "describe")
    /\ \E n \in DOMAIN chore[u].list :
          trial' = IF trial.revision # chore[u].seen THEN trial
                     ELSE [trial EXCEPT !.revision = @ + 1,
                                          !.list = [chore[u].list EXCEPT ![n].note = u]]
    /\ Forget(u)
    /\ UNCHANGED <<profile, routing, receipt, outputs, objects, remote, keeper, changes, issued>>

\* Fetch: an object that is missing is downloaded and must have the digest.
Fetch(u) ==
    /\ Doing(u, "out") /\ issued < MaxCommands
    /\ issued' = issued + 1
    /\ trial.archive = "saved" /\ routing.kind = "mlflow"
    /\ \E n \in DOMAIN trial.list :
          /\ remote[n] = trial.list[n].digest
          /\ objects' = objects \cup {Object(routing.root, remote[n])}
    /\ UNCHANGED <<profile, routing, trial, receipt, outputs, remote, keeper, chore, changes>>
-----------------------------------------------------------------------------
(* People and failures. *)

Disturbed == changes < MaxAlterations /\ changes' = changes + 1

\* exp storage add or use, under the lock of the settings file.
ChangeProfile ==
    /\ Disturbed
    /\ profile' \in Profiles \ {profile}
    /\ UNCHANGED <<routing, trial, receipt, outputs, objects, remote, keeper, chore, issued>>

EditOutput ==
    /\ Disturbed
    /\ trial.phase = "terminal"
    /\ \E n \in Names, c \in Contents \cup {Void} : outputs' = [outputs EXCEPT ![n] = c]
    /\ UNCHANGED <<profile, routing, trial, receipt, objects, remote, keeper, chore, issued>>

\* The local copies of an uploaded archive are cleaned up.
DropObjects ==
    /\ Disturbed
    /\ receipt.state = "saved" /\ routing.kind = "mlflow" /\ keeper = Void
    /\ objects' = {}
    /\ UNCHANGED <<profile, routing, trial, receipt, outputs, remote, keeper, chore, issued>>

KillSave(u) ==
    /\ chore[u].step \in {"lock", "copy", "uploaded", "manifest", "describe"}
    /\ Forget(u)
    /\ keeper' = IF keeper = u THEN Void ELSE keeper
    /\ UNCHANGED <<profile, routing, trial, receipt, outputs, objects, remote, changes, issued>>
-----------------------------------------------------------------------------
ArchiveInit ==
    /\ profile \in Profiles
    /\ routing = Void
    /\ trial = [revision |-> 0, phase |-> "none", archive |-> "pending", list |-> NoList]
    /\ receipt = [state |-> "none", list |-> NoList]
    /\ outputs = [n \in Names |-> Void]
    /\ objects = {}
    /\ remote = [n \in Names |-> Void]
    /\ keeper = Void
    /\ chore = [u \in Users |-> Unused]
    /\ changes = 0 /\ issued = 0

ArchiveNext ==
    \/ \E u \in Users :
          \/ PersistExecution(u) \/ PublishAttempt(u)
          \/ BeginSave(u) \/ ReadReceipt(u) \/ CopyVerified(u) \/ SaveLocally(u)
          \/ Withhold(u) \/ Upload(u) \/ Confirm(u) \/ PublishManifest(u)
          \/ BeginDescribe(u) \/ DescribeArtifact(u) \/ Fetch(u) \/ KillSave(u)
    \/ RunWorkload \/ ChangeProfile \/ EditOutput \/ DropObjects

ArchiveSpec == ArchiveInit /\ [][ArchiveNext]_archiveVars

\* Where the bytes of a saved artifact are.
Held(content, n) ==
    IF routing.kind = "local" THEN Object(routing.root, content) \in objects
                              ELSE remote[n] = content

SavedIsHeld ==
    trial.archive = "saved" =>
        /\ Digests(trial.list) = Digests(receipt.list)
        /\ \A n \in DOMAIN trial.list : Held(trial.list[n].digest, n)

HonestStep ==
    /\ SavedIsHeld'
    /\ trial.archive = "saved" =>
          trial'.archive = "saved" /\ Digests(trial'.list) = Digests(trial.list)
    /\ \A n \in DOMAIN trial.list \cap DOMAIN trial'.list :
          trial'.list[n].note # trial.list[n].note =>
              \E u \in Users : Doing(u, "describe") /\ trial'.list[n].note = u

\* A manifest that says it is saved lists what this host's receipt lists, every
\* file of it can be had from the storage the run was prepared with, and it is
\* never changed again; a description is changed only by the command that
\* describes (storage.go: "A published receipt is immutable").
ArchiveHonest == [][HonestStep]_archiveVars

=============================================================================
