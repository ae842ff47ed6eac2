----------------------------- MODULE Migration -----------------------------
(***************************************************************************)
(* The migration of a harness-v0 directory: the plan a person reviews      *)
(* (internal/harnessv0/plan.go, parser.go) and the transaction that        *)
(* exchanges the directory for the migrated one (apply.go).                *)
(*                                                                         *)
(* A directory is a record: which version of every legacy file it holds    *)
(* (0: none), which versions its archive holds, and the plan whose         *)
(* canonical records it carries (0: none).  Plans are numbered in the      *)
(* order in which they are made; the number stands for the content hash,   *)
(* from which the names of the journal, the stage and the backup derive.   *)
(* One `migrate apply` at a time holds the lock in the Git directory; the  *)
(* person who goes on working in the directory holds nothing.              *)
(***************************************************************************)
EXTENDS Naturals, FiniteSets, Sequences

CONSTANTS Surfaces,   \* the legacy files the reader knows: *.md, NNN-*/REPORT.md
          Views,      \* those of them a generated projection replaces
          Others,     \* the other files of the directory: scripts, data, notes
          Items,      \* what the parser finds in the surfaces
          Legacy,     \* item -> [kind, alias, state, flaws, experiments, findings]
          Answers,    \* the resolution files a reviewer may write
          MaxPlans, MaxSaves, MaxKills

\* A file is a legacy surface or another file; projections replace surfaces.
Sorted ==
    /\ MaxPlans \in Nat
    /\ Surfaces \cap Others = {}
    /\ Views \subseteq Surfaces

VARIABLES home,       \* the experiments directory
          stages,     \* plan -> the directory being built beside it
          backups,    \* plan -> the original directory, set aside
          logbook,    \* plan -> state of the journal: "none", "prepared", "committed"
          plans,      \* the plans written so far
          apply,      \* the `migrate apply` under way
          latest,     \* file -> the last version the person wrote
          late,       \* files other than surfaces written while a stage held a copy
          kills       \* how often an apply was killed

migrationVars == <<home, stages, backups, logbook, plans, apply, latest, late, kills>>

Files == Surfaces \cup Others
Numbers == 1 .. MaxPlans
NoFiles == [f \in Files |-> 0]
NoArchive == [f \in Surfaces |-> 0]
NoDirectory == [exists |-> FALSE, files |-> NoFiles, archive |-> NoArchive, canon |-> 0]
NoApply == [plan |-> 0, at |-> "idle"]

\* The canonical records of a directory were edited since they were published.
Touched == MaxPlans + 1

(***************************************************************************)
(* The plan.  An item needs a review when the code may not decide for the  *)
(* reviewer; it has a candidate when a valid record could be made of it.   *)
(***************************************************************************)
OfKind(kind) == {i \in Items : Legacy[i].kind = kind}

\* What the parsers recognise: the reports, the items of ROADMAP.md and of
\* LEDGER.md, the lines of INBOX.md; and the remarks of the comparison of the
\* files with one another (drift, broken links, mismatches).
Reports  == OfKind("experiment")
Roadmap  == OfKind("plan")
Ledger   == OfKind("finding")
Inbox    == OfKind("inbox")
Remarks  == OfKind("remark")

Twins(i) == \E j \in OfKind(Legacy[i].kind) \ {i} : Legacy[j].alias = Legacy[i].alias

\* The one item of a set that bears an alias, as a set.
Resolve(S, alias) == {j \in S : Legacy[j].alias = alias /\ ~Twins(j)}

ExperimentsOf(i) == UNION {Resolve(Reports, a) : a \in Legacy[i].experiments}
FindingsOf(i) == UNION {Resolve(Ledger, a) : a \in Legacy[i].findings}

Dangling(i) == \E a \in Legacy[i].experiments : Resolve(Reports, a) = {}

Concluded == {"concluded-success", "concluded-negative", "inconclusive"}

\* A report becomes an Experiment unless its meaning is missing or it is
\* concluded: its evidence has no counterpart in the new records.
ReportUnclear(i) ==
    \/ Twins(i)
    \/ Legacy[i].state \in Concluded \cup {"unsupported"}
    \/ Legacy[i].state = "superseded" /\ Cardinality(ExperimentsOf(i)) # 1
    \/ Legacy[i].flaws # {}

ReportBarren(i) ==
    \/ Twins(i)
    \/ Legacy[i].state \in Concluded
    \/ Legacy[i].flaws \cap {"several factors", "meaning missing"} # {}

\* A Finding rests on one migrated Experiment.
FindingBarren(i) == Twins(i) \/ Dangling(i) \/ \E j \in ExperimentsOf(i) : ReportBarren(j)

\* A marker "weakened by" that does not resolve is a flaw.
FindingUnclear(i) == FindingBarren(i) \/ Legacy[i].flaws # {}

\* A finished plan needs the Experiment it led to.
PlanBarren(i) == Legacy[i].state = "done" /\ Dangling(i)

\* The payoff of a legacy plan has no metric: every plan is reviewed.
Unclear(i) == \/ i \in Reports /\ ReportUnclear(i)
              \/ i \in Ledger /\ FindingUnclear(i)
              \/ i \in Roadmap \cup Inbox \cup Remarks

HasCandidate(i) == \/ i \in Reports /\ ~ReportBarren(i)
                   \/ i \in Ledger /\ ~FindingBarren(i)
                   \/ i \in Roadmap /\ ~PlanBarren(i)

ReviewKeys == {i \in Items : Unclear(i)}

\* To "migrate" an inbox line or a remark is accepted and has no effect: no
\* mapping has its key.
Mapped(i) == i \in Reports \cup Ledger \cup Roadmap

Selected(answer) ==
    {i \in Items : /\ HasCandidate(i)
                   /\ Unclear(i) => i \in DOMAIN answer /\ answer[i] = "migrate"}

FinishMappings(answer) ==
    /\ DOMAIN answer = ReviewKeys
    /\ \A i \in ReviewKeys : Mapped(i) /\ answer[i] = "migrate" => HasCandidate(i)

\* The Experiments a record of item i refers to: a plan that waits drops its own.
Referred(i) == IF i \in Roadmap /\ Legacy[i].state # "done" THEN {} ELSE ExperimentsOf(i)

\* The records of the candidate inventory refer to one another only.
CandidateInventory(answer) ==
    \A i \in Selected(answer) : Referred(i) \cup FindingsOf(i) \subseteq Selected(answer)

ReadTree(d) == [f \in Surfaces |-> d.files[f]]

\* A plan that does not validate is not written; one that leaves reviews open
\* is written, and no apply takes it.
MakePlan ==
    \E answer \in Answers :
        /\ Len(plans) < MaxPlans
        /\ home.exists /\ home.canon = 0
        /\ CandidateInventory(answer)
        /\ plans' = Append(plans, [tree |-> ReadTree(home), selected |-> Selected(answer),
                                   applicable |-> FinishMappings(answer)])
        /\ UNCHANGED <<home, stages, backups, logbook, apply, latest, late, kills>>

(***************************************************************************)
(* What the transaction looks at.                                          *)
(***************************************************************************)
VerifySourceTree(d, n) == d.exists /\ d.canon = 0 /\ ReadTree(d) = plans[n].tree

VerifyAppliedRoot(d, n) == d.exists /\ d.canon = n /\ d.archive = plans[n].tree

To(step) == apply' = [apply EXCEPT !.at = step]

Reached(n, step) == apply = [plan |-> n, at |-> step]

Stop == apply' = NoApply

(***************************************************************************)
(* Apply, step by step.                                                    *)
(***************************************************************************)
BeginApply(n) ==
    /\ apply = NoApply
    /\ n <= Len(plans) /\ plans[n].applicable
    /\ apply' = [plan |-> n, at |-> IF logbook[n] = "none" THEN "look" ELSE logbook[n]]
    /\ UNCHANGED <<home, stages, backups, logbook, plans, latest, late, kills>>

\* Without a journal: the source must be the reviewed one and nothing may be
\* in the way; a complete stage that was left behind is used.
LookFirst(n) ==
    /\ Reached(n, "look")
    /\ IF \/ VerifyAppliedRoot(home, n)
          \/ ~VerifySourceTree(home, n)
          \/ backups[n].exists
          \/ stages[n].exists /\ ~VerifyAppliedRoot(stages[n], n)
       THEN Stop
       ELSE To(IF stages[n].exists THEN "journal" ELSE "copy")
    /\ UNCHANGED <<home, stages, backups, logbook, plans, latest, late, kills>>

\* The files are copied one after another, whoever writes them meanwhile.
CopyTree(n) ==
    /\ Reached(n, "copy")
    /\ \E f \in Files : /\ stages[n].files[f] = 0
                        /\ stages' = [stages EXCEPT ![n].exists = TRUE,
                                                    ![n].files[f] = home.files[f]]
    /\ To(IF \A f \in Files : stages'[n].files[f] # 0 THEN "archive" ELSE "copy")
    /\ UNCHANGED <<home, backups, logbook, plans, latest, late, kills>>

\* The archive is read again and must be what was reviewed; the records of
\* the plan and the projections are written over the copy.
BuildStage(n) ==
    /\ Reached(n, "archive")
    /\ IF ReadTree(home) = plans[n].tree
       THEN /\ stages' = [stages EXCEPT
                 ![n].archive = plans[n].tree, ![n].canon = n,
                 ![n].files = [f \in Files |-> IF f \in Views THEN 0 ELSE @[f]]]
            /\ To("journal")
       ELSE stages' = [stages EXCEPT ![n] = NoDirectory] /\ Stop
    /\ UNCHANGED <<home, backups, logbook, plans, latest, late, kills>>

WritePrepared(n) ==
    /\ Reached(n, "journal")
    /\ logbook' = [logbook EXCEPT ![n] = "prepared"]
    /\ To("prepared")
    /\ UNCHANGED <<home, stages, backups, plans, latest, late, kills>>

\* Three arrangements of the paths have a way forward; every other one is
\* refused.
Resume(n) ==
    IF /\ VerifySourceTree(home, n) /\ VerifyAppliedRoot(stages[n], n)
       /\ ~backups[n].exists
    THEN "preserve"
    ELSE IF /\ ~home.exists /\ VerifyAppliedRoot(stages[n], n)
            /\ VerifySourceTree(backups[n], n)
    THEN "publish"
    ELSE IF /\ VerifyAppliedRoot(home, n) /\ ~stages[n].exists
            /\ VerifySourceTree(backups[n], n)
    THEN "commit"
    ELSE "refuse"

Judge(n) ==
    /\ Reached(n, "prepared")
    /\ IF Resume(n) = "refuse" THEN Stop ELSE To(Resume(n))
    /\ UNCHANGED <<home, stages, backups, logbook, plans, latest, late, kills>>

Preserve(n) ==
    /\ Reached(n, "preserve")
    /\ backups' = [backups EXCEPT ![n] = home]
    /\ home' = NoDirectory
    /\ To("publish")
    /\ UNCHANGED <<stages, logbook, plans, latest, late, kills>>

PublishTree(n) ==
    /\ Reached(n, "publish")
    /\ IF home.exists
       THEN Stop /\ UNCHANGED <<home, stages>>
       ELSE /\ home' = stages[n]
            /\ stages' = [stages EXCEPT ![n] = NoDirectory]
            /\ To("confirm")
    /\ UNCHANGED <<backups, logbook, plans, latest, late, kills>>

ConfirmPublished(n) ==
    /\ Reached(n, "confirm")
    /\ IF VerifyAppliedRoot(home, n) THEN To("commit") ELSE Stop
    /\ UNCHANGED <<home, stages, backups, logbook, plans, latest, late, kills>>

WriteCommitted(n) ==
    /\ Reached(n, "commit")
    /\ logbook' = [logbook EXCEPT ![n] = "committed"]
    /\ To("check")
    /\ UNCHANGED <<home, stages, backups, plans, latest, late, kills>>

\* A committed journal: nothing is removed unless the directory is still
\* exactly what was published.
JournalCommitted(n) ==
    /\ Reached(n, "committed")
    /\ IF VerifyAppliedRoot(home, n) THEN To("check") ELSE Stop
    /\ UNCHANGED <<home, stages, backups, logbook, plans, latest, late, kills>>

\* Faulty variant: the backup is removed because the journal says committed.
RemovableOnceCommitted(n) == backups[n].exists

Removable(n) == VerifySourceTree(backups[n], n)

RemoveVerifiedBackup(n) ==
    /\ Reached(n, "check")
    /\ IF Removable(n) THEN To("remove") ELSE Stop
    /\ UNCHANGED <<home, stages, backups, logbook, plans, latest, late, kills>>

\* The backup is deleted file by file, its directory last.
RemoveAll(n) ==
    /\ Reached(n, "remove")
    /\ IF backups[n].files = NoFiles
       THEN backups' = [backups EXCEPT ![n] = NoDirectory] /\ Stop
       ELSE /\ \E f \in Files : /\ backups[n].files[f] # 0
                                /\ backups' = [backups EXCEPT ![n].files[f] = 0]
            /\ UNCHANGED apply
    /\ UNCHANGED <<home, stages, logbook, plans, latest, late, kills>>

ApplySteps(n) ==
    \/ BeginApply(n) \/ LookFirst(n) \/ CopyTree(n) \/ BuildStage(n) \/ WritePrepared(n)
    \/ Judge(n) \/ Preserve(n) \/ PublishTree(n) \/ ConfirmPublished(n) \/ WriteCommitted(n)
    \/ JournalCommitted(n) \/ RemoveVerifiedBackup(n) \/ RemoveAll(n)

(***************************************************************************)
(* The surroundings.                                                       *)
(***************************************************************************)
KillApply ==
    /\ apply # NoApply /\ kills < MaxKills
    /\ kills' = kills + 1
    /\ Stop
    /\ UNCHANGED <<home, stages, backups, logbook, plans, latest, late>>

Edits == LET Sum[S \in SUBSET Files] ==
               IF S = {} THEN 0
               ELSE LET f == CHOOSE f \in S : TRUE IN latest[f] - 1 + Sum[S \ {f}]
         IN Sum[Files]

\* The person saves a file of the directory.
Save(f) ==
    /\ home.exists /\ home.files[f] # 0 /\ Edits < MaxSaves
    /\ latest' = [latest EXCEPT ![f] = @ + 1]
    /\ home' = [home EXCEPT !.files[f] = latest'[f]]
    /\ late' = IF f \in Others /\ \E n \in Numbers : stages[n].files[f] # 0
               THEN late \cup {f} ELSE late
    /\ UNCHANGED <<stages, backups, logbook, plans, apply, kills>>

\* Ordinary work on the migrated records.
SaveRecord ==
    /\ home.exists /\ home.canon \in Numbers
    /\ home' = [home EXCEPT !.canon = Touched]
    /\ UNCHANGED <<stages, backups, logbook, plans, apply, latest, late, kills>>

MigrationInit ==
    /\ home = [exists |-> TRUE, files |-> [f \in Files |-> 1], archive |-> NoArchive, canon |-> 0]
    /\ stages = [n \in Numbers |-> NoDirectory]
    /\ backups = [n \in Numbers |-> NoDirectory]
    /\ logbook = [n \in Numbers |-> "none"]
    /\ plans = <<>>
    /\ apply = NoApply
    /\ latest = [f \in Files |-> 1]
    /\ late = {}
    /\ kills = 0

MigrationNext ==
    \/ MakePlan
    \/ \E n \in Numbers : ApplySteps(n)
    \/ KillApply
    \/ \E f \in Files : Save(f)
    \/ SaveRecord

MigrationSpec == MigrationInit /\ [][MigrationNext]_migrationVars

(***************************************************************************)
(* Properties.                                                             *)
(***************************************************************************)

\* The last version of a file is in the directory, in its archive, or in a
\* directory that was set aside.
Held(f) ==
    \/ home.files[f] = latest[f]
    \/ f \in Surfaces /\ home.exists /\ home.archive[f] = latest[f]
    \/ \E n \in Numbers : backups[n].files[f] = latest[f]

\* The directory is missing only between the two renames, and then the
\* journal, the stage and the backup are all there to go on from.
Recoverable ==
    home.exists \/ \E n \in Numbers : /\ logbook[n] = "prepared"
                                      /\ VerifyAppliedRoot(stages[n], n)
                                      /\ backups[n].exists

\* Whenever the person saves and wherever an apply is killed, no legacy file
\* is lost, and a missing directory can be restored: the archive and the
\* backup of Apply and removeVerifiedBackup hold every version together.
\* Files that are no surface and were saved after a stage copied them are
\* excepted; EverythingKept says what happens to those.
LegacyKept == Recoverable /\ \A f \in Files \ late : Held(f)

\* The migration is lossless: no file of the directory is ever lost.
EverythingKept == \A f \in Files : Held(f)
=============================================================================
