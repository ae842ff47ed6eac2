----------------------------- MODULE TreeProofs -----------------------------
(***************************************************************************)
(* A tree of files that is moved, or looked at, while people work in it.   *)
(*                                                                         *)
(* Migration: no legacy file is lost, for any files, reviews, plans, edits *)
(* and kills.  The directory is whole before the migration, aside between  *)
(* the two renames of one plan, and exchanged after them; only the plan    *)
(* that set it aside can exchange it, and no other plan gets past its      *)
(* first look from then on.  A stage holds of every file that is no        *)
(* surface the last version, unless it is late; and a backup is removed    *)
(* file by file only where the archive of the exchanged directory holds    *)
(* the same.                                                               *)
(*                                                                         *)
(* Snapshot: what a capture collects is of one instant, the one between    *)
(* its two looks.  Nobody puts back what was there before, so the clones   *)
(* that are seen are ordered (Before); what the first look found at some   *)
(* earlier clone and the second finds at some later one was the same in    *)
(* between.  What a file is, and whether it belongs to the changed, the    *)
(* new or neither, follows from several of these observations together,    *)
(* made at different clones.                                               *)
(*                                                                         *)
(* Worktrees: the commands report one change set, and remove no work.      *)
(* What any command, any report and the branch name are commits of which   *)
(* at most one follows right on the base, and none does before the branch  *)
(* has moved (HeadsKnown): a second commit on the base would need a branch *)
(* that went back.                                                         *)
(***************************************************************************)
EXTENDS Migration, Snapshot, Worktrees, TLAPS

-----------------------------------------------------------------------------
(* Migration: types.                                                       *)

Directory == [exists : BOOLEAN, files : [Files -> Nat], archive : [Surfaces -> Nat],
              canon : 0 .. Touched]
Plan == [tree : [Surfaces -> Nat], selected : SUBSET Items, applicable : BOOLEAN]
Steps == {"look", "copy", "archive", "journal", "prepared", "preserve", "publish",
          "confirm", "commit", "committed", "check", "remove"}

MigrationTypes ==
    /\ home \in Directory
    /\ stages \in [Numbers -> Directory]
    /\ backups \in [Numbers -> Directory]
    /\ logbook \in [Numbers -> {"none", "prepared", "committed"}]
    /\ plans \in Seq(Plan)
    /\ apply \in [plan : Numbers, at : Steps] \cup {NoApply}
    /\ latest \in [Files -> Nat \ {0}]
    /\ late \subseteq Others

-----------------------------------------------------------------------------
(* Where the directory is.                                                 *)

Known(n) == n \in Numbers /\ n <= Len(plans)

\* Nothing of plan m was set aside or committed.
Untouched(m) == backups[m] = NoDirectory /\ logbook[m] # "committed"

\* Before the two renames.
Whole ==
    /\ home.exists /\ home.canon = 0 /\ home.files = latest
    /\ \A m \in Numbers : Untouched(m)

\* Between them.
Aside(n) ==
    /\ Known(n)
    /\ ~home.exists
    /\ backups[n].exists /\ backups[n].files = latest
    /\ VerifyAppliedRoot(stages[n], n)
    /\ logbook[n] = "prepared"
    /\ \A m \in Numbers \ {n} : Untouched(m)

\* After them.
Exchanged(n) ==
    /\ Known(n)
    /\ home.exists /\ home.canon \in {n, Touched} /\ home.archive = plans[n].tree
    /\ \A f \in Surfaces : latest[f] \in {home.files[f], home.archive[f], backups[n].files[f]}
    /\ \A f \in Others \ late : home.files[f] = latest[f]
    /\ ~stages[n].exists
    /\ \A m \in Numbers \ {n} : Untouched(m)

Placed == Whole \/ \E n \in Numbers : Aside(n) \/ Exchanged(n)

\* A stage: of the files that are no surface it holds the last version, or
\* none, and all of them once it is complete.
Staged(m) ==
    /\ \A f \in Others \ late : stages[m].files[f] \in {0, latest[f]}
    /\ stages[m].canon = m => Known(m) /\ \A f \in Others : stages[m].files[f] # 0
    /\ stages[m].canon \in {0, m}

\* What the apply under way may rely on: nobody else moves a directory.
Relies(n, step) ==
    /\ Known(n)
    /\ step \in {"copy", "archive", "journal", "preserve"} => Whole
    /\ step = "archive" => stages[n].exists /\ \A f \in Files : stages[n].files[f] # 0
    /\ step \in {"journal", "preserve"} => VerifyAppliedRoot(stages[n], n)
    /\ step \in {"prepared", "preserve"} => logbook[n] = "prepared"
    /\ step = "publish" => Aside(n)
    /\ step \in {"confirm", "commit", "check", "remove"} => Exchanged(n)
    /\ step = "committed" => logbook[n] = "committed"
    /\ step = "remove" => \A f \in Surfaces : backups[n].files[f] \in {0, plans[n].tree[f]}

MigrationInv ==
    /\ MigrationTypes
    /\ Placed
    /\ \A m \in Numbers : Staged(m)
    /\ apply # NoApply => Relies(apply.plan, apply.at)

-----------------------------------------------------------------------------
(* First facts.                                                            *)

LEMMA PlanNumbers == Sorted => /\ Numbers \subseteq Nat /\ 0 \notin Numbers /\ Touched \notin Numbers
                               /\ Touched # 0 /\ Numbers \subseteq 0 .. Touched /\ Touched \in 0 .. Touched
BY DEF Sorted, Numbers, Touched

LEMMA NoDirectoryTyped == Sorted => NoDirectory \in Directory
BY DEF NoDirectory, Directory, NoFiles, NoArchive, Sorted, Touched

\* An apply that stands at a step relies on what the step may rely on.
LEMMA Reliance ==
  ASSUME Sorted, MigrationInv, NEW n \in Numbers, NEW step, Reached(n, step)
  PROVE  Relies(n, step) /\ Known(n) /\ apply # NoApply /\ apply.plan = n /\ apply.at = step
<1>1. apply = [plan |-> n, at |-> step]
  BY DEF Reached
<1>2. apply.plan = n /\ apply.at = step
  BY <1>1
<1>3. apply # NoApply
  <2>1. NoApply.plan = 0
    BY DEF NoApply
  <2>2. n # 0
    BY PlanNumbers
  <2> QED BY <1>2, <2>1, <2>2
<1>4. Relies(n, step)
  BY <1>2, <1>3 DEF MigrationInv
<1> QED BY <1>2, <1>3, <1>4 DEF Relies

\* A step that only moves the apply, or ends it.
LEMMA OnlyApply ==
  ASSUME Sorted, MigrationInv, NEW n \in Numbers, NEW step \in Steps,
         apply' \in {[plan |-> n, at |-> step], NoApply}, apply' # NoApply => Relies(n, step),
         UNCHANGED <<home, stages, backups, logbook, plans, latest, late>>
  PROVE  MigrationInv'
<1>1. MigrationTypes'
  BY DEF MigrationInv, MigrationTypes
<1>2. Placed' /\ \A m \in Numbers : Staged(m)'
  <2>1. Placed /\ \A m \in Numbers : Staged(m)
    BY DEF MigrationInv
  <2>2. Placed'
    BY <2>1 DEF Placed, Whole, Aside, Exchanged, Known, Untouched, VerifyAppliedRoot
  <2>3. \A m \in Numbers : Staged(m)'
    BY <2>1 DEF Staged, Known
  <2> QED BY <2>2, <2>3
<1>3. apply' # NoApply => Relies(apply.plan, apply.at)'
  <2> SUFFICES ASSUME apply' # NoApply PROVE Relies(apply.plan, apply.at)'
    OBVIOUS
  <2>1. apply'.plan = n /\ apply'.at = step
    OBVIOUS
  <2>2. Relies(n, step)
    OBVIOUS
  <2>3. Relies(n, step)'
    BY <2>2 DEF Relies, Whole, Aside, Exchanged, Known, Untouched, VerifyAppliedRoot
  <2> QED BY <2>1, <2>3
<1> QED BY <1>1, <1>2, <1>3 DEF MigrationInv

\* Of three places the directory is in one.
LEMMA WholePlace ==
  ASSUME Sorted, MigrationInv, home.exists, home.canon = 0
  PROVE  Whole
<1>1. \A n \in Numbers : ~Aside(n)
  BY DEF Aside
<1>2. \A n \in Numbers : ~Exchanged(n)
  BY PlanNumbers DEF Exchanged
<1> QED BY <1>1, <1>2 DEF MigrationInv, Placed

LEMMA AsidePlace ==
  ASSUME Sorted, MigrationInv, NEW n \in Numbers, ~home.exists, backups[n].exists
  PROVE  Aside(n)
<1>1. ~Whole /\ \A m \in Numbers : ~Exchanged(m)
  BY DEF Whole, Exchanged
<1>2. PICK m \in Numbers : Aside(m)
  BY <1>1 DEF MigrationInv, Placed
<1>3. m = n
  <2>1. ~NoDirectory.exists
    BY DEF NoDirectory
  <2> QED BY <1>2, <2>1 DEF Aside, Untouched
<1> QED BY <1>2, <1>3

LEMMA ExchangedPlace ==
  ASSUME Sorted, MigrationInv, NEW n \in Numbers,
         \/ home.exists /\ home.canon = n
         \/ logbook[n] = "committed"
  PROVE  Exchanged(n)
<1>1. ~Whole
  BY PlanNumbers DEF Whole, Untouched
<1>2. PICK m \in Numbers : Aside(m) \/ Exchanged(m)
  BY <1>1 DEF MigrationInv, Placed
<1>3. CASE home.exists /\ home.canon = n
  <2>1. Exchanged(m)
    BY <1>2, <1>3 DEF Aside
  <2> QED BY <1>3, <2>1, PlanNumbers DEF Exchanged
<1>4. CASE logbook[n] = "committed"
  <2>1. m = n
    BY <1>2, <1>4 DEF Aside, Exchanged, Untouched
  <2> QED BY <1>2, <1>4, <2>1 DEF Aside
<1> QED BY <1>3, <1>4

-----------------------------------------------------------------------------
(* The steps that only look.                                               *)

LEMMA BeginStep ==
  ASSUME Sorted, MigrationInv, NEW n \in Numbers, BeginApply(n)
  PROVE  MigrationInv'
<1>1. logbook[n] \in {"none", "prepared", "committed"}
  BY DEF MigrationInv, MigrationTypes
<1> DEFINE step == IF logbook[n] = "none" THEN "look" ELSE logbook[n]
<1>2. apply' = [plan |-> n, at |-> step] /\ step \in Steps
  BY <1>1 DEF BeginApply, Steps
<1>3. Relies(n, step)
  BY <1>1 DEF BeginApply, Relies, Known
<1> HIDE DEF step
<1> QED BY <1>2, <1>3, OnlyApply DEF BeginApply

LEMMA LookStep ==
  ASSUME Sorted, MigrationInv, NEW n \in Numbers, LookFirst(n)
  PROVE  MigrationInv'
<1>1. Known(n) /\ apply = [plan |-> n, at |-> "look"]
  BY Reliance DEF LookFirst, Reached
<1>2. UNCHANGED <<home, stages, backups, logbook, plans, latest, late>>
  BY DEF LookFirst
<1>3. CASE Stop
  <2>1. apply' = NoApply
    BY <1>3 DEF Stop
  <2> QED BY <1>2, <2>1, OnlyApply DEF Steps
<1>4. CASE ~Stop
  <2>1. /\ VerifySourceTree(home, n)
        /\ stages[n].exists => VerifyAppliedRoot(stages[n], n)
        /\ To(IF stages[n].exists THEN "journal" ELSE "copy")
    BY <1>4 DEF LookFirst
  <2>2. Whole
    BY <2>1, WholePlace DEF VerifySourceTree
  <2>3. CASE stages[n].exists
    <3>1. apply' = [plan |-> n, at |-> "journal"] /\ Relies(n, "journal")
      BY <1>1, <2>1, <2>2, <2>3 DEF To, Relies
    <3> QED BY <1>2, <3>1, OnlyApply DEF Steps
  <2>4. CASE ~stages[n].exists
    <3>1. apply' = [plan |-> n, at |-> "copy"] /\ Relies(n, "copy")
      BY <1>1, <2>1, <2>2, <2>4 DEF To, Relies
    <3> QED BY <1>2, <3>1, OnlyApply DEF Steps
  <2> QED BY <2>3, <2>4
<1> QED BY <1>3, <1>4

LEMMA JudgeStep ==
  ASSUME Sorted, MigrationInv, NEW n \in Numbers, Judge(n)
  PROVE  MigrationInv'
<1>1. Known(n) /\ apply = [plan |-> n, at |-> "prepared"] /\ logbook[n] = "prepared"
  BY Reliance DEF Judge, Reached, Relies
<1>2. UNCHANGED <<home, stages, backups, logbook, plans, latest, late>>
  BY DEF Judge
<1>3. CASE Resume(n) = "refuse"
  <2>1. apply' = NoApply
    BY <1>3 DEF Judge, Stop
  <2> QED BY <1>2, <2>1, OnlyApply DEF Steps
<1>4. CASE Resume(n) # "refuse"
  <2>1. apply' = [plan |-> n, at |-> Resume(n)]
    BY <1>1, <1>4 DEF Judge, To
  <2>2. Resume(n) \in Steps /\ Relies(n, Resume(n))
    <3>1. CASE VerifySourceTree(home, n) /\ VerifyAppliedRoot(stages[n], n) /\ ~backups[n].exists
      <4>1. Resume(n) = "preserve"
        BY <3>1 DEF Resume
      <4>2. Whole
        BY <3>1, WholePlace DEF VerifySourceTree
      <4> QED BY <1>1, <3>1, <4>1, <4>2 DEF Relies, Steps
    <3>2. CASE /\ ~home.exists /\ VerifyAppliedRoot(stages[n], n)
               /\ VerifySourceTree(backups[n], n)
      <4>1. Resume(n) = "publish"
        BY <3>2 DEF Resume, VerifySourceTree
      <4>2. Aside(n)
        BY <3>2, AsidePlace DEF VerifySourceTree
      <4> QED BY <1>1, <4>1, <4>2 DEF Relies, Steps
    <3>3. CASE ~(/\ VerifySourceTree(home, n) /\ VerifyAppliedRoot(stages[n], n)
                 /\ ~backups[n].exists)
               /\ ~(/\ ~home.exists /\ VerifyAppliedRoot(stages[n], n)
                    /\ VerifySourceTree(backups[n], n))
      <4>1. Resume(n) = "commit" /\ VerifyAppliedRoot(home, n)
        BY <1>4, <3>3 DEF Resume
      <4>2. Exchanged(n)
        BY <4>1, ExchangedPlace DEF VerifyAppliedRoot
      <4> QED BY <1>1, <4>1, <4>2 DEF Relies, Steps
    <3> QED BY <3>1, <3>2, <3>3
  <2> QED BY <1>2, <2>1, <2>2, OnlyApply
<1> QED BY <1>3, <1>4

LEMMA ConfirmStep ==
  ASSUME Sorted, MigrationInv, NEW n \in Numbers, ConfirmPublished(n)
  PROVE  MigrationInv'
<1>1. Known(n) /\ apply = [plan |-> n, at |-> "confirm"] /\ Exchanged(n)
  BY Reliance DEF ConfirmPublished, Reached, Relies
<1>2. Relies(n, "commit")
  BY <1>1 DEF Relies
<1>3. apply' \in {[plan |-> n, at |-> "commit"], NoApply}
  BY <1>1 DEF ConfirmPublished, To, Stop
<1> QED BY <1>2, <1>3, OnlyApply DEF ConfirmPublished, Steps

LEMMA CommittedStep ==
  ASSUME Sorted, MigrationInv, NEW n \in Numbers, JournalCommitted(n)
  PROVE  MigrationInv'
<1>1. Known(n) /\ apply = [plan |-> n, at |-> "committed"] /\ logbook[n] = "committed"
  BY Reliance DEF JournalCommitted, Reached, Relies
<1>2. Exchanged(n)
  BY <1>1, ExchangedPlace
<1>3. Relies(n, "check")
  BY <1>1, <1>2 DEF Relies
<1>4. apply' \in {[plan |-> n, at |-> "check"], NoApply}
  BY <1>1 DEF JournalCommitted, To, Stop
<1> QED BY <1>3, <1>4, OnlyApply DEF JournalCommitted, Steps

LEMMA RemoveVerifiedBackupStep ==
  ASSUME Sorted, MigrationInv, NEW n \in Numbers, RemoveVerifiedBackup(n)
  PROVE  MigrationInv'
<1>1. Known(n) /\ apply = [plan |-> n, at |-> "check"] /\ Exchanged(n)
  BY Reliance DEF RemoveVerifiedBackup, Reached, Relies
<1>2. UNCHANGED <<home, stages, backups, logbook, plans, latest, late>>
  BY DEF RemoveVerifiedBackup
<1>3. CASE Removable(n)
  <2>1. ReadTree(backups[n]) = plans[n].tree
    BY <1>3 DEF Removable, VerifySourceTree
  <2>2. \A f \in Surfaces : backups[n].files[f] = plans[n].tree[f]
    BY <2>1 DEF ReadTree
  <2>3. Relies(n, "remove")
    BY <1>1, <2>2 DEF Relies
  <2>4. apply' = [plan |-> n, at |-> "remove"]
    BY <1>1, <1>3 DEF RemoveVerifiedBackup, To
  <2> QED BY <1>2, <2>3, <2>4, OnlyApply DEF Steps
<1>4. CASE ~Removable(n)
  <2>1. apply' = NoApply
    BY <1>4 DEF RemoveVerifiedBackup, Stop
  <2> QED BY <1>2, <2>1, OnlyApply DEF Steps
<1> QED BY <1>3, <1>4

LEMMA KillApplyStep ==
  ASSUME Sorted, MigrationInv, KillApply
  PROVE  MigrationInv'
<1>1. apply' = NoApply /\ apply.plan \in Numbers
  BY DEF KillApply, Stop, MigrationInv, MigrationTypes
<1> QED BY <1>1, OnlyApply DEF KillApply, Steps

-----------------------------------------------------------------------------
(* The steps that write.                                                   *)

\* A plan is written while the directory is whole, and leaves the others as
\* they are.
LEMMA MakePlanStep ==
  ASSUME Sorted, MigrationInv, MakePlan
  PROVE  MigrationInv'
<1>1. UNCHANGED <<home, stages, backups, logbook, apply, latest, late>>
  BY DEF MakePlan
<1>2. Whole
  BY WholePlace DEF MakePlan
<1>3. PICK answer \in Answers :
        plans' = Append(plans, [tree |-> ReadTree(home), selected |-> Selected(answer),
                                applicable |-> FinishMappings(answer)])
  BY DEF MakePlan
<1>4. MigrationTypes'
  <2>1. ReadTree(home) \in [Surfaces -> Nat]
    BY DEF ReadTree, MigrationInv, MigrationTypes, Directory, Files
  <2>2. Selected(answer) \in SUBSET Items /\ FinishMappings(answer) \in BOOLEAN
    BY DEF Selected, FinishMappings
  <2>3. [tree |-> ReadTree(home), selected |-> Selected(answer),
         applicable |-> FinishMappings(answer)] \in Plan
    BY <2>1, <2>2 DEF Plan
  <2>4. plans' \in Seq(Plan)
    BY <1>3, <2>3 DEF MigrationInv, MigrationTypes
  <2> QED BY <1>1, <2>4 DEF MigrationInv, MigrationTypes
<1>5. \A n \in Numbers : Known(n) => Known(n)' /\ plans'[n] = plans[n]
  <2>1. plans \in Seq(Plan) /\ Numbers \subseteq Nat /\ 0 \notin Numbers
    BY PlanNumbers DEF MigrationInv, MigrationTypes
  <2>2. Len(plans') = Len(plans) + 1 /\ \A i \in 1 .. Len(plans) : plans'[i] = plans[i]
    BY <1>3, <2>1
  <2> SUFFICES ASSUME NEW n \in Numbers, Known(n) PROVE Known(n)' /\ plans'[n] = plans[n]
    OBVIOUS
  <2>3. n \in 1 .. Len(plans) /\ Len(plans) \in Nat
    BY <2>1 DEF Known
  <2> QED BY <2>2, <2>3 DEF Known
<1>6. Whole'
  BY <1>1, <1>2 DEF Whole, Untouched
<1>7. \A m \in Numbers : Staged(m)'
  BY <1>1, <1>5 DEF MigrationInv, Staged
<1>8. apply # NoApply => Relies(apply.plan, apply.at)'
  <2> SUFFICES ASSUME apply # NoApply PROVE Relies(apply.plan, apply.at)'
    OBVIOUS
  <2>1. PICK n \in Numbers : apply.plan = n /\ Relies(n, apply.at) /\ Known(n)
    BY DEF MigrationInv, Relies, Known
  <2>2. apply.at \notin {"publish", "confirm", "commit", "check", "remove"}
    BY <1>2, <2>1, PlanNumbers DEF Relies, Whole, Aside, Exchanged
  <2>3. apply'.plan = n /\ apply'.at = apply.at
    BY <1>1, <2>1
  <2>4. VerifyAppliedRoot(stages[n], n) => VerifyAppliedRoot(stages[n], n)'
    BY <1>1, <1>5, <2>1 DEF VerifyAppliedRoot
  <2>5. Known(n)'
    BY <1>5, <2>1
  <2> QED BY <1>1, <1>6, <2>1, <2>2, <2>3, <2>4, <2>5 DEF Relies
<1> QED BY <1>1, <1>4, <1>6, <1>7, <1>8 DEF MigrationInv, Placed

\* A stage is filled with the last versions, and nobody else relies on it.
LEMMA CopyTreeStep ==
  ASSUME Sorted, MigrationInv, NEW n \in Numbers, CopyTree(n)
  PROVE  MigrationInv'
<1>1. Known(n) /\ apply = [plan |-> n, at |-> "copy"] /\ Whole
  BY Reliance DEF CopyTree, Reached, Relies
<1>2. UNCHANGED <<home, backups, logbook, plans, latest, late>>
  BY DEF CopyTree
<1>3. PICK f \in Files : stages' = [stages EXCEPT ![n].exists = TRUE,
                                                  ![n].files[f] = home.files[f]]
  BY DEF CopyTree
<1> DEFINE step == IF \A g \in Files : stages'[n].files[g] # 0 THEN "archive" ELSE "copy"
<1>4. apply' = [plan |-> n, at |-> step] /\ step \in {"archive", "copy"}
  BY <1>1 DEF CopyTree, To
<1>5. stages \in [Numbers -> Directory] /\ home.files = latest /\ latest \in [Files -> Nat \ {0}]
  BY <1>1 DEF MigrationInv, MigrationTypes, Whole
<1>6. /\ stages' \in [Numbers -> Directory]
      /\ \A m \in Numbers \ {n} : stages'[m] = stages[m]
      /\ stages'[n].exists /\ stages'[n].canon = stages[n].canon
      /\ \A g \in Files : stages'[n].files[g] = IF g = f THEN latest[g] ELSE stages[n].files[g]
  BY <1>3, <1>5 DEF Directory
<1>7. MigrationTypes'
  <2>1. apply' \in [plan : Numbers, at : Steps]
    BY <1>4 DEF Steps
  <2> QED BY <1>2, <1>6, <2>1 DEF MigrationInv, MigrationTypes
<1>8. Whole'
  BY <1>1, <1>2 DEF Whole, Untouched
<1>9. \A m \in Numbers : Staged(m)'
  <2>1. \A m \in Numbers : Staged(m) /\ Others \subseteq Files
    BY DEF MigrationInv, Files
  <2>2. Staged(n)'
    BY <1>2, <1>5, <1>6, <2>1 DEF Staged, Known
  <2>3. \A m \in Numbers \ {n} : Staged(m)'
    BY <1>2, <1>6, <2>1 DEF Staged, Known
  <2> QED BY <2>2, <2>3
<1>10. Relies(apply.plan, apply.at)'
  <2>1. step = "archive" => \A g \in Files : stages'[n].files[g] # 0
    OBVIOUS
  <2>2. apply'.plan = n /\ apply'.at = step /\ Known(n)'
    BY <1>1, <1>2, <1>4 DEF Known
  <2> HIDE DEF step
  <2> QED BY <1>4, <1>6, <1>8, <2>1, <2>2 DEF Relies
<1> QED BY <1>7, <1>8, <1>9, <1>10 DEF MigrationInv, Placed

LEMMA BuildStageStep ==
  ASSUME Sorted, MigrationInv, NEW n \in Numbers, BuildStage(n)
  PROVE  MigrationInv'
<1>1. /\ Known(n) /\ apply = [plan |-> n, at |-> "archive"] /\ Whole
      /\ stages[n].exists /\ \A f \in Files : stages[n].files[f] # 0
  BY Reliance DEF BuildStage, Reached, Relies
<1>2. UNCHANGED <<home, backups, logbook, plans, latest, late>>
  BY DEF BuildStage
<1>3. stages \in [Numbers -> Directory] /\ plans[n].tree \in [Surfaces -> Nat]
  <2>1. plans \in Seq(Plan) /\ n \in 1 .. Len(plans)
    BY <1>1, PlanNumbers DEF MigrationInv, MigrationTypes, Known
  <2>2. plans[n] \in Plan
    BY <2>1
  <2> QED BY <2>2 DEF Plan, MigrationInv, MigrationTypes
<1>4. Whole'
  BY <1>1, <1>2 DEF Whole, Untouched
<1>5. \A m \in Numbers : Staged(m)
  BY DEF MigrationInv
<1>6. CASE ReadTree(home) = plans[n].tree
  <2>1. stages' = [stages EXCEPT
            ![n].archive = plans[n].tree, ![n].canon = n,
            ![n].files = [f \in Files |-> IF f \in Views THEN 0 ELSE @[f]]]
    BY <1>6 DEF BuildStage
  <2>2. /\ stages' \in [Numbers -> Directory]
        /\ \A m \in Numbers \ {n} : stages'[m] = stages[m]
        /\ stages'[n].exists /\ stages'[n].canon = n /\ stages'[n].archive = plans[n].tree
        /\ \A f \in Files : stages'[n].files[f] = IF f \in Views THEN 0 ELSE stages[n].files[f]
    BY <1>1, <1>3, <2>1, PlanNumbers DEF Directory
  <2>3. apply' = [plan |-> n, at |-> "journal"]
    BY <1>1, <1>6 DEF BuildStage, To
  <2>4. MigrationTypes'
    <3>1. apply' \in [plan : Numbers, at : Steps]
      BY <2>3 DEF Steps
    <3> QED BY <1>2, <2>2, <3>1 DEF MigrationInv, MigrationTypes
  <2>5. Others \subseteq Files /\ Others \cap Views = {}
    BY DEF Sorted, Files
  <2>6. Staged(n)'
    BY <1>1, <1>2, <1>5, <2>2, <2>5 DEF Staged, Known
  <2>7. \A m \in Numbers \ {n} : Staged(m)'
    BY <1>2, <1>5, <2>2 DEF Staged, Known
  <2>8. Relies(apply.plan, apply.at)'
    <3>1. apply'.plan = n /\ apply'.at = "journal" /\ Known(n)'
      BY <1>1, <1>2, <2>3 DEF Known
    <3>2. VerifyAppliedRoot(stages[n], n)'
      BY <1>2, <2>2 DEF VerifyAppliedRoot
    <3> QED BY <1>4, <3>1, <3>2 DEF Relies
  <2> QED BY <1>4, <2>4, <2>6, <2>7, <2>8 DEF MigrationInv, Placed
<1>7. CASE ReadTree(home) # plans[n].tree
  <2>1. stages' = [stages EXCEPT ![n] = NoDirectory] /\ apply' = NoApply
    BY <1>7 DEF BuildStage, Stop
  <2>2. /\ stages' \in [Numbers -> Directory] /\ stages'[n] = NoDirectory
        /\ \A m \in Numbers \ {n} : stages'[m] = stages[m]
    BY <1>3, <2>1, NoDirectoryTyped
  <2>3. MigrationTypes'
    BY <1>2, <2>1, <2>2 DEF MigrationInv, MigrationTypes
  <2>4. Staged(n)'
    BY <2>2, PlanNumbers DEF Staged, NoDirectory, NoFiles, Files
  <2>5. \A m \in Numbers \ {n} : Staged(m)'
    BY <1>2, <1>5, <2>2 DEF Staged, Known
  <2> QED BY <1>4, <2>1, <2>3, <2>4, <2>5 DEF MigrationInv, Placed
<1> QED BY <1>6, <1>7

LEMMA WritePreparedStep ==
  ASSUME Sorted, MigrationInv, NEW n \in Numbers, WritePrepared(n)
  PROVE  MigrationInv'
<1>1. /\ Known(n) /\ apply = [plan |-> n, at |-> "journal"] /\ Whole
  BY Reliance DEF WritePrepared, Reached, Relies
<1>2. UNCHANGED <<home, stages, backups, plans, latest, late>>
  BY DEF WritePrepared
<1>3. apply' = [plan |-> n, at |-> "prepared"]
  BY <1>1 DEF WritePrepared, To
<1>4. /\ logbook' \in [Numbers -> {"none", "prepared", "committed"}] /\ logbook'[n] = "prepared"
      /\ \A m \in Numbers : logbook'[m] \in {logbook[m], "prepared"}
  BY DEF WritePrepared, MigrationInv, MigrationTypes
<1>5. MigrationTypes'
  <2>1. apply' \in [plan : Numbers, at : Steps]
    BY <1>3 DEF Steps
  <2> QED BY <1>2, <1>4, <2>1 DEF MigrationInv, MigrationTypes
<1>6. Whole'
  BY <1>1, <1>2, <1>4 DEF Whole, Untouched
<1>7. \A m \in Numbers : Staged(m)'
  BY <1>2 DEF MigrationInv, Staged, Known
<1>8. Relies(apply.plan, apply.at)'
  <2>1. apply'.plan = n /\ apply'.at = "prepared" /\ Known(n)'
    BY <1>1, <1>2, <1>3 DEF Known
  <2> QED BY <1>4, <2>1 DEF Relies
<1> QED BY <1>5, <1>6, <1>7, <1>8 DEF MigrationInv, Placed

\* The first rename sets aside the directory as it is.
LEMMA PreserveStep ==
  ASSUME Sorted, MigrationInv, NEW n \in Numbers, Preserve(n)
  PROVE  MigrationInv'
<1>1. /\ Known(n) /\ apply = [plan |-> n, at |-> "preserve"] /\ Whole
      /\ VerifyAppliedRoot(stages[n], n) /\ logbook[n] = "prepared"
  BY Reliance DEF Preserve, Reached, Relies
<1>2. UNCHANGED <<stages, logbook, plans, latest, late>> /\ home' = NoDirectory
  BY DEF Preserve
<1>3. apply' = [plan |-> n, at |-> "publish"]
  BY <1>1 DEF Preserve, To
<1>4. /\ backups' \in [Numbers -> Directory] /\ backups'[n] = home
      /\ \A m \in Numbers \ {n} : backups'[m] = backups[m]
  BY DEF Preserve, MigrationInv, MigrationTypes
<1>5. MigrationTypes'
  <2>1. apply' \in [plan : Numbers, at : Steps]
    BY <1>3 DEF Steps
  <2> QED BY <1>2, <1>4, <2>1, NoDirectoryTyped DEF MigrationInv, MigrationTypes
<1>6. Aside(n)'
  <2>1. ~home'.exists
    BY <1>2 DEF NoDirectory
  <2>2. backups'[n].exists /\ backups'[n].files = latest'
    BY <1>1, <1>2, <1>4 DEF Whole
  <2>3. Known(n)' /\ VerifyAppliedRoot(stages[n], n)' /\ logbook'[n] = "prepared"
    BY <1>1, <1>2 DEF Known, VerifyAppliedRoot
  <2>4. \A m \in Numbers \ {n} : Untouched(m)'
    BY <1>1, <1>2, <1>4 DEF Whole, Untouched
  <2> QED BY <2>1, <2>2, <2>3, <2>4 DEF Aside
<1>7. \A m \in Numbers : Staged(m)'
  BY <1>2 DEF MigrationInv, Staged, Known
<1>8. Relies(apply.plan, apply.at)'
  <2>1. apply'.plan = n /\ apply'.at = "publish" /\ Known(n)'
    BY <1>1, <1>2, <1>3 DEF Known
  <2> QED BY <1>6, <2>1 DEF Relies
<1> QED BY <1>5, <1>6, <1>7, <1>8 DEF MigrationInv, Placed

\* The second publishes a stage that holds every file that is no surface.
LEMMA PublishStep ==
  ASSUME Sorted, MigrationInv, NEW n \in Numbers, PublishTree(n)
  PROVE  MigrationInv'
<1>1. Known(n) /\ apply = [plan |-> n, at |-> "publish"] /\ Aside(n)
  BY Reliance DEF PublishTree, Reached, Relies
<1>2. UNCHANGED <<backups, logbook, plans, latest, late>> /\ home' = stages[n]
  BY <1>1 DEF PublishTree, Aside
<1>3. apply' = [plan |-> n, at |-> "confirm"]
  BY <1>1 DEF PublishTree, To, Aside
<1>4. /\ stages' \in [Numbers -> Directory] /\ stages'[n] = NoDirectory
      /\ \A m \in Numbers \ {n} : stages'[m] = stages[m]
  BY <1>1, NoDirectoryTyped DEF PublishTree, Aside, MigrationInv, MigrationTypes
<1>5. MigrationTypes'
  <2>1. apply' \in [plan : Numbers, at : Steps]
    BY <1>3 DEF Steps
  <2>2. home' \in Directory
    BY <1>2 DEF MigrationInv, MigrationTypes
  <2> QED BY <1>2, <1>4, <2>1, <2>2 DEF MigrationInv, MigrationTypes
<1>6. \A m \in Numbers : Staged(m)
  BY DEF MigrationInv
<1>7. Exchanged(n)'
  <2>1. home'.exists /\ home'.canon = n /\ home'.archive = plans'[n].tree
    BY <1>1, <1>2 DEF Aside, VerifyAppliedRoot
  <2>2. \A f \in Surfaces : latest'[f] = backups'[n].files[f]
    BY <1>1, <1>2 DEF Aside
  <2>3. \A f \in Others \ late' : home'.files[f] = latest'[f]
    BY <1>1, <1>2, <1>6 DEF Staged, Aside, VerifyAppliedRoot
  <2>4. Known(n)' /\ ~stages'[n].exists
    BY <1>1, <1>2, <1>4 DEF Known, NoDirectory
  <2>5. \A m \in Numbers \ {n} : Untouched(m)'
    BY <1>1, <1>2 DEF Aside, Untouched
  <2> QED BY <2>1, <2>2, <2>3, <2>4, <2>5 DEF Exchanged
<1>8. \A m \in Numbers : Staged(m)'
  <2>1. Staged(n)'
    BY <1>4, PlanNumbers DEF Staged, NoDirectory, NoFiles, Files
  <2>2. \A m \in Numbers \ {n} : Staged(m)'
    BY <1>2, <1>4, <1>6 DEF Staged, Known
  <2> QED BY <2>1, <2>2
<1>9. Relies(apply.plan, apply.at)'
  <2>1. apply'.plan = n /\ apply'.at = "confirm" /\ Known(n)'
    BY <1>1, <1>2, <1>3 DEF Known
  <2> QED BY <1>7, <2>1 DEF Relies
<1> QED BY <1>5, <1>7, <1>8, <1>9 DEF MigrationInv, Placed

LEMMA WriteCommittedStep ==
  ASSUME Sorted, MigrationInv, NEW n \in Numbers, WriteCommitted(n)
  PROVE  MigrationInv'
<1>1. Known(n) /\ apply = [plan |-> n, at |-> "commit"] /\ Exchanged(n)
  BY Reliance DEF WriteCommitted, Reached, Relies
<1>2. UNCHANGED <<home, stages, backups, plans, latest, late>>
  BY DEF WriteCommitted
<1>3. apply' = [plan |-> n, at |-> "check"]
  BY <1>1 DEF WriteCommitted, To
<1>4. /\ logbook' \in [Numbers -> {"none", "prepared", "committed"}]
      /\ \A m \in Numbers \ {n} : logbook'[m] = logbook[m]
  BY DEF WriteCommitted, MigrationInv, MigrationTypes
<1>5. MigrationTypes'
  <2>1. apply' \in [plan : Numbers, at : Steps]
    BY <1>3 DEF Steps
  <2> QED BY <1>2, <1>4, <2>1 DEF MigrationInv, MigrationTypes
<1>6. Exchanged(n)'
  BY <1>1, <1>2, <1>4 DEF Exchanged, Known, Untouched
<1>7. \A m \in Numbers : Staged(m)'
  BY <1>2 DEF MigrationInv, Staged, Known
<1>8. Relies(apply.plan, apply.at)'
  <2>1. apply'.plan = n /\ apply'.at = "check" /\ Known(n)'
    BY <1>1, <1>2, <1>3 DEF Known
  <2> QED BY <1>6, <2>1 DEF Relies
<1> QED BY <1>5, <1>6, <1>7, <1>8 DEF MigrationInv, Placed

\* What goes from the backup is in the archive.
LEMMA RemoveAllStep ==
  ASSUME Sorted, MigrationInv, NEW n \in Numbers, RemoveAll(n)
  PROVE  MigrationInv'
<1>1. /\ Known(n) /\ apply = [plan |-> n, at |-> "remove"] /\ Exchanged(n)
      /\ \A f \in Surfaces : backups[n].files[f] \in {0, plans[n].tree[f]}
  BY Reliance DEF RemoveAll, Reached, Relies
<1>2. UNCHANGED <<home, stages, logbook, plans, latest, late>>
  BY DEF RemoveAll
<1>3. backups \in [Numbers -> Directory] /\ latest \in [Files -> Nat \ {0}] /\ Surfaces \subseteq Files
  BY DEF MigrationInv, MigrationTypes, Files
<1>4. /\ backups' \in [Numbers -> Directory]
      /\ \A m \in Numbers \ {n} : backups'[m] = backups[m]
      /\ \A f \in Files : backups'[n].files[f] \in {backups[n].files[f], 0}
      /\ apply' \in {apply, NoApply}
  <2>1. CASE backups[n].files = NoFiles
    <3>1. backups' = [backups EXCEPT ![n] = NoDirectory] /\ apply' = NoApply
      BY <2>1 DEF RemoveAll, Stop
    <3> QED BY <1>3, <3>1, NoDirectoryTyped DEF NoDirectory, NoFiles
  <2>2. CASE backups[n].files # NoFiles
    <3>1. PICK f \in Files : backups' = [backups EXCEPT ![n].files[f] = 0]
      BY <2>2 DEF RemoveAll
    <3>2. apply' = apply
      BY <2>2 DEF RemoveAll
    <3> QED BY <1>3, <3>1, <3>2 DEF Directory
  <2> QED BY <2>1, <2>2
<1>5. MigrationTypes'
  BY <1>2, <1>4 DEF MigrationInv, MigrationTypes
<1>6. Exchanged(n)'
  <2>1. \A f \in Surfaces : latest'[f] \in {home'.files[f], home'.archive[f], backups'[n].files[f]}
    BY <1>1, <1>2, <1>3, <1>4 DEF Exchanged
  <2>2. \A m \in Numbers \ {n} : Untouched(m)'
    BY <1>1, <1>2, <1>4 DEF Exchanged, Untouched
  <2> QED BY <1>1, <1>2, <2>1, <2>2 DEF Exchanged, Known
<1>7. \A m \in Numbers : Staged(m)'
  BY <1>2 DEF MigrationInv, Staged, Known
<1>8. apply' # NoApply => Relies(apply.plan, apply.at)'
  <2> SUFFICES ASSUME apply' # NoApply PROVE Relies(apply.plan, apply.at)'
    OBVIOUS
  <2>1. apply'.plan = n /\ apply'.at = "remove" /\ Known(n)'
    BY <1>1, <1>2, <1>4 DEF Known
  <2>2. \A f \in Surfaces : backups'[n].files[f] \in {0, plans'[n].tree[f]}
    BY <1>1, <1>2, <1>3, <1>4
  <2> QED BY <1>6, <2>1, <2>2 DEF Relies
<1> QED BY <1>5, <1>6, <1>7, <1>8 DEF MigrationInv, Placed

-----------------------------------------------------------------------------
(* The person.                                                             *)

\* A file that is saved is new where the person works; a stage that holds the
\* copy of another version makes it late.
LEMMA SaveStep ==
  ASSUME Sorted, MigrationInv, NEW f \in Files, Save(f)
  PROVE  MigrationInv'
<1>1. /\ UNCHANGED <<stages, backups, logbook, plans, apply>> /\ home.exists
      /\ latest' = [latest EXCEPT ![f] = @ + 1]
      /\ home' = [home EXCEPT !.files[f] = latest'[f]]
  BY DEF Save
<1>2. home \in Directory /\ latest \in [Files -> Nat \ {0}] /\ Others \subseteq Files /\ Surfaces \subseteq Files
  BY DEF MigrationInv, MigrationTypes, Files
<1>3. /\ latest' \in [Files -> Nat \ {0}] /\ home' \in Directory
      /\ home'.exists = home.exists /\ home'.canon = home.canon /\ home'.archive = home.archive
      /\ home'.files \in [Files -> Nat]
      /\ home'.files[f] = latest'[f]
      /\ \A g \in Files \ {f} : home'.files[g] = home.files[g] /\ latest'[g] = latest[g]
  <2>1. /\ latest' \in [Files -> Nat \ {0}]
        /\ \A g \in Files \ {f} : latest'[g] = latest[g]
    BY <1>1, <1>2
  <2>2. home.files \in [Files -> Nat] /\ latest'[f] \in Nat
    BY <1>2, <2>1 DEF Directory
  <2>3. home'.files = [home.files EXCEPT ![f] = latest'[f]]
    BY <1>1, <1>2 DEF Directory
  <2>4. /\ home'.exists = home.exists /\ home'.canon = home.canon /\ home'.archive = home.archive
        /\ home' \in Directory
    BY <1>1, <1>2, <2>2 DEF Directory
  <2> QED BY <2>1, <2>2, <2>3, <2>4
<1>4. late \subseteq late' /\ late' \subseteq Others
  BY DEF Save, MigrationInv, MigrationTypes
<1>5. MigrationTypes'
  BY <1>1, <1>3, <1>4 DEF MigrationInv, MigrationTypes
<1>6. Whole => Whole'
  <2>1. home.files = latest => home'.files = latest'
    BY <1>3
  <2> QED BY <1>1, <1>3, <2>1 DEF Whole, Untouched
<1>7. \A n \in Numbers : ~Aside(n) /\ (Exchanged(n) => Exchanged(n)')
  <2> SUFFICES ASSUME NEW n \in Numbers, Exchanged(n) PROVE Exchanged(n)'
    BY <1>1 DEF Aside
  <2>1. \A g \in Surfaces : latest'[g] \in {home'.files[g], home'.archive[g], backups'[n].files[g]}
    BY <1>1, <1>2, <1>3 DEF Exchanged
  <2>2. \A g \in Others \ late' : home'.files[g] = latest'[g]
    BY <1>2, <1>3, <1>4 DEF Exchanged
  <2>3. \A m \in Numbers \ {n} : Untouched(m)'
    BY <1>1 DEF Exchanged, Untouched
  <2> QED BY <1>1, <1>3, <2>1, <2>2, <2>3 DEF Exchanged, Known
<1>8. Placed'
  BY <1>6, <1>7 DEF MigrationInv, Placed
<1>9. \A m \in Numbers : Staged(m)'
  <2> SUFFICES ASSUME NEW m \in Numbers PROVE Staged(m)'
    OBVIOUS
  <2>1. Staged(m)
    BY DEF MigrationInv
  <2>2. \A g \in Others \ late' : stages'[m].files[g] \in {0, latest'[g]}
    <3> SUFFICES ASSUME NEW g \in Others \ late' PROVE stages'[m].files[g] \in {0, latest'[g]}
      OBVIOUS
    <3>1. CASE g = f
      <4>1. ~(f \in Others /\ \E n \in Numbers : stages[n].files[f] # 0)
        BY <3>1 DEF Save
      <4> QED BY <1>1, <3>1, <4>1
    <3>2. CASE g # f
      BY <1>1, <1>2, <1>3, <1>4, <2>1, <3>2 DEF Staged
    <3> QED BY <3>1, <3>2
  <2> QED BY <1>1, <2>1, <2>2 DEF Staged, Known
<1>10. apply' # NoApply => Relies(apply.plan, apply.at)'
  <2> SUFFICES ASSUME apply # NoApply PROVE Relies(apply.plan, apply.at)'
    BY <1>1
  <2>1. PICK n \in Numbers : apply.plan = n /\ Relies(n, apply.at)
    BY DEF MigrationInv, Relies, Known
  <2>2. apply'.plan = n /\ apply'.at = apply.at
    BY <1>1, <2>1
  <2>3. /\ Known(n) => Known(n)'
        /\ VerifyAppliedRoot(stages[n], n) => VerifyAppliedRoot(stages[n], n)'
    BY <1>1 DEF Known, VerifyAppliedRoot
  <2> QED BY <1>1, <1>6, <1>7, <2>1, <2>2, <2>3 DEF Relies
<1> QED BY <1>5, <1>8, <1>9, <1>10 DEF MigrationInv

LEMMA SaveRecordStep ==
  ASSUME Sorted, MigrationInv, SaveRecord
  PROVE  MigrationInv'
<1>1. /\ UNCHANGED <<stages, backups, logbook, plans, apply, latest, late>>
      /\ home.exists /\ home.canon \in Numbers
      /\ home' = [home EXCEPT !.canon = Touched]
  BY DEF SaveRecord
<1>2. home \in Directory
  BY DEF MigrationInv, MigrationTypes
<1>3. /\ home' \in Directory /\ home'.exists /\ home'.canon = Touched
      /\ home'.archive = home.archive /\ home'.files = home.files
  BY <1>1, <1>2, PlanNumbers DEF Directory
<1>4. MigrationTypes'
  BY <1>1, <1>3 DEF MigrationInv, MigrationTypes
<1>5. ~Whole /\ \A n \in Numbers : ~Aside(n)
  BY <1>1, PlanNumbers DEF Whole, Aside
<1>6. \A n \in Numbers : Exchanged(n) => Exchanged(n)'
  BY <1>1, <1>3 DEF Exchanged, Known, Untouched
<1>7. Placed'
  BY <1>5, <1>6 DEF MigrationInv, Placed
<1>8. \A m \in Numbers : Staged(m)'
  BY <1>1 DEF MigrationInv, Staged, Known
<1>9. apply' # NoApply => Relies(apply.plan, apply.at)'
  <2> SUFFICES ASSUME apply # NoApply PROVE Relies(apply.plan, apply.at)'
    BY <1>1
  <2>1. PICK n \in Numbers : apply.plan = n /\ Relies(n, apply.at)
    BY DEF MigrationInv, Relies, Known
  <2>2. apply'.plan = n /\ apply'.at = apply.at
    BY <1>1, <2>1
  <2> QED BY <1>1, <1>5, <1>6, <2>1, <2>2 DEF Relies, Known
<1> QED BY <1>4, <1>7, <1>8, <1>9 DEF MigrationInv

-----------------------------------------------------------------------------
(* The theorem.                                                            *)

LEMMA MigrationInvInit == Sorted /\ MigrationInit => MigrationInv
<1> SUFFICES ASSUME Sorted, MigrationInit PROVE MigrationInv
  OBVIOUS
<1>1. home \in Directory /\ latest \in [Files -> Nat \ {0}]
  BY DEF MigrationInit, Directory, NoArchive, Sorted, Touched
<1>2. MigrationTypes
  BY <1>1, NoDirectoryTyped DEF MigrationInit, MigrationTypes
<1>3. Whole
  BY DEF MigrationInit, Whole, Untouched
<1>4. \A m \in Numbers : Staged(m)
  BY PlanNumbers DEF MigrationInit, Staged, NoDirectory, NoFiles, Files
<1>5. apply = NoApply
  BY DEF MigrationInit
<1> QED BY <1>2, <1>3, <1>4, <1>5 DEF MigrationInv, Placed

LEMMA MigrationInvStep == Sorted /\ MigrationInv /\ [MigrationNext]_migrationVars => MigrationInv'
<1> SUFFICES ASSUME Sorted, MigrationInv, [MigrationNext]_migrationVars PROVE MigrationInv'
  OBVIOUS
<1>1. CASE UNCHANGED migrationVars
  <2>1. UNCHANGED <<home, stages, backups, logbook, plans, apply, latest, late>>
    BY <1>1 DEF migrationVars
  <2>2. MigrationTypes'
    BY <2>1 DEF MigrationInv, MigrationTypes
  <2>3. Placed'
    BY <2>1 DEF MigrationInv, Placed, Whole, Aside, Exchanged, Known, Untouched, VerifyAppliedRoot
  <2>4. \A m \in Numbers : Staged(m)'
    BY <2>1 DEF MigrationInv, Staged, Known
  <2>5. apply' # NoApply => Relies(apply.plan, apply.at)'
    BY <2>1 DEF MigrationInv, Relies, Whole, Aside, Exchanged, Known, Untouched, VerifyAppliedRoot
  <2> QED BY <2>2, <2>3, <2>4, <2>5 DEF MigrationInv
<1>2. CASE MakePlan
  BY <1>2, MakePlanStep
<1>3. ASSUME NEW n \in Numbers, ApplySteps(n) PROVE MigrationInv'
  BY <1>3, BeginStep, LookStep, CopyTreeStep, BuildStageStep, WritePreparedStep, JudgeStep,
     PreserveStep, PublishStep, ConfirmStep, WriteCommittedStep, CommittedStep,
     RemoveVerifiedBackupStep, RemoveAllStep DEF ApplySteps
<1>4. CASE KillApply
  BY <1>4, KillApplyStep
<1>5. ASSUME NEW f \in Files, Save(f) PROVE MigrationInv'
  BY <1>5, SaveStep
<1>6. CASE SaveRecord
  BY <1>6, SaveRecordStep
<1> QED BY <1>1, <1>2, <1>3, <1>4, <1>5, <1>6 DEF MigrationNext

LEMMA MigrationInvKeeps == Sorted /\ MigrationInv => LegacyKept
<1> SUFFICES ASSUME Sorted, MigrationInv PROVE LegacyKept
  OBVIOUS
<1>1. Recoverable
  BY DEF MigrationInv, Placed, Whole, Aside, Exchanged, Recoverable
<1>2. ASSUME NEW f \in Files \ late PROVE Held(f)
  BY <1>2 DEF MigrationInv, Placed, Whole, Aside, Exchanged, Held, Files
<1> QED BY <1>1, <1>2 DEF LegacyKept

\* Whenever the person saves and wherever an apply is killed, every legacy file
\* that is not late is in the directory, in its archive or in a backup, and a
\* missing directory can be restored (harnessv0.Apply, removeVerifiedBackup).
THEOREM NoLegacyLost ==
  ASSUME Sorted
  PROVE  MigrationSpec => []LegacyKept
<1>1. MigrationInit => MigrationInv
  BY MigrationInvInit
<1>2. MigrationInv /\ [MigrationNext]_migrationVars => MigrationInv'
  BY MigrationInvStep
<1>3. MigrationInv => LegacyKept
  BY MigrationInvKeeps
<1> QED BY <1>1, <1>2, <1>3, PTL DEF MigrationSpec

-----------------------------------------------------------------------------
(* Snapshot: types.                                                        *)

Clones == [head : Nat, tree : [Places -> Nat], file : [Places -> Nat],
           tracked : SUBSET Places, flagged : SUBSET Places,
           gitlinks : {"recorded", "moved"}, odd : BOOLEAN]

\* The steps of the first look, of the second, and of what follows.
LookPc == {"flags", "head", "status", "patch", "paths", "gitlinks", "nodes", "files"}
AgainPc == {"flags2", "head2", "status2", "patch2", "gitlinks2", "nodes2", "files2",
            "publish", "reopen"}
Pc == LookPc \cup AgainPc \cup Returned \cup {"failed"}
Capturing == cap.pc \in LookPc \cup AgainPc

SnapshotTypes ==
    /\ clone \in Clones
    /\ seen \subseteq Clones
    /\ work \in Nat
    /\ {"pc", "mode"} \subseteq DOMAIN cap
    /\ cap.pc \in Pc
    /\ plot = Unset \/ plot = [p \in Places |-> plot[p]]
    /\ cap.pc \in Returned \ {"captured"} => plot = [p \in Places |-> plot[p]]

-----------------------------------------------------------------------------
(* The order of the clones.                                                *)

Rank(v) == IF v \in {1, 2} THEN 0 ELSE IF v = Missing THEN 1 ELSE v
FileBefore(v, w) == v = w \/ Rank(v) < Rank(w)

Before(c, d) ==
    /\ c.head <= d.head
    /\ c.head = d.head => c.tree = d.tree
    /\ c.tracked \subseteq d.tracked
    /\ \A p \in Places : FileBefore(c.file[p], d.file[p])
    /\ Submodules(d) => Submodules(c)
    /\ SupportedNodes(d) => SupportedNodes(c)

\* A path that the index does not name is not in HEAD.
Indexed(c) == \A p \in Places : c.tree[p] # Missing => p \in c.tracked

History ==
    /\ Capturing => clone \in seen
    /\ Capturing => \A c \in seen : Before(c, clone)
    /\ Indexed(clone)
    /\ \A p \in Places : clone.file[p] < work + 3
    /\ \A c \in seen : Indexed(c)
    /\ \A c, d \in seen : c.head = d.head => c.tree = d.tree

-----------------------------------------------------------------------------
(* What was found, and where.                                              *)

\* A captured path is a new one, and was found in an earlier clone.
Found(f, w) ==
    /\ f = <<f[1], f[2]>> /\ f[1] \in cap.status.new /\ f[2] # Missing
    /\ \E c \in seen : Before(c, w) /\ c.file[f[1]] = f[2]

HeadFound == "head" \in DOMAIN cap /\ cap.head \in Nat /\ (Capturing => cap.head <= clone.head)
StatusFound(c) == cap.head <= c.head /\ Status(c) = cap.status
PatchFound(c) ==
    \E d \in seen : Before(c, d) /\ Patch(d) = cap.patch

FirstLook ==
    /\ cap.pc \in LookPc \ {"flags", "head"} => HeadFound
    /\ cap.pc \in LookPc \ {"flags", "head", "status"} => "status" \in DOMAIN cap /\ IsDirty
    /\ cap.pc = "patch" => \E c \in seen : StatusFound(c)
    /\ cap.pc \in {"paths", "gitlinks", "nodes", "files"} =>
         /\ "patch" \in DOMAIN cap
         /\ \E c \in seen : StatusFound(c) /\ PatchFound(c)
    /\ cap.pc = "files" => "files" \in DOMAIN cap /\ \A f \in cap.files : Found(f, clone)

\* The clone between the looks: all of the first was found before it, ...
Looked(w) ==
    \E c \in seen :
        /\ Before(c, w) /\ StatusFound(c)
        /\ IsDirty => \E d \in seen : Before(c, d) /\ Before(d, w) /\ Patch(d) = cap.patch
Collected(w) ==
    /\ {"patch", "files", "seeds"} \subseteq DOMAIN cap
    /\ \A f \in cap.files : Found(f, w)
    /\ cap.status.new \subseteq {f[1] : f \in cap.files}
    /\ cap.seeds = Bytes(w, ChangedIn(cap.status)) \cup cap.files

\* ... and what the second has got to, after it.
Past(steps) == cap.pc \in Returned \cup (AgainPc \ steps)
StatusSteps == {"flags2", "head2", "status2"}

FoundAgain(f, w) == \E d \in seen : Before(w, d) /\ d.file[f[1]] = f[2]

LookedAgain(w) ==
    /\ Past(StatusSteps) => \E d \in seen : Before(w, d) /\ Status(d) = cap.status
    /\ IsDirty =>
         /\ Past(StatusSteps \cup {"patch2"}) =>
              \E d \in seen : /\ Before(w, d) /\ Patch(d) = cap.patch
                              /\ Changed(d) = ChangedIn(cap.status)
         /\ Past(StatusSteps \cup {"patch2", "gitlinks2"}) => Submodules(w)
         /\ Past(StatusSteps \cup {"patch2", "gitlinks2", "nodes2"}) => SupportedNodes(w)
         /\ cap.pc = "files2" => "again" \in DOMAIN cap /\ \A f \in cap.again : FoundAgain(f, w)
         /\ Past(StatusSteps \cup {"patch2", "gitlinks2", "nodes2", "files2"}) =>
              \A f \in cap.files : FoundAgain(f, w)

\* A clean capture has found nothing.
Clean == cap.status.changed = {} /\ cap.status.new = {}

Between(w) ==
    /\ Looked(w) /\ LookedAgain(w)
    /\ IF IsDirty THEN Collected(w) ELSE Clean

SecondLook ==
    cap.pc \in AgainPc \cup Returned =>
        HeadFound /\ "status" \in DOMAIN cap /\ \E w \in seen : Before(w, w) /\ Between(w)

SnapshotInv ==
    /\ SnapshotTypes
    /\ History
    /\ FirstLook
    /\ SecondLook
    /\ cap.pc = "ready" => Recaptured

-----------------------------------------------------------------------------
(* Notes.                                                                  *)

\* A look that goes on keeps what the capture has, and may note a finding.
LEMMA Kept ==
  ASSUME SnapshotTypes, NEW pc, cap' = [cap EXCEPT !.pc = pc]
  PROVE  /\ cap'.pc = pc /\ DOMAIN cap' = DOMAIN cap
         /\ \A g \in DOMAIN cap \ {"pc"} : cap'[g] = cap[g]
BY DEF SnapshotTypes

LEMMA Noted ==
  ASSUME SnapshotTypes, NEW field, NEW value, NEW pc, field # "pc",
         cap' = [Note(field, value) EXCEPT !.pc = pc]
  PROVE  /\ cap'.pc = pc /\ DOMAIN cap' = DOMAIN cap \cup {field} /\ cap'[field] = value
         /\ \A g \in DOMAIN cap \ {"pc", field} : cap'[g] = cap[g]
<1>1. Note(field, value) = [x \in {field} \cup DOMAIN cap |-> IF x = field THEN value ELSE cap[x]]
  BY DEF Note
<1> QED BY <1>1 DEF SnapshotTypes

-----------------------------------------------------------------------------
(* The order is one.                                                       *)

LEMMA FileOrder ==
  ASSUME NEW u \in Nat, NEW v \in Nat, NEW w \in Nat, FileBefore(u, v), FileBefore(v, w)
  PROVE  FileBefore(u, w) /\ (u = w => v = u)
BY DEF FileBefore, Rank, Missing

LEMMA BeforeItself ==
  ASSUME NEW c \in Clones
  PROVE  Before(c, c)
BY DEF Before, Clones, FileBefore

LEMMA BeforeOrder ==
  ASSUME NEW c \in Clones, NEW d \in Clones, NEW e \in Clones, Before(c, d), Before(d, e)
  PROVE  Before(c, e)
<1>1. \A p \in Places : FileBefore(c.file[p], e.file[p])
  <2> SUFFICES ASSUME NEW p \in Places PROVE FileBefore(c.file[p], e.file[p])
    OBVIOUS
  <2>1. c.file[p] \in Nat /\ d.file[p] \in Nat /\ e.file[p] \in Nat
    BY DEF Clones
  <2> QED BY <2>1, FileOrder DEF Before
<1>2. c.head <= e.head /\ (c.head = e.head => c.tree = e.tree)
  BY DEF Before, Clones
<1> QED BY <1>1, <1>2 DEF Before

\* What is the same before and after is the same in between.
LEMMA SameBetween ==
  ASSUME NEW c \in Clones, NEW d \in Clones, NEW e \in Clones, Before(c, d), Before(d, e),
         NEW p \in Places, c.file[p] = e.file[p]
  PROVE  d.file[p] = c.file[p]
<1>1. c.file[p] \in Nat /\ d.file[p] \in Nat /\ e.file[p] \in Nat
  BY DEF Clones
<1> QED BY <1>1, FileOrder DEF Before

-----------------------------------------------------------------------------
(* What was found stays found.                                             *)

\* The capture goes on, with what it has.
Continues ==
    /\ DOMAIN cap \subseteq DOMAIN cap'
    /\ \A g \in DOMAIN cap \ {"pc", "again", "restored"} : cap'[g] = cap[g]

LEMMA StillFound ==
  ASSUME Continues, seen \subseteq seen', "status" \in DOMAIN cap,
         NEW f, NEW w, Found(f, w)
  PROVE  Found(f, w)'
<1>1. cap'.status = cap.status
  BY DEF Continues
<1>2. PICK c \in seen : Before(c, w) /\ c.file[f[1]] = f[2]
  BY DEF Found
<1> QED BY <1>1, <1>2 DEF Found

LEMMA StillLooked ==
  ASSUME SnapshotTypes, Continues, seen \subseteq seen', {"head", "status"} \subseteq DOMAIN cap,
         IsDirty => "patch" \in DOMAIN cap, NEW w, Looked(w)
  PROVE  Looked(w)'
<1>1. cap'.status = cap.status /\ cap'.head = cap.head /\ (IsDirty <=> IsDirty')
      /\ (IsDirty => cap'.patch = cap.patch)
  BY DEF Continues, SnapshotTypes, IsDirty
<1>2. PICK c \in seen : /\ Before(c, w) /\ StatusFound(c)
                        /\ IsDirty => \E d \in seen : Before(c, d) /\ Before(d, w) /\ Patch(d) = cap.patch
  BY DEF Looked
<1>3. StatusFound(c)'
  BY <1>1, <1>2 DEF StatusFound
<1>4. IsDirty' => \E d \in seen' : Before(c, d) /\ Before(d, w) /\ Patch(d) = cap'.patch
  BY <1>1, <1>2
<1> QED BY <1>2, <1>3, <1>4 DEF Looked

LEMMA StillCollected ==
  ASSUME Continues, seen \subseteq seen', "status" \in DOMAIN cap, NEW w, Collected(w)
  PROVE  Collected(w)'
<1>1. /\ cap'.status = cap.status /\ cap'.files = cap.files /\ cap'.seeds = cap.seeds
      /\ {"patch", "files", "seeds"} \subseteq DOMAIN cap'
  BY DEF Continues, Collected
<1>2. \A f \in cap'.files : Found(f, w)'
  BY <1>1, StillFound DEF Collected
<1> QED BY <1>1, <1>2 DEF Collected

LEMMA StillFoundAgain ==
  ASSUME seen \subseteq seen', NEW f, NEW w, FoundAgain(f, w)
  PROVE  FoundAgain(f, w)'
BY DEF FoundAgain

-----------------------------------------------------------------------------
(* Frames.                                                                 *)

LEMMA HistoryGoesOn ==
  ASSUME SnapshotInv, UNCHANGED <<clone, seen>>, work' \in Nat, work <= work',
         Capturing' => Capturing
  PROVE  History'
<1>1. \A p \in Places : clone.file[p] < work' + 3
  <2>1. \A p \in Places : clone.file[p] \in Nat /\ clone.file[p] < work + 3
    BY DEF SnapshotInv, SnapshotTypes, History, Clones
  <2> QED BY <2>1 DEF SnapshotInv, SnapshotTypes
<1> QED BY <1>1 DEF SnapshotInv, History, Indexed

LEMMA FailedStep ==
  ASSUME SnapshotInv, UNCHANGED <<clone, seen, work>>, cap' = Failed,
         plot' = Unset \/ plot' = [p \in Places |-> plot'[p]]
  PROVE  SnapshotInv'
<1>1. cap'.pc = "failed" /\ {"pc", "mode"} \subseteq DOMAIN cap'
  BY DEF Failed
<1>2. ~Capturing' /\ cap'.pc \notin Returned /\ cap'.pc \in Pc
  BY <1>1 DEF Capturing, LookPc, AgainPc, Returned, Pc
<1>3. SnapshotTypes'
  BY <1>1, <1>2 DEF SnapshotInv, SnapshotTypes
<1>4. History'
  BY <1>2, HistoryGoesOn DEF SnapshotInv, SnapshotTypes
<1>5. FirstLook' /\ SecondLook'
  BY <1>1, <1>2 DEF FirstLook, SecondLook, LookPc, AgainPc
<1> QED BY <1>1, <1>3, <1>4, <1>5 DEF SnapshotInv

\* A look that does not fail.
LEMMA FirstGoesOn ==
  ASSUME SnapshotInv, UNCHANGED <<clone, seen, plot, work>>, cap.pc \in LookPc, cap'.pc \in LookPc,
         {"pc", "mode"} \subseteq DOMAIN cap', FirstLook'
  PROVE  SnapshotInv'
<1>1. Capturing /\ cap'.pc \in Pc /\ cap'.pc \notin AgainPc \cup Returned
  BY DEF Capturing, LookPc, AgainPc, Returned, Pc
<1>2. SnapshotTypes'
  BY <1>1 DEF SnapshotInv, SnapshotTypes
<1>3. History'
  BY <1>1, HistoryGoesOn DEF SnapshotInv, SnapshotTypes
<1>4. SecondLook' /\ cap'.pc # "ready"
  BY <1>1 DEF SecondLook, Returned
<1> QED BY <1>2, <1>3, <1>4 DEF SnapshotInv

\* The clone between the looks does not change any more.
LEMMA SecondGoesOn ==
  ASSUME SnapshotInv, UNCHANGED <<clone, seen, work>>, Continues,
         plot' = Unset \/ plot' = [p \in Places |-> plot'[p]],
         cap'.pc \in Returned \ {"captured"} => plot' = [p \in Places |-> plot'[p]],
         cap.pc \in AgainPc \cup Returned, cap'.pc \in AgainPc \cup Returned,
         Capturing' => Capturing, cap.pc # "ready", (cap'.pc = "ready" => Recaptured'),
         \A w \in seen : Between(w) => LookedAgain(w)'
  PROVE  SnapshotInv'
<1>1. PICK w \in seen : Before(w, w) /\ Between(w)
  BY DEF SnapshotInv, SecondLook
<1>2. HeadFound /\ {"head", "status"} \subseteq DOMAIN cap /\ SnapshotTypes
  BY DEF SnapshotInv, SecondLook, HeadFound
<1>3. HeadFound' /\ "status" \in DOMAIN cap'
  BY <1>2 DEF HeadFound, Continues
<1>4. (IsDirty' <=> IsDirty) /\ (Clean => Clean')
  BY <1>2 DEF IsDirty, Clean, Continues, SnapshotTypes
<1>5. Between(w)'
  <2>1. Looked(w)'
    BY <1>1, <1>2, StillLooked DEF Between, Collected
  <2>2. IF IsDirty' THEN Collected(w)' ELSE Clean'
    BY <1>1, <1>2, <1>4, StillCollected DEF Between
  <2> QED BY <1>1, <2>1, <2>2 DEF Between
<1>6. SecondLook'
  BY <1>1, <1>3, <1>5 DEF SecondLook
<1>7. cap'.pc \notin LookPc /\ cap'.pc \in Pc
  BY DEF LookPc, AgainPc, Returned, Pc
<1>8. FirstLook'
  BY <1>7 DEF FirstLook, LookPc
<1>9. SnapshotTypes'
  BY <1>7 DEF SnapshotInv, SnapshotTypes, Continues
<1>10. History'
  BY HistoryGoesOn DEF SnapshotInv, SnapshotTypes
<1> QED BY <1>6, <1>8, <1>9, <1>10 DEF SnapshotInv

LEMMA LookOutcome ==
  ASSUME NEW at, NEW next, NEW ok, NEW found, Look(at, next, ok, found)
  PROVE  /\ cap.pc = at /\ UNCHANGED <<clone, bundle, plot, work>>
         /\ cap' = Failed \/ (ok /\ cap' = [found EXCEPT !.pc = next])
BY DEF Look

LEMMA PlotKept ==
  ASSUME SnapshotTypes, UNCHANGED plot
  PROVE  plot' = Unset \/ plot' = [p \in Places |-> plot'[p]]
BY DEF SnapshotTypes

-----------------------------------------------------------------------------
(* The first look.                                                         *)

LEMMA FlagsStep ==
  ASSUME SnapshotInv, UNCHANGED seen, ReadIndexFlags
  PROVE  SnapshotInv'
<1>1. cap.pc = "flags" /\ UNCHANGED <<clone, bundle, plot, work>>
  BY DEF ReadIndexFlags, Look
<1>2. cap' = Failed \/ cap' = [cap EXCEPT !.pc = "head"]
  BY LookOutcome DEF ReadIndexFlags
<1>3. CASE cap' = [cap EXCEPT !.pc = "head"]
  <2>1. cap'.pc = "head" /\ DOMAIN cap' = DOMAIN cap
    BY <1>3, Kept DEF SnapshotInv
  <2>2. FirstLook'
    BY <2>1 DEF FirstLook
  <2> QED BY <1>1, <2>1, <2>2, FirstGoesOn DEF LookPc, SnapshotInv, SnapshotTypes
<1> QED BY <1>1, <1>2, <1>3, FailedStep, PlotKept DEF SnapshotInv

LEMMA HeadStep ==
  ASSUME SnapshotInv, UNCHANGED seen, ReadHead
  PROVE  SnapshotInv'
<1>1. cap.pc = "head" /\ UNCHANGED <<clone, bundle, plot, work>>
  BY DEF ReadHead, Look
<1>2. cap' = [Note("head", clone.head) EXCEPT !.pc = "status"]
  BY DEF ReadHead, Look
<1>3. cap'.pc = "status" /\ DOMAIN cap' = DOMAIN cap \cup {"head"} /\ cap'.head = clone.head
  <2>1. SnapshotTypes /\ "head" # "pc"
    BY DEF SnapshotInv
  <2>2. /\ cap'.pc = "status" /\ DOMAIN cap' = DOMAIN cap \cup {"head"}
        /\ cap'["head"] = clone.head
    BY <1>2, <2>1 DEF Note, SnapshotTypes
  <2> QED BY <2>2
<1>4. FirstLook'
  <2>1. HeadFound'
    BY <1>1, <1>3 DEF HeadFound, SnapshotInv, SnapshotTypes, Clones
  <2> QED BY <1>3, <2>1 DEF FirstLook
<1> QED BY <1>1, <1>3, <1>4, FirstGoesOn DEF LookPc, SnapshotInv, SnapshotTypes

\* A dirty capture goes on to the patch; a clean one has all it wants.
LEMMA StatusStep ==
  ASSUME SnapshotInv, UNCHANGED seen, ReadStatus
  PROVE  SnapshotInv'
<1>1. cap.pc = "status" /\ UNCHANGED <<clone, bundle, plot, work>>
  BY DEF ReadStatus, Look
<1>2. /\ SnapshotTypes /\ HeadFound /\ Capturing /\ clone \in seen /\ clone \in Clones
      /\ Before(clone, clone)
  BY <1>1, BeforeItself DEF SnapshotInv, FirstLook, LookPc, Capturing, History, SnapshotTypes
<1>3. \/ cap' = Failed
      \/ IsDirty /\ cap' = [Note("status", Status(clone)) EXCEPT !.pc = "patch"]
      \/ /\ ~IsDirty /\ Status(clone).changed = {} /\ Status(clone).new = {}
         /\ cap' = [Note("status", Status(clone)) EXCEPT !.pc = "flags2"]
  BY DEF ReadStatus, Look
<1>4. ASSUME NEW pc, cap' = [Note("status", Status(clone)) EXCEPT !.pc = pc]
      PROVE  /\ cap'.pc = pc /\ DOMAIN cap' = DOMAIN cap \cup {"status"}
             /\ cap'.head = cap.head /\ cap'.mode = cap.mode /\ StatusFound(clone)' /\ HeadFound'
             /\ cap'.status = Status(clone)
  <2>1. /\ cap'.pc = pc /\ DOMAIN cap' = DOMAIN cap \cup {"status"} /\ cap'.status = Status(clone)
        /\ cap'.head = cap.head /\ cap'.mode = cap.mode
    <3>1. /\ cap'.pc = pc /\ DOMAIN cap' = DOMAIN cap \cup {"status"} /\ cap'.status = Status(clone)
          /\ \A g \in DOMAIN cap \ {"pc", "status"} : cap'[g] = cap[g]
      BY <1>2, <1>4, Noted
    <3> QED BY <1>2, <3>1 DEF HeadFound, SnapshotTypes
  <2>2. Status(clone)' = Status(clone)
    BY <1>1 DEF Status, Changed, New
  <2>3. HeadFound' /\ StatusFound(clone)'
    BY <1>1, <1>2, <2>1, <2>2 DEF HeadFound, StatusFound
  <2> QED BY <2>1, <2>3
<1>5. CASE IsDirty /\ cap' = [Note("status", Status(clone)) EXCEPT !.pc = "patch"]
  <2>1. /\ cap'.pc = "patch" /\ DOMAIN cap' = DOMAIN cap \cup {"status"}
        /\ StatusFound(clone)' /\ HeadFound' /\ IsDirty'
    BY <1>4, <1>5 DEF IsDirty
  <2>2. \E c \in seen' : StatusFound(c)'
    <3> QED BY <1>1, <1>2, <2>1 DEF StatusFound
  <2>3. FirstLook'
    BY <2>1, <2>2 DEF FirstLook
  <2> QED BY <1>1, <1>2, <2>1, <2>3, FirstGoesOn DEF LookPc, SnapshotTypes
<1>6. CASE /\ ~IsDirty /\ Status(clone).changed = {} /\ Status(clone).new = {}
           /\ cap' = [Note("status", Status(clone)) EXCEPT !.pc = "flags2"]
  <2>1. /\ cap'.pc = "flags2" /\ DOMAIN cap' = DOMAIN cap \cup {"status"}
        /\ StatusFound(clone)' /\ HeadFound' /\ ~IsDirty' /\ Clean'
    BY <1>4, <1>6 DEF IsDirty, Clean
  <2>2. ~Past(StatusSteps)'
    BY <2>1 DEF Past, StatusSteps, Returned
  <2>3. Between(clone)'
    BY <1>1, <1>2, <2>1, <2>2 DEF Between, Looked, LookedAgain
  <2>4. SecondLook'
    <3>1. \E w \in seen' : Before(w, w) /\ Between(w)'
      BY <1>1, <1>2, <2>3
    <3> QED BY <2>1, <3>1 DEF SecondLook
  <2>5. SnapshotTypes'
    BY <1>1, <1>2, <2>1 DEF SnapshotTypes, Pc, AgainPc, Returned
  <2>6. FirstLook' /\ cap'.pc # "ready"
    BY <2>1 DEF FirstLook, LookPc
  <2>7. History'
    BY <1>1, <1>2, HistoryGoesOn DEF SnapshotTypes
  <2> QED BY <2>4, <2>5, <2>6, <2>7 DEF SnapshotInv
<1> QED BY <1>1, <1>2, <1>3, <1>5, <1>6, FailedStep, PlotKept

LEMMA PatchStep ==
  ASSUME SnapshotInv, UNCHANGED seen, TrackedPatch
  PROVE  SnapshotInv'
<1>1. cap.pc = "patch" /\ UNCHANGED <<clone, bundle, plot, work>>
  BY DEF TrackedPatch, Look
<1>2. cap' = [Note("patch", Patch(clone)) EXCEPT !.pc = "paths"]
  BY DEF TrackedPatch, Look
<1>3. /\ SnapshotTypes /\ HeadFound /\ Capturing /\ clone \in seen /\ "status" \in DOMAIN cap
      /\ IsDirty /\ \A c \in seen : Before(c, clone)
  BY <1>1 DEF SnapshotInv, FirstLook, LookPc, Capturing, History
<1>4. /\ cap'.pc = "paths" /\ DOMAIN cap' = DOMAIN cap \cup {"patch"} /\ cap'.patch = Patch(clone)
      /\ cap'.head = cap.head /\ cap'.status = cap.status /\ IsDirty'
  <2>1. /\ cap'.pc = "paths" /\ DOMAIN cap' = DOMAIN cap \cup {"patch"} /\ cap'.patch = Patch(clone)
        /\ \A g \in DOMAIN cap \ {"pc", "patch"} : cap'[g] = cap[g]
    BY <1>2, <1>3, Noted
  <2> QED BY <1>3, <2>1 DEF HeadFound, IsDirty, SnapshotTypes
<1>5. PICK c \in seen : StatusFound(c)
  BY <1>1 DEF SnapshotInv, FirstLook
<1>6. StatusFound(c)' /\ PatchFound(c)'
  BY <1>1, <1>3, <1>4, <1>5 DEF StatusFound, PatchFound
<1>7. FirstLook'
  <2>1. HeadFound'
    BY <1>1, <1>3, <1>4 DEF HeadFound
  <2>2. \E e \in seen' : StatusFound(e)' /\ PatchFound(e)'
    BY <1>5, <1>6
  <2> QED BY <1>3, <1>4, <2>1, <2>2 DEF FirstLook
<1> QED BY <1>1, <1>3, <1>4, <1>7, FirstGoesOn DEF LookPc, SnapshotTypes

\* Steps of the first look that note nothing.
LEMMA StillFirst ==
  ASSUME SnapshotInv, UNCHANGED <<clone, seen, plot, work>>,
         NEW at \in {"paths", "gitlinks"}, NEW next \in {"gitlinks", "nodes"},
         cap.pc = at, cap' = [cap EXCEPT !.pc = next]
  PROVE  SnapshotInv'
<1>1. /\ SnapshotTypes /\ HeadFound /\ {"status", "patch"} \subseteq DOMAIN cap /\ Capturing
      /\ IsDirty
  BY DEF SnapshotInv, FirstLook, LookPc, Capturing
<1>2. PICK c \in seen : StatusFound(c) /\ PatchFound(c)
  BY DEF SnapshotInv, FirstLook
<1>3. /\ cap'.pc = next /\ DOMAIN cap' = DOMAIN cap
      /\ \A g \in DOMAIN cap \ {"pc"} : cap'[g] = cap[g]
  BY <1>1, Kept
<1>4. HeadFound' /\ StatusFound(c)' /\ PatchFound(c)' /\ IsDirty'
  BY <1>1, <1>2, <1>3 DEF HeadFound, StatusFound, PatchFound, IsDirty, SnapshotTypes
<1>5. FirstLook'
  <2>1. \E e \in seen' : StatusFound(e)' /\ PatchFound(e)'
    BY <1>2, <1>4
  <2> QED BY <1>1, <1>3, <1>4, <2>1 DEF FirstLook
<1> QED BY <1>1, <1>3, <1>5, FirstGoesOn DEF LookPc, SnapshotTypes

LEMMA PathsStep ==
  ASSUME SnapshotInv, UNCHANGED seen, TrackedPaths \/ CaptureSubmodules
  PROVE  SnapshotInv'
<1>1. UNCHANGED <<clone, bundle, plot, work>>
  BY DEF TrackedPaths, CaptureSubmodules, Look
<1>2. \/ cap' = Failed
      \/ cap.pc = "paths" /\ cap' = [cap EXCEPT !.pc = "gitlinks"]
      \/ cap.pc = "gitlinks" /\ cap' = [cap EXCEPT !.pc = "nodes"]
  BY DEF TrackedPaths, CaptureSubmodules, Look
<1> QED BY <1>1, <1>2, StillFirst, FailedStep, PlotKept DEF SnapshotInv

\* A step that has found some of the files.
LEMMA FilesGoOn ==
  ASSUME SnapshotInv, UNCHANGED <<clone, seen, plot, work>>, cap.pc \in {"nodes", "files"},
         NEW files, cap' = [Note("files", files) EXCEPT !.pc = "files"],
         \A f \in files : Found(f, clone)
  PROVE  SnapshotInv'
<1>1. /\ SnapshotTypes /\ HeadFound /\ {"status", "patch"} \subseteq DOMAIN cap /\ Capturing
      /\ IsDirty
  BY DEF SnapshotInv, FirstLook, LookPc, Capturing
<1>2. PICK c \in seen : StatusFound(c) /\ PatchFound(c)
  BY DEF SnapshotInv, FirstLook
<1>3. /\ cap'.pc = "files" /\ DOMAIN cap' = DOMAIN cap \cup {"files"} /\ cap'.files = files
      /\ \A g \in DOMAIN cap \ {"pc", "files"} : cap'[g] = cap[g]
  BY <1>1, Noted
<1>4. cap'.status = cap.status /\ cap'.head = cap.head /\ cap'.patch = cap.patch /\ IsDirty'
  BY <1>1, <1>3 DEF HeadFound, IsDirty, SnapshotTypes
<1>5. HeadFound' /\ StatusFound(c)' /\ PatchFound(c)'
  BY <1>1, <1>2, <1>3, <1>4 DEF HeadFound, StatusFound, PatchFound
<1>6. \A f \in cap'.files : Found(f, clone)'
  BY <1>3, <1>4 DEF Found
<1>7. FirstLook'
  <2>1. \E e \in seen' : StatusFound(e)' /\ PatchFound(e)'
    BY <1>2, <1>5
  <2> QED BY <1>1, <1>3, <1>4, <1>5, <1>6, <2>1 DEF FirstLook
<1> QED BY <1>1, <1>3, <1>7, FirstGoesOn DEF LookPc, SnapshotTypes

LEMMA NodesStep ==
  ASSUME SnapshotInv, UNCHANGED seen, RejectNodes
  PROVE  SnapshotInv'
<1>1. cap.pc = "nodes" /\ UNCHANGED <<clone, bundle, plot, work>>
  BY DEF RejectNodes, Look
<1>2. cap' = Failed \/ cap' = [Note("files", {}) EXCEPT !.pc = "files"]
  BY DEF RejectNodes, Look
<1> QED BY <1>1, <1>2, FilesGoOn, FailedStep, PlotKept DEF SnapshotInv

LEMMA UntrackedStep ==
  ASSUME SnapshotInv, UNCHANGED seen, CaptureUntracked
  PROVE  SnapshotInv'
<1>1. PICK p \in Unread : Look("files", "files", clone.file[p] # Missing,
                               Note("files", cap.files \cup Bytes(clone, {p})))
  BY DEF CaptureUntracked
<1>2. cap.pc = "files" /\ UNCHANGED <<clone, bundle, plot, work>>
  BY <1>1 DEF Look
<1>3. \/ cap' = Failed
      \/ /\ clone.file[p] # Missing
         /\ cap' = [Note("files", cap.files \cup Bytes(clone, {p})) EXCEPT !.pc = "files"]
  BY <1>1 DEF Look
<1>4. CASE clone.file[p] # Missing
  <2>1. /\ clone \in seen /\ Before(clone, clone)
        /\ \A f \in cap.files : Found(f, clone)
    BY <1>2, BeforeItself DEF SnapshotInv, FirstLook, LookPc, Capturing, History, SnapshotTypes
  <2>2. Bytes(clone, {p}) = {<<p, clone.file[p]>>} /\ p \in cap.status.new
    BY <1>1 DEF Bytes, Unread
  <2>3. Found(<<p, clone.file[p]>>, clone)
    BY <1>4, <2>1, <2>2 DEF Found
  <2>4. \A f \in cap.files \cup Bytes(clone, {p}) : Found(f, clone)
    BY <2>1, <2>2, <2>3
  <2> QED BY <1>2, <1>3, <2>4, FilesGoOn, FailedStep, PlotKept DEF SnapshotInv
<1> QED BY <1>2, <1>3, <1>4, FailedStep, PlotKept DEF SnapshotInv

\* The last step of the first look: this clone is the instant.
LEMMA SeedsStep ==
  ASSUME SnapshotInv, UNCHANGED seen, CaptureSeedPaths
  PROVE  SnapshotInv'
<1>1. cap.pc = "files" /\ Unread = {} /\ UNCHANGED <<clone, bundle, plot, work>>
  BY DEF CaptureSeedPaths, Look
<1> DEFINE seeds == Bytes(clone, ChangedIn(cap.status)) \cup cap.files
<1>2. cap' = [Note("seeds", seeds) EXCEPT !.pc = "flags2"]
  BY DEF CaptureSeedPaths, Look
<1>3. /\ SnapshotTypes /\ HeadFound /\ {"status", "patch", "files"} \subseteq DOMAIN cap /\ Capturing
      /\ clone \in seen /\ Before(clone, clone) /\ \A c \in seen : Before(c, clone)
      /\ IsDirty /\ \A f \in cap.files : Found(f, clone)
  BY <1>1, BeforeItself DEF SnapshotInv, FirstLook, LookPc, Capturing, History, SnapshotTypes
<1>4. PICK c \in seen : StatusFound(c) /\ PatchFound(c)
  BY <1>1 DEF SnapshotInv, FirstLook
<1> HIDE DEF seeds
<1>5. /\ cap'.pc = "flags2" /\ DOMAIN cap' = DOMAIN cap \cup {"seeds"} /\ cap'.seeds = seeds
      /\ \A g \in DOMAIN cap \ {"pc", "seeds"} : cap'[g] = cap[g]
  BY <1>2, <1>3, Noted
<1>6. /\ cap'.status = cap.status /\ cap'.head = cap.head /\ cap'.patch = cap.patch
      /\ cap'.files = cap.files /\ cap'.mode = cap.mode
  BY <1>3, <1>5 DEF HeadFound, SnapshotTypes
<1>7. HeadFound'
  BY <1>1, <1>3, <1>5, <1>6 DEF HeadFound
<1>8. Looked(clone)'
  <2>1. StatusFound(c)'
    BY <1>4, <1>6 DEF StatusFound
  <2>2. PICK d \in seen : Before(c, d) /\ Patch(d) = cap.patch
    BY <1>4 DEF PatchFound
  <2>3. Before(c, clone) /\ Before(d, clone)
    BY <1>3
  <2> QED BY <1>1, <1>4, <1>6, <2>1, <2>2, <2>3 DEF Looked
<1>9. Collected(clone)'
  <2>1. \A f \in cap'.files : Found(f, clone)'
    BY <1>1, <1>3, <1>6 DEF Found
  <2>2. cap'.status.new \subseteq {f[1] : f \in cap'.files}
    BY <1>1, <1>6 DEF Unread
  <2>3. cap'.seeds = Bytes(clone', ChangedIn(cap'.status)) \cup cap'.files
    BY <1>1, <1>5, <1>6 DEF seeds, Bytes
  <2>4. {"patch", "files", "seeds"} \subseteq DOMAIN cap'
    BY <1>3, <1>5
  <2> QED BY <2>1, <2>2, <2>3, <2>4 DEF Collected
<1>10. ~Past(StatusSteps)' /\ \A steps : StatusSteps \subseteq steps => ~Past(steps)'
  BY <1>5 DEF Past, StatusSteps, Returned
<1>11. Between(clone)'
  <2>1. LookedAgain(clone)'
    BY <1>5, <1>10 DEF LookedAgain, Past, StatusSteps, Returned
  <2>2. IsDirty'
    BY <1>3, <1>6 DEF IsDirty
  <2> QED BY <1>8, <1>9, <2>1, <2>2 DEF Between
<1>12. SecondLook'
  <2>1. \E w \in seen' : Before(w, w) /\ Between(w)'
    BY <1>1, <1>3, <1>11
  <2> QED BY <1>3, <1>5, <1>7, <2>1 DEF SecondLook
<1>13. SnapshotTypes'
  BY <1>1, <1>3, <1>5 DEF SnapshotTypes, Pc, AgainPc, Returned
<1>14. FirstLook' /\ cap'.pc # "ready"
  BY <1>5 DEF FirstLook, LookPc
<1>15. History'
  BY <1>1, <1>3, HistoryGoesOn DEF SnapshotTypes
<1> QED BY <1>12, <1>13, <1>14, <1>15 DEF SnapshotInv

-----------------------------------------------------------------------------
(* The second look.                                                        *)

LEMMA AgainFrame ==
  ASSUME SnapshotInv, Continues, UNCHANGED seen, cap.pc \in AgainPc \cup Returned,
         NEW w, Between(w)
  PROVE  /\ cap'.status = cap.status /\ (IsDirty' <=> IsDirty)
         /\ IsDirty => cap'.patch = cap.patch /\ cap'.files = cap.files
<1>1. "status" \in DOMAIN cap /\ "mode" \in DOMAIN cap
  BY DEF SnapshotInv, SecondLook, SnapshotTypes
<1>2. IsDirty => {"patch", "files"} \subseteq DOMAIN cap
  BY DEF Between, Collected
<1> QED BY <1>1, <1>2 DEF Continues, IsDirty

LEMMA PcContinues ==
  ASSUME SnapshotTypes, NEW pc, cap' = [cap EXCEPT !.pc = pc]
  PROVE  Continues /\ cap'.pc = pc /\ ("again" \in DOMAIN cap => cap'.again = cap.again)
BY Kept DEF Continues

\* Whatever is seen is before the clone, as long as the capture goes on.
LEMMA SeenBefore ==
  ASSUME SnapshotInv, cap.pc \in AgainPc
  PROVE  clone \in seen /\ \A c \in seen : Before(c, clone)
BY DEF SnapshotInv, History, Capturing

\* A step of the second look, or one that fails.
LEMMA AgainStep ==
  ASSUME SnapshotInv, UNCHANGED <<clone, seen, plot, work>>,
         NEW at \in AgainPc, NEW next \in AgainPc \cup {"captured"}, cap.pc = at,
         cap' = Failed \/ (Continues /\ cap'.pc = next),
         cap'.pc = next => \A w \in seen : Between(w) => LookedAgain(w)'
  PROVE  SnapshotInv'
<1>1. CASE cap' = Failed
  BY <1>1, FailedStep, PlotKept DEF SnapshotInv
<1>2. CASE Continues /\ cap'.pc = next
  <2>1. /\ cap.pc \in AgainPc \cup Returned /\ cap'.pc \in AgainPc \cup Returned
        /\ cap.pc # "ready" /\ cap'.pc \notin Returned \ {"captured"} /\ Capturing
    BY <1>2 DEF AgainPc, Returned, Capturing
  <2>2. cap'.pc # "ready"
    BY <2>1 DEF Returned
  <2> QED BY <1>2, <2>1, <2>2, SecondGoesOn, PlotKept DEF SnapshotInv
<1> QED BY <1>1, <1>2

LEMMA FlagsAgainStep ==
  ASSUME SnapshotInv, UNCHANGED seen, RecheckIndexFlags \/ RecheckHead
  PROVE  SnapshotInv'
<1>1. PICK at \in {"flags2", "head2"}, next \in {"head2", "status2"} :
        /\ cap.pc = at /\ UNCHANGED <<clone, bundle, plot, work>>
        /\ cap' = Failed \/ cap' = [cap EXCEPT !.pc = next]
  BY DEF RecheckIndexFlags, RecheckHead, Look
<1>2. cap' = Failed \/ (Continues /\ cap'.pc = next)
  BY <1>1, PcContinues DEF SnapshotInv
<1>3. cap'.pc = next => \A w : LookedAgain(w)'
  BY <1>1 DEF LookedAgain, Past, StatusSteps, Returned
<1> QED BY <1>1, <1>2, <1>3, AgainStep DEF AgainPc

LEMMA StatusAgainStep ==
  ASSUME SnapshotInv, UNCHANGED seen, RecheckStatus
  PROVE  SnapshotInv'
<1> DEFINE next == IF IsDirty THEN "patch2" ELSE "captured"
<1>1. cap.pc = "status2" /\ UNCHANGED <<clone, bundle, plot, work>>
  BY DEF RecheckStatus, Look
<1>2. cap' = Failed \/ (Status(clone) = cap.status /\ cap' = [cap EXCEPT !.pc = next])
  BY DEF RecheckStatus, Look
<1>3. cap' = Failed \/ (Continues /\ Status(clone) = cap.status /\ cap'.pc = next)
  BY <1>2, PcContinues DEF SnapshotInv
<1> HIDE DEF next
<1>4. CASE cap' = Failed
  BY <1>1, <1>4, FailedStep, PlotKept DEF SnapshotInv
<1>5. CASE Continues /\ Status(clone) = cap.status /\ cap'.pc = next
  <2>1. ASSUME NEW w \in seen, Between(w) PROVE LookedAgain(w)'
    <3>1. /\ cap'.status = cap.status /\ (IsDirty' <=> IsDirty)
      BY <1>1, <1>5, <2>1, AgainFrame DEF AgainPc
    <3>2. \E d \in seen' : Before(w, d) /\ Status(d) = cap'.status
      BY <1>1, <1>5, <3>1, SeenBefore DEF AgainPc
    <3>3. IsDirty' => cap'.pc = "patch2"
      BY <1>5, <3>1 DEF next
    <3> QED BY <3>2, <3>3 DEF LookedAgain, Past, StatusSteps, Returned
  <2> QED BY <1>1, <1>5, <2>1, AgainStep DEF AgainPc, next
<1> QED BY <1>3, <1>4, <1>5

LEMMA PatchAgainStep ==
  ASSUME SnapshotInv, UNCHANGED seen, RecheckPatch
  PROVE  SnapshotInv'
<1>1. cap.pc = "patch2" /\ UNCHANGED <<clone, bundle, plot, work>>
  BY DEF RecheckPatch, Look
<1>2. \/ cap' = Failed
      \/ /\ Patch(clone) = cap.patch /\ Changed(clone) = ChangedIn(cap.status)
         /\ cap' = [cap EXCEPT !.pc = "gitlinks2"]
  BY DEF RecheckPatch, Look
<1>3. CASE cap' = Failed
  BY <1>1, <1>3, FailedStep, PlotKept DEF SnapshotInv
<1>4. CASE /\ Patch(clone) = cap.patch /\ Changed(clone) = ChangedIn(cap.status)
           /\ cap' = [cap EXCEPT !.pc = "gitlinks2"]
  <2>1. Continues /\ cap'.pc = "gitlinks2"
    BY <1>4, PcContinues DEF SnapshotInv
  <2>2. ASSUME NEW w \in seen, Between(w) PROVE LookedAgain(w)'
    <3>1. /\ cap'.status = cap.status /\ (IsDirty' <=> IsDirty)
          /\ IsDirty => cap'.patch = cap.patch
      BY <1>1, <2>1, <2>2, AgainFrame DEF AgainPc
    <3>2. PICK d \in seen : Before(w, d) /\ Status(d) = cap.status
      BY <1>1, <2>2 DEF Between, LookedAgain, Past, AgainPc, StatusSteps
    <3>3. clone \in seen /\ Before(w, clone)
      BY <1>1, SeenBefore DEF AgainPc
    <3>4. \E e \in seen' : Before(w, e) /\ Status(e) = cap'.status
      BY <1>1, <3>1, <3>2
    <3>5. IsDirty' => \E e \in seen' : /\ Before(w, e) /\ Patch(e) = cap'.patch
                                       /\ Changed(e) = ChangedIn(cap'.status)
      BY <1>1, <1>4, <3>1, <3>3
    <3> QED BY <2>1, <3>4, <3>5 DEF LookedAgain, Past, StatusSteps, Returned
  <2> QED BY <1>1, <2>1, <2>2, AgainStep DEF AgainPc
<1> QED BY <1>2, <1>3, <1>4

\* What the second look has found so far, when it has got to the patch.
LEMMA FoundSoFar ==
  ASSUME SnapshotInv, Continues, UNCHANGED seen, cap.pc \in {"gitlinks2", "nodes2", "files2"},
         NEW w \in seen, Between(w)
  PROVE  /\ \E d \in seen' : Before(w, d) /\ Status(d) = cap'.status
         /\ IsDirty' => \E d \in seen' : /\ Before(w, d) /\ Patch(d) = cap'.patch
                                         /\ Changed(d) = ChangedIn(cap'.status)
         /\ IsDirty' => IsDirty /\ cap'.files = cap.files /\ cap'.status = cap.status
         /\ IsDirty /\ cap.pc \in {"nodes2", "files2"} => Submodules(w)
         /\ IsDirty /\ cap.pc = "files2" => SupportedNodes(w)
<1>1. /\ cap'.status = cap.status /\ (IsDirty' <=> IsDirty)
      /\ IsDirty => cap'.patch = cap.patch /\ cap'.files = cap.files
  BY AgainFrame DEF AgainPc
<1>2. LookedAgain(w) /\ Past(StatusSteps) /\ Past(StatusSteps \cup {"patch2"})
  BY DEF Between, Past, AgainPc, StatusSteps
<1>3. PICK d \in seen : Before(w, d) /\ Status(d) = cap.status
  BY <1>2 DEF LookedAgain
<1>4. IsDirty => \E e \in seen : /\ Before(w, e) /\ Patch(e) = cap.patch
                                 /\ Changed(e) = ChangedIn(cap.status)
  BY <1>2 DEF LookedAgain
<1>5. \E e \in seen' : Before(w, e) /\ Status(e) = cap'.status
  BY <1>1, <1>3
<1>6. IsDirty' => \E e \in seen' : /\ Before(w, e) /\ Patch(e) = cap'.patch
                                   /\ Changed(e) = ChangedIn(cap'.status)
  BY <1>1, <1>4
<1>7. IsDirty /\ cap.pc \in {"nodes2", "files2"} => Submodules(w)
  BY <1>2 DEF LookedAgain, Past, AgainPc, StatusSteps
<1>8. IsDirty /\ cap.pc = "files2" => SupportedNodes(w)
  BY <1>2 DEF LookedAgain, Past, AgainPc, StatusSteps
<1> QED BY <1>1, <1>5, <1>6, <1>7, <1>8

LEMMA SubmodulesAgainStep ==
  ASSUME SnapshotInv, UNCHANGED seen, RecheckSubmodules
  PROVE  SnapshotInv'
<1>1. cap.pc = "gitlinks2" /\ UNCHANGED <<clone, bundle, plot, work>>
  BY DEF RecheckSubmodules, Look
<1>2. \/ cap' = Failed
      \/ Submodules(clone) /\ cap' = [cap EXCEPT !.pc = "nodes2"]
  BY DEF RecheckSubmodules, Look
<1>3. CASE cap' = Failed
  BY <1>1, <1>3, FailedStep, PlotKept DEF SnapshotInv
<1>4. CASE Submodules(clone) /\ cap' = [cap EXCEPT !.pc = "nodes2"]
  <2>1. Continues /\ cap'.pc = "nodes2"
    BY <1>4, PcContinues DEF SnapshotInv
  <2>2. ASSUME NEW w \in seen, Between(w) PROVE LookedAgain(w)'
    <3>1. Submodules(w)
      BY <1>1, <1>4, SeenBefore DEF AgainPc, Before
    <3>2. Submodules(w)'
      BY <3>1 DEF Submodules
    <3> QED BY <1>1, <2>1, <2>2, <3>2, FoundSoFar DEF LookedAgain, Past, StatusSteps, Returned
  <2> QED BY <1>1, <2>1, <2>2, AgainStep DEF AgainPc
<1> QED BY <1>2, <1>3, <1>4

LEMMA NodesAgainStep ==
  ASSUME SnapshotInv, UNCHANGED seen, RecheckNodes
  PROVE  SnapshotInv'
<1>1. cap.pc = "nodes2" /\ UNCHANGED <<clone, bundle, plot, work>>
  BY DEF RecheckNodes, Look
<1>2. \/ cap' = Failed
      \/ SupportedNodes(clone) /\ cap' = [Note("again", {}) EXCEPT !.pc = "files2"]
  BY DEF RecheckNodes, Look
<1>3. CASE cap' = Failed
  BY <1>1, <1>3, FailedStep, PlotKept DEF SnapshotInv
<1>4. CASE SupportedNodes(clone) /\ cap' = [Note("again", {}) EXCEPT !.pc = "files2"]
  <2>1. /\ cap'.pc = "files2" /\ DOMAIN cap' = DOMAIN cap \cup {"again"} /\ cap'.again = {}
        /\ \A g \in DOMAIN cap \ {"pc", "again"} : cap'[g] = cap[g]
    BY <1>4, Noted DEF SnapshotInv
  <2>2. Continues
    BY <2>1 DEF Continues
  <2>3. ASSUME NEW w \in seen, Between(w) PROVE LookedAgain(w)'
    <3>1. SupportedNodes(w)
      BY <1>1, <1>4, SeenBefore DEF AgainPc, Before
    <3>2. SupportedNodes(w)' /\ (Submodules(w) => Submodules(w)')
      BY <3>1 DEF SupportedNodes, Submodules
    <3>3. /\ \E d \in seen' : Before(w, d) /\ Status(d) = cap'.status
          /\ IsDirty' => \E d \in seen' : /\ Before(w, d) /\ Patch(d) = cap'.patch
                                          /\ Changed(d) = ChangedIn(cap'.status)
          /\ IsDirty' => Submodules(w)
      BY <1>1, <2>2, <2>3, FoundSoFar
    <3> QED BY <2>1, <3>2, <3>3 DEF LookedAgain, Past, StatusSteps, Returned
  <2> QED BY <1>1, <2>1, <2>2, <2>3, AgainStep DEF AgainPc
<1> QED BY <1>2, <1>3, <1>4

\* Every file that was captured is read again.
LEMMA UntrackedAgainStep ==
  ASSUME SnapshotInv, UNCHANGED seen, RecheckUntracked
  PROVE  SnapshotInv'
<1>1. cap.pc = "files2" /\ UNCHANGED <<clone, bundle, plot, work>>
  BY DEF RecheckUntracked, Look
<1>2. \/ cap' = Failed
      \/ cap.again = cap.files /\ cap' = [cap EXCEPT !.pc = "publish"]
      \/ \E p : /\ cap' = [Note("again", cap.again \cup Bytes(clone, {p})) EXCEPT !.pc = "files2"]
  BY DEF RecheckUntracked, Look, SameFiles
<1>3. CASE cap' = Failed
  BY <1>1, <1>3, FailedStep, PlotKept DEF SnapshotInv
<1>4. CASE cap.again = cap.files /\ cap' = [cap EXCEPT !.pc = "publish"]
  <2>1. Continues /\ cap'.pc = "publish"
    BY <1>4, PcContinues DEF SnapshotInv
  <2>2. ASSUME NEW w \in seen, Between(w) PROVE LookedAgain(w)'
    <3>1. IsDirty' => \A f \in cap'.files : FoundAgain(f, w)'
      <4>1. IsDirty' => IsDirty /\ cap'.files = cap.files
        BY <1>1, <2>1, <2>2, FoundSoFar
      <4>2. IsDirty => \A f \in cap.again : FoundAgain(f, w)
        BY <1>1, <2>2 DEF Between, LookedAgain
      <4> QED BY <1>4, <4>1, <4>2, StillFoundAgain
    <3>2. (Submodules(w) => Submodules(w)') /\ (SupportedNodes(w) => SupportedNodes(w)')
      BY DEF SupportedNodes, Submodules
    <3>3. /\ \E d \in seen' : Before(w, d) /\ Status(d) = cap'.status
          /\ IsDirty' => \E d \in seen' : /\ Before(w, d) /\ Patch(d) = cap'.patch
                                          /\ Changed(d) = ChangedIn(cap'.status)
          /\ IsDirty' => Submodules(w) /\ SupportedNodes(w)
      BY <1>1, <2>1, <2>2, FoundSoFar
    <3> QED BY <2>1, <3>1, <3>2, <3>3 DEF LookedAgain
  <2> QED BY <1>1, <2>1, <2>2, AgainStep DEF AgainPc
<1>5. ASSUME NEW p, cap' = [Note("again", cap.again \cup Bytes(clone, {p})) EXCEPT !.pc = "files2"]
      PROVE  SnapshotInv'
  <2> DEFINE more == cap.again \cup Bytes(clone, {p})
  <2>1. /\ cap'.pc = "files2" /\ DOMAIN cap' = DOMAIN cap \cup {"again"} /\ cap'.again = more
        /\ \A g \in DOMAIN cap \ {"pc", "again"} : cap'[g] = cap[g]
    <3> HIDE DEF more
    <3> QED BY <1>5, Noted DEF SnapshotInv, more
  <2>2. Continues
    BY <2>1 DEF Continues
  <2>3. ASSUME NEW w \in seen, Between(w) PROVE LookedAgain(w)'
    <3>1. IsDirty' => \A f \in cap'.again : FoundAgain(f, w)'
      <4>1. IsDirty' => IsDirty
        BY <1>1, <2>2, <2>3, FoundSoFar
      <4>2. IsDirty => \A f \in cap.again : FoundAgain(f, w)
        BY <1>1, <2>3 DEF Between, LookedAgain
      <4>3. FoundAgain(<<p, clone.file[p]>>, w)
        BY <1>1, SeenBefore DEF AgainPc, FoundAgain
      <4>4. Bytes(clone, {p}) = {<<p, clone.file[p]>>}
        BY DEF Bytes
      <4> QED BY <2>1, <4>1, <4>2, <4>3, <4>4, StillFoundAgain
    <3>2. (Submodules(w) => Submodules(w)') /\ (SupportedNodes(w) => SupportedNodes(w)')
      BY DEF SupportedNodes, Submodules
    <3>3. /\ \E d \in seen' : Before(w, d) /\ Status(d) = cap'.status
          /\ IsDirty' => \E d \in seen' : /\ Before(w, d) /\ Patch(d) = cap'.patch
                                          /\ Changed(d) = ChangedIn(cap'.status)
          /\ IsDirty' => Submodules(w) /\ SupportedNodes(w)
      BY <1>1, <2>2, <2>3, FoundSoFar
    <3>4. "again" \in DOMAIN cap' /\ ~Past(StatusSteps \cup {"patch2", "gitlinks2", "nodes2", "files2"})'
      BY <2>1 DEF Past, Returned, StatusSteps
    <3> QED BY <3>1, <3>2, <3>3, <3>4 DEF LookedAgain
  <2> QED BY <1>1, <2>1, <2>2, <2>3, AgainStep DEF AgainPc
<1> QED BY <1>2, <1>3, <1>4, <1>5

-----------------------------------------------------------------------------
(* The bundle and the worktree.                                            *)

Looks == {"publish", "reopen"} \cup Returned    \* both looks are over

LEMMA LookedTwice ==
  ASSUME SnapshotInv, Continues, UNCHANGED seen, cap.pc \in Looks, cap'.pc \in Looks,
         NEW w \in seen, Between(w)
  PROVE  LookedAgain(w)'
<1>1. cap.pc \in AgainPc \cup Returned
  BY DEF Looks, AgainPc
<1>2. /\ cap'.status = cap.status /\ (IsDirty' <=> IsDirty)
      /\ IsDirty => cap'.patch = cap.patch /\ cap'.files = cap.files
  BY <1>1, AgainFrame
<1>3. /\ LookedAgain(w) /\ Past(StatusSteps) /\ Past(StatusSteps \cup {"patch2"})
      /\ Past(StatusSteps \cup {"patch2", "gitlinks2"})
      /\ Past(StatusSteps \cup {"patch2", "gitlinks2", "nodes2"})
      /\ Past(StatusSteps \cup {"patch2", "gitlinks2", "nodes2", "files2"})
      /\ cap'.pc # "files2"
  BY DEF Between, Past, Looks, AgainPc, StatusSteps, Returned
<1>4. \E d \in seen' : Before(w, d) /\ Status(d) = cap'.status
  BY <1>2, <1>3 DEF LookedAgain
<1>5. IsDirty' => \E d \in seen' : /\ Before(w, d) /\ Patch(d) = cap'.patch
                                   /\ Changed(d) = ChangedIn(cap'.status)
  BY <1>2, <1>3 DEF LookedAgain
<1>6. IsDirty' => Submodules(w)' /\ SupportedNodes(w)'
  BY <1>2, <1>3 DEF LookedAgain, Submodules, SupportedNodes
<1>7. IsDirty' => \A f \in cap'.files : FoundAgain(f, w)'
  BY <1>2, <1>3, StillFoundAgain DEF LookedAgain
<1> QED BY <1>3, <1>4, <1>5, <1>6, <1>7 DEF LookedAgain

LEMMA LooksGoOn ==
  ASSUME SnapshotInv, UNCHANGED <<clone, seen, work>>, Continues,
         plot' = Unset \/ plot' = [p \in Places |-> plot'[p]],
         cap'.pc \in Returned \ {"captured"} => plot' = [p \in Places |-> plot'[p]],
         cap.pc \in Looks, cap'.pc \in Looks, cap.pc \notin {"publish", "reopen"} => cap'.pc \in Returned,
         cap.pc # "ready", cap'.pc = "ready" => Recaptured'
  PROVE  SnapshotInv'
<1>1. cap.pc \in AgainPc \cup Returned /\ cap'.pc \in AgainPc \cup Returned
  BY DEF Looks, AgainPc
<1>2. Capturing' => Capturing
  BY DEF Capturing, Looks, LookPc, AgainPc, Returned
<1>3. \A w \in seen : Between(w) => LookedAgain(w)'
  BY LookedTwice
<1> QED BY <1>1, <1>2, <1>3, SecondGoesOn

LEMMA RenameBundleStep ==
  ASSUME SnapshotInv, UNCHANGED seen, RenameBundle
  PROVE  SnapshotInv'
<1>1. cap.pc = "publish" /\ UNCHANGED <<clone, plot, work>>
  BY DEF RenameBundle
<1>2. Continues /\ cap'.pc = "reopen"
  BY PcContinues DEF RenameBundle, SnapshotInv
<1> QED BY <1>1, <1>2, LooksGoOn, PlotKept DEF Looks, Returned, SnapshotInv

LEMMA ReopenBundleStep ==
  ASSUME SnapshotInv, UNCHANGED seen, ReopenBundle
  PROVE  SnapshotInv'
<1>1. cap.pc = "reopen" /\ UNCHANGED <<clone, plot, work>>
  BY DEF ReopenBundle
<1>2. cap' = Failed \/ (Continues /\ cap'.pc = "captured")
  BY PcContinues DEF ReopenBundle, SnapshotInv
<1> QED BY <1>1, <1>2, LooksGoOn, FailedStep, PlotKept DEF Looks, Returned, SnapshotInv

LEMMA PrepareStep ==
  ASSUME SnapshotInv, UNCHANGED seen, PrepareCheckout
  PROVE  SnapshotInv'
<1>1. cap.pc = "captured" /\ UNCHANGED <<clone, work>>
  BY DEF PrepareCheckout
<1>2. CASE cap' = Failed /\ UNCHANGED plot
  BY <1>1, <1>2, FailedStep, PlotKept DEF SnapshotInv
<1>3. CASE plot' = TreeOf(cap.head) /\ cap' = [cap EXCEPT !.pc = IF IsDirty THEN "apply" ELSE "verify"]
  <2>1. Continues /\ cap'.pc \in {"apply", "verify"}
    BY <1>3, PcContinues DEF SnapshotInv
  <2>2. plot' = [p \in Places |-> plot'[p]]
    BY <1>3 DEF TreeOf
  <2> QED BY <1>1, <2>1, <2>2, LooksGoOn DEF Looks, Returned
<1> QED BY <1>2, <1>3 DEF PrepareCheckout, Reject

LEMMA ApplyPatchStep ==
  ASSUME SnapshotInv, UNCHANGED seen, ApplyPatch
  PROVE  SnapshotInv'
<1>1. cap.pc = "apply" /\ UNCHANGED <<clone, work>>
  BY DEF ApplyPatch
<1>2. CASE cap' = Failed /\ UNCHANGED plot
  BY <1>1, <1>2, FailedStep, PlotKept DEF SnapshotInv
<1>3. CASE /\ plot' = [p \in Places |-> IF \E e \in cap.patch : e[1] = p
                                       THEN (CHOOSE e \in cap.patch : e[1] = p)[3]
                                       ELSE plot[p]]
           /\ cap' = [Note("restored", {}) EXCEPT !.pc = "restore"]
  <2>1. Continues /\ cap'.pc = "restore"
    <3>1. /\ cap'.pc = "restore" /\ DOMAIN cap' = DOMAIN cap \cup {"restored"}
          /\ \A g \in DOMAIN cap \ {"pc", "restored"} : cap'[g] = cap[g]
      <4>1. SnapshotTypes /\ cap' = [Note("restored", {}) EXCEPT !.pc = "restore"]
        BY <1>3 DEF SnapshotInv
      <4> QED BY <4>1 DEF Note, SnapshotTypes
    <3> QED BY <1>1, <3>1 DEF Continues
  <2>2. plot' = [p \in Places |-> plot'[p]]
    BY <1>3
  <2> QED BY <1>1, <2>1, <2>2, LooksGoOn DEF Looks, Returned
<1> QED BY <1>2, <1>3 DEF ApplyPatch, Reject

LEMMA RestoreUntrackedStep ==
  ASSUME SnapshotInv, UNCHANGED seen, RestoreUntracked
  PROVE  SnapshotInv'
<1>1. cap.pc = "restore" /\ UNCHANGED <<clone, work>> /\ plot = [p \in Places |-> plot[p]]
  BY DEF RestoreUntracked, SnapshotInv, SnapshotTypes, Returned
<1>2. \/ cap' = [cap EXCEPT !.pc = "verify"] /\ UNCHANGED plot
      \/ \E f : /\ plot' = [plot EXCEPT ![f[1]] = f[2]]
                /\ cap' = [cap EXCEPT !.restored = @ \cup {f[1]}]
      \/ /\ plot' = [p \in Places |-> IF p \in cap.restored THEN Missing ELSE plot[p]]
         /\ cap' = Failed
  BY DEF RestoreUntracked
<1>3. CASE cap' = [cap EXCEPT !.pc = "verify"] /\ UNCHANGED plot
  <2>1. Continues /\ cap'.pc = "verify"
    BY <1>3, PcContinues DEF SnapshotInv
  <2> QED BY <1>1, <1>3, <2>1, LooksGoOn DEF Looks, Returned
<1>4. ASSUME NEW f, plot' = [plot EXCEPT ![f[1]] = f[2]],
             cap' = [cap EXCEPT !.restored = @ \cup {f[1]}]
      PROVE  SnapshotInv'
  <2>1. Continues /\ cap'.pc = "restore"
    BY <1>1, <1>4 DEF SnapshotInv, SnapshotTypes, Continues
  <2>2. plot' = [p \in Places |-> plot'[p]]
    BY <1>1, <1>4
  <2> QED BY <1>1, <2>1, <2>2, LooksGoOn DEF Looks, Returned
<1>5. CASE /\ plot' = [p \in Places |-> IF p \in cap.restored THEN Missing ELSE plot[p]]
           /\ cap' = Failed
  <2>1. plot' = [p \in Places |-> plot'[p]]
    BY <1>5
  <2> QED BY <1>1, <1>5, <2>1, FailedStep
<1> QED BY <1>2, <1>3, <1>4, <1>5

LEMMA VerifyPreparedStep ==
  ASSUME SnapshotInv, UNCHANGED seen, VerifyPrepared
  PROVE  SnapshotInv'
<1>1. /\ cap.pc = "verify" /\ UNCHANGED <<clone, plot, work>> /\ plot = [p \in Places |-> plot[p]]
  BY DEF VerifyPrepared, SnapshotInv, SnapshotTypes, Returned
<1>2. \/ cap' = Failed
      \/ Recaptured /\ cap' = [cap EXCEPT !.pc = "ready"]
  BY DEF VerifyPrepared
<1>3. CASE cap' = Failed
  BY <1>1, <1>3, FailedStep
<1>4. CASE Recaptured /\ cap' = [cap EXCEPT !.pc = "ready"]
  <2>1. Continues /\ cap'.pc = "ready"
    BY <1>4, PcContinues DEF SnapshotInv
  <2>2. PICK w \in seen : Between(w)
    BY <1>1 DEF SnapshotInv, SecondLook, Returned
  <2>3. cap'.head = cap.head
    BY <1>1, <2>1 DEF SnapshotInv, SecondLook, HeadFound, Continues, Returned
  <2>4. (IsDirty' <=> IsDirty) /\ (IsDirty => cap'.patch = cap.patch /\ cap'.files = cap.files)
    BY <1>1, <2>1, <2>2, AgainFrame DEF Returned
  <2>5. Recaptured'
    <3>1. TreeOf(cap.head)' = TreeOf(cap.head)
      BY <2>3 DEF TreeOf
    <3>2. IsDirty => DirtyDigest' = DirtyDigest
      BY <2>4 DEF DirtyDigest
    <3> QED BY <1>1, <1>4, <2>4, <3>1, <3>2 DEF Recaptured
  <2> QED BY <1>1, <2>1, <2>5, LooksGoOn DEF Looks, Returned
<1> QED BY <1>2, <1>3, <1>4

-----------------------------------------------------------------------------
(* People at work.                                                         *)

LEMMA StillRecaptured ==
  ASSUME UNCHANGED cap, UNCHANGED plot, UNCHANGED seen, Recaptured
  PROVE  Recaptured'
<1>1. cap'.head = cap.head /\ plot' = plot
  OBVIOUS
<1>2. TreeOf(cap.head)' = TreeOf(cap.head)
  BY <1>1 DEF TreeOf
<1>3. DirtyDigest' = DirtyDigest /\ (IsDirty' <=> IsDirty)
  BY DEF DirtyDigest, IsDirty
<1> QED BY <1>1, <1>2, <1>3 DEF Recaptured

\* Without a step of the capture, what was found stays found, and what comes
\* later is after it.
LEMMA WorkStep ==
  ASSUME SnapshotInv, UNCHANGED cap, cap.pc = "ready" => UNCHANGED plot, work' = work + 1,
         seen' = IF Capturing THEN seen \cup {clone'} ELSE seen,
         clone' \in Clones, Before(clone, clone'), Indexed(clone'),
         clone'.head = clone.head => clone'.tree = clone.tree,
         \A p \in Places : clone'.file[p] < work' + 3,
         plot' = Unset \/ plot' = [p \in Places |-> plot'[p]],
         cap.pc \in Returned \ {"captured"} => plot' = [p \in Places |-> plot'[p]]
  PROVE  SnapshotInv'
<1>1. SnapshotTypes'
  BY DEF SnapshotInv, SnapshotTypes
<1>2. seen \subseteq seen' /\ seen' \subseteq Clones
  BY DEF SnapshotInv, SnapshotTypes
<1>3. (Capturing' <=> Capturing) /\ Continues
  BY DEF Capturing, Continues
<1>4. Capturing => clone \in seen /\ \A c \in seen : Before(c, clone) /\ Before(c, clone')
  BY <1>2, BeforeOrder DEF SnapshotInv, SnapshotTypes, History
<1>5. History'
  <2>1. Capturing' => clone' \in seen' /\ \A c \in seen' : Before(c, clone')
    BY <1>3, <1>4, BeforeItself
  <2>2. \A c \in seen' : Indexed(c)'
    BY DEF SnapshotInv, History, Indexed
  <2>3. \A c, d \in seen' : c.head = d.head => c.tree = d.tree
    <3>1. \A c, d \in seen : c.head = d.head => c.tree = d.tree
      BY DEF SnapshotInv, History
    <3>2. Capturing => \A c \in seen : c.head = clone'.head => c.tree = clone'.tree
      BY <1>4 DEF Before
    <3> QED BY <3>1, <3>2
  <2> QED BY <2>1, <2>2, <2>3 DEF History, Indexed
<1>6. FirstLook'
  <2>1. cap.pc \in LookPc \ {"flags", "head"} => HeadFound'
    <3>1. HeadFound /\ Capturing => HeadFound'
      BY <1>3 DEF HeadFound, Before, SnapshotInv, SnapshotTypes, Clones
    <3> QED BY <3>1 DEF SnapshotInv, FirstLook, Capturing
  <2>2. \A c : StatusFound(c) <=> StatusFound(c)'
    BY DEF StatusFound
  <2>3. \A c : PatchFound(c) => PatchFound(c)'
    BY <1>2 DEF PatchFound
  <2>4. cap.pc = "files" => "files" \in DOMAIN cap /\ \A f \in cap.files : Found(f, clone)'
    <3> SUFFICES ASSUME cap.pc = "files" PROVE "files" \in DOMAIN cap /\ \A f \in cap.files : Found(f, clone)'
      OBVIOUS
    <3>1. "files" \in DOMAIN cap /\ Capturing
      BY DEF SnapshotInv, FirstLook, Capturing, LookPc
    <3>2. ASSUME NEW f \in cap.files PROVE Found(f, clone)'
      <4>1. Found(f, clone)
        BY DEF SnapshotInv, FirstLook
      <4>2. PICK c \in seen : Before(c, clone) /\ c.file[f[1]] = f[2]
        BY <4>1 DEF Found
      <4>3. Before(c, clone')
        BY <1>4, <3>1, <4>2
      <4> QED BY <1>2, <4>1, <4>2, <4>3 DEF Found
    <3> QED BY <3>1, <3>2
  <2>5. /\ cap.pc = "patch" => \E c \in seen' : StatusFound(c)'
        /\ cap.pc \in {"paths", "gitlinks", "nodes", "files"} =>
             "patch" \in DOMAIN cap /\ \E c \in seen' : StatusFound(c)' /\ PatchFound(c)'
        /\ cap.pc \in LookPc \ {"flags", "head", "status"} => "status" \in DOMAIN cap /\ IsDirty'
    BY <1>2, <2>2, <2>3 DEF SnapshotInv, FirstLook, IsDirty
  <2> QED BY <2>1, <2>4, <2>5 DEF FirstLook
<1>7. SecondLook'
  <2> SUFFICES ASSUME cap.pc \in AgainPc \cup Returned PROVE SecondLook'
    BY DEF SecondLook
  <2>1. HeadFound /\ {"head", "status"} \subseteq DOMAIN cap /\ SnapshotTypes
    BY DEF SnapshotInv, SecondLook, HeadFound
  <2>2. PICK w \in seen : Before(w, w) /\ Between(w)
    BY DEF SnapshotInv, SecondLook
  <2>3. HeadFound'
    BY <1>3, <2>1 DEF HeadFound, Before, SnapshotTypes, Clones
  <2>4. Looked(w)' /\ IF IsDirty' THEN Collected(w)' ELSE Clean'
    BY <1>2, <1>3, <2>1, <2>2, StillLooked, StillCollected DEF Between, Collected, IsDirty, Clean
  <2>5. LookedAgain(w)'
    <3>1. \A f : FoundAgain(f, w) => FoundAgain(f, w)'
      BY <1>2, StillFoundAgain
    <3>2. \A steps : Past(steps)' <=> Past(steps)
      BY DEF Past
    <3>3. LookedAgain(w) /\ (IsDirty' <=> IsDirty)
      BY <2>2 DEF Between, IsDirty
    <3>4. (Submodules(w) => Submodules(w)') /\ (SupportedNodes(w) => SupportedNodes(w)')
      BY DEF SupportedNodes, Submodules
    <3> QED BY <1>2, <3>1, <3>2, <3>3, <3>4 DEF LookedAgain
  <2> QED BY <1>2, <2>1, <2>2, <2>3, <2>4, <2>5 DEF SecondLook, Between
<1>8. cap'.pc = "ready" => Recaptured'
  <2> SUFFICES ASSUME cap.pc = "ready" PROVE Recaptured'
    OBVIOUS
  <2>1. UNCHANGED <<cap, plot, seen>>
    BY DEF Capturing, LookPc, AgainPc
  <2> QED BY <2>1, StillRecaptured DEF SnapshotInv
<1> QED BY <1>1, <1>5, <1>6, <1>7, <1>8 DEF SnapshotInv

\* What people do to the clone: each time it comes after what it was.
LEMMA PeopleClone ==
  ASSUME SnapshotInv, NEW c,
         \/ \E p \in Places : c = [clone EXCEPT !.file[p] = work + 3]
         \/ \E p \in Places : clone.file[p] \in {1, 2} /\ c = [clone EXCEPT !.file[p] = Missing]
         \/ \E p \in New(clone) : c = [clone EXCEPT !.tracked = @ \cup {p}]
         \/ c = [clone EXCEPT !.head = @ + 1,
                   !.tree = [p \in Places |-> IF p \in Changed(clone) THEN clone.file[p] ELSE @[p]]]
         \/ \E p \in Places : c = [clone EXCEPT !.flagged = @ \cup {p}]
         \/ Submodules(clone) /\ c = [clone EXCEPT !.gitlinks = "moved"]
         \/ SupportedNodes(clone) /\ c = [clone EXCEPT !.odd = TRUE]
  PROVE  /\ c \in Clones /\ Before(clone, c) /\ Indexed(c)
         /\ c.head = clone.head => c.tree = clone.tree
         /\ \A p \in Places : c.file[p] < work + 4
<1>1. /\ clone \in Clones /\ work \in Nat /\ Indexed(clone)
      /\ \A p \in Places : clone.file[p] \in Nat /\ clone.file[p] < work + 3 /\ clone.file[p] < work + 4
  BY DEF SnapshotInv, SnapshotTypes, History, Clones
<1>2. ASSUME NEW p \in Places, NEW v \in {Missing, work + 3}, FileBefore(clone.file[p], v),
             c = [clone EXCEPT !.file[p] = v]
      PROVE  /\ c \in Clones /\ Before(clone, c) /\ Indexed(c) /\ c.tree = clone.tree
             /\ \A q \in Places : c.file[q] < work + 4
  <2>1. v \in Nat /\ v < work + 4
    BY <1>1, <1>2 DEF Missing
  <2>2. c.file \in [Places -> Nat] /\ \A q \in Places : c.file[q] = IF q = p THEN v ELSE clone.file[q]
    BY <1>1, <1>2, <2>1 DEF Clones
  <2>3. /\ c \in Clones /\ c.head = clone.head /\ c.tree = clone.tree /\ c.tracked = clone.tracked
        /\ c.gitlinks = clone.gitlinks /\ c.odd = clone.odd
    BY <1>1, <1>2, <2>1 DEF Clones
  <2>4. \A q \in Places : FileBefore(clone.file[q], c.file[q])
    BY <1>2, <2>2 DEF FileBefore
  <2>5. Before(clone, c)
    BY <1>1, <2>3, <2>4 DEF Before, Submodules, SupportedNodes, Clones
  <2> QED BY <1>1, <2>1, <2>2, <2>3, <2>5 DEF Indexed
<1>3. ASSUME c \in Clones, c.file = clone.file, clone.head <= c.head,
             c.head = clone.head => c.tree = clone.tree, clone.tracked \subseteq c.tracked,
             Submodules(c) => Submodules(clone), SupportedNodes(c) => SupportedNodes(clone)
      PROVE  Before(clone, c) /\ \A p \in Places : c.file[p] < work + 4
  BY <1>1, <1>3 DEF Before, FileBefore
<1>4. CASE \E p \in Places : c = [clone EXCEPT !.file[p] = work + 3]
  <2>1. PICK p \in Places : c = [clone EXCEPT !.file[p] = work + 3]
    BY <1>4
  <2>2. FileBefore(clone.file[p], work + 3)
    BY <1>1 DEF FileBefore, Rank, Missing
  <2> QED BY <1>2, <2>1, <2>2
<1>5. CASE \E p \in Places : clone.file[p] \in {1, 2} /\ c = [clone EXCEPT !.file[p] = Missing]
  <2>1. PICK p \in Places : clone.file[p] \in {1, 2} /\ c = [clone EXCEPT !.file[p] = Missing]
    BY <1>5
  <2>2. FileBefore(clone.file[p], Missing)
    BY <2>1 DEF FileBefore, Rank, Missing
  <2> QED BY <1>2, <2>1, <2>2
<1>6. CASE \E p \in New(clone) : c = [clone EXCEPT !.tracked = @ \cup {p}]
  <2>1. PICK p \in Places : c = [clone EXCEPT !.tracked = @ \cup {p}]
    BY <1>6 DEF New
  <2>2. /\ c \in Clones /\ c.file = clone.file /\ c.head = clone.head /\ c.tree = clone.tree
        /\ clone.tracked \subseteq c.tracked /\ c.gitlinks = clone.gitlinks /\ c.odd = clone.odd
    BY <1>1, <2>1 DEF Clones
  <2>3. Indexed(c)
    BY <1>1, <2>2 DEF Indexed
  <2> QED BY <1>1, <1>3, <2>2, <2>3 DEF Submodules, SupportedNodes, Clones
<1>7. CASE c = [clone EXCEPT !.head = @ + 1,
                  !.tree = [p \in Places |-> IF p \in Changed(clone) THEN clone.file[p] ELSE @[p]]]
  <2>1. /\ c \in Clones /\ c.file = clone.file /\ c.head = clone.head + 1
        /\ c.tracked = clone.tracked /\ c.gitlinks = clone.gitlinks /\ c.odd = clone.odd
        /\ \A p \in Places : c.tree[p] = IF p \in Changed(clone) THEN clone.file[p] ELSE clone.tree[p]
    <3> DEFINE tree == [p \in Places |-> IF p \in Changed(clone) THEN clone.file[p] ELSE clone.tree[p]]
    <3>1. tree \in [Places -> Nat] /\ clone.head + 1 \in Nat
      BY <1>1 DEF Clones
    <3>2. c = [clone EXCEPT !.head = clone.head + 1, !.tree = tree]
      BY <1>1, <1>7 DEF Clones
    <3>3. \A p \in Places : tree[p] = IF p \in Changed(clone) THEN clone.file[p] ELSE clone.tree[p]
      OBVIOUS
    <3> HIDE DEF tree
    <3> QED BY <1>1, <3>1, <3>2, <3>3 DEF Clones
  <2>2. Indexed(c)
    BY <1>1, <2>1 DEF Indexed, Changed
  <2>3. clone.head \in Nat
    BY <1>1 DEF Clones
  <2> QED BY <1>3, <2>1, <2>2, <2>3 DEF Submodules, SupportedNodes
<1>8. CASE \E p \in Places : c = [clone EXCEPT !.flagged = @ \cup {p}]
  <2>1. /\ c \in Clones /\ c.file = clone.file /\ c.head = clone.head /\ c.tree = clone.tree
        /\ c.tracked = clone.tracked /\ c.gitlinks = clone.gitlinks /\ c.odd = clone.odd
    BY <1>1, <1>8 DEF Clones
  <2>2. Indexed(c)
    BY <1>1, <2>1 DEF Indexed
  <2> QED BY <1>1, <1>3, <2>1, <2>2 DEF Submodules, SupportedNodes, Clones
<1>9. CASE \/ Submodules(clone) /\ c = [clone EXCEPT !.gitlinks = "moved"]
           \/ SupportedNodes(clone) /\ c = [clone EXCEPT !.odd = TRUE]
  <2>1. /\ c \in Clones /\ c.file = clone.file /\ c.head = clone.head /\ c.tree = clone.tree
        /\ c.tracked = clone.tracked
        /\ Submodules(c) => Submodules(clone)
        /\ SupportedNodes(c) => SupportedNodes(clone)
    BY <1>1, <1>9 DEF Clones, Submodules, SupportedNodes
  <2>2. Indexed(c)
    BY <1>1, <2>1 DEF Indexed
  <2>3. clone.head <= c.head
    BY <1>1, <2>1 DEF Clones
  <2> QED BY <1>3, <2>1, <2>2, <2>3
<1> QED BY <1>4, <1>5, <1>6, <1>7, <1>8, <1>9

LEMMA PeopleStep ==
  ASSUME SnapshotInv, seen' = IF Capturing THEN seen \cup {clone'} ELSE seen,
         \/ \E p \in Places : Write(p) \/ Delete(p) \/ Add(p) \/ Flag(p)
         \/ GitCommit \/ MoveSubmodule \/ PlaceNode
  PROVE  SnapshotInv'
<1>1. UNCHANGED <<cap, bundle, plot>> /\ work' = work + 1
  BY DEF Write, Delete, Add, Flag, GitCommit, MoveSubmodule, PlaceNode, Work
<1>2. /\ clone' \in Clones /\ Before(clone, clone') /\ Indexed(clone')
      /\ clone'.head = clone.head => clone'.tree = clone.tree
      /\ \A p \in Places : clone'.file[p] < work + 4
  <2>1. CASE \E p \in Places : Write(p) \/ Delete(p) \/ Add(p) \/ Flag(p)
    BY <2>1, PeopleClone DEF Write, Delete, Add, Flag, Work
  <2>2. CASE GitCommit \/ MoveSubmodule \/ PlaceNode
    BY <2>2, PeopleClone DEF GitCommit, MoveSubmodule, PlaceNode, Work
  <2> QED BY <2>1, <2>2
<1>3. \A p \in Places : clone'.file[p] < work' + 3
  BY <1>1, <1>2 DEF SnapshotInv, SnapshotTypes, Clones
<1>4. /\ plot' = Unset \/ plot' = [p \in Places |-> plot'[p]]
      /\ cap.pc \in Returned \ {"captured"} => plot' = [p \in Places |-> plot'[p]]
  BY <1>1 DEF SnapshotInv, SnapshotTypes
<1> QED BY <1>1, <1>2, <1>3, <1>4, WorkStep

\* Damage to the bundle, and work in the new worktree.
LEMMA DamageStep ==
  ASSUME SnapshotInv, seen' = IF Capturing THEN seen \cup {clone'} ELSE seen,
         DamageBundle \/ \E p \in Places : Touch(p)
  PROVE  SnapshotInv'
<1>1. UNCHANGED <<clone, cap>> /\ work' = work + 1
  BY DEF DamageBundle, Touch
<1>2. /\ clone \in Clones /\ work \in Nat /\ Indexed(clone) /\ Before(clone, clone)
      /\ \A p \in Places : clone.file[p] \in Nat /\ clone.file[p] < work + 3
  BY BeforeItself DEF SnapshotInv, SnapshotTypes, History, Clones
<1>3. \A p \in Places : clone'.file[p] < work' + 3
  BY <1>1, <1>2
<1>4. Indexed(clone')
  BY <1>1, <1>2
<1>5. CASE DamageBundle
  <2>1. UNCHANGED plot
    BY <1>5 DEF DamageBundle
  <2> QED BY <1>1, <1>2, <1>3, <1>4, <2>1, WorkStep DEF SnapshotInv, SnapshotTypes
<1>6. ASSUME NEW p \in Places, Touch(p) PROVE SnapshotInv'
  <2>1. plot' = [plot EXCEPT ![p] = work + 3] /\ plot # Unset /\ cap.pc # "ready"
    BY <1>6 DEF Touch
  <2>2. plot' = [q \in Places |-> plot'[q]]
    BY <2>1 DEF SnapshotInv, SnapshotTypes
  <2> QED BY <1>1, <1>2, <1>3, <1>4, <2>1, <2>2, WorkStep
<1> QED BY <1>5, <1>6

-----------------------------------------------------------------------------
(* What git tells, and what it is told of.                                 *)

LEMMA NamesOfStatus ==
  ASSUME NEW c
  PROVE  ChangedIn(Status(c)) = Changed(c) /\ Status(c).new = New(c)
<1> DEFINE entries == {<<p, c.tree[p]>> : p \in Changed(c)}
<1>1. Status(c).changed = entries /\ Status(c).new = New(c)
  BY DEF Status
<1>2. \A e \in entries : e[1] \in Changed(c)
  OBVIOUS
<1>3. ASSUME NEW p \in Changed(c) PROVE \E e \in entries : e[1] = p
  <2>1. <<p, c.tree[p]>> \in entries /\ <<p, c.tree[p]>>[1] = p
    OBVIOUS
  <2> QED BY <2>1
<1> HIDE DEF entries
<1> QED BY <1>1, <1>2, <1>3 DEF ChangedIn

LEMMA NamesOfPatch ==
  ASSUME NEW c, NEW d, Patch(c) = Patch(d)
  PROVE  /\ Changed(c) = Changed(d)
         /\ \A p \in Changed(c) : c.file[p] = d.file[p] /\ c.tree[p] = d.tree[p]
<1>1. ASSUME NEW x, NEW y, Patch(x) = Patch(y), NEW p \in Changed(x)
      PROVE  p \in Changed(y) /\ x.file[p] = y.file[p] /\ x.tree[p] = y.tree[p]
  <2>1. <<p, x.tree[p], x.file[p]>> \in Patch(y)
    BY <1>1 DEF Patch
  <2>2. PICK q \in Changed(y) : <<p, x.tree[p], x.file[p]>> = <<q, y.tree[q], y.file[q]>>
    BY <2>1 DEF Patch
  <2> QED BY <2>2
<1> QED BY <1>1

\* A path that neither looks changed nor new is as in HEAD.
LEMMA Unchanged ==
  ASSUME NEW c \in Clones, Indexed(c), OrdinaryIndex(c), NEW p \in Places,
         p \notin Changed(c), p \notin New(c)
  PROVE  c.file[p] = c.tree[p]
BY DEF Indexed, OrdinaryIndex, Changed, New

-----------------------------------------------------------------------------
(* The instant.                                                            *)

\* Nothing was committed or flagged: all that was found is of one HEAD.
LEMMA OneHead ==
  ASSUME SnapshotInv, HeadFound, ~Rebased, NEW c \in seen, cap.head <= c.head
  PROVE  c.head = cap.head /\ OrdinaryIndex(c) /\ Indexed(c) /\ c \in Clones
BY DEF SnapshotInv, SnapshotTypes, History, HeadFound, Rebased, Clones

LEMMA OneTree ==
  ASSUME SnapshotInv, NEW c \in seen, NEW d \in seen, c.head = d.head
  PROVE  c.tree = d.tree
BY DEF SnapshotInv, History

\* A clean capture found nothing at one moment: that is the instant.
LEMMA CleanInstant ==
  ASSUME SnapshotInv, HeadFound, ~Rebased, ~IsDirty, NEW w \in seen, Looked(w)
  PROVE  \E c \in seen : Captured(c)
<1>1. PICK c \in seen : StatusFound(c)
  BY DEF Looked
<1>2. Captured(c)
  BY <1>1, OneHead DEF Captured, Fit, StatusFound
<1> QED BY <1>2

\* A dirty one found the same before and after the instant.
LEMMA DirtyInstant ==
  ASSUME SnapshotInv, HeadFound, cap.pc \in Returned, ~Rebased, IsDirty, NEW w \in seen, Between(w)
  PROVE  Captured(w)
<1>1. PICK c1 \in seen, c2 \in seen :
        /\ Before(c1, w) /\ cap.head <= c1.head /\ Status(c1) = cap.status
        /\ Before(c1, c2) /\ Before(c2, w) /\ Patch(c2) = cap.patch
  BY DEF Between, Looked, StatusFound
<1>2. LookedAgain(w) /\ Past(StatusSteps) /\ Past(StatusSteps \cup {"patch2"})
      /\ Past(StatusSteps \cup {"patch2", "gitlinks2"})
      /\ Past(StatusSteps \cup {"patch2", "gitlinks2", "nodes2"})
      /\ Past(StatusSteps \cup {"patch2", "gitlinks2", "nodes2", "files2"})
  BY DEF Between, Past
<1>3. PICK d1 \in seen : Before(w, d1) /\ Status(d1) = cap.status
  BY <1>2 DEF LookedAgain
<1>4. PICK d2 \in seen : Before(w, d2) /\ Patch(d2) = cap.patch /\ Changed(d2) = ChangedIn(cap.status)
  BY <1>2 DEF LookedAgain
<1>5. seen \subseteq Clones
  BY DEF SnapshotInv, SnapshotTypes
<1>6. cap.head <= c2.head /\ cap.head <= w.head /\ cap.head <= d1.head /\ cap.head <= d2.head
  BY <1>1, <1>3, <1>4, <1>5 DEF HeadFound, Before, Clones
<1>7. \A c \in {c1, c2, w, d1, d2} :
        c \in seen /\ c \in Clones /\ c.head = cap.head /\ OrdinaryIndex(c) /\ Indexed(c)
  BY <1>1, <1>3, <1>4, <1>6, OneHead
<1>8. \A c \in {c1, c2, d1, d2} : c.tree = w.tree
  BY <1>7, OneTree
<1> DEFINE X == ChangedIn(cap.status)
<1>9. /\ Changed(c1) = X /\ Changed(d1) = X /\ Changed(d2) = X
      /\ New(c1) = cap.status.new /\ New(d1) = cap.status.new
  BY <1>1, <1>3, <1>4, NamesOfStatus
<1>10. Changed(c2) = X /\ \A p \in X : c2.file[p] = d2.file[p]
  BY <1>1, <1>4, <1>9, NamesOfPatch
<1> HIDE DEF X
<1>11. \A c \in {c1, c2, w, d1, d2} :
         /\ Changed(c) \subseteq Places /\ New(c) \subseteq Places
         /\ \A p \in Places : p \in Changed(c) <=> p \in c.tracked /\ c.file[p] # w.tree[p]
         /\ \A p \in Places : p \in New(c) <=> p \notin c.tracked /\ c.file[p] # Missing
         /\ \A p \in Places : p \notin c.tracked => w.tree[p] = Missing
  BY <1>7, <1>8 DEF Changed, New, OrdinaryIndex, Indexed, Clones
<1>12. /\ c1.tracked \subseteq c2.tracked /\ c2.tracked \subseteq w.tracked
       /\ w.tracked \subseteq d1.tracked /\ w.tracked \subseteq d2.tracked
  BY <1>1, <1>3, <1>4 DEF Before
<1>13. \A p \in Places : /\ c1.file[p] = d1.file[p] => w.file[p] = c1.file[p]
                         /\ c1.file[p] = d2.file[p] => w.file[p] = c1.file[p]
                         /\ c2.file[p] = d2.file[p] => w.file[p] = c2.file[p]
  BY <1>1, <1>3, <1>4, <1>7, SameBetween
\* The files that were captured are those of the instant.
<1>14. \A f \in cap.files : f = <<f[1], w.file[f[1]]>> /\ f[1] \in cap.status.new /\ w.file[f[1]] # Missing
  <2> SUFFICES ASSUME NEW f \in cap.files
               PROVE  f = <<f[1], w.file[f[1]]>> /\ f[1] \in cap.status.new /\ w.file[f[1]] # Missing
    OBVIOUS
  <2>1. Found(f, w) /\ FoundAgain(f, w)
    BY <1>2 DEF Between, Collected, LookedAgain
  <2>2. PICK c \in seen : Before(c, w) /\ c.file[f[1]] = f[2]
    BY <2>1 DEF Found
  <2>3. PICK d \in seen : Before(w, d) /\ d.file[f[1]] = f[2]
    BY <2>1 DEF FoundAgain
  <2>4. f[1] \in Places
    BY <1>9, <1>11, <2>1 DEF Found
  <2>5. w.file[f[1]] = f[2]
    BY <1>5, <2>2, <2>3, <2>4, SameBetween
  <2> QED BY <2>1, <2>5 DEF Found
<1>15. Changed(w) = X
  <2>1. ASSUME NEW p \in X PROVE p \in Changed(w)
    BY <1>9, <1>10, <1>11, <1>12, <1>13, <2>1
  <2>2. ASSUME NEW p \in Changed(w), p \notin X PROVE FALSE
    <3>1. p \in Places /\ p \in w.tracked /\ w.file[p] # w.tree[p] /\ p \in d1.tracked /\ p \in d2.tracked
      BY <1>11, <1>12, <2>2
    <3>2. d2.file[p] = w.tree[p]
      BY <1>9, <1>11, <2>2, <3>1
    <3>3. CASE p \in c2.tracked
      <4>1. c2.file[p] = w.tree[p]
        BY <1>10, <1>11, <2>2, <3>1, <3>3
      <4> QED BY <1>13, <3>1, <3>2, <4>1
    <3>4. CASE p \notin c2.tracked
      <4>1. p \notin c1.tracked /\ w.tree[p] = Missing
        BY <1>11, <1>12, <3>1, <3>4
      <4>2. p \notin New(c1)
        BY <1>9, <1>11, <3>1
      <4>3. c1.file[p] = Missing
        BY <1>11, <3>1, <4>1, <4>2
      <4> QED BY <1>13, <3>1, <3>2, <4>1, <4>3
    <3> QED BY <3>3, <3>4
  <2> QED BY <2>1, <2>2
<1>16. New(w) = cap.status.new
  <2>1. ASSUME NEW p \in cap.status.new PROVE p \in New(w)
    <3>1. PICK f \in cap.files : f[1] = p
      BY <2>1 DEF Between, Collected
    <3>2. w.file[p] # Missing
      BY <1>14, <3>1
    <3>3. p \in Places /\ p \notin w.tracked
      BY <1>9, <1>11, <1>12, <2>1
    <3> QED BY <1>11, <3>2, <3>3
  <2>2. ASSUME NEW p \in New(w), p \notin cap.status.new PROVE FALSE
    <3>1. p \in Places /\ p \notin w.tracked /\ w.file[p] # Missing /\ w.tree[p] = Missing
      BY <1>11, <2>2
    <3>2. p \notin c1.tracked /\ c1.file[p] = Missing
      BY <1>9, <1>11, <1>12, <2>2, <3>1
    <3>3. d1.file[p] = Missing
      <4>1. p \notin X
        BY <1>9, <1>11, <3>2
      <4> QED BY <1>9, <1>11, <2>2, <3>1, <4>1
    <3> QED BY <1>13, <3>1, <3>2, <3>3
  <2> QED BY <2>1, <2>2
<1>17. Fit(w)
  <2>1. Status(w) = Status(c1)
    BY <1>7, <1>8, <1>9, <1>15, <1>16 DEF Status
  <2> QED BY <1>1, <1>7, <2>1 DEF Fit
<1>18. Patch(w) = cap.patch
  <2>1. \A p \in X : w.file[p] = c2.file[p] /\ p \in Places
    BY <1>10, <1>11, <1>13
  <2>2. Patch(w) = Patch(c2)
    BY <1>8, <1>10, <1>15, <2>1 DEF Patch
  <2> QED BY <1>1, <2>2
<1>19. Bytes(w, New(w)) = cap.files
  <2>1. ASSUME NEW f \in cap.files PROVE f \in Bytes(w, New(w))
    BY <1>14, <1>16 DEF Bytes
  <2>2. ASSUME NEW p \in New(w) PROVE <<p, w.file[p]>> \in cap.files
    <3>1. PICK f \in cap.files : f[1] = p
      BY <1>16 DEF Between, Collected
    <3> QED BY <1>14, <3>1
  <2> QED BY <2>1, <2>2 DEF Bytes
<1>20. Bytes(w, Changed(w) \cup New(w)) = cap.seeds
  <2>1. cap.seeds = Bytes(w, X) \cup cap.files
    BY DEF Between, Collected, X
  <2> QED BY <1>15, <1>19, <2>1 DEF Bytes
<1>21. Submodules(w) /\ SupportedNodes(w)
  BY <1>2 DEF LookedAgain
<1> QED BY <1>17, <1>18, <1>19, <1>20, <1>21 DEF Captured

\* The worktree that gave the digest of the capture has the files of the instant.
LEMMA SeededInstant ==
  ASSUME SnapshotInv, HeadFound, cap.pc = "ready", ~Rebased, NEW w \in seen, Captured(w),
         ~IsDirty => Clean
  PROVE  plot = w.file
<1>1. w \in Clones /\ OrdinaryIndex(w) /\ Indexed(w) /\ w.head = cap.head
  BY OneHead DEF Captured, Fit, HeadFound, SnapshotInv, SnapshotTypes, History
<1>2. plot = [p \in Places |-> plot[p]]
  BY DEF SnapshotInv, SnapshotTypes, Returned
<1>3. \A p \in Places : TreeOf(cap.head)[p] = w.tree[p]
  <2> DEFINE at == CHOOSE c \in seen : c.head = cap.head
  <2>1. at \in seen /\ at.head = cap.head
    BY <1>1
  <2>2. at.tree = w.tree
    BY <1>1, <2>1, OneTree
  <2>3. TreeOf(cap.head) = [p \in Places |-> at.tree[p]]
    BY DEF TreeOf
  <2> HIDE DEF at
  <2> QED BY <2>2, <2>3
<1> DEFINE told == IF IsDirty THEN DirtyDigest ELSE {}
<1>4. told = Bytes(w, Changed(w) \cup New(w))
  <2>1. CASE IsDirty
    <3>1. {<<e[1], e[3]>> : e \in cap.patch} = Bytes(w, Changed(w))
      <4> DEFINE shown == {<<e[1], e[3]>> : e \in cap.patch}
      <4>1. cap.patch = Patch(w)
        BY <2>1 DEF Captured
      <4>2. ASSUME NEW e \in cap.patch PROVE <<e[1], e[3]>> \in Bytes(w, Changed(w))
        <5>1. PICK p \in Changed(w) : e = <<p, w.tree[p], w.file[p]>>
          BY <4>1 DEF Patch
        <5> QED BY <5>1 DEF Bytes
      <4>3. ASSUME NEW p \in Changed(w) PROVE <<p, w.file[p]>> \in shown
        <5>1. <<p, w.tree[p], w.file[p]>> \in cap.patch
          BY <4>1 DEF Patch
        <5> QED BY <5>1
      <4> QED BY <4>2, <4>3 DEF Bytes
    <3> QED BY <2>1, <3>1 DEF Captured, DirtyDigest, Bytes
  <2>2. CASE ~IsDirty
    <3>1. Changed(w) = {} /\ New(w) = {}
      BY <2>2, NamesOfStatus DEF Clean, Captured, Fit, ChangedIn
    <3> QED BY <2>2, <3>1 DEF Bytes
  <2> QED BY <2>1, <2>2
<1>5. {<<p, plot[p]>> : p \in {q \in Places : plot[q] # w.tree[q]}} = told
  <2>1. Recaptured
    BY DEF SnapshotInv
  <2>2. {q \in Places : plot[q] # TreeOf(cap.head)[q]} = {q \in Places : plot[q] # w.tree[q]}
    BY <1>3
  <2> QED BY <2>1, <2>2 DEF Recaptured
<1> HIDE DEF told
<1>6. ASSUME NEW p \in Places PROVE plot[p] = w.file[p]
  <2>1. CASE plot[p] # w.tree[p]
    <3>1. <<p, plot[p]>> \in Bytes(w, Changed(w) \cup New(w))
      BY <1>4, <1>5, <2>1
    <3>2. PICK q \in Changed(w) \cup New(w) : <<p, plot[p]>> = <<q, w.file[q]>>
      BY <3>1 DEF Bytes
    <3> QED BY <3>2
  <2>2. CASE plot[p] = w.tree[p]
    <3>1. ASSUME p \in Changed(w) \cup New(w) PROVE FALSE
      <4>1. <<p, w.file[p]>> \in told
        BY <1>4, <3>1 DEF Bytes
      <4>2. PICK q \in Places : plot[q] # w.tree[q] /\ <<p, w.file[p]>> = <<q, plot[q]>>
        BY <1>5, <4>1
      <4> QED BY <2>2, <4>2
    <3> QED BY <1>1, <2>2, <3>1, Unchanged
  <2> QED BY <2>1, <2>2
<1> QED BY <1>1, <1>2, <1>6 DEF Clones

-----------------------------------------------------------------------------
(* The theorem.                                                            *)

LEMMA SnapshotInvInit == Tidy /\ SnapshotInit => SnapshotInv
<1> SUFFICES ASSUME Tidy, SnapshotInit PROVE SnapshotInv
  OBVIOUS
<1>1. PICK dirty \in SUBSET Inside :
        clone = [head |-> 1, tree |-> [p \in Places |-> Initial(p)],
                 file |-> [p \in Places |-> IF p \in dirty THEN 2 ELSE Initial(p)],
                 tracked |-> Tracked, flagged |-> {},
                 gitlinks |-> "recorded", odd |-> FALSE]
  BY DEF SnapshotInit
<1>2. seen = {clone} /\ work = 0 /\ plot = Unset
  BY DEF SnapshotInit
<1>3. cap.pc = "flags" /\ {"pc", "mode"} \subseteq DOMAIN cap
  BY DEF SnapshotInit
<1>4. clone \in Clones
  <2>1. \A p \in Places : Initial(p) \in Nat
    BY DEF Initial, Missing
  <2> QED BY <1>1, <2>1 DEF Clones, Tidy
<1>5. Indexed(clone) /\ \A p \in Places : clone.file[p] < 3
  BY <1>1 DEF Indexed, Initial, Missing
<1>6. SnapshotTypes
  BY <1>2, <1>3, <1>4 DEF SnapshotTypes, Pc, LookPc, Returned
<1>7. History
  BY <1>2, <1>4, <1>5, BeforeItself DEF History
<1>8. FirstLook /\ SecondLook /\ cap.pc # "ready"
  BY <1>3 DEF FirstLook, SecondLook, AgainPc, Returned, LookPc
<1> QED BY <1>6, <1>7, <1>8 DEF SnapshotInv

LEMMA SnapshotInvStep == SnapshotInv /\ [SnapshotNext]_snapshotVars => SnapshotInv'
<1> SUFFICES ASSUME SnapshotInv, [SnapshotNext]_snapshotVars PROVE SnapshotInv'
  OBVIOUS
<1>1. CASE UNCHANGED snapshotVars
  <2>1. UNCHANGED clone /\ UNCHANGED cap /\ UNCHANGED plot /\ UNCHANGED seen /\ UNCHANGED work
    BY <1>1 DEF snapshotVars
  <2>2. SnapshotTypes' /\ History'
    BY <2>1 DEF SnapshotInv, SnapshotTypes, History, Capturing, Indexed
  <2>3. FirstLook'
    BY <2>1 DEF SnapshotInv, FirstLook, HeadFound, Capturing, StatusFound, PatchFound, Found, IsDirty
  <2>4. cap'.pc = "ready" => Recaptured'
    BY <2>1, StillRecaptured DEF SnapshotInv
  <2>5. SecondLook'
    <3> SUFFICES ASSUME cap.pc \in AgainPc \cup Returned PROVE SecondLook'
      BY <2>1 DEF SecondLook
    <3>1. PICK w \in seen : Before(w, w) /\ Between(w)
      BY DEF SnapshotInv, SecondLook
    <3>2. Looked(w)' /\ IF IsDirty' THEN Collected(w)' ELSE Clean'
      BY <2>1, <3>1 DEF Between, Looked, StatusFound, Collected, Found, IsDirty, Clean
    <3>3. LookedAgain(w)'
      BY <2>1, <3>1 DEF Between, LookedAgain, Past, FoundAgain, IsDirty, Submodules, SupportedNodes
    <3>4. HeadFound' /\ "status" \in DOMAIN cap'
      BY <2>1 DEF SnapshotInv, SecondLook, HeadFound, Capturing
    <3> QED BY <2>1, <3>1, <3>2, <3>3, <3>4 DEF SecondLook, Between
  <2> QED BY <2>2, <2>3, <2>4, <2>5 DEF SnapshotInv
<1>2. CASE SnapshotNext
  <2>1. seen' = IF Capturing THEN seen \cup {clone'} ELSE seen
    BY <1>2 DEF SnapshotNext, SnapshotInv, SnapshotTypes, Capturing, Pc, LookPc, AgainPc, Returned
  <2>2. UNCHANGED clone => UNCHANGED seen
    BY <2>1 DEF SnapshotInv, History
  <2>3. CASE Observe
    <3>1. UNCHANGED seen
      BY <2>2, <2>3 DEF Observe, ReadIndexFlags, ReadHead, ReadStatus, TrackedPatch, TrackedPaths,
         CaptureSubmodules, RejectNodes, CaptureUntracked, CaptureSeedPaths, RecheckIndexFlags,
         RecheckHead, RecheckStatus, RecheckPatch, RecheckSubmodules, RecheckNodes,
         RecheckUntracked, Look
    <3> QED BY <2>3, <3>1, FlagsStep, HeadStep, StatusStep, PatchStep, PathsStep, NodesStep,
           UntrackedStep, SeedsStep, FlagsAgainStep, StatusAgainStep, PatchAgainStep,
           SubmodulesAgainStep, NodesAgainStep, UntrackedAgainStep DEF Observe
  <2>4. CASE \/ RenameBundle \/ ReopenBundle
             \/ PrepareCheckout \/ ApplyPatch \/ RestoreUntracked \/ VerifyPrepared
    <3>1. UNCHANGED seen
      BY <2>2, <2>4 DEF RenameBundle, ReopenBundle, PrepareCheckout, ApplyPatch, RestoreUntracked, VerifyPrepared
    <3> QED BY <2>4, <3>1, RenameBundleStep, ReopenBundleStep, PrepareStep, ApplyPatchStep,
           RestoreUntrackedStep, VerifyPreparedStep
  <2>5. CASE \/ \E p \in Places : Write(p) \/ Delete(p) \/ Add(p) \/ Flag(p)
             \/ GitCommit \/ MoveSubmodule \/ PlaceNode
    BY <2>1, <2>5, PeopleStep
  <2>6. CASE DamageBundle \/ \E p \in Places : Touch(p)
    BY <2>1, <2>6, DamageStep
  <2> QED BY <1>2, <2>3, <2>4, <2>5, <2>6 DEF SnapshotNext
<1> QED BY <1>1, <1>2

LEMMA SnapshotInvInstant == SnapshotInv => SnapshotIsInstant
<1> SUFFICES ASSUME SnapshotInv, cap.pc \in Returned, ~Rebased
             PROVE  \E c \in seen : Captured(c) /\ (cap.pc = "ready" => plot = c.file)
  BY DEF SnapshotIsInstant
<1>1. PICK w \in seen : Between(w)
  BY DEF SnapshotInv, SecondLook
<1>2. HeadFound
  BY DEF SnapshotInv, SecondLook
<1>3. PICK c \in seen : Captured(c)
  BY <1>1, <1>2, CleanInstant, DirtyInstant DEF Between
<1>4. ~IsDirty => Clean
  BY <1>1 DEF Between
<1> QED BY <1>2, <1>3, <1>4, SeededInstant

\* What a capture returns, and the worktree that is seeded from it, is what the
\* clone was like at one moment, however many paths there are and whatever people
\* do meanwhile, as long as HEAD and the flags of the index stay
\* (sourcesnapshot.Capture, workspacebackend seeding).
THEOREM OneInstant ==
  ASSUME Tidy
  PROVE  SnapshotSpec => []SnapshotIsInstant
<1>1. SnapshotInit => SnapshotInv
  BY SnapshotInvInit
<1>2. SnapshotInv /\ [SnapshotNext]_snapshotVars => SnapshotInv'
  BY SnapshotInvStep
<1>3. SnapshotInv => SnapshotIsInstant
  BY SnapshotInvInstant
<1> QED BY <1>1, <1>2, <1>3, PTL DEF SnapshotSpec

-----------------------------------------------------------------------------
(* Worktrees: types.                                                       *)

CommitRecords == [parents : Seq(Nat), tree : FileTrees]
Stages == {"vacant", "branch", "worktree", "identity", "clean", "prepared", "locate",
           "head", "onbranch", "changes", "add", "staged", "commit", "reread", "parent",
           "committed", "settled", "lock", "inspect", "status", "paths", "remove"}
Orders == [kind : {"prepare", "commit", "agent", "cleanup"}, pc : Stages, head : Nat,
           paths : SUBSET TreePaths, round : {1, 2}]

WorktreeTypes ==
    /\ commits \in Seq(CommitRecords) /\ Len(commits) >= 1
    /\ branch \in {Gone} \cup (1 .. Len(commits))
    /\ checkout \in {Gone} \cup WorkingTrees
    /\ owner \in {"experiment", "try"}
    /\ act \in [Commands -> {Idle} \cup Orders]
    /\ reports \subseteq [head : Nat, paths : SUBSET TreePaths]
    /\ hands \in Nat

-----------------------------------------------------------------------------
(* The commits that commands know.                                         *)

\* A commit right on the base.
Follows(h) == commits[h].parents = <<Base>>

\* The base itself is none.
Rooted == commits[Base].parents = <<>>

\* What the commands and the reports name, and the branch.
Orderly(c) == act[c] # Idle
Heads ==
    {act[c].head : c \in {d \in Commands : Orderly(d)}} \cup {r.head : r \in reports}
        \cup (IF branch = Gone THEN {} ELSE {branch})

\* They are commits; at most one of them follows the base, none as long as the
\* branch has not moved.
HeadsKnown ==
    /\ \A h \in Heads : h \in 1 .. Len(commits)
    /\ branch \in {Gone, Base} => \A h \in Heads : h = Base
    /\ \A h, k \in Heads : Follows(h) /\ Follows(k) => h = k

-----------------------------------------------------------------------------
(* The commands.                                                           *)

Removing == {"lock", "inspect", "status", "paths", "remove"}
Working == {"head", "onbranch", "changes", "add", "staged", "commit", "reread", "parent",
            "committed", "settled"}

Exactly(h, ps) == ps = CommittedPaths(h) /\ ps \subseteq Globs \ Metadata

\* What holds of a command that is given.
Fits(x) ==
    /\ x.pc \in Removing <=> owner = "try"
    /\ x.pc \in Working => Present
    /\ x.pc = "worktree" => branch # Gone
    /\ x.pc \in {"committed", "settled"} => Follows(x.head)
    /\ x.pc = "settled" => Exactly(x.head, x.paths)

WorktreeInv ==
    /\ WorktreeTypes
    /\ Rooted
    /\ Present => branch # Gone
    /\ HeadsKnown
    /\ \A c \in Commands : Orderly(c) => Fits(act[c])
    /\ \A r \in reports : Follows(r.head) /\ Exactly(r.head, r.paths)

LEMMA InvIsExact == WorktreeInv => ReportsExact
<1> SUFFICES ASSUME WorktreeInv PROVE ReportsExact
  OBVIOUS
<1>1. ASSUME NEW r \in reports
      PROVE  /\ commits[r.head].parents = <<Base>>
             /\ r.paths = Differ(Tree(Base), Tree(r.head))
             /\ r.paths \subseteq Globs \ Metadata
  BY <1>1 DEF WorktreeInv, Follows, Exactly, CommittedPaths
<1>2. ASSUME NEW r \in reports, NEW s \in reports
      PROVE  r = s
  <2>1. r.head \in Heads /\ s.head \in Heads
    BY DEF Heads
  <2>2. r.head = s.head
    BY <2>1 DEF WorktreeInv, HeadsKnown
  <2>3. r.paths = s.paths
    BY <2>2 DEF WorktreeInv, Exactly
  <2>4. r \in [head : Nat, paths : SUBSET TreePaths] /\ s \in [head : Nat, paths : SUBSET TreePaths]
    BY DEF WorktreeInv, WorktreeTypes
  <2> QED BY <2>2, <2>3, <2>4
<1> QED BY <1>1, <1>2 DEF ReportsExact

LEMMA WorktreesStart == ASSUME Distinguished, WorktreesInit PROVE WorktreeInv
<1>1. WorktreeTypes
  BY DEF WorktreesInit, WorktreeTypes, CommitRecords, Distinguished, WorkingTrees, FileTrees,
         StartTree, Base
<1>2. Rooted
  BY DEF WorktreesInit, Rooted, Base
<1>3. Present => branch # Gone
  BY DEF WorktreesInit, Present, Distinguished, Base
<1>4. Heads \subseteq {Base}
  BY DEF WorktreesInit, Heads, Orderly
<1>5. HeadsKnown
  BY <1>1, <1>4 DEF HeadsKnown, WorktreeTypes, Base
<1>6. (\A c \in Commands : act[c] = Idle) /\ reports = {}
  BY DEF WorktreesInit
<1> QED BY <1>1, <1>2, <1>3, <1>5, <1>6 DEF WorktreeInv, Orderly

-----------------------------------------------------------------------------
(* A command goes on.                                                      *)

\* A worktree that is there stays there, and the commits and the branch as
\* they are.
LEMMA WorktreeChanges ==
  ASSUME WorktreeInv, checkout' \in {Gone} \cup WorkingTrees,
         checkout' = Gone => checkout = Gone \/ owner = "try",
         checkout' # Gone => branch' # Gone,
         UNCHANGED <<commits, owner, reports>>, hands' \in Nat,
         branch' = branch \/ (branch = Gone /\ branch' = Base),
         NEW x \in {Idle} \cup Orders,
         act' = act \/ \E c \in Commands : act' = [act EXCEPT ![c] = x],
         act' # act => (x # Idle => Fits(x)' /\ x.head \in Heads \cup {Base})
  PROVE  WorktreeInv'
<1>1. WorktreeTypes'
  BY DEF WorktreeInv, WorktreeTypes, Base
<1>2. ASSUME NEW h \in Heads' PROVE h \in Heads \cup {Base}
  <2>1. CASE h \in {act'[d].head : d \in {e \in Commands : act'[e] # Idle}}
    <3>1. PICK d \in Commands : act'[d] # Idle /\ h = act'[d].head
      BY <2>1
    <3>2. CASE act'[d] # act[d]
      <4>1. act'[d] = x /\ act' # act
        BY <3>2 DEF WorktreeInv, WorktreeTypes
      <4> QED BY <3>1, <4>1
    <3>3. CASE act'[d] = act[d]
      BY <3>1, <3>3 DEF Heads, Orderly
    <3> QED BY <3>2, <3>3
  <2>2. CASE h \in {r.head : r \in reports'}
    BY <2>2 DEF Heads
  <2>3. CASE h \in (IF branch' = Gone THEN {} ELSE {branch'})
    BY <2>3 DEF Heads
  <2> QED BY <1>2, <2>1, <2>2, <2>3 DEF Heads, Orderly
<1>3. HeadsKnown'
  <2>1. \A h \in Heads' : h \in 1 .. Len(commits)
    BY <1>2 DEF HeadsKnown, WorktreeInv, WorktreeTypes, Base
  <2>2. branch' \in {Gone, Base} => \A h \in Heads' : h = Base
    BY <1>2 DEF HeadsKnown, WorktreeInv
  <2>3. ~Follows(Base)
    BY DEF WorktreeInv, Follows, Rooted
  <2>4. \A h, k \in Heads' : Follows(h) /\ Follows(k) => h = k
    BY <1>2, <2>3 DEF HeadsKnown, WorktreeInv
  <2> QED BY <2>1, <2>2, <2>4 DEF HeadsKnown, Follows
<1>4. ASSUME NEW d \in Commands, act'[d] # Idle PROVE Fits(act[d])'
  <2>1. CASE act'[d] # act[d]
    <3>1. act'[d] = x /\ act' # act
      BY <2>1 DEF WorktreeInv, WorktreeTypes
    <3>2. Fits(x)'
      BY <1>4, <3>1
    <3> QED BY <3>1, <3>2 DEF Fits
  <2>2. CASE act'[d] = act[d]
    <3>1. Fits(act[d]) /\ act[d] \in Orders
      BY <1>4, <2>2 DEF WorktreeInv, WorktreeTypes, Orderly
    <3>2. act[d].pc \in Working => checkout' # Gone
      BY <3>1 DEF Fits, Present, Working, Removing, WorktreeInv
    <3>3. act[d].pc = "worktree" => branch' # Gone
      BY <3>1 DEF Fits
    <3> QED BY <2>2, <3>1, <3>2, <3>3 DEF Fits, Follows, Exactly, CommittedPaths, Tree, Present
  <2> QED BY <2>1, <2>2
<1> QED BY <1>1, <1>3, <1>4
        DEF WorktreeInv, Rooted, Present, Orderly, Follows, Exactly, CommittedPaths, Tree

LEMMA CommandGoesOn ==
  ASSUME WorktreeInv, NEW c \in Commands, NEW x \in {Idle} \cup Orders,
         act' = [act EXCEPT ![c] = x],
         UNCHANGED <<commits, branch, checkout, owner, reports>>, hands' \in Nat,
         x # Idle => Fits(x) /\ x.head \in Heads \cup {Base}
  PROVE  WorktreeInv'
<1>1. x # Idle => Fits(x)'
  BY DEF Fits, Follows, Exactly, CommittedPaths, Tree, Present
<1>2. checkout \in {Gone} \cup WorkingTrees /\ (checkout # Gone => branch # Gone)
  BY DEF WorktreeInv, WorktreeTypes, Present
<1> QED BY <1>1, <1>2, WorktreeChanges

LEMMA AtWork ==
  ASSUME WorktreeInv, NEW c \in Commands, NEW pc \in Stages, AtStep(c, pc)
  PROVE  act[c] \in Orders /\ act[c].pc = pc /\ Orderly(c) /\ Fits(act[c]) /\ act[c].head \in Heads
<1>1. act[c] \in {Idle} \cup Orders /\ act[c].pc = pc
  BY DEF WorktreeInv, WorktreeTypes, AtStep
<1>2. act[c] # Idle
  BY <1>1 DEF Idle, Stages
<1> QED BY <1>1, <1>2 DEF WorktreeInv, Orderly, Heads

LEMMA CommandEnds ==
  ASSUME WorktreeInv, NEW c \in Commands, EndCommand(c),
         UNCHANGED <<commits, branch, checkout, owner, reports>>, hands' \in Nat
  PROVE  WorktreeInv'
BY CommandGoesOn DEF EndCommand

LEMMA CommandMoves ==
  ASSUME WorktreeInv, NEW c \in Commands, NEW pc \in Stages, AtStep(c, pc),
         NEW to \in Stages, Move(c, to), Local,
         (to \in Removing) = (pc \in Removing),
         to \in Working => Present,
         to = "worktree" => branch # Gone,
         to \in {"committed", "settled"} => Follows(act[c].head),
         to = "settled" => Exactly(act[c].head, act[c].paths)
  PROVE  WorktreeInv'
<1> DEFINE x == [act[c] EXCEPT !.pc = to]
<1>1. act[c] \in Orders /\ act[c].pc = pc /\ Fits(act[c]) /\ act[c].head \in Heads
  BY AtWork
<1>2. x \in Orders /\ x.pc = to /\ x.head = act[c].head /\ x.paths = act[c].paths
  BY <1>1 DEF Orders
<1>3. Fits(x)
  BY <1>1, <1>2 DEF Fits
<1>4. act' = [act EXCEPT ![c] = x]
  BY DEF Move
<1>5. UNCHANGED <<commits, branch, checkout, owner, reports>> /\ hands' \in Nat
  BY DEF Local, WorktreeInv, WorktreeTypes
<1> HIDE DEF x
<1> QED BY <1>1, <1>2, <1>3, <1>4, <1>5, CommandGoesOn

LEMMA CommandMayMove ==
  ASSUME WorktreeInv, NEW c \in Commands, NEW pc \in Stages, AtStep(c, pc),
         NEW to \in Stages, Local,
         (to \in Removing) = (pc \in Removing),
         \/ EndCommand(c)
         \/ /\ Move(c, to)
            /\ to \in Working => Present
            /\ to = "worktree" => branch # Gone
            /\ to \in {"committed", "settled"} => Follows(act[c].head)
            /\ to = "settled" => Exactly(act[c].head, act[c].paths)
  PROVE  WorktreeInv'
BY CommandMoves, CommandEnds DEF Local, WorktreeInv, WorktreeTypes

-----------------------------------------------------------------------------
(* The steps of a command that write nothing.                              *)

LEMMA PrepareLooks ==
  ASSUME WorktreeInv, NEW c \in Commands,
         \/ VacantPlace(c) \/ RequireWorkspaceIdentity(c) \/ RequireClean(c) \/ RunAgent(c)
         \/ Locate(c)
  PROVE  WorktreeInv'
<1> USE DEF Stages, Removing, Working
<1>1. CASE VacantPlace(c)
  <2>1. AtStep(c, "vacant") /\ Local /\ (EndCommand(c) \/ Move(c, "branch"))
    BY <1>1 DEF VacantPlace, Go
  <2> QED BY <2>1, CommandMayMove
<1>2. CASE RequireWorkspaceIdentity(c)
  <2>1. AtStep(c, "identity") /\ Local /\ (EndCommand(c) \/ Move(c, "clean"))
    BY <1>2 DEF RequireWorkspaceIdentity, Go
  <2> QED BY <2>1, CommandMayMove
<1>3. CASE RequireClean(c)
  <2>1. AtStep(c, "clean") /\ Local /\ (EndCommand(c) \/ Move(c, "prepared"))
    BY <1>3 DEF RequireClean, Go
  <2> QED BY <2>1, CommandMayMove
<1>4. CASE RunAgent(c)
  <2>1. AtStep(c, "prepared") /\ Local /\ (EndCommand(c) \/ Move(c, "locate"))
    BY <1>4 DEF RunAgent, Go
  <2> QED BY <2>1, CommandMayMove
<1>5. CASE Locate(c)
  <2>1. AtStep(c, "locate") /\ Local /\ (EndCommand(c) \/ (Present /\ Move(c, "head")))
    BY <1>5 DEF Locate, Go
  <2> QED BY <2>1, CommandMayMove
<1> QED BY <1>1, <1>2, <1>3, <1>4, <1>5

LEMMA TipIsHead == ASSUME WorktreeInv, Present PROVE Tip \in Heads \cup {Base}
BY DEF WorktreeInv, Tip, Heads

LEMMA CommitLooks ==
  ASSUME WorktreeInv, NEW c \in Commands,
         \/ RequireBranch(c) \/ VerifyStaged(c) \/ VerifyParent(c)
  PROVE  WorktreeInv'
<1> USE DEF Stages, Removing
<1>1. CASE RequireBranch(c)
  <2> DEFINE to == IF act[c].head # Base THEN "parent" ELSE "changes"
  <2>1. AtStep(c, "onbranch") /\ Local /\ to \in {"parent", "changes"}
    BY <1>1 DEF RequireBranch
  <2>2. EndCommand(c) \/ Move(c, to)
    BY <1>1 DEF RequireBranch, Go
  <2> HIDE DEF to
  <2>3. Present
    BY <2>1, AtWork DEF Fits, Working
  <2> QED BY <2>1, <2>2, <2>3, CommandMayMove
<1>2. CASE VerifyStaged(c)
  <2>1. AtStep(c, "staged") /\ Local /\ (EndCommand(c) \/ Move(c, "commit"))
    BY <1>2 DEF VerifyStaged, Go
  <2>2. Present
    BY <2>1, AtWork DEF Fits, Working
  <2> QED BY <2>1, <2>2, CommandMayMove
<1>3. CASE VerifyParent(c)
  <2>1. AtStep(c, "parent") /\ Local
        /\ (EndCommand(c) \/ (Follows(act[c].head) /\ Move(c, "committed")))
    BY <1>3 DEF VerifyParent, Go, RequireSingleParent, Follows
  <2>2. Present
    BY <2>1, AtWork DEF Fits, Working
  <2> QED BY <2>1, <2>2, CommandMayMove
<1> QED BY <1>1, <1>2, <1>3

LEMMA CommitReads ==
  ASSUME WorktreeInv, NEW c \in Commands,
         ReadTip(c) \/ ListChanges(c) \/ RereadHead(c) \/ VerifyPaths(c)
  PROVE  WorktreeInv'
<1>0. \A pc \in Stages : AtStep(c, pc) =>
        /\ act[c] \in Orders /\ act[c].pc = pc /\ Fits(act[c]) /\ act[c].head \in Heads
  BY AtWork
<1>1. Local
  BY DEF ReadTip, ListChanges, RereadHead, VerifyPaths
<1>2. UNCHANGED <<commits, branch, checkout, owner, reports>> /\ hands' \in Nat
  BY <1>1 DEF Local, WorktreeInv, WorktreeTypes
<1>3. SUFFICES ASSUME ~EndCommand(c) PROVE WorktreeInv'
  BY <1>2, CommandEnds
<1>4. ASSUME NEW x \in Orders, act' = [act EXCEPT ![c] = x], Fits(x), x.head \in Heads \cup {Base}
      PROVE  WorktreeInv'
  BY <1>2, <1>4, CommandGoesOn
<1>5. ASSUME Present PROVE Tip \in Heads \cup {Base} /\ Tip \in Nat
  BY <1>5, TipIsHead DEF WorktreeInv, HeadsKnown, WorktreeTypes, Base
<1>6. CASE ReadTip(c)
  <2> DEFINE x == [act[c] EXCEPT !.head = Tip, !.pc = "onbranch"]
  <2>1. Present /\ act' = [act EXCEPT ![c] = x]
    BY <1>3, <1>6 DEF ReadTip, With
  <2>2. act[c] \in Orders /\ Fits(act[c]) /\ act[c].pc = "head"
    BY <1>0, <1>6 DEF ReadTip, Stages
  <2>3. x \in Orders /\ x.pc = "onbranch" /\ x.head = Tip
    BY <1>5, <2>1, <2>2 DEF Orders, Stages
  <2>4. Fits(x)
    BY <2>1, <2>2, <2>3 DEF Fits, Removing, Working
  <2> HIDE DEF x
  <2> QED BY <1>4, <1>5, <2>1, <2>3, <2>4
<1>7. CASE ListChanges(c)
  <2> DEFINE x == [act[c] EXCEPT !.paths = ChangedPaths, !.pc = "add"]
  <2>1. act' = [act EXCEPT ![c] = x]
    BY <1>3, <1>7 DEF ListChanges, With
  <2>2. act[c] \in Orders /\ Fits(act[c]) /\ act[c].pc = "changes" /\ act[c].head \in Heads
    BY <1>0, <1>7 DEF ListChanges, Stages
  <2>3. x \in Orders /\ x.pc = "add" /\ x.head = act[c].head
    BY <2>2 DEF Orders, Stages, ChangedPaths, Differ
  <2>4. Fits(x)
    BY <2>2, <2>3 DEF Fits, Removing, Working
  <2> HIDE DEF x
  <2> QED BY <1>4, <2>1, <2>2, <2>3, <2>4
<1>8. CASE RereadHead(c)
  <2> DEFINE x == [act[c] EXCEPT !.head = Tip, !.pc = "parent"]
  <2>1. act' = [act EXCEPT ![c] = x]
    BY <1>8 DEF RereadHead, With
  <2>2. act[c] \in Orders /\ Fits(act[c]) /\ act[c].pc = "reread"
    BY <1>0, <1>8 DEF RereadHead, Stages
  <2>3. Present
    BY <2>2 DEF Fits, Working
  <2>4. x \in Orders /\ x.pc = "parent" /\ x.head = Tip
    BY <1>5, <2>2, <2>3 DEF Orders, Stages
  <2>5. Fits(x)
    BY <2>2, <2>3, <2>4 DEF Fits, Removing, Working
  <2> HIDE DEF x
  <2> QED BY <1>4, <1>5, <2>1, <2>3, <2>4, <2>5
<1>9. CASE VerifyPaths(c)
  <2> DEFINE ps == CommittedPaths(act[c].head)
  <2> DEFINE x == [act[c] EXCEPT !.paths = ps, !.pc = "settled"]
  <2>1. act' = [act EXCEPT ![c] = x] /\ Permitted(ps)
    BY <1>3, <1>9 DEF VerifyPaths, With
  <2>2. act[c] \in Orders /\ Fits(act[c]) /\ act[c].pc = "committed" /\ act[c].head \in Heads
    BY <1>0, <1>9 DEF VerifyPaths, Stages
  <2>3. ps \subseteq TreePaths /\ ps \subseteq Globs \ Metadata
    BY <2>1 DEF CommittedPaths, Differ, Permitted, ForbiddenPath, AllowedPath
  <2>4. x \in Orders /\ x.pc = "settled" /\ x.head = act[c].head /\ x.paths = ps
    BY <2>2, <2>3 DEF Orders, Stages
  <2>5. Fits(x)
    BY <2>2, <2>3, <2>4 DEF Fits, Removing, Working, Exactly
  <2> HIDE DEF x
  <2> QED BY <1>4, <2>1, <2>2, <2>4, <2>5
<1> QED BY <1>6, <1>7, <1>8, <1>9

LEMMA CleanupLooks ==
  ASSUME WorktreeInv, NEW c \in Commands,
         LockWorkspace(c) \/ Inspect(c) \/ InspectStatus(c) \/ InspectPaths(c)
  PROVE  WorktreeInv'
<1> USE DEF Stages, Removing, Working
<1>1. CASE LockWorkspace(c)
  <2>1. AtStep(c, "lock") /\ Local /\ (EndCommand(c) \/ Move(c, "inspect"))
    BY <1>1 DEF LockWorkspace, Go
  <2> QED BY <2>1, CommandMayMove
<1>2. CASE Inspect(c)
  <2>1. AtStep(c, "inspect") /\ Local /\ (EndCommand(c) \/ Move(c, "status"))
    BY <1>2 DEF Inspect, Go
  <2> QED BY <2>1, CommandMayMove
<1>3. CASE InspectStatus(c)
  <2>1. AtStep(c, "status") /\ Local /\ (EndCommand(c) \/ Move(c, "paths"))
    BY <1>3 DEF InspectStatus, Go
  <2> QED BY <2>1, CommandMayMove
<1>4. CASE InspectPaths(c)
  <2>1. UNCHANGED <<commits, branch, checkout, owner, reports>> /\ hands' \in Nat
    BY <1>4 DEF InspectPaths, Local, WorktreeInv, WorktreeTypes
  <2>2. CASE EndCommand(c)
    BY <2>1, <2>2, CommandEnds
  <2>3. CASE ~EndCommand(c)
    <3> DEFINE to == IF act[c].round = 1 THEN "inspect" ELSE "remove"
    <3> DEFINE x == [act[c] EXCEPT !.round = 2, !.pc = to]
    <3>1. act' = [act EXCEPT ![c] = x]
      BY <1>4, <2>3 DEF InspectPaths, With
    <3>2. act[c] \in Orders /\ Fits(act[c]) /\ act[c].pc = "paths" /\ act[c].head \in Heads
      BY <1>4, AtWork DEF InspectPaths, Stages
    <3>3. to \in {"inspect", "remove"}
      OBVIOUS
    <3> HIDE DEF to
    <3>4. x \in Orders /\ x.pc = to /\ x.head = act[c].head
      BY <3>2, <3>3 DEF Orders, Stages
    <3>5. Fits(x)
      BY <3>2, <3>3, <3>4 DEF Fits, Removing, Working
    <3> HIDE DEF x
    <3> QED BY <2>1, <3>1, <3>2, <3>4, <3>5, CommandGoesOn
  <2> QED BY <2>2, <2>3
<1> QED BY <1>1, <1>2, <1>3, <1>4

LEMMA CommandsBegin ==
  ASSUME WorktreeInv, NEW c \in Commands, BeginCommand(c)
  PROVE  WorktreeInv'
<1>1. UNCHANGED <<commits, branch, checkout, owner, reports>> /\ hands' \in Nat
  BY DEF BeginCommand, WorktreeInv, WorktreeTypes
<1>2. CASE EndCommand(c)
  BY <1>1, <1>2, CommandEnds
<1>3. CASE ~EndCommand(c)
  <2>1. PICK k \in Kinds :
          With(c, First[k], [kind |-> k, pc |-> "", head |-> Base, paths |-> {}, round |-> 1])
    BY <1>3 DEF BeginCommand
  <2> DEFINE blank == [kind |-> k, pc |-> "", head |-> Base, paths |-> {}, round |-> 1]
  <2> DEFINE x == [blank EXCEPT !.pc = First[k]]
  <2>2. act' = [act EXCEPT ![c] = x]
    BY <2>1 DEF With
  <2>3. k \in {"prepare", "commit", "agent", "cleanup"} /\ (k = "cleanup" <=> owner = "try")
    BY DEF Kinds, WorktreeInv, WorktreeTypes
  <2>4. First[k] \in {"vacant", "locate", "lock"} /\ (First[k] = "lock" <=> k = "cleanup")
    BY <2>3 DEF First
  <2>5. x \in Orders /\ x.pc = First[k] /\ x.head = Base
    BY <2>3, <2>4 DEF Orders, Stages, Base
  <2>6. Fits(x)
    BY <2>3, <2>4, <2>5 DEF Fits, Removing, Working
  <2> HIDE DEF x
  <2> QED BY <1>1, <2>2, <2>5, <2>6, CommandGoesOn
<1> QED BY <1>2, <1>3

-----------------------------------------------------------------------------
(* A commit.                                                               *)

LEMMA CommitAdded ==
  ASSUME Distinguished, WorktreeInv, Present,
         Recorded(<<Tip>>) \/ Recorded(<<Tip, Base>>),
         UNCHANGED <<checkout, owner, reports>>, hands' \in Nat,
         NEW x \in Orders,
         act' = act \/ \E c \in Commands : act' = [act EXCEPT ![c] = x],
         act' # act => Fits(x) /\ x.head \in Heads
  PROVE  WorktreeInv'
<1>1. commits \in Seq(CommitRecords) /\ Len(commits) \in Nat /\ Len(commits) >= 1
  BY DEF WorktreeInv, WorktreeTypes
<1>0. PICK new \in Nat : new = Len(commits) + 1
  BY <1>1
<1>2. checkout \in WorkingTrees /\ branch \in 1 .. Len(commits)
  BY DEF WorktreeInv, WorktreeTypes, Present
<1>3. Tip \in 1 .. Len(commits)
  BY <1>1, <1>2 DEF Tip, Base
<1>4. PICK ps \in {<<Tip>>, <<Tip, Base>>} : Recorded(ps)
  OBVIOUS
<1>5. ps \in Seq(Nat) /\ (ps = <<Base>> => Tip = Base)
  <2>1. Tip \in Nat /\ Base \in Nat
    BY <1>1, <1>3 DEF Base
  <2>2. CASE ps = <<Tip>>
    BY <2>1, <2>2
  <2>3. CASE ps = <<Tip, Base>>
    <3>1. Len(<<Tip, Base>>) = 2 /\ Len(<<Base>>) = 1
      OBVIOUS
    <3> QED BY <2>1, <2>3, <3>1
  <2> QED BY <2>2, <2>3
<1> DEFINE r == [parents |-> ps, tree |-> checkout.index]
<1>6. r \in CommitRecords /\ r.parents = ps
  BY <1>2, <1>5 DEF CommitRecords, WorkingTrees
<1>7. commits' = Append(commits, r)
  BY <1>4 DEF Recorded
<1> HIDE DEF r
<1>8. /\ commits' \in Seq(CommitRecords) /\ Len(commits') = new
      /\ commits'[new] = r
      /\ \A i \in 1 .. Len(commits) : commits'[i] = commits[i]
  BY <1>1, <1>6, <1>7, <1>0
<1>9. branch' = branch \/ (branch' = new /\ Tip = branch)
  BY <1>0, <1>4 DEF Recorded, Tip
<1>10. branch' \in 1 .. new
  BY <1>0, <1>1, <1>2, <1>9
<1>11. Gone \notin Nat
  BY DEF Distinguished
<1>12. WorktreeTypes'
  <2>1. act' \in [Commands -> {Idle} \cup Orders]
    BY DEF WorktreeInv, WorktreeTypes
  <2>2. checkout' \in {Gone} \cup WorkingTrees /\ owner' \in {"experiment", "try"}
        /\ reports' \subseteq [head : Nat, paths : SUBSET TreePaths]
    BY DEF WorktreeInv, WorktreeTypes
  <2> QED BY <1>0, <1>1, <1>8, <1>10, <2>1, <2>2 DEF WorktreeTypes
<1>13. ASSUME NEW h \in 1 .. Len(commits)
       PROVE  /\ Follows(h)' <=> Follows(h)
              /\ Tree(h)' = Tree(h)
  BY <1>8 DEF Follows, Tree
<1>14. Rooted'
  BY <1>1, <1>8 DEF WorktreeInv, Rooted, Base
<1>15. Follows(new)' => Tip = Base
  BY <1>5, <1>6, <1>8 DEF Follows
<1>16. ASSUME NEW h \in Heads' PROVE h \in Heads \/ (h = new /\ branch' = new /\ Tip = branch)
  <2>1. CASE h \in {act'[d].head : d \in {e \in Commands : act'[e] # Idle}}
    <3>1. PICK d \in Commands : act'[d] # Idle /\ h = act'[d].head
      BY <2>1
    <3>2. CASE act'[d] # act[d]
      <4>1. act'[d] = x /\ act' # act
        BY <3>2 DEF WorktreeInv, WorktreeTypes
      <4> QED BY <3>1, <4>1
    <3>3. CASE act'[d] = act[d]
      BY <3>1, <3>3 DEF Heads, Orderly
    <3> QED BY <3>2, <3>3
  <2>2. CASE h \in {q.head : q \in reports'}
    BY <2>2 DEF Heads
  <2>3. CASE h \in (IF branch' = Gone THEN {} ELSE {branch'})
    BY <1>9, <2>3 DEF Heads
  <2> QED BY <1>16, <2>1, <2>2, <2>3 DEF Heads, Orderly
<1>17. \A h \in Heads : h \in 1 .. Len(commits)
  BY DEF WorktreeInv, HeadsKnown
<1>18. HeadsKnown'
  <2>1. \A h \in Heads' : h \in 1 .. Len(commits')
    BY <1>0, <1>1, <1>8, <1>16, <1>17
  <2>2. branch' \in {Gone, Base} => \A h \in Heads' : h = Base
    <3>1. branch' # new => \A h \in Heads' : h \in Heads
      BY <1>16
    <3>2. new # Base /\ branch' # Gone
      BY <1>0, <1>1, <1>10, <1>11 DEF Base
    <3> QED BY <1>9, <3>1, <3>2 DEF WorktreeInv, HeadsKnown
  <2>3. ASSUME NEW h \in Heads', NEW k \in Heads', Follows(h)', Follows(k)'
        PROVE  h = k
    <3>1. ~Follows(Base)
      BY DEF WorktreeInv, Follows, Rooted
    <3>2. CASE h \in Heads /\ k \in Heads
      BY <1>13, <1>17, <2>3, <3>2 DEF WorktreeInv, HeadsKnown
    <3>3. ASSUME NEW g \in Heads, Follows(g)', Follows(new)', Tip = branch PROVE FALSE
      <4>1. branch = Base
        BY <1>15, <3>3
      <4>2. g = Base
        BY <4>1 DEF WorktreeInv, HeadsKnown
      <4> QED BY <1>13, <1>17, <3>1, <3>3, <4>2
    <3>4. CASE h \in Heads /\ k \notin Heads
      BY <1>16, <2>3, <3>3, <3>4
    <3>5. CASE h \notin Heads /\ k \in Heads
      BY <1>16, <2>3, <3>3, <3>5
    <3>6. CASE h \notin Heads /\ k \notin Heads
      BY <1>16, <3>6
    <3> QED BY <3>2, <3>4, <3>5, <3>6
  <2>4. \A h, k \in Heads' : Follows(h)' /\ Follows(k)' => h = k
    BY <2>3
  <2> QED BY <2>1, <2>2, <2>4 DEF HeadsKnown, Follows
<1>19. ASSUME NEW h \in 1 .. Len(commits), NEW paths
       PROVE  Exactly(h, paths)' <=> Exactly(h, paths)
  <2>1. Base \in 1 .. Len(commits)
    BY <1>1 DEF Base
  <2>2. CommittedPaths(h)' = CommittedPaths(h)
    BY <1>13, <2>1 DEF CommittedPaths
  <2> QED BY <2>2 DEF Exactly
<1>20. ASSUME NEW y \in Orders, Fits(y), y.head \in Heads PROVE Fits(y)'
  <2>1. y.head \in 1 .. Len(commits) /\ y.paths = y.paths
    BY <1>17, <1>20
  <2>2. y.pc \in {"committed", "settled"} => Follows(y.head)'
    BY <1>13, <1>20, <2>1 DEF Fits
  <2>3. y.pc = "settled" => Exactly(y.head, y.paths)'
    BY <1>19, <1>20, <2>1 DEF Fits
  <2>4. branch' # Gone
    BY <1>10, <1>11
  <2> QED BY <1>20, <2>2, <2>3, <2>4 DEF Fits, Present
<1>21. ASSUME NEW d \in Commands, act'[d] # Idle PROVE Fits(act[d])'
  <2>1. CASE act'[d] # act[d]
    <3>1. act'[d] = x /\ act' # act
      BY <2>1 DEF WorktreeInv, WorktreeTypes
    <3>2. Fits(x)'
      BY <1>20, <3>1
    <3> QED BY <3>1, <3>2 DEF Fits
  <2>2. CASE act'[d] = act[d]
    <3>1. act[d] \in Orders /\ Fits(act[d]) /\ act[d].head \in Heads
      BY <1>21, <2>2 DEF WorktreeInv, WorktreeTypes, Orderly, Heads
    <3> DEFINE y == act[d]
    <3>2. Fits(y)' /\ act'[d] = y
      BY <1>20, <2>2, <3>1 DEF Fits, Present, Follows, Exactly, CommittedPaths, Tree, Differ
    <3> QED BY <3>2 DEF Fits
  <2> QED BY <2>1, <2>2
<1>22. ASSUME NEW q \in reports PROVE Follows(q.head)' /\ Exactly(q.head, q.paths)'
  <2>1. q.head \in Heads
    BY DEF Heads
  <2>2. q.head \in 1 .. Len(commits)
    BY <1>17, <2>1
  <2>3. Follows(q.head) /\ Exactly(q.head, q.paths)
    BY DEF WorktreeInv
  <2> QED BY <1>13, <1>19, <2>2, <2>3
<1>23. (Present => branch # Gone)'
  BY <1>10, <1>11
<1>24. reports' = reports
  OBVIOUS
<1> QED BY <1>12, <1>14, <1>18, <1>21, <1>22, <1>23, <1>24 DEF WorktreeInv, Orderly, Follows, Exactly, CommittedPaths, Tree, Differ

-----------------------------------------------------------------------------
(* The steps that write.                                                   *)

LEMMA BranchAdded ==
  ASSUME Distinguished, WorktreeInv, NEW c \in Commands, AddBranch(c) PROVE WorktreeInv'
<1>0. PICK x : x = [act[c] EXCEPT !.pc = "worktree"]
  OBVIOUS
<1>1. act[c] \in Orders /\ act[c].pc = "branch" /\ Fits(act[c]) /\ act[c].head \in Heads
  BY AtWork DEF AddBranch, Stages
<1>2. x \in Orders /\ x.pc = "worktree" /\ x.head = act[c].head
  BY <1>0, <1>1 DEF Orders, Stages
<1>3. branch' # Gone /\ (branch' = branch \/ (branch = Gone /\ branch' = Base))
  BY DEF AddBranch, Distinguished, Base
<1>4. Fits(x)'
  BY <1>1, <1>2, <1>3 DEF Fits, Removing, Working, AddBranch
<1>5. act' = [act EXCEPT ![c] = x] \/ act' = [act EXCEPT ![c] = Idle]
  BY <1>0 DEF AddBranch, Go, Move, EndCommand
<1>6. checkout \in {Gone} \cup WorkingTrees /\ hands \in Nat
  BY DEF WorktreeInv, WorktreeTypes
<1>7. UNCHANGED <<commits, checkout, owner, reports, hands>>
  BY DEF AddBranch
<1>8. CASE act' = [act EXCEPT ![c] = x]
  BY <1>1, <1>2, <1>3, <1>4, <1>6, <1>7, <1>8, WorktreeChanges
<1>9. CASE act' = [act EXCEPT ![c] = Idle]
  BY <1>3, <1>6, <1>7, <1>9, WorktreeChanges
<1> QED BY <1>5, <1>8, <1>9

LEMMA WorktreeAdded ==
  ASSUME Distinguished, WorktreeInv, NEW c \in Commands, AddWorktree(c) PROVE WorktreeInv'
<1>0. PICK x : x = [act[c] EXCEPT !.pc = "identity"]
  OBVIOUS
<1>1. act[c] \in Orders /\ act[c].pc = "worktree" /\ Fits(act[c]) /\ act[c].head \in Heads
  BY AtWork DEF AddWorktree, Stages
<1>2. x \in Orders /\ x.pc = "identity" /\ x.head = act[c].head
  BY <1>0, <1>1 DEF Orders, Stages
<1>3. branch # Gone /\ branch \in 1 .. Len(commits)
  BY <1>1 DEF Fits, WorktreeInv, WorktreeTypes
<1>4. commits[branch].tree \in FileTrees
  <2>1. commits[branch] \in CommitRecords
    BY <1>3 DEF WorktreeInv, WorktreeTypes
  <2> QED BY <2>1 DEF CommitRecords
<1>5. checkout' \in WorkingTrees /\ checkout' # Gone
  BY <1>4 DEF AddWorktree, NewTree, WorkingTrees, WorktreeInv, WorktreeTypes, Present, Distinguished
<1>6. Fits(x)'
  BY <1>1, <1>2, <1>5 DEF Fits, Removing, Working, AddWorktree
<1>7. act' = [act EXCEPT ![c] = x] \/ act' = [act EXCEPT ![c] = Idle]
  BY <1>0 DEF AddWorktree, Go, Move, EndCommand
<1>8. UNCHANGED <<commits, branch, owner, reports, hands>> /\ hands \in Nat
  BY DEF AddWorktree, WorktreeInv, WorktreeTypes
<1>9. CASE act' = [act EXCEPT ![c] = x]
  BY <1>1, <1>2, <1>3, <1>5, <1>6, <1>8, <1>9, WorktreeChanges
<1>10. CASE act' = [act EXCEPT ![c] = Idle]
  BY <1>3, <1>5, <1>8, <1>10, WorktreeChanges
<1> QED BY <1>7, <1>9, <1>10

LEMMA ChangesAdded ==
  ASSUME Distinguished, WorktreeInv, NEW c \in Commands, AddChanges(c) PROVE WorktreeInv'
<1>0. PICK x : x = [act[c] EXCEPT !.pc = "staged"]
  OBVIOUS
<1>1. act[c] \in Orders /\ act[c].pc = "add" /\ Fits(act[c]) /\ act[c].head \in Heads
  BY AtWork DEF AddChanges, Stages
<1>2. x \in Orders /\ x.pc = "staged" /\ x.head = act[c].head
  BY <1>0, <1>1 DEF Orders, Stages
<1>3. checkout \in WorkingTrees /\ branch # Gone
  BY <1>1 DEF Fits, Working, WorktreeInv, WorktreeTypes, Present
<1>4. checkout' \in WorkingTrees /\ checkout' # Gone
  <2> DEFINE staged == [p \in TreePaths |-> IF p \in act[c].paths THEN checkout.file[p]
                                        ELSE checkout.index[p]]
  <2>1. staged \in FileTrees
    BY <1>3 DEF WorkingTrees, FileTrees
  <2>2. checkout' = [checkout EXCEPT !.index = staged]
    BY DEF AddChanges
  <2> HIDE DEF staged
  <2> QED BY <1>3, <2>1, <2>2 DEF WorkingTrees, Distinguished
<1>5. act' = [act EXCEPT ![c] = x]
  BY <1>0 DEF AddChanges, Move
<1>6. UNCHANGED <<commits, branch, owner, reports, hands>> /\ hands \in Nat
  BY DEF AddChanges, WorktreeInv, WorktreeTypes
<1>7. Fits(x)'
  BY <1>1, <1>2, <1>4, <1>6 DEF Fits, Removing, Working, Present
<1> QED BY <1>1, <1>2, <1>3, <1>4, <1>5, <1>6, <1>7, WorktreeChanges

LEMMA IndexCommitted ==
  ASSUME Distinguished, WorktreeInv, NEW c \in Commands, CommitIndex(c) PROVE WorktreeInv'
<1> DEFINE x == [act[c] EXCEPT !.pc = "reread"]
<1>1. act[c] \in Orders /\ act[c].pc = "commit" /\ Fits(act[c]) /\ act[c].head \in Heads
  BY AtWork DEF CommitIndex, Stages
<1>2. x \in Orders /\ x.pc = "reread" /\ x.head = act[c].head
  BY <1>1 DEF Orders, Stages
<1>3. Present
  BY <1>1 DEF Fits, Working
<1>4. Fits(x)
  BY <1>1, <1>2, <1>3 DEF Fits, Removing, Working
<1>5. UNCHANGED <<checkout, owner, reports, hands>> /\ hands \in Nat
  BY DEF CommitIndex, WorktreeInv, WorktreeTypes
<1>6. CASE StagedPaths = {}
  BY <1>5, <1>6, CommandEnds DEF CommitIndex
<1>7. CASE StagedPaths # {}
  <2>1. Recorded(<<Tip>>) /\ act' = [act EXCEPT ![c] = x]
    BY <1>7 DEF CommitIndex, Move
  <2> HIDE DEF x
  <2> QED BY <1>1, <1>2, <1>3, <1>4, <1>5, <2>1, CommitAdded
<1> QED BY <1>6, <1>7

LEMMA ChangeSetReported ==
  ASSUME WorktreeInv, NEW c \in Commands, RequireSettled(c) PROVE WorktreeInv'
<1>1. act[c] \in Orders /\ act[c].pc = "settled" /\ Fits(act[c]) /\ act[c].head \in Heads
  BY AtWork DEF RequireSettled, Stages
<1> DEFINE s == [head |-> act[c].head, paths |-> act[c].paths]
<1>2. s \in [head : Nat, paths : SUBSET TreePaths] /\ s.head \in Heads
  BY <1>1 DEF Orders
<1>3. Follows(s.head) /\ Exactly(s.head, s.paths)
  BY <1>1 DEF Fits
<1>4. reports' \subseteq reports \cup {s}
  BY DEF RequireSettled
<1>5. PICK t : t = s
  OBVIOUS
<1>6. t \in [head : Nat, paths : SUBSET TreePaths] /\ t.head \in Heads /\ reports' \subseteq reports \cup {t}
      /\ Follows(t.head) /\ Exactly(t.head, t.paths)
  BY <1>2, <1>3, <1>4, <1>5
<1> HIDE DEF s
<1>7. UNCHANGED <<commits, branch, checkout, owner, hands>> /\ act' = [act EXCEPT ![c] = Idle]
  BY DEF RequireSettled, EndCommand
<1>8. WorktreeTypes'
  BY <1>6, <1>7 DEF WorktreeInv, WorktreeTypes
<1>9. ASSUME NEW h \in Heads' PROVE h \in Heads
  <2>1. CASE h \in {act'[d].head : d \in {e \in Commands : act'[e] # Idle}}
    <3>1. PICK d \in Commands : act'[d] # Idle /\ h = act'[d].head
      BY <2>1
    <3>2. act'[d] = act[d]
      BY <1>7, <3>1 DEF WorktreeInv, WorktreeTypes
    <3> QED BY <3>1, <3>2 DEF Heads, Orderly
  <2>2. CASE h \in {q.head : q \in reports'}
    BY <1>6, <2>2 DEF Heads
  <2>3. CASE h \in (IF branch' = Gone THEN {} ELSE {branch'})
    BY <1>7, <2>3 DEF Heads
  <2> QED BY <1>9, <2>1, <2>2, <2>3 DEF Heads, Orderly
<1>10. HeadsKnown'
  <2>1. HeadsKnown
    BY DEF WorktreeInv
  <2> QED BY <1>7, <1>9, <2>1 DEF HeadsKnown, Follows
<1>11. ASSUME NEW d \in Commands, act'[d] # Idle PROVE Fits(act[d])'
  <2>1. act'[d] = act[d]
    BY <1>7, <1>11 DEF WorktreeInv, WorktreeTypes
  <2> QED BY <1>7, <1>11, <2>1 DEF WorktreeInv, Orderly, Fits, Follows, Exactly, CommittedPaths, Tree, Present
<1>12. ASSUME NEW q \in reports' PROVE Follows(q.head) /\ Exactly(q.head, q.paths)
  BY <1>6 DEF WorktreeInv
<1> QED BY <1>7, <1>8, <1>10, <1>11, <1>12
        DEF WorktreeInv, Rooted, Present, Orderly, Follows, Exactly, CommittedPaths, Tree

LEMMA WorktreeRemoved ==
  ASSUME WorktreeInv, NEW c \in Commands, RemoveWorktree(c) PROVE WorktreeInv'
<1>1. act[c].pc = "remove" /\ Fits(act[c])
  BY AtWork DEF RemoveWorktree, Stages
<1>2. owner = "try"
  BY <1>1 DEF Fits, Removing
<1>3. checkout' \in {Gone} \cup WorkingTrees /\ (checkout' # Gone => branch # Gone)
  BY DEF RemoveWorktree, WorktreeInv, WorktreeTypes, Present
<1>4. act' = [act EXCEPT ![c] = Idle] /\ UNCHANGED <<commits, branch, owner, reports, hands>>
      /\ hands \in Nat
  BY DEF RemoveWorktree, EndCommand, WorktreeInv, WorktreeTypes
<1> QED BY <1>2, <1>3, <1>4, WorktreeChanges

\* Whoever it is works on what is there.
LEMMA WorkByHand ==
  ASSUME Distinguished, WorktreeInv,
         \/ \E p \in TreePaths : WriteByHand(p)
         \/ StageByHand \/ HandCommit \/ SwitchBranch
  PROVE  WorktreeInv'
<1>1. Present /\ checkout \in WorkingTrees /\ branch # Gone /\ branch \in 1 .. Len(commits)
  BY DEF WriteByHand, StageByHand, HandCommit, SwitchBranch, OnBranch, Present,
         WorktreeInv, WorktreeTypes
<1>2. UNCHANGED <<owner, act, reports>> /\ hands' \in Nat /\ hands \in Nat
  <2>1. UNCHANGED <<owner, act, reports>> /\ hands' = hands + 1
    BY DEF WriteByHand, StageByHand, HandCommit, SwitchBranch, ByHand
  <2>2. hands \in Nat
    BY DEF WorktreeInv, WorktreeTypes
  <2> QED BY <2>1, <2>2
<1>3. ASSUME NEW files \in FileTrees, NEW index \in FileTrees, ByHand(files, index)
      PROVE  WorktreeInv'
  <2>1. checkout' = [checkout EXCEPT !.file = files, !.index = index]
        /\ UNCHANGED <<commits, branch>>
    BY <1>3 DEF ByHand
  <2>2. checkout' \in WorkingTrees
    BY <1>1, <2>1 DEF WorkingTrees
  <2> QED BY <1>1, <1>2, <2>1, <2>2, WorktreeChanges DEF Distinguished
<1>4. checkout.file \in FileTrees /\ checkout.index \in FileTrees
  BY <1>1 DEF WorkingTrees
<1>5. ASSUME NEW p \in TreePaths, WriteByHand(p) PROVE WorktreeInv'
  <2>1. [checkout.file EXCEPT ![p] = hands + 2] \in FileTrees
    BY <1>2, <1>4 DEF FileTrees
  <2> QED BY <1>3, <1>4, <1>5, <2>1 DEF WriteByHand
<1>6. CASE StageByHand
  BY <1>3, <1>4, <1>6 DEF StageByHand
<1>7. CASE HandCommit
  <2>1. Recorded(<<Tip>>) \/ Recorded(<<Tip, Base>>)
    BY <1>7 DEF HandCommit
  <2>2. UNCHANGED checkout
    BY <1>7 DEF HandCommit
  <2>3. \E x \in Orders : TRUE
    <3>1. [kind |-> "commit", pc |-> "head", head |-> 1, paths |-> {}, round |-> 1] \in Orders
      BY DEF Orders, Stages
    <3> QED BY <3>1
  <2> QED BY <1>1, <1>2, <2>1, <2>2, <2>3, CommitAdded
<1>8. CASE SwitchBranch
  <2>1. commits[Base].tree \in FileTrees
    <3>1. commits[Base] \in CommitRecords
      BY DEF WorktreeInv, WorktreeTypes, Base
    <3> QED BY <3>1 DEF CommitRecords
  <2>2. checkout' \in WorkingTrees /\ UNCHANGED <<commits, branch>>
    BY <1>8, <2>1 DEF SwitchBranch, NewTree, WorkingTrees
  <2> QED BY <1>1, <1>2, <2>2, WorktreeChanges DEF Distinguished
<1> QED BY <1>5, <1>6, <1>7, <1>8

-----------------------------------------------------------------------------
(* Every step.                                                             *)

LEMMA WorktreeInvStep ==
  ASSUME Distinguished, WorktreeInv, [WorktreesNext]_worktreeVars PROVE WorktreeInv'
<1>1. CASE UNCHANGED worktreeVars
  BY <1>1, WorktreeChanges, Idle \in {Idle} \cup Orders
     DEF worktreeVars, WorktreeInv, WorktreeTypes, Present
<1>2. ASSUME NEW c \in Commands, Die(c) PROVE WorktreeInv'
  BY <1>2, CommandEnds DEF Die, Local, WorktreeInv, WorktreeTypes
<1>3. CASE \E p \in TreePaths : WriteByHand(p)
  BY <1>3, WorkByHand
<1>4. CASE StageByHand \/ HandCommit \/ SwitchBranch
  BY <1>4, WorkByHand
<1>5. ASSUME NEW c \in Commands,
             \/ BeginCommand(c) \/ Die(c)
             \/ VacantPlace(c) \/ AddBranch(c) \/ AddWorktree(c)
             \/ RequireWorkspaceIdentity(c) \/ RequireClean(c) \/ RunAgent(c)
             \/ Locate(c) \/ ReadTip(c) \/ RequireBranch(c) \/ ListChanges(c)
             \/ AddChanges(c) \/ VerifyStaged(c) \/ CommitIndex(c) \/ RereadHead(c)
             \/ VerifyParent(c) \/ VerifyPaths(c) \/ RequireSettled(c)
             \/ LockWorkspace(c) \/ Inspect(c) \/ InspectStatus(c) \/ InspectPaths(c)
             \/ RemoveWorktree(c)
      PROVE  WorktreeInv'
  BY <1>2, <1>5, CommandsBegin, PrepareLooks, BranchAdded, WorktreeAdded, CommitLooks,
     CommitReads, ChangesAdded, IndexCommitted, ChangeSetReported, CleanupLooks, WorktreeRemoved
<1> QED BY <1>1, <1>3, <1>4, <1>5 DEF WorktreesNext

\* Only the removal makes a worktree go away.
LEMMA RemovesWithCare ==
  ASSUME Distinguished, WorktreeInv, [WorktreesNext]_worktreeVars, Present, checkout' = Gone
  PROVE  Settled /\ branch' = branch
<1>1. checkout \in WorkingTrees /\ checkout' # checkout
  BY DEF WorktreeInv, WorktreeTypes, Present
<1>2. ASSUME NEW c \in Commands, AddChanges(c) PROVE checkout' # Gone
  <2> DEFINE staged == [p \in TreePaths |-> IF p \in act[c].paths THEN checkout.file[p]
                                        ELSE checkout.index[p]]
  <2>1. staged \in FileTrees
    BY <1>1 DEF WorkingTrees, FileTrees
  <2>2. checkout' = [checkout EXCEPT !.index = staged]
    BY <1>2 DEF AddChanges
  <2> HIDE DEF staged
  <2> QED BY <1>1, <2>1, <2>2 DEF WorkingTrees, Distinguished
<1>3. ASSUME NEW files \in FileTrees, NEW index \in FileTrees, ByHand(files, index)
      PROVE  checkout' # Gone
  BY <1>1, <1>3 DEF ByHand, WorkingTrees, Distinguished
<1>4. checkout.file \in FileTrees /\ checkout.index \in FileTrees
  BY <1>1 DEF WorkingTrees
<1>5. ASSUME NEW p \in TreePaths, WriteByHand(p) PROVE checkout' # Gone
  <2>1. [checkout.file EXCEPT ![p] = hands + 2] \in FileTrees
    BY <1>4 DEF FileTrees, WorktreeInv, WorktreeTypes
  <2> QED BY <1>3, <1>4, <1>5, <2>1 DEF WriteByHand
<1>6. ASSUME StageByHand PROVE checkout' # Gone
  BY <1>3, <1>4, <1>6 DEF StageByHand
<1>7. ASSUME SwitchBranch PROVE checkout' # Gone
  <2>1. commits[Base] \in CommitRecords
    BY DEF WorktreeInv, WorktreeTypes, Base
  <2>2. commits[Base].tree \in FileTrees
    BY <2>1 DEF CommitRecords
  <2> QED BY <1>7, <2>2 DEF SwitchBranch, NewTree, WorkingTrees, Distinguished
<1>8. ASSUME NEW c \in Commands, AddWorktree(c) PROVE checkout' # Gone
  BY <1>1, <1>8 DEF AddWorktree, Present
<1>9. PICK c \in Commands : RemoveWorktree(c)
  <2>1. ASSUME NEW c \in Commands,
               \/ BeginCommand(c) \/ Die(c)
               \/ VacantPlace(c) \/ AddBranch(c)
               \/ RequireWorkspaceIdentity(c) \/ RequireClean(c) \/ RunAgent(c)
               \/ Locate(c) \/ ReadTip(c) \/ RequireBranch(c) \/ ListChanges(c)
               \/ VerifyStaged(c) \/ CommitIndex(c) \/ RereadHead(c)
               \/ VerifyParent(c) \/ VerifyPaths(c) \/ RequireSettled(c)
               \/ LockWorkspace(c) \/ Inspect(c) \/ InspectStatus(c) \/ InspectPaths(c)
        PROVE  checkout' = checkout
    BY <2>1 DEF BeginCommand, Die, VacantPlace, AddBranch, RequireWorkspaceIdentity,
       RequireClean, RunAgent, Locate, ReadTip, RequireBranch, ListChanges, VerifyStaged,
       CommitIndex, RereadHead, VerifyParent, VerifyPaths, RequireSettled, LockWorkspace,
       Inspect, InspectStatus, InspectPaths, Local
  <2>2. ASSUME HandCommit PROVE checkout' = checkout
    BY <2>2 DEF HandCommit
  <2>3. WorktreesNext
    BY <1>1 DEF worktreeVars
  <2> QED BY <1>1, <1>2, <1>5, <1>6, <1>7, <1>8, <2>1, <2>2, <2>3 DEF WorktreesNext
<1> QED BY <1>1, <1>9 DEF RemoveWorktree, RemoveAllowed

\* However often the commands are given and whoever commits, switches or edits
\* meanwhile: there is one change set, a single commit on the base whose paths
\* are exactly those reported and all allowed, and a worktree is removed only
\* when everything in it is committed (experimentgit.Commit, Cleanup).
THEOREM ReportsOneChangeSet ==
  ASSUME Distinguished
  PROVE  WorktreesSpec => WorktreeCareful
<1>1. WorktreesInit => WorktreeInv
  BY WorktreesStart
<1>2. WorktreeInv /\ [WorktreesNext]_worktreeVars => WorktreeInv'
  BY WorktreeInvStep
<1>3. WorktreeInv /\ WorktreeInv' /\ [WorktreesNext]_worktreeVars => [Careful]_worktreeVars
  <2>1. ASSUME WorktreeInv' PROVE ReportsExact'
    BY <2>1, InvIsExact, PTL
  <2> QED BY <2>1, RemovesWithCare DEF Careful, WorkKept
<1> QED BY <1>1, <1>2, <1>3, PTL DEF WorktreesSpec, WorktreeCareful

=============================================================================
