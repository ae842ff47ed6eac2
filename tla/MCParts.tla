------------------------------- MODULE MCParts -------------------------------
(***************************************************************************)
(* Small instances of the parts that are checked on their own.  A          *)
(* behaviour is about one of them, its subject, and the others stay where  *)
(* they are.                                                               *)
(*                                                                         *)
(* They are extended, as theorems are about them, so that the properties   *)
(* checked are those proved.                                               *)
(***************************************************************************)
EXTENDS Transaction, QueueFlow, Migration, Snapshot, Trust, ProjectInit,
        Installer, TLC

CONSTANTS c1, c2    \* the processes of every part

Actors == {c1, c2}

\* Processes of one part are interchangeable.
ActorSymmetry == Permutations(Actors)

VARIABLES
    subject,
    ui, flights, world, keys,
    things, setup, wizard, total,
    exps, ended, recs, order, now, left,
    records, clutter, page, mutex, command, used

viewerVars == <<ui, flights, world, keys>>
guidedVars == <<things, setup, wizard, total>>
lifecycleVars == <<exps, ended, recs, order, now, left>>
pagesVars == <<records, clutter, page, mutex, command, used>>

partVars == <<subject, vars, queueVars, installerVars,
              snapshotVars, trustVars, migrationVars, initVars, viewerVars,
              guidedVars, lifecycleVars, pagesVars>>

(***************************************************************************)
(* The file protocol of Transaction: with a person who edits, and with     *)
(* power losses.                                                           *)
(***************************************************************************)
HomeOfAll == [p \in Procs |-> "w1"]
P == INSTANCE Transaction
       WITH Faults <- {"power"}, Changes <- {"write", "delete"},
            MaxTx <- 2, MaxCrashes <- 2, MaxEdits <- 0

\* Transact implements the atomic commit although the power fails.
PowerIsAtomic ==
    /\ subject = "power" => P!Abstract!Init
    /\ [][subject = "power" => UNCHANGED P!Abstract!vars \/ P!Abstract!Next]_vars

(***************************************************************************)
(* The Plans, the Queue and the Findings of QueueFlow: two of the four     *)
(* Plans rest on the founding Finding, one is under way, two wait.         *)
(***************************************************************************)
Belief == [p \in Plans |-> IF p \in {"b", "e"} THEN {"f0"} ELSE {}]
Scores == [a |-> 1, b |-> 2, d |-> 3, e |-> 2]
Line == <<"d", "b">>

(***************************************************************************)
(* Configuration layers and their receipts, module Trust: those of a       *)
(* Project and a Source, and the runtime configuration.                    *)
(***************************************************************************)
Layout == [v1 |-> {"selector", "profile"}, v2 |-> {"profile", "backend"}, v3 |-> {}]
D == INSTANCE Trust WITH Wants <- {"dispatch"}, Selections <- {}

(***************************************************************************)
(* A legacy directory under migration, module Migration: a ledger, a view  *)
(* that a projection replaces, and a script; three of the four entries     *)
(* need no review or get one.                                              *)
(***************************************************************************)
LegacyEntry(kind, alias, state, on) ==
    [kind |-> kind, alias |-> alias, state |-> state, flaws |-> {},
     experiments |-> on, findings |-> {}]
LegacyEntries == [report |-> LegacyEntry("experiment", "#001", "running", {}),
                  belief |-> LegacyEntry("finding", "F-001", "active", {"#001"}),
                  idea |-> LegacyEntry("plan", "roadmap", "queued", {}),
                  line |-> LegacyEntry("inbox", "inbox", "", {})]
Reviews == {[line |-> "archive_only"], [line |-> "archive_only", idea |-> "migrate"]}

(***************************************************************************)
(* The terminal view, module Viewer: an Attempt from its plan to its end,  *)
(* three tabs, and rows for more than one window.                          *)
(***************************************************************************)
Moment(a, j, tries) == [attempt |-> a, job |-> j, tries |-> tries]
Moments == <<Moment("planned", "none", 3), Moment("running", "running", 4),
             Moment("terminal", "finished", 1)>>
TabOrder == <<"tries", "attempts", "readiness">>
V == INSTANCE Viewer
       WITH History <- Moments, Tabs <- TabOrder, Selectors <- {"one", "two"}, Nothing <- None,
            Lines <- 2, MaxKeys <- 3, MaxFlights <- 1

ShownIsAsked == [][subject = "viewer" => V!ShownIsAsked]_viewerVars

(***************************************************************************)
(* The guided commands, module Guided: one of them, and two changes by     *)
(* others while they ask, show and look again.                             *)
(***************************************************************************)
U == INSTANCE Guided
       WITH Nothing <- None, world <- things, tally <- total,
            MaxWizards <- 1, MaxChanges <- 2

ReviewedIsDone == [][subject = "guided" => U!ReviewedIsDone]_guidedVars

(***************************************************************************)
(* Conclusions, Candidates, Releases and Promotions of Lifecycle.          *)
(***************************************************************************)
UpToRelease == [close |-> 1, evaluation |-> 2, candidate |-> 1, release |-> 1,
                spec |-> 0, promotion |-> 0]
Decisions == [close |-> 0, evaluation |-> 0, candidate |-> 0, release |-> 0,
              spec |-> 1, promotion |-> 3]
L == INSTANCE Lifecycle
       WITH Curators <- Actors, Experiments <- {"x1"}, Attempts <- {1, 2},
            Owner <- [i \in {1, 2} |-> "x1"], CleanRuns <- {1}, Targets <- {"t1"},
            DraftBudget <- UpToRelease, DecisionBudget <- Decisions, MaxTime <- 2,
            Vacant <- None

ActsAsRegister ==
    /\ subject = "lifecycle" => L!Register!RegisterInit
    /\ [][subject = "lifecycle" =>
            UNCHANGED L!Register!registerVars \/ L!Register!RegisterNext]_lifecycleVars
PreparedIsSound == [][subject = "lifecycle" => L!SoundlyPrepared]_lifecycleVars

(***************************************************************************)
(* The generated pages, module Projections: a claim, a finding that may    *)
(* weaken or overturn it, a Plan that may start an Experiment.             *)
(***************************************************************************)
Paper(state, links) == [state |-> state, links |-> links]
Papers == <<"claim", "counter", "exp", "plan">>
G == INSTANCE Projections
       WITH Users <- {"user"}, Files <- Papers, Nothing <- None, Unreadable <- Paper("unreadable", [none |-> {}]),
            KindOf <- [claim |-> "finding", counter |-> "finding", exp |-> "experiment",
                       plan |-> "plan"],
            Drafts <- [claim |-> {Paper("", [none |-> {}]), None},
                       counter |-> {Paper("", [weakens |-> {"claim"}]),
                                    Paper("", [overturns |-> {"claim"}]), None},
                       exp |-> {Paper("active", [none |-> {}]), None},
                       plan |-> {Paper("queued", [assumptions |-> {"claim"}]),
                                 Paper("started", [resulting_experiment |-> {"exp"}]),
                                 Paper("unreadable", [none |-> {}])}],
            EditedPages <- {"ledger"}, MaxCommands <- 1, MaxEdits <- 2

CurrentIsCurrent == [][subject = "pages" => G!CurrentIsCurrent]_pagesVars

----------------------------------------------------------------------------
\* A part that is not the subject: as it starts.
NoTransaction == Init /\ \A w \in Worktrees, q \in Paths : disk[w][q] = Original
NoInstaller == InstallerInit /\ folder = "none" /\ link = "missing"
NoSnapshot == SnapshotInit /\ clone.file = clone.tree /\ cap.mode = "clean"
NoTrust == TrustInit /\ content["canonical"] = "v1" /\ content["source"] = "v1" /\ receipts = {}
NoInit == ProjectInitInit /\ history = {}
NoViewer == ui = None /\ flights = None /\ world = None /\ keys = None
NoGuided ==
    /\ things = None /\ setup = None /\ wizard = None /\ total = None
NoLifecycle ==
    /\ exps = None /\ ended = None /\ recs = None /\ order = None
    /\ now = None /\ left = None
NoPages ==
    /\ records = None /\ clutter = None /\ page = None /\ mutex = None
    /\ command = None /\ used = None

\* What a behaviour may be about.
Topics == {"edit", "power", "queue", "installer", "snapshot", "layers",
           "runtime", "migration", "init", "viewer", "guided", "lifecycle",
           "pages"}

\* QueueFlow and Migration have one initial state.
PartsInit ==
    /\ subject \in Topics
    /\ \/ subject = "edit" /\ Init
       \/ subject = "power" /\ P!Init
       \/ subject \notin {"edit", "power"} /\ NoTransaction
    /\ QueueInit
    /\ \/ subject = "installer" /\ InstallerInit
       \/ subject # "installer" /\ NoInstaller
    /\ \/ subject = "snapshot" /\ SnapshotInit
       \/ subject # "snapshot" /\ NoSnapshot
    /\ \/ subject = "layers" /\ TrustInit
       \/ subject = "runtime" /\ D!TrustInit
       \/ subject \notin {"layers", "runtime"} /\ NoTrust
    /\ MigrationInit
    /\ \/ subject = "init" /\ ProjectInitInit
       \/ subject # "init" /\ NoInit
    /\ \/ subject = "viewer" /\ V!ViewerInit
       \/ subject # "viewer" /\ NoViewer
    /\ \/ subject = "guided" /\ U!GuidedInit
       \/ subject # "guided" /\ NoGuided
    /\ \/ subject = "lifecycle" /\ L!LifecycleInit
       \/ subject # "lifecycle" /\ NoLifecycle
    /\ \/ subject = "pages" /\ G!ProjectionsInit
       \/ subject # "pages" /\ NoPages

\* The parts whose variables have no value unless they are the subject.
shownVars == <<viewerVars, guidedVars, lifecycleVars, pagesVars>>
keptVars == <<vars, queueVars, installerVars, snapshotVars, trustVars,
              migrationVars, initVars>>

TransactionPart == UNCHANGED <<queueVars, installerVars, snapshotVars,
    trustVars, migrationVars, initVars, shownVars>>
QueuePart == UNCHANGED <<vars, installerVars, snapshotVars,
    trustVars, migrationVars, initVars, shownVars>>
InstallerPart == UNCHANGED <<vars, queueVars, snapshotVars,
    trustVars, migrationVars, initVars, shownVars>>
SnapshotPart == UNCHANGED <<vars, queueVars, installerVars,
    trustVars, migrationVars, initVars, shownVars>>
TrustPart == UNCHANGED <<vars, queueVars, installerVars,
    snapshotVars, migrationVars, initVars, shownVars>>
MigrationPart == UNCHANGED <<vars, queueVars, installerVars,
    snapshotVars, trustVars, initVars, shownVars>>
InitPart == UNCHANGED <<vars, queueVars, installerVars,
    snapshotVars, trustVars, migrationVars, shownVars>>
ViewerPart == UNCHANGED <<keptVars, guidedVars, lifecycleVars, pagesVars>>
GuidedPart == UNCHANGED <<keptVars, viewerVars, lifecycleVars, pagesVars>>
LifecyclePart == UNCHANGED <<keptVars, viewerVars, guidedVars, pagesVars>>
PagesPart == UNCHANGED <<keptVars, viewerVars, guidedVars, lifecycleVars>>

PartsNext ==
    /\ UNCHANGED subject
    /\ \/ subject = "edit" /\ Next /\ TransactionPart
       \/ subject = "power" /\ P!Next /\ TransactionPart
       \/ subject = "queue" /\ QueueNext /\ QueuePart
       \/ subject = "installer" /\ InstallerNext /\ InstallerPart
       \/ subject = "snapshot" /\ SnapshotNext /\ SnapshotPart
       \/ subject = "layers" /\ TrustNext /\ TrustPart
       \/ subject = "runtime" /\ D!TrustNext /\ TrustPart
       \/ subject = "migration" /\ MigrationNext /\ MigrationPart
       \/ subject = "init" /\ ProjectInitNext /\ InitPart
       \/ subject = "viewer" /\ V!ViewerNext /\ ViewerPart
       \/ subject = "guided" /\ U!GuidedNext /\ GuidedPart
       \/ subject = "lifecycle" /\ L!LifecycleNext /\ LifecyclePart
       \/ subject = "pages" /\ G!ProjectionsNext /\ PagesPart

\* The constants meet the assumptions of the theorems.
ASSUME PartsAssumption ==
    /\ Lined /\ Sensible /\ D!Sensible /\ Sorted /\ Tidy
    /\ Lockable /\ Installable

PartsSpec == PartsInit /\ [][PartsNext]_partVars

=============================================================================
