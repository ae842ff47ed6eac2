------------------------------- MODULE Guided -------------------------------
(***************************************************************************)
(* The guided forms of exp: internal/cli (guided_*.go, wizard.go,          *)
(* prompt.go and the commands that call them).  A wizard looks at the      *)
(* things its command depends on, asks for what the command line left out, *)
(* shows a plan, waits for a person's confirmation, looks at the same      *)
(* things again, one after the other, and hands the options to the         *)
(* ordinary command, which reads everything once more.  Other commands and *)
(* people change the things at any moment.                                 *)
(*                                                                         *)
(* A thing is a revision, or the record that is observable of it.          *)
(***************************************************************************)
EXTENDS Naturals, FiniteSets, Sequences

CONSTANTS
    Nothing,   \* no wizard
    MaxWizards, MaxChanges   \* bounds on guided commands and changes by others

VARIABLES
    world,    \* the things, by name
    setup,    \* what the dedicated repository holds of the Project and its Source
    wizard,   \* the guided command at the terminal
    tally     \* guided commands and changes so far

guidedVars == <<world, setup, wizard, tally>>

Revisions == {"project", "config", "layer", "trust", "parent"}
Attempt(state, digest, saved) == [state |-> state, digest |-> digest, saved |-> saved]
NoTarget == [here |-> FALSE, id |-> 0, git |-> FALSE, files |-> FALSE]

Fresh == [project |-> 0, config |-> 0, layer |-> 0, trust |-> 0, parent |-> 0,
          source |-> [rev |-> 0, active |-> TRUE], clone |-> [head |-> 0, dirty |-> 0],
          tools |-> TRUE, target |-> NoTarget, try |-> [rev |-> 0, state |-> "open"],
          attempts |-> <<Attempt("ended", TRUE, "pending")>>]

GuidedInit ==
    /\ world \in {Fresh, [Fresh EXCEPT !.attempts = <<>>], [Fresh EXCEPT !.clone.dirty = 1],
                 [Fresh EXCEPT !.try.state = "concluded"], [Fresh EXCEPT !.target.here = TRUE],
                 [Fresh EXCEPT !.target.here = TRUE, !.target.git = TRUE]}
    /\ setup \in [project : BOOLEAN, source : {"none", "planned"}, workspace : {FALSE}, clone : {FALSE}]
    /\ setup.project => world.target.git
    /\ setup.source = "planned" => setup.project
    /\ wizard = Nothing
    /\ tally = [wizards |-> 0, changes |-> 0]

----------------------------------------------------------------------------
\* What a wizard looks at.

\* Project, config and trust, for the commands that observe the authority.
Authority == <<{"project", "config", "layer"}, {"trust"}>>

\* The looks after the confirmation, in their order.
RunLooks == Authority \o <<{"source"}, {"clone"}>>
FinishLooks == Authority \o <<{"try", "attempts"}>>
AdoptLooks(parent) == Authority \o <<{"try"} \cup IF parent THEN {"parent"} ELSE {}>>
TrustLooks == Authority \o <<{"layer"}>>
AddLooks == <<{"project"}, {"clone"}>>
RegisterLooks == <<{"project"}, {"source"}, {"clone"}>>
EmbeddedLooks == <<{"project", "clone"}>>
DedicatedLooks == <<{"target"}, {"clone"}>>

Looks(kind, parent) ==
    CASE kind = "run" -> RunLooks [] kind = "finish" -> FinishLooks
      [] kind = "adopt" -> AdoptLooks(parent) [] kind = "trust" -> TrustLooks
      [] kind = "add" -> AddLooks [] kind = "register" -> RegisterLooks
      [] kind = "embedded" -> EmbeddedLooks [] kind = "dedicated" -> DedicatedLooks

Watched(kind, parent) == UNION {Looks(kind, parent)[i] : i \in DOMAIN Looks(kind, parent)}

\* Only a run digests the dirty files; the others compare HEAD and the status.
GitSnapshot(kind, c) == [c EXCEPT !.dirty = IF kind = "run" \/ @ = 0 THEN @ ELSE 1]

\* The target's fingerprint has its identity and what kind of directory it is.
TargetState(d) ==
    CASE ~d.here -> "missing" [] d.git -> "git" [] d.here /\ ~d.git /\ ~d.files -> "empty"
      [] OTHER -> "refused"
TargetFingerprint(d) == [state |-> TargetState(d), id |-> IF d.here THEN d.id ELSE 0]

Observation(kind, thing, things) ==
    CASE thing = "clone" -> GitSnapshot(kind, things.clone)
      [] thing = "target" -> TargetFingerprint(things.target)
      [] OTHER -> things[thing]
Observe(kind, S) == [t \in S |-> Observation(kind, t, world)]

\* What is looked at only after the questions.
Late(kind) == CASE kind \in {"add", "register"} -> {"clone"} [] kind = "dedicated" -> {"target", "clone"}
                [] OTHER -> {}

AllEnded(as) == \A i \in DOMAIN as : as[i].state = "ended"
Produced(as) == {i \in DOMAIN as : as[i].digest}

----------------------------------------------------------------------------
\* The steps of a wizard.

At(pc) == wizard # Nothing /\ wizard.pc = pc
Goto(pc) == wizard' = [wizard EXCEPT !.pc = pc]
Quit == wizard' = Nothing

\* The first look; its conditions end the command at once.
Ask(kind, saved) ==
    /\ wizard = Nothing /\ tally.wizards < MaxWizards
    /\ wizard' = [kind |-> kind, pc |-> "asked", saved |-> saved,
                  shown |-> Observe(kind, Watched(kind, TRUE) \ Late(kind)),
                  capture |-> FALSE, results |-> {}, refs |-> {}, parent |-> FALSE, create |-> FALSE,
                  looks |-> 0, since |-> {}, made |-> FALSE, id |-> 0]
    /\ tally' = [tally EXCEPT !.wizards = @ + 1]
    /\ UNCHANGED <<world, setup>>

AskTryRun == world.source.active /\ Ask("run", FALSE)
\* The flag --saved-results may be given with what is asked for.
AskTryFinish == \E saved \in BOOLEAN : world.try.state = "open" /\ Ask("finish", saved)
AskTryAdopt == world.try.state = "concluded" /\ Ask("adopt", FALSE)
AskConfigTrust == Ask("trust", FALSE)
AskSourceAdd == Ask("add", FALSE)
AskSourceRegister == world.source.active /\ Ask("register", FALSE)
AskEmbedded == Ask("embedded", FALSE)
AskDedicated == Ask("dedicated", FALSE)

\* The plan that is shown has what was seen first and the later looks.
Shown(parent) ==
    [t \in Watched(wizard.kind, parent) |->
       IF t \in Late(wizard.kind) THEN Observation(wizard.kind, t, world) ELSE wizard.shown[t]]
Review(w) ==
    /\ wizard' = [w EXCEPT !.pc = "review"]
    /\ UNCHANGED <<world, setup, tally>>

\* Dirty edits are captured if there are any; a plan without is refused.
PlanTryRun ==
    /\ At("asked") /\ wizard.kind = "run" /\ world.tools
    /\ Review([wizard EXCEPT !.shown = Shown(FALSE),
                             !.capture = wizard.shown.clone.dirty # 0])
PlanTryFinish ==
    /\ At("asked") /\ wizard.kind = "finish"
    /\ \E results \in SUBSET Produced(wizard.shown.attempts) :
         /\ AllEnded(wizard.shown.attempts)
         /\ Review([wizard EXCEPT !.shown = Shown(FALSE), !.results = results])
PlanTryAdopt ==
    /\ At("asked") /\ wizard.kind = "adopt"
    /\ \E parent \in BOOLEAN :
         Review([wizard EXCEPT !.shown = Shown(parent), !.parent = parent])
PlanDedicated ==
    /\ At("asked") /\ wizard.kind = "dedicated" /\ TargetState(world.target) # "refused"
    /\ Review([wizard EXCEPT !.shown = Shown(FALSE),
                             !.create = TargetState(world.target) # "git"])
PlanOther(kind) ==
    /\ At("asked") /\ wizard.kind = kind
    /\ Review([wizard EXCEPT !.shown = Shown(FALSE)])
PlanConfigTrust == PlanOther("trust")
PlanSourceAdd == PlanOther("add")
PlanSourceRegister == PlanOther("register")
PlanEmbedded == PlanOther("embedded")

\* Watched things that are as the plan shows them.
AsShown(things) ==
    {t \in DOMAIN wizard.shown : Observation(wizard.kind, t, things) = wizard.shown[t]}

RequireConfirmation ==
    /\ At("review")
    /\ wizard' = [wizard EXCEPT !.pc = "confirmed", !.since = AsShown(world)]
    /\ UNCHANGED <<world, setup, tally>>

\* End of input, an empty answer, escape, or another token than the one asked for.
Cancel ==
    /\ At("asked") \/ At("review")
    /\ Quit /\ UNCHANGED <<world, setup, tally>>

\* Faulty variant: the stamps of the Source and of its clone are not compared.
SameRevisions(things) == things \cap Revisions \subseteq AsShown(world)

\* Another look; a thing that is not as shown makes the plan stale.
SameObservation(things) == things \subseteq AsShown(world)
Revalidate ==
    LET looks == Looks(wizard.kind, wizard.parent) IN
    /\ At("confirmed") /\ wizard.looks < Len(looks)
    /\ IF SameObservation(looks[wizard.looks + 1])
       THEN wizard' = [wizard EXCEPT !.looks = @ + 1]
       ELSE Quit
    /\ UNCHANGED <<world, setup, tally>>

\* The options become those of the ordinary command; a run checks the
\* backend and the executable first.
HandOver ==
    /\ At("confirmed") /\ wizard.looks = Len(Looks(wizard.kind, wizard.parent))
    /\ IF wizard.kind = "run" /\ ~world.tools THEN Quit ELSE Goto("ready")
    /\ UNCHANGED <<world, setup, tally>>

----------------------------------------------------------------------------
\* The ordinary commands.  "done" is their success.

Ready(kind) == At("ready") /\ wizard.kind = kind

\* Capture refuses a clean clone, and without capture a dirty one.
RunTry ==
    /\ Ready("run")
    /\ IF world.source.active /\ (wizard.capture <=> world.clone.dirty # 0)
       THEN Goto("done") ELSE Quit
    /\ UNCHANGED <<world, setup, tally>>

\* The revision is compared with the plan's, and the saved artifacts become
\* references of the conclusion.
OpenTry ==
    /\ Ready("finish")
    /\ IF /\ world.try.rev = wizard.shown.try.rev
          /\ wizard.saved => \A i \in DOMAIN world.attempts : world.attempts[i].saved # "pending"
       THEN wizard' = [wizard EXCEPT !.pc = "opened",
              !.refs = IF wizard.saved
                       THEN {i \in DOMAIN world.attempts : world.attempts[i].saved = "saved"} ELSE {}]
       ELSE Quit
    /\ UNCHANGED <<world, setup, tally>>

Conclude ==
    /\ At("opened")
    /\ IF /\ world.try = wizard.shown.try
          /\ AllEnded(world.attempts)
          /\ wizard.results \subseteq Produced(world.attempts)
       THEN /\ Goto("done")
            /\ world' = [world EXCEPT !.try = [rev |-> @.rev + 1, state |-> "concluded"]]
       ELSE Quit /\ UNCHANGED world
    /\ UNCHANGED <<setup, tally>>

ExpectedRevisions ==
    /\ world.try.rev = wizard.shown.try.rev
    /\ wizard.parent => world.parent = wizard.shown.parent

Adopt ==
    /\ Ready("adopt")
    /\ IF ExpectedRevisions /\ world.try.state = "concluded"
       THEN /\ Goto("done")
            /\ world' = [world EXCEPT !.try = [rev |-> @.rev + 1, state |-> "adopted"]]
       ELSE Quit /\ UNCHANGED world
    /\ UNCHANGED <<setup, tally>>

\* The layer's digest is compared with the reviewed one before the approval.
Trust ==
    /\ Ready("trust")
    /\ IF world.layer = wizard.shown.layer
       THEN Goto("done") /\ world' = [world EXCEPT !.trust = @ + 1]
       ELSE Quit /\ UNCHANGED world
    /\ UNCHANGED <<setup, tally>>

\* Publish or associate a Source, initialise an embedded Project: the modules
\* Sources and ProjectInit have what happens then.
Apply ==
    /\ At("ready") /\ wizard.kind \in {"add", "register", "embedded"}
    /\ IF wizard.kind = "register" /\ ~world.source.active THEN Quit ELSE Goto("done")
    /\ UNCHANGED <<world, setup, tally>>

----------------------------------------------------------------------------
\* The dedicated repository.

Target == world.target
SetTarget(d) == world' = [world EXCEPT !.target = d]

\* ensureDedicatedRepository compares the target once more; a missing one is made.
OpenTarget ==
    /\ Ready("dedicated")
    /\ IF TargetFingerprint(Target) # wizard.shown.target \/ TargetState(Target) = "refused"
       THEN Quit
       ELSE IF TargetState(Target) = "git" THEN Goto("repository")
       ELSE IF wizard.create THEN Goto("target") ELSE Quit
    /\ UNCHANGED <<world, setup, tally>>

\* Mkdir fails when another made the directory; an empty one keeps its identity.
MakeTarget ==
    LET missing == wizard.shown.target.state = "missing" IN
    /\ At("target")
    /\ IF Target.here = missing \/ (~missing /\ Target.id # wizard.shown.target.id)
       THEN Quit /\ UNCHANGED world
       ELSE /\ wizard' = [wizard EXCEPT !.pc = "empty", !.made = missing,
                                        !.id = IF missing THEN Target.id + 1 ELSE Target.id]
            /\ IF missing THEN SetTarget([NoTarget EXCEPT !.here = TRUE, !.id = Target.id + 1])
                          ELSE UNCHANGED world
    /\ UNCHANGED <<setup, tally>>

Ours(d) == d.here /\ d.id = wizard.id

\* cleanupDedicatedGitInit: a directory made here goes with all it holds; of
\* another only the repository, and only when nothing else is there.
CleanUp(invoked) ==
    IF ~Ours(Target) THEN UNCHANGED world
    ELSE IF wizard.made THEN SetTarget([NoTarget EXCEPT !.id = Target.id])
    ELSE IF invoked /\ ~Target.files THEN SetTarget([Target EXCEPT !.git = FALSE])
    ELSE UNCHANGED world

CheckEmpty ==
    /\ At("empty")
    /\ IF Ours(Target) /\ ~Target.git /\ ~Target.files
       THEN Goto("init") /\ UNCHANGED world
       ELSE Quit /\ CleanUp(FALSE)
    /\ UNCHANGED <<setup, tally>>

GitInit ==
    /\ At("init")
    /\ IF Target.here
       THEN Goto("inited") /\ SetTarget([Target EXCEPT !.git = TRUE])
       ELSE Quit /\ UNCHANGED world
    /\ UNCHANGED <<setup, tally>>

\* The postconditions of git init: the same directory, with the repository alone.
CheckRepository ==
    /\ At("inited")
    /\ IF Ours(Target) /\ Target.git /\ ~Target.files
       THEN Goto("repository") /\ UNCHANGED world
       ELSE Quit /\ CleanUp(TRUE)
    /\ UNCHANGED <<setup, tally>>

\* The Project is initialised unless it is there, then the workspace is
\* registered, the Source looked up or published, its clone associated.
InitializeProject ==
    /\ At("repository")
    /\ IF Target.git THEN Goto("project") /\ setup' = [setup EXCEPT !.project = TRUE]
                     ELSE Quit /\ UNCHANGED setup
    /\ UNCHANGED <<world, tally>>

RegisterProject ==
    /\ At("project")
    /\ Goto("workspace") /\ setup' = [setup EXCEPT !.workspace = TRUE]
    /\ UNCHANGED <<world, tally>>

SourceMatchesPlan == setup.source \in {"none", "planned"}
PublishSource ==
    /\ At("workspace")
    /\ IF SourceMatchesPlan THEN Goto("source") /\ setup' = [setup EXCEPT !.source = "planned"]
                            ELSE Quit /\ UNCHANGED setup
    /\ UNCHANGED <<world, tally>>

AssociateSource ==
    /\ At("source")
    /\ Goto("done") /\ setup' = [setup EXCEPT !.clone = TRUE]
    /\ UNCHANGED <<world, tally>>

\* The process is killed, or the person leaves after a success.
Exit ==
    /\ wizard # Nothing
    /\ Quit /\ UNCHANGED <<world, setup, tally>>

----------------------------------------------------------------------------
\* Everyone else.  While a wizard is past its confirmation, the things that
\* have been as shown since then are remembered.  What others did before is in
\* the initial states.

Confirmed == wizard # Nothing /\ wizard.pc \notin {"asked", "review"}
Turn ==
    /\ wizard # Nothing /\ tally.changes < MaxChanges
    /\ tally' = [tally EXCEPT !.changes = @ + 1]
Change(things) ==
    /\ Turn
    /\ world' = things
    /\ wizard' = IF Confirmed THEN [wizard EXCEPT !.since = @ \cup AsShown(things)] ELSE wizard
    /\ UNCHANGED setup

AmendRevision == \E t \in Revisions : Change([world EXCEPT ![t] = @ + 1])
AmendSource ==
    \E a \in BOOLEAN : Change([world EXCEPT !.source = [rev |-> @.rev + 1, active |-> a]])
WorkInClone ==
    \E c \in {[head |-> world.clone.head + 1, dirty |-> 0], [world.clone EXCEPT !.dirty = 0],
              [world.clone EXCEPT !.dirty = @ + 1]} :
      c # world.clone /\ Change([world EXCEPT !.clone = c])
LoseTools == Change([world EXCEPT !.tools = ~@])

TouchTarget ==
    \E d \in IF Target.here
              THEN {[NoTarget EXCEPT !.id = Target.id], [Target EXCEPT !.git = TRUE],
                    [Target EXCEPT !.files = ~@]}
              ELSE {[NoTarget EXCEPT !.here = TRUE, !.id = Target.id + 1]} :
      d # Target /\ Change([world EXCEPT !.target = d])

AddAttempt ==
    /\ world.try.state = "open"
    /\ Change([world EXCEPT !.attempts = Append(@, Attempt("running", FALSE, "none"))])
EndAttempt ==
    \E i \in DOMAIN world.attempts, d \in BOOLEAN, s \in {"none", "pending"} :
      /\ world.attempts[i].state = "running"
      /\ Change([world EXCEPT !.attempts[i] = Attempt("ended", d, s)])
SaveResults ==
    \E i \in DOMAIN world.attempts :
      /\ world.attempts[i].saved = "pending"
      /\ Change([world EXCEPT !.attempts[i].saved = "saved"])
AmendTry ==
    \E s \in {"open", "concluded", "adopted", "abandoned"} :
      /\ <<world.try.state, s>> \in {<<"open", "open">>, <<"open", "concluded">>,
            <<"open", "abandoned">>, <<"concluded", "concluded">>, <<"concluded", "adopted">>}
      /\ s = "concluded" => AllEnded(world.attempts)
      /\ Change([world EXCEPT !.try = [rev |-> @.rev + 1, state |-> s]])

\* Another publishes a Source under the planned key, or amends the planned one.
AmendSetup ==
    /\ Turn
    /\ setup.project /\ setup' = [setup EXCEPT !.source = "other"]
    /\ UNCHANGED <<world, wizard>>

GuidedNext ==
    \/ AskTryRun \/ AskTryFinish \/ AskTryAdopt \/ AskConfigTrust \/ AskSourceAdd
    \/ AskSourceRegister \/ AskEmbedded \/ AskDedicated
    \/ PlanTryRun \/ PlanTryFinish \/ PlanTryAdopt \/ PlanDedicated
    \/ PlanConfigTrust \/ PlanSourceAdd \/ PlanSourceRegister \/ PlanEmbedded
    \/ RequireConfirmation \/ Cancel \/ Revalidate \/ HandOver \/ Exit
    \/ RunTry \/ OpenTry \/ Conclude \/ Adopt \/ Trust \/ Apply
    \/ OpenTarget \/ MakeTarget \/ CheckEmpty \/ GitInit \/ CheckRepository
    \/ InitializeProject \/ RegisterProject \/ PublishSource \/ AssociateSource
    \/ AmendRevision \/ AmendSource \/ WorkInClone \/ LoseTools \/ TouchTarget
    \/ AddAttempt \/ EndAttempt \/ SaveResults \/ AmendTry \/ AmendSetup

GuidedSpec == GuidedInit /\ [][GuidedNext]_guidedVars

----------------------------------------------------------------------------
\* Properties.

\* A guided command that succeeds has done what its plan showed.  Everything
\* the plan rests on was as shown at some moment after the confirmation, so
\* nothing that changed while the person was reading is acted on; the Try, the
\* parent Idea and the trusted digest that are written are exactly the shown
\* ones; a run captures edits if and only if the plan said so; a conclusion has
\* the chosen results, which the Attempts of the plan produced, and no other
\* reference unless --saved-results asked for them; and a new dedicated
\* repository holds nothing but what was made for it.
ReviewedIsDone ==
    LET w == wizard'
        after == wizard # Nothing /\ w # Nothing /\ wizard.pc # w.pc
        done == after /\ w.pc = "done"
    IN /\ done => DOMAIN w.shown = w.since
       /\ done /\ w.kind \in {"finish", "adopt"} => world.try = w.shown.try
       /\ done /\ w.parent => world.parent = w.shown.parent
       /\ done /\ w.kind = "trust" => world.layer = w.shown.layer
       /\ done /\ w.kind = "run" => (w.capture <=> world.clone.dirty # 0)
       /\ done /\ w.kind = "finish" =>
            /\ w.results \subseteq Produced(w.shown.attempts)
            /\ w.refs # {} => w.saved
       /\ after /\ w.pc = "repository" /\ w.create => Ours(world.target) /\ ~world.target.files

=============================================================================
