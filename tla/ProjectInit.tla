---------------------------- MODULE ProjectInit ----------------------------
(***************************************************************************)
(* The initialisation of a Project: internal/project (init.go, receipt.go  *)
(* and discover.go), the worktree list of internal/gitx and the embedded   *)
(* form of "exp init".  The worktrees of one repository share a lock and a *)
(* private receipt beside the Git common directory; each has a directory   *)
(* experiments/ of its own that Git and people change without the lock.    *)
(*                                                                         *)
(* A marker is the content of PROJECT.md: an identity and a text.  Every   *)
(* command may die between two steps; the lock is released by its death.   *)
(***************************************************************************)
EXTENDS Naturals, FiniteSets

CONSTANTS
    Starters,     \* processes of "exp init"
    Trees,        \* linked worktrees of the repository
    Nil,          \* no marker, no content, no command, nobody
    MaxInits, MaxOutside, MaxDeaths   \* bounds on commands, outside changes and deaths

\* A lock that nobody holds is held by no process.
Lockable == Nil \notin Starters

VARIABLES
    tree,       \* what stands in each worktree
    history,    \* contents of PROJECT.md that Git can check out
    pledge,     \* the receipt: its state and the content it promises
    holder,     \* who holds the lock of the Git common directory
    init,       \* the command of each user
    minted,     \* history: new identities that were published
    tampered,   \* history: the receipt was "kept", "damaged" or "removed" by hand
    tally       \* commands, outside changes and deaths so far

initVars == <<tree, history, pledge, holder, init, minted, tampered, tally>>

Unplugged == {w \in Trees : ~tree[w].here}
Marked(w) == tree[w].marker # Nil
IsNothing(x) == x = Nil
NoPledge == [state |-> "none", content |-> Nil]

\* An old Project may be in the history, and checked out; the receipt is local,
\* so a fresh clone has none.
Old == [id |-> 0, text |-> 0]
ProjectInitInit ==
    /\ history \in {{}, {Old}}
    /\ \E old \in SUBSET Trees :
         /\ history = {} => old = {}
         /\ tree = [w \in Trees |->
                      [here |-> TRUE, marker |-> IF w \in old THEN Old ELSE Nil,
                       dirs |-> IF w \in old THEN 2 ELSE 0, temp |-> FALSE, other |-> "none"]]
    /\ pledge = NoPledge
    /\ holder = Nil
    /\ init = [u \in Starters |-> Nil]
    /\ minted = {}
    /\ tampered = "kept"
    /\ tally = [inits |-> 0, outside |-> 0, crashes |-> 0]

Stands(u, pc) == ~IsNothing(init[u]) /\ init[u].pc = pc
Continue(u, i) == init' = [init EXCEPT ![u] = i]
Onward(u, pc) == Continue(u, [init[u] EXCEPT !.pc = pc])
Site(u) == init[u].at
EndInit(u) == Continue(u, Nil) /\ holder' = Nil
Change(w, t) == tree' = [tree EXCEPT ![w] = t]
history4 == <<history, minted, tampered, tally>>
\* An error of a command that holds the lock.
RefuseInit(u) == EndInit(u) /\ UNCHANGED <<tree, pledge, history4>>
StepTo(u, pc) == Onward(u, pc) /\ UNCHANGED <<tree, pledge, holder, history4>>

----------------------------------------------------------------------------
(***************************************************************************)
(* Discovery                                                               *)
(***************************************************************************)
BeginInit(u, w) ==
    /\ IsNothing(init[u]) /\ tally.inits < MaxInits
    /\ tree[w].here
    /\ tally' = [tally EXCEPT !.inits = @ + 1]
    /\ Continue(u, [pc |-> "lock", at |-> w, todo |-> {}, found |-> {}, own |-> Nil,
                    absent |-> {}, read |-> NoPledge, chosen |-> Nil])
    /\ UNCHANGED <<tree, pledge, holder, history, minted, tampered>>

\* The worktrees Git lists; those whose directory is gone are watched, not read.
ListWorktrees(u) ==
    /\ Stands(u, "lock") /\ IsNothing(holder)
    /\ holder' = u
    /\ Continue(u, [init[u] EXCEPT !.pc = "scan", !.absent = Unplugged \ {Site(u)},
                                   !.todo = (Trees \ Unplugged) \cup {Site(u)}])
    /\ UNCHANGED <<tree, pledge, history4>>

ReadMarker(u, w) ==
    /\ Stands(u, "scan") /\ w \in init[u].todo
    /\ IF tree[w].here
       THEN /\ Continue(u, [init[u] EXCEPT !.todo = @ \ {w},
                              !.found = IF Marked(w) THEN @ \cup {tree[w].marker} ELSE @,
                              !.own = IF w = Site(u) THEN tree[w].marker ELSE @])
            /\ UNCHANGED <<tree, pledge, holder, history4>>
       ELSE RefuseInit(u)

\* A directory Git had listed as gone must stay gone.
StillMissing(u) == \A w \in init[u].absent : ~tree[w].here

OneIdentity(found) == \A m, n \in found : m.id = n.id

\* The Project of this worktree, or of any other one that has it.
Canonical(i) == IF ~IsNothing(i.own) THEN {i.own} ELSE i.found

SelectProject(u) ==
    /\ Stands(u, "scan") /\ init[u].todo = {}
    /\ IF StillMissing(u) /\ OneIdentity(init[u].found) THEN StepTo(u, "receipt") ELSE RefuseInit(u)

----------------------------------------------------------------------------
(***************************************************************************)
(* The receipt and the classification of the directory                     *)
(***************************************************************************)
LookAtReceipt(u) ==
    /\ Stands(u, "receipt")
    /\ Continue(u, [init[u] EXCEPT !.read = pledge,
                                   !.pc = IF IsNothing(init[u].own) THEN "clean" ELSE "choose"])
    /\ UNCHANGED <<tree, pledge, holder, history4>>

\* Temporaries of a dead command are removed only where a Project is known.
CleanTemps(u) ==
    LET w == Site(u)
        known == init[u].read.state = "good" \/ init[u].found # {}
    IN /\ Stands(u, "clean")
       /\ Change(w, [tree[w] EXCEPT !.temp = @ /\ ~known])
       /\ Onward(u, "classify")
       /\ UNCHANGED <<pledge, holder, history4>>

\* Absent, empty, or only the empty directories of the layout.
AbsentOrEmpty(t) == t.here /\ IsNothing(t.marker) /\ ~t.temp /\ t.other = "none"

Classify(u) ==
    /\ Stands(u, "classify")
    /\ IF AbsentOrEmpty(tree[Site(u)]) THEN StepTo(u, "choose") ELSE RefuseInit(u)

\* The Project to publish: the canonical one, the promised one or a new one.
Choose(u) ==
    LET i == init[u]
        next(m, pc) ==
            /\ Continue(u, [i EXCEPT !.chosen = m, !.pc = pc])
            /\ UNCHANGED <<tree, pledge, holder, history4>>
        after == IF IsNothing(i.own) THEN "directories" ELSE "ensure"
    IN /\ Stands(u, "choose")
       /\ \/ /\ i.found # {}
             /\ \E m \in Canonical(i) :
                  IF i.read = [state |-> "good", content |-> m]
                  THEN next(m, after) ELSE next(m, "promise")
          \/ i.found = {} /\ i.read.state = "good" /\ next(i.read.content, after)
          \/ i.found = {} /\ i.read.state = "damaged" /\ RefuseInit(u)
          \/ /\ i.found = {} /\ i.read.state = "none"
             /\ next([id |-> tally.inits, text |-> 0], "promise")

\* Faulty variant: the receipt is left for after the Project.
PromiseLater(u) ==
    Stands(u, "promise") /\ StepTo(u, IF IsNothing(init[u].own) THEN "directories" ELSE "ensure")

\* The receipt is published, durable, before anything of the Project.  It is
\* written over the file that was read and no other.
WriteReceipt(u) ==
    /\ Stands(u, "promise")
    /\ IF pledge = init[u].read /\ StillMissing(u)
       THEN /\ pledge' = [state |-> "good", content |-> init[u].chosen]
            /\ tampered' = IF tampered = "damaged" THEN "kept" ELSE tampered
            /\ Onward(u, IF IsNothing(init[u].own) THEN "directories" ELSE "ensure")
            /\ UNCHANGED <<tree, holder, history, minted, tally>>
       ELSE RefuseInit(u)

----------------------------------------------------------------------------
(***************************************************************************)
(* Publication                                                             *)
(***************************************************************************)
\* The directories are created one after another; those that exist are kept.
EnsureDirectory(u) ==
    LET w == Site(u) IN
    /\ \E pc \in {"directories", "ensure"} : Stands(u, pc)
    /\ IF ~tree[w].here THEN RefuseInit(u)
       ELSE IF tree[w].dirs < 2
       THEN /\ Change(w, [tree[w] EXCEPT !.dirs = @ + 1])
            /\ UNCHANGED <<pledge, holder, init, history4>>
       ELSE StepTo(u, IF Stands(u, "ensure") THEN "existing" ELSE "again")

\* A Project that was there: only its directories and left-over temporaries.
KeepExisting(u) ==
    LET w == Site(u) IN
    /\ Stands(u, "existing")
    /\ tree' = IF tree[w].here THEN [tree EXCEPT ![w].temp = FALSE] ELSE tree
    /\ EndInit(u)
    /\ UNCHANGED <<pledge, history4>>

ClassifyAgain(u) ==
    /\ Stands(u, "again")
    /\ IF AbsentOrEmpty(tree[Site(u)]) THEN StepTo(u, "temp") ELSE RefuseInit(u)

WriteTemp(u) ==
    LET w == Site(u) IN
    /\ Stands(u, "temp")
    /\ IF tree[w].here /\ ~Marked(w) /\ StillMissing(u)
       THEN /\ Change(w, [tree[w] EXCEPT !.temp = TRUE])
            /\ Onward(u, "publish")
            /\ UNCHANGED <<pledge, holder, history4>>
       ELSE RefuseInit(u)

\* A link, never a rename: it fails where a file has appeared meanwhile.
PublishMarker(u) ==
    LET w == Site(u) i == init[u] IN
    /\ Stands(u, "publish")
    /\ tree[w].here /\ ~Marked(w) /\ StillMissing(u)
    /\ Change(w, [tree[w] EXCEPT !.temp = FALSE, !.marker = i.chosen])
    /\ history' = history \cup {i.chosen}
    /\ minted' = IF i.chosen.id # Old.id THEN minted \cup {i.chosen.id} ELSE minted
    /\ Onward(u, "verify")
    /\ UNCHANGED <<pledge, holder, tampered, tally>>

PublishFails(u) ==
    LET w == Site(u) IN
    /\ Stands(u, "publish")
    /\ ~(tree[w].here /\ ~Marked(w) /\ StillMissing(u))
    /\ tree' = IF tree[w].here THEN [tree EXCEPT ![w].temp = FALSE] ELSE tree
    /\ EndInit(u)
    /\ UNCHANGED <<pledge, history4>>

\* Success, or the report that the Project was published all the same.
Verified(u) == Stands(u, "verify") /\ RefuseInit(u)

----------------------------------------------------------------------------
(***************************************************************************)
(* Deaths, Git and people                                                  *)
(***************************************************************************)
DieInit(u) ==
    /\ ~IsNothing(init[u]) /\ tally.crashes < MaxDeaths
    /\ Continue(u, Nil)
    /\ holder' = IF holder = u THEN Nil ELSE holder
    /\ tally' = [tally EXCEPT !.crashes = @ + 1]
    /\ UNCHANGED <<tree, pledge, history, minted, tampered>>

Beyond ==
    /\ tally.outside < MaxOutside
    /\ tally' = [tally EXCEPT !.outside = @ + 1]
    /\ UNCHANGED <<holder, init, minted>>

\* A commit with a Project, or without one, is checked out.
Checkout(w, m) ==
    /\ Beyond
    /\ tree[w].here /\ tree[w].marker # m
    /\ Change(w, [tree[w] EXCEPT !.marker = m, !.dirs = IF IsNothing(m) THEN @ ELSE 2])
    /\ UNCHANGED <<history, pledge, tampered>>

\* The Project is given another name.
Retitle(w) ==
    /\ Beyond
    /\ tree[w].here /\ Marked(w) /\ tree[w].marker.text = 0
    /\ Change(w, [tree[w] EXCEPT !.marker.text = 1])
    /\ history' = history \cup {tree'[w].marker}
    /\ UNCHANGED <<pledge, tampered>>

\* The disk of a worktree goes away, or comes back.
Unplug(w) ==
    /\ Beyond
    /\ Change(w, [tree[w] EXCEPT !.here = ~@])
    /\ UNCHANGED <<history, pledge, tampered>>

Litter(w) ==
    /\ Beyond
    /\ tree[w].here /\ tree[w].other = "none"
    /\ Change(w, [tree[w] EXCEPT !.other = "unrelated"])
    /\ UNCHANGED <<history, pledge, tampered>>

SpoilReceipt(state) ==
    /\ Beyond
    /\ pledge.state = "good"
    /\ pledge' = IF state = "removed" THEN NoPledge ELSE [pledge EXCEPT !.state = "damaged"]
    /\ tampered' = IF tampered = "removed" THEN tampered ELSE state
    /\ UNCHANGED <<tree, history>>

ProjectInitNext ==
    \/ \E u \in Starters :
         \/ ListWorktrees(u) \/ SelectProject(u) \/ LookAtReceipt(u) \/ CleanTemps(u)
         \/ Classify(u) \/ Choose(u) \/ WriteReceipt(u) \/ EnsureDirectory(u)
         \/ KeepExisting(u) \/ ClassifyAgain(u) \/ WriteTemp(u) \/ PublishMarker(u)
         \/ PublishFails(u) \/ Verified(u) \/ DieInit(u)
         \/ \E w \in Trees : BeginInit(u, w) \/ ReadMarker(u, w)
    \/ \E w \in Trees :
         \/ Retitle(w) \/ Unplug(w) \/ Litter(w)
         \/ \E m \in history \cup {Nil} : Checkout(w, m)
    \/ \E state \in {"damaged", "removed"} : SpoilReceipt(state)

ProjectInitSpec == ProjectInitInit /\ [][ProjectInitNext]_initVars

----------------------------------------------------------------------------
OneProjectStep ==
    \A u \in Starters :
      (Stands(u, "publish") /\ ~IsNothing(init'[u]) /\ init'[u].pc = "verify") =>
        /\ IsNothing(tree[Site(u)].marker)
        /\ tampered # "removed" => Cardinality(minted') <= 1
        /\ tampered = "kept" => pledge = [state |-> "good", content |-> init[u].chosen]

\* However often "exp init" is run in however many worktrees, and wherever it
\* dies, it makes one Project: it publishes PROJECT.md only where there is
\* none, never a second new identity unless somebody removed the receipt, and
\* what it publishes is what the receipt, left alone, promises to the next one.
OneProject == [][OneProjectStep]_initVars

============================================================================
