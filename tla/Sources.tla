------------------------------- MODULE Sources -------------------------------
(***************************************************************************)
(* Sources, the clones registered for them on a host, and the Source that  *)
(* a directory belongs to: internal/source, internal/workspace and their   *)
(* commands.                                                               *)
(*                                                                         *)
(* A Source is a canonical record.  Which clone it means on this host is   *)
(* kept in one private file, together with the clone of the Project whose  *)
(* records count.  Publishing a Source, registering its Project and        *)
(* registering its clone are separate writes, and clones are moved,        *)
(* replaced and pointed at other remotes by anyone at any time.            *)
(***************************************************************************)
EXTENDS Integers, FiniteSets

CONSTANTS
    Hands,        \* processes that run commands
    SourceIDs, Keys, Locators,
    Homes,        \* clones of the one Project, each with records of its own
    Roots, Depth, \* clones of code, nested in one another, and how deep
    Elder, Outer, Hint,   \* at first: a Source, its clone and its hint
    Leisure,      \* a hand without a command
    MaxErrands, MaxMoves   \* bounds on the commands and on changes of clones

\* What there is at first, and how deep clones lie.
Placed ==
    /\ Homes # {} /\ Keys # {}
    /\ Elder \in SourceIDs /\ Outer \in Roots /\ Hint \in Locators
    /\ Depth \in [Roots -> Nat]

VARIABLES
    sources,    \* the Source records of each home
    clones,     \* filesystem identity and remotes of the clone at each root
    registry,   \* the private file: the home, and the clone of each Source
    errand,     \* the command each hand runs, and what it has read
    errands, moves

sourceVars == <<sources, clones, registry, errand, errands, moves>>

Unnamed == "unnamed"
Unregistered == [root |-> "none"]
Registered(s) == registry.clone[s] # Unregistered

(***************************************************************************)
(* Validation of a clone                                                   *)
(***************************************************************************)
\* What an inspection of the clone at r shows.
Remotes(r) == clones[r].remotes

\* A clone is recognised by a remote, unless its Source is local only.
Matched(src, remotes) == src.hints \cap remotes
Recognised(src, remotes) == src.hints # {} => Matched(src, remotes) # {}

\* A registration holds while the same directory is there, some remote is
\* still a hint, and the hints it was made with are still in the record.
Current(src, entry) ==
    /\ clones[entry.root].identity = entry.identity
    /\ Recognised(src, Remotes(entry.root))
    /\ entry.hints \subseteq src.hints

Known(h, s) == s \in DOMAIN sources[h]
NewIDs == {s \in SourceIDs : \A h \in Homes : ~Known(h, s)}

KeysUnique(records) ==
    \A s, t \in DOMAIN records : records[s].key = records[t].key => s = t

(***************************************************************************)
(* Publication of a Source                                                 *)
(***************************************************************************)
AtLeisure(u) == errand[u] = Leisure /\ errands < MaxErrands
SetErrand(u, e) == errand' = [errand EXCEPT ![u] = e]
Begin(u, e) == SetErrand(u, e) /\ errands' = errands + 1

\* The hints are those asked for and the remotes that were seen; a Source
\* with hints must show one of them.
Plannable(r, asked) == asked # {} => Remotes(r) # {}
Planned(r, key, asked) == [key |-> key, active |-> TRUE, hints |-> asked \cup Remotes(r)]

PlanAdd(u, h, r, key, asked) ==
    /\ AtLeisure(u)
    /\ \A s \in DOMAIN sources[h] : sources[h][s].key # key
    /\ Plannable(r, asked)
    /\ Begin(u, [at |-> "publish", home |-> h, root |-> r, value |-> Planned(r, key, asked)])
    /\ UNCHANGED <<sources, clones, registry, moves>>

\* The inventory that would result is validated under the lock.
Add(u) ==
    /\ errand[u] # Leisure /\ errand[u].at = "publish"
    /\ NewIDs # {}
    /\ LET e == errand[u]
           s == CHOOSE s \in NewIDs : TRUE
           after == [t \in DOMAIN sources[e.home] \cup {s} |->
                       IF t = s THEN e.value ELSE sources[e.home][t]]
       IN  IF KeysUnique(after)
           THEN /\ sources' = [sources EXCEPT ![e.home] = after]
                /\ SetErrand(u, [at |-> "project", home |-> e.home, root |-> e.root, source |-> s])
           ELSE /\ SetErrand(u, Leisure)
                /\ UNCHANGED sources
    /\ UNCHANGED <<clones, registry, errands, moves>>

\* `source register` starts where `source add` has published.
PlanRegister(u, h, s, r) ==
    /\ AtLeisure(u) /\ Known(h, s) /\ sources[h][s].active
    /\ Begin(u, [at |-> "project", home |-> h, root |-> r, source |-> s])
    /\ UNCHANGED <<sources, clones, registry, moves>>

Appended(src, l) == [src EXCEPT !.hints = @ \cup {l}]
Retired(src) == [src EXCEPT !.active = FALSE]

\* Both updates name the revision they read, which makes them one step.
AppendLocator(u, h, s, l) ==
    /\ AtLeisure(u) /\ Known(h, s) /\ l \notin sources[h][s].hints
    /\ sources' = [sources EXCEPT ![h][s] = Appended(@, l)]
    /\ errands' = errands + 1
    /\ UNCHANGED <<clones, registry, errand, moves>>

Retire(u, h, s) ==
    /\ AtLeisure(u) /\ Known(h, s) /\ sources[h][s].active
    /\ sources' = [sources EXCEPT ![h][s] = Retired(@)]
    /\ errands' = errands + 1
    /\ UNCHANGED <<clones, registry, errand, moves>>

(***************************************************************************)
(* Registration                                                            *)
(***************************************************************************)
\* The Project of the command becomes the one that counts.
RegisterProject(u) ==
    /\ errand[u] # Leisure /\ errand[u].at = "project"
    /\ registry' = [registry EXCEPT !.home = errand[u].home]
    /\ SetErrand(u, [errand[u] EXCEPT !.at = "inspect"])
    /\ UNCHANGED <<sources, clones, errands, moves>>

\* The clone is validated against the record in the home that counts now.
InspectClone(u) ==
    /\ errand[u] # Leisure /\ errand[u].at = "inspect"
    /\ LET e == errand[u]
           h == registry.home
       IN  IF Known(h, e.source) /\ Recognised(sources[h][e.source], Remotes(e.root))
           THEN SetErrand(u, [at |-> "associate", home |-> h, source |-> e.source,
                        entry |-> [root |-> e.root, identity |-> clones[e.root].identity,
                                   hints |-> Matched(sources[h][e.source], Remotes(e.root))]])
           ELSE SetErrand(u, Leisure)
    /\ UNCHANGED <<sources, clones, registry, errands, moves>>

\* Under the lock of the file the home and the directory must be the same.
Unmoved(e) ==
    /\ registry.home = e.home
    /\ clones[e.entry.root].identity = e.entry.identity

RegisterSource(u) ==
    /\ errand[u] # Leisure /\ errand[u].at = "associate"
    /\ registry' = IF Unmoved(errand[u])
                   THEN [registry EXCEPT !.clone[errand[u].source] = errand[u].entry]
                   ELSE registry
    /\ SetErrand(u, Leisure)
    /\ UNCHANGED <<sources, clones, errands, moves>>

(***************************************************************************)
(* Resolution of a directory                                               *)
(***************************************************************************)
\* The command stands in the clone at r, and in all that contain it, or names
\* a Source of the home it stands in.
ListAssociations(u, r, h, key) ==
    /\ AtLeisure(u)
    /\ Begin(u, [at |-> "resolve", root |-> r, key |-> key, home |-> h, listed |-> registry])
    /\ UNCHANGED <<sources, clones, registry, moves>>

Containing(e) ==
    {s \in SourceIDs : /\ e.listed.clone[s] # Unregistered
                       /\ Depth[e.listed.clone[s].root] <= Depth[e.root]}
Deep(e, s) == Depth[e.listed.clone[s].root]

\* A retired Source is passed over; a record or a clone that does not fit is
\* reported, unless a deeper Source answers.
Stale(e) ==
    {s \in Containing(e) :
        \/ ~Known(e.listed.home, s)
        \/ /\ sources[e.listed.home][s].active
           /\ ~Current(sources[e.listed.home][s], e.listed.clone[s])}
Fitting(e) ==
    {s \in Containing(e) \ Stale(e) : sources[e.listed.home][s].active}
Deepest(e) == {s \in Fitting(e) : \A t \in Fitting(e) : Deep(e, t) <= Deep(e, s)}

\* Faulty variant: what is stale never stands in the way.
AnswerWithin(e) ==
    IF Cardinality(Deepest(e)) = 1 THEN Deepest(e) ELSE {}

\* One answer or none: nothing stale at least as deep, nothing as deep.
Answer(e) ==
    {s \in Deepest(e) : /\ Deepest(e) = {s}
                        /\ \A t \in Stale(e) : Deep(e, t) < Deep(e, s)}

\* A Source that is named must be in use and its clone in place.
Explicit(e) ==
    {s \in DOMAIN sources[e.home] :
        LET src == sources[e.home][s]
            entry == e.listed.clone[s]
        IN  /\ src.key = e.key /\ src.active
            /\ entry # Unregistered /\ Current(src, entry)}

\* The answer is kept for one step, which stands for the use made of it.
Resolve(u) ==
    /\ errand[u] # Leisure /\ errand[u].at = "resolve"
    /\ LET e == errand[u]
           found == IF e.key = Unnamed THEN Answer(e) ELSE Explicit(e)
       IN  IF found = {} THEN SetErrand(u, Leisure)
           ELSE \E s \in found :
                  SetErrand(u, [at |-> "use", root |-> e.root, key |-> e.key, home |-> e.home,
                               listed |-> e.listed, source |-> s])
    /\ UNCHANGED <<sources, clones, registry, errands, moves>>

UseSource(u) ==
    /\ errand[u] # Leisure /\ errand[u].at = "use"
    /\ SetErrand(u, Leisure)
    /\ UNCHANGED <<sources, clones, registry, errands, moves>>

(***************************************************************************)
(* Clones change, and commands die between two writes                      *)
(***************************************************************************)
MoveClone(r) ==
    /\ moves < MaxMoves
    /\ \/ clones' = [clones EXCEPT ![r].identity = @ + 1]
       \/ \E l \in Locators \ {Hint} : clones' = [clones EXCEPT ![r].remotes = {l}]
    /\ moves' = moves + 1
    /\ UNCHANGED <<sources, registry, errand, errands>>

Interrupt(u) ==
    /\ errand[u] # Leisure /\ errand[u].at \in {"project", "inspect"}
    /\ SetErrand(u, Leisure)
    /\ UNCHANGED <<sources, clones, registry, errands, moves>>

SourcesInit ==
    /\ sources = [h \in Homes |-> [s \in {Elder} |->
                    [key |-> CHOOSE k \in Keys : TRUE, active |-> TRUE, hints |-> {Hint}]]]
    /\ clones = [r \in Roots |-> [identity |-> 1, remotes |-> {Hint}]]
    /\ registry = [home |-> CHOOSE h \in Homes : TRUE,
                   clone |-> [s \in SourceIDs |->
                      IF s = Elder THEN [root |-> Outer, identity |-> 1, hints |-> {Hint}]
                      ELSE Unregistered]]
    /\ errand = [u \in Hands |-> Leisure]
    /\ errands = 0 /\ moves = 0

SourcesNext ==
    \/ \E u \in Hands :
         \/ \E h \in Homes, r \in Roots, key \in Keys, asked \in SUBSET (Locators \ {Hint}) :
                PlanAdd(u, h, r, key, asked)
         \/ \E h \in Homes, s \in SourceIDs :
              \/ \E r \in Roots : PlanRegister(u, h, s, r)
              \/ \E l \in Locators : AppendLocator(u, h, s, l)
              \/ Retire(u, h, s)
         \/ \E r \in Roots, h \in Homes, key \in Keys \cup {Unnamed} :
                (key # Unnamed => Depth[r] = 1) /\ ListAssociations(u, r, h, key)
         \/ Add(u) \/ RegisterProject(u) \/ InspectClone(u) \/ RegisterSource(u)
         \/ Resolve(u) \/ UseSource(u) \/ Interrupt(u)
    \/ \E r \in Roots : MoveClone(r)

SourcesSpec == SourcesInit /\ [][SourcesNext]_sourceVars

(***************************************************************************)
(* Properties                                                              *)
(***************************************************************************)
\* A clone is registered for a Source only while the Project that counts has
\* that Source, whichever home other commands make count meanwhile.
RegistrationGrounded ==
    \A s \in SourceIDs :
        registry'.clone[s] # registry.clone[s] => s \in DOMAIN sources'[registry'.home]

\* A directory is attributed to a Source only if the clone is the registered
\* one and no Source in use was registered for a clone as deep or deeper, be
\* it that its clone has changed since.
RightSource ==
    \A u \in Hands :
      errand'[u] # errand[u] /\ errand'[u] # Leisure /\ errand'[u].at = "use" =>
        LET e == errand'[u]
            records == sources[IF e.key = Unnamed THEN e.listed.home ELSE e.home]
        IN  /\ records[e.source].active
            /\ clones[e.listed.clone[e.source].root].identity = e.listed.clone[e.source].identity
            /\ e.key = Unnamed => \A t \in Containing(e) \ {e.source} :
                 (t \in DOMAIN records => records[t].active) => Deep(e, t) < Deep(e, e.source)

\* Changing records never turns a sound registration stale: only the clone
\* itself, or another home, can.  (A Source without hints is the exception:
\* its first hint may be one that its clone does not have.)
RecordsKeepFaith ==
    clones' = clones /\ registry' = registry =>
        \A s \in SourceIDs : /\ Registered(s) /\ Known(registry.home, s)
                          /\ sources[registry.home][s].hints # {} =>
           (Current(sources[registry.home][s], registry.clone[s]) =>
               Current(sources'[registry.home][s], registry.clone[s]))

\* From its registration to its use, a clone stands for the right Source.
MeansSource == RegistrationGrounded /\ RightSource /\ RecordsKeepFaith
CloneMeansSource == [][MeansSource]_sourceVars

=============================================================================
