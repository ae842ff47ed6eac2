---------------------------- MODULE Projections ----------------------------
(***************************************************************************)
(* The generated views of a Project: the scan of the records and its       *)
(* snapshot (internal/record/inventory.go), the four pages built from them *)
(* and their check and publication (internal/projection), and the command  *)
(* around both (internal/cli/projection_service.go).                       *)
(*                                                                         *)
(* A command holds the lock of the Git common directory, which keeps other *)
(* commands out, and not the editors of people: a person may change any    *)
(* record and any page between two steps.                                  *)
(***************************************************************************)
EXTENDS Naturals, FiniteSets, Sequences, Functions

CONSTANTS
    Users,     \* processes of "exp render" and "exp check"
    Files,     \* record files in the order of their paths
    KindOf,    \* the kind of the record each file may hold
    Drafts,    \* what each file may contain: records, Unreadable or Nothing
    Nothing, Unreadable,
    EditedPages,    \* bound: the pages that people change
    MaxCommands, MaxEdits   \* bounds on commands, and on changes of records and pages

VARIABLES
    records,   \* content of each record file
    clutter,   \* other things found among the records
    page,      \* the generated files: their text and identity
    mutex,     \* who holds the lock
    command,   \* the command of each user
    used       \* commands and changes so far

projectionVars == <<records, clutter, page, mutex, command, used>>

Ids == Range(Files)

----------------------------------------------------------------------------
(***************************************************************************)
(* A valid inventory                                                       *)
(***************************************************************************)
Present(docs) == {i \in Ids : docs[i] # Nothing}
OfKind(docs, k) == {i \in Present(docs) : KindOf[i] = k}
To(docs, i, field) ==
    IF field \in DOMAIN docs[i].links THEN docs[i].links[field] ELSE {}

\* The references of each kind of record and the kinds they may point to.
References == [
    source |-> [none |-> {}], pool |-> [none |-> {}],
    try |-> [sources |-> {"source"}, adopted_idea |-> {"idea"}],
    idea |-> [parents |-> {"idea"}, resulting_plan |-> {"plan"}, merged_into |-> {"idea"},
              origin_try |-> {"try"}],
    queue |-> [pools |-> {"pool"}, entries |-> {"plan"}],
    advice |-> [queue |-> {"queue"}, candidate_plan |-> {"plan"}, pool |-> {"pool"},
                listwise_order |-> {"plan"}],
    battle |-> [queue |-> {"queue"}, advice |-> {"advice"}, candidate_plan |-> {"plan"},
                incumbent_plan |-> {"plan"}, pool |-> {"pool"}],
    plan |-> [assumptions |-> {"finding"}, resulting_experiment |-> {"experiment"},
              idea |-> {"idea"}, dependencies |-> {"finding"}, resources |-> {"pool"}],
    experiment |-> [parents |-> {"experiment"}, candidate_inputs |-> {"candidate"},
                    superseded_by |-> {"experiment"}, conclusion |-> {"run"}],
    run |-> [experiment |-> {"experiment"}],
    attempt |-> [retry_of |-> {"attempt"}, run |-> {"run"}, try |-> {"try"}, pool |-> {"pool"},
                 queue |-> {"queue"}, snapshots |-> {"source"}],
    evaluation_spec |-> [budget_pool |-> {"pool"}],
    evaluation |-> [spec |-> {"evaluation_spec"}, attempt |-> {"attempt"},
                    subject |-> {"experiment", "candidate", "release"}],
    finding |-> [evidence |-> {"run", "experiment"}, weakens |-> {"finding"},
                 overturns |-> {"finding"}],
    candidate |-> [experiment |-> {"experiment"}, evaluation |-> {"evaluation"},
                   parents |-> {"candidate"}, attempt |-> {"attempt"}, sources |-> {"source"}],
    release |-> [slots |-> {"candidate"}, combination_experiment |-> {"experiment"},
                 combination_evaluation |-> {"evaluation"}, evaluation |-> {"evaluation"}],
    promotion_spec |-> [evaluation_spec |-> {"evaluation_spec"}],
    promotion |-> [spec |-> {"promotion_spec"}, challenger |-> {"release"},
                   incumbent |-> {"release"}, evaluation |-> {"evaluation"},
                   previous |-> {"promotion"}],
    decision |-> [based_on |-> {"finding"}, supersedes |-> {"decision"}]]

Resolved(docs) ==
    \A i \in Present(docs) : \A field \in DOMAIN docs[i].links : \A j \in docs[i].links[field] :
      /\ j \in Present(docs)
      /\ KindOf[j] \in References[KindOf[i]][field]

\* References between records of one kind that must not form a cycle.
Lineage == {"parents", "merged_into", "weakens", "overturns", "supersedes", "superseded_by",
            "previous"}
Acyclic(docs) ==
    \A S \in SUBSET Present(docs) \ {{}} :
      \E i \in S : \A field \in Lineage : To(docs, i, field) \cap S = {}

\* An Idea and its Plan, and a Try and the Idea it became, name each other.
Mirrored(docs) ==
    \A i, j \in Present(docs) :
      /\ KindOf[i] = "idea" /\ KindOf[j] = "plan" =>
           (j \in To(docs, i, "resulting_plan") <=> i \in To(docs, j, "idea"))
      /\ KindOf[i] = "try" /\ KindOf[j] = "idea" =>
           (j \in To(docs, i, "adopted_idea") <=> i \in To(docs, j, "origin_try"))

OriginsAgree(docs) ==
    \A i \in OfKind(docs, "plan") : \A e \in To(docs, i, "resulting_experiment") :
      /\ docs[i].state = "started" => docs[e].state = "active"
      /\ docs[i].state = "completed" => docs[e].state = "closed"
      /\ \A j \in OfKind(docs, "plan") \ {i} : e \notin To(docs, j, "resulting_experiment")

\* Files in a directory of records that are no records; temporaries of the
\* writer are skipped unless they are links.
Misplaced == {"stray record", "linked temporary"}
Noted == {"stray record"}

Sound(docs, others) ==
    /\ \A i \in Ids : docs[i] # Unreadable
    /\ others \cap Misplaced = {}
    /\ Resolved(docs) /\ Acyclic(docs) /\ Mirrored(docs) /\ OriginsAgree(docs)

----------------------------------------------------------------------------
(***************************************************************************)
(* The pages                                                               *)
(***************************************************************************)
\* References drawn from the record that holds them; others are drawn towards
\* it, and some are not drawn.
Forward == {"adopted_idea", "resulting_plan", "merged_into", "resulting_experiment",
            "superseded_by", "weakens", "overturns", "supersedes"}
Undrawn == [idea |-> {"origin_try"}, plan |-> {"idea", "resources"}, experiment |-> {"conclusion"},
            attempt |-> {"retry_of", "pool", "queue", "snapshots"}, advice |-> {"listwise_order"},
            battle |-> {"queue", "pool"}, evaluation |-> {"attempt"},
            candidate |-> {"attempt", "sources"}, promotion |-> {"incumbent"}]
Hidden(k) == IF k \in DOMAIN Undrawn THEN Undrawn[k] ELSE {}

GraphEdges(docs) ==
    UNION {UNION {IF field \in Forward THEN {<<i, j>> : j \in docs[i].links[field]}
                                       ELSE {<<j, i>> : j \in docs[i].links[field]} :
                    field \in DOMAIN docs[i].links \ Hidden(KindOf[i])} :
             i \in Present(docs)}

FindingStatus(docs, f) ==
    LET others == OfKind(docs, "finding")
    IN CASE \E g \in others : f \in To(docs, g, "overturns") -> "overturned"
         [] \E g \in others : f \in To(docs, g, "weakens") -> "weakened"
         [] OTHER -> "active"
DecisionStatus(docs, d) ==
    IF \E e \in OfKind(docs, "decision") : d \in To(docs, e, "supersedes")
    THEN "superseded" ELSE "current"

\* The first entry of every Queue that is not paused.
Frontier(docs) ==
    {<<q, docs[q].order[1]>> : q \in {x \in OfKind(docs, "queue") :
                                        docs[x].state # "paused" /\ docs[x].order # <<>>}}

Readme(docs) ==
    [count |-> [k \in Range(KindOf) |-> Cardinality(OfKind(docs, k))],
     rows |-> {<<i, docs[i].state>> : i \in UNION {OfKind(docs, k) : k \in {"source", "try", "experiment"}}},
     edges |-> GraphEdges(docs)]
Roadmap(docs) ==
    [frontier |-> Frontier(docs),
     plans |-> {<<i, docs[i].state, To(docs, i, "resulting_experiment")>> : i \in OfKind(docs, "plan")}]
Ledger(docs) ==
    {<<i, FindingStatus(docs, i), To(docs, i, "evidence")>> : i \in OfKind(docs, "finding")}
Decisions(docs) ==
    {<<i, DecisionStatus(docs, i), To(docs, i, "based_on")>> : i \in OfKind(docs, "decision")}

\* Pages in the order in which they are written.
Pages == <<"readme", "roadmap", "ledger", "decisions">>
Build(docs, p) ==
    CASE p = "readme" -> Readme(docs) [] p = "roadmap" -> Roadmap(docs)
      [] p = "ledger" -> Ledger(docs) [] p = "decisions" -> Decisions(docs)
PagePaths == Range(Pages)

\* A text is generated from records or typed by hand.  A typed one may have the
\* length of the page that belongs there.
Generated(docs, p) == [page |-> Build(docs, p), hand |-> "no"]
Typed(length) == [page |-> Nothing, hand |-> length]
Absent == [page |-> Nothing, hand |-> "absent"]

----------------------------------------------------------------------------
ProjectionsInit ==
    /\ records \in {r \in [Ids -> UNION {Drafts[i] : i \in Ids}] :
                   (\A i \in Ids : r[i] \in Drafts[i]) /\ Sound(r, {})}
    /\ clutter = {"temporary", "unrelated directory"}
    /\ \E text \in {Absent} \cup {Generated(records, "readme")} :
         page = [p \in PagePaths |-> [text |-> IF text = Absent THEN Absent ELSE Generated(records, p),
                                  file |-> 0]]
    /\ mutex = Nothing
    /\ command = [u \in Users |-> Nothing]
    /\ used = [commands |-> 0, edits |-> 0]

At(u, pc) == command[u] # Nothing /\ command[u].pc = pc
Proceed(u, t) == command' = [command EXCEPT ![u] = t]
Goto(u, pc) == Proceed(u, [command[u] EXCEPT !.pc = pc])
tree == <<records, clutter, used>>
Give(u) == Proceed(u, Nothing) /\ mutex' = Nothing
Fail(u) == Give(u) /\ UNCHANGED <<tree, page>>
Keep == UNCHANGED <<tree, page, mutex>>

----------------------------------------------------------------------------
(***************************************************************************)
(* The scan and its snapshot                                               *)
(***************************************************************************)
Begin(u, writes) ==
    /\ command[u] = Nothing /\ mutex = Nothing /\ used.commands < MaxCommands
    /\ mutex' = u
    /\ used' = [used EXCEPT !.commands = @ + 1]
    /\ Proceed(u, [pc |-> "scan", writes |-> writes, n |-> 1, docs |-> <<>>, noted |-> {},
                   others |-> {}, state |-> <<>>, seen |-> <<>>])
    /\ UNCHANGED <<records, clutter, page>>

\* Record files are read one after another.
ScanRecord(u) ==
    /\ At(u, "scan") /\ command[u].n <= Len(Files)
    /\ Proceed(u, [command[u] EXCEPT !.n = @ + 1, !.docs = Append(@, records[Files[command[u].n]])])
    /\ Keep

Scanned(t) == [i \in Ids |-> t.docs[CHOOSE n \in DOMAIN Files : Files[n] = i]]

\* An inventory with a diagnostic is not shown.
LoadInventory(u) ==
    LET t == [command[u] EXCEPT !.noted = clutter \cap Noted, !.others = clutter] IN
    /\ At(u, "scan") /\ t.n > Len(Files)
    /\ IF Sound(Scanned(t), t.others)
       THEN Proceed(u, [t EXCEPT !.pc = "bind", !.n = 1]) /\ Keep
       ELSE Fail(u)

\* The records are read again: every byte, and what else is noted.
SnapshotHolds(u) == records = Scanned(command[u]) /\ clutter \cap Noted = command[u].noted

\* Faulty variant: the number of the records is compared.
SameCount(u) == Cardinality(Present(records)) = Cardinality(Present(Scanned(command[u])))

VerifySnapshot(u) == SnapshotHolds(u)

BindSnapshot(u) ==
    /\ At(u, "bind")
    /\ IF VerifySnapshot(u) THEN Goto(u, "inspect") /\ Keep ELSE Fail(u)

----------------------------------------------------------------------------
(***************************************************************************)
(* Inspection and publication                                              *)
(***************************************************************************)
This(u) == Pages[command[u].n]
Wanted(u) == Generated(Scanned(command[u]), This(u))

\* The content is read only if the file has the right length.
InspectPage(u) ==
    LET t == command[u] p == This(u)
        found == page[p].text
        state == CASE found = Absent -> "missing" [] found = Wanted(u) -> "current"
                   [] OTHER -> "stale"
        read == found.hand = "same length" \/ state = "current"
    IN /\ At(u, "inspect") /\ t.n <= Len(Pages)
       /\ Proceed(u, [t EXCEPT !.n = @ + 1, !.state = Append(@, state),
                               !.seen = Append(@, [read |-> read, text |-> IF read THEN found ELSE Absent,
                                                   file |-> page[p].file])])
       /\ Keep

Drifted(t) == {n \in DOMAIN Pages : t.state[n] # "current"}

Inspected(u) ==
    /\ At(u, "inspect") /\ command[u].n > Len(Pages)
    /\ Proceed(u, [command[u] EXCEPT !.n = 1, !.pc = IF command[u].writes THEN "render" ELSE "report"])
    /\ Keep

\* The snapshot is verified before every page.
VerifyBeforePage(u) ==
    LET t == command[u] IN
    /\ At(u, "render") /\ t.n <= Len(Pages)
    /\ IF ~VerifySnapshot(u) THEN Fail(u)
       ELSE IF t.state[t.n] = "current" THEN Proceed(u, [t EXCEPT !.n = @ + 1]) /\ Keep
       ELSE Goto(u, "publish") /\ Keep

\* The file that was inspected, and its content if that was read.
Unmoved(u) ==
    LET t == command[u] now == page[This(u)] seen == t.seen[t.n] IN
    IF t.state[t.n] = "missing" THEN now.text = Absent
    ELSE now.text # Absent /\ now.file = seen.file /\ (seen.read => now.text = seen.text)

PublishPage(u) ==
    LET t == command[u] p == This(u) IN
    /\ At(u, "publish")
    /\ IF Unmoved(u)
       THEN /\ page' = [page EXCEPT ![p] = [text |-> Wanted(u), file |-> @.file + 1]]
            /\ Proceed(u, [t EXCEPT !.pc = "render", !.n = @ + 1, !.state[t.n] = "current"])
            /\ UNCHANGED <<tree, mutex>>
       ELSE Fail(u)

Rendered(u) ==
    /\ At(u, "render") /\ command[u].n > Len(Pages)
    /\ Goto(u, "report") /\ Keep

\* Drift, a changed snapshot, or everything current.
Report(u) ==
    /\ At(u, "report")
    /\ IF VerifySnapshot(u) /\ Drifted(command[u]) = {} THEN Goto(u, "current") /\ Keep ELSE Fail(u)

Return(u) == At(u, "current") /\ Fail(u)

\* An error, an interruption or a death: the lock is released.
Stop(u) == command[u] # Nothing /\ Fail(u)

----------------------------------------------------------------------------
(***************************************************************************)
(* Changes by others                                                       *)
(***************************************************************************)
Change ==
    /\ used.edits < MaxEdits
    /\ used' = [used EXCEPT !.edits = @ + 1]

\* A person saves, creates or removes a record, or another command, while the
\* lock is free, publishes one.
EditRecord(i, d) ==
    /\ Change
    /\ records[i] # d
    /\ records' = [records EXCEPT ![i] = d]
    /\ UNCHANGED <<clutter, page, mutex, command>>

Drop(thing) ==
    /\ Change
    /\ thing \notin clutter
    /\ clutter' = clutter \cup {thing}
    /\ UNCHANGED <<records, page, mutex, command>>

\* A page is typed over in place, replaced or removed.
EditPage(p, text, file) ==
    /\ Change
    /\ page[p].text # text
    /\ Absent \in {text, page[p].text} => file # page[p].file
    /\ page' = [page EXCEPT ![p] = [text |-> text, file |-> file]]
    /\ UNCHANGED <<records, clutter, mutex, command>>

ProjectionsNext ==
    \/ \E u \in Users :
         \/ \E writes \in BOOLEAN : Begin(u, writes)
         \/ ScanRecord(u) \/ LoadInventory(u) \/ BindSnapshot(u) \/ InspectPage(u) \/ Inspected(u)
         \/ VerifyBeforePage(u) \/ PublishPage(u) \/ Rendered(u) \/ Report(u) \/ Return(u) \/ Stop(u)
    \/ \E i \in Ids : \E d \in Drafts[i] : EditRecord(i, d)
    \/ \E thing \in Misplaced : Drop(thing)
    \/ \E p \in EditedPages :
         \E text \in {Typed("same length"), Typed("other length"), Absent} :
           \E file \in {page[p].file, page[p].file + 1} : EditPage(p, text, file)

----------------------------------------------------------------------------
\* What "exp render" and "exp check" call current is current: at the moment of
\* the report the records are valid and are those the pages were compared with
\* or generated from, so that no change of a record by a person or a command,
\* made at any point of the scan or of the work, is missing from the pages
\* found or left in place.
CurrentIsCurrent ==
    \A u \in Users :
      (At(u, "report") /\ command'[u] # Nothing /\ command'[u].pc = "current") =>
        /\ Sound(records, clutter \cap Noted)
        /\ \A n \in DOMAIN Pages :
             \/ command[u].seen[n].text = Generated(records, Pages[n])
             \/ page[Pages[n]].file > command[u].seen[n].file

============================================================================
