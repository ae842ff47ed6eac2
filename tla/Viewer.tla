------------------------------- MODULE Viewer -------------------------------
(***************************************************************************)
(* exp ui, the read-only terminal view.                                    *)
(*                                                                         *)
(* The model of the screen changes only in Update, one message at a time;  *)
(* the reads it asks for run beside it and answer in any order, also after *)
(* they were cancelled.  A local read looks at the records first and at    *)
(* the operational store later; both may change in between.                *)
(*                                                                         *)
(* What the views show is one Attempt, with the state of its record and of *)
(* its job, at successive moments: History.  A moment stands for a time.   *)
(***************************************************************************)
EXTENDS Naturals, Sequences, FiniteSets

CONSTANTS
    History,      \* the moments: a sequence of [attempt, job, tries]
    Tabs,         \* the views in the order of their tabs; Readiness is one
    Selectors,    \* what a workspace may be called
    Nothing,      \* no workspace
    Lines,        \* lines of the window for rows and messages
    MaxKeys,      \* bound on keys and changes of workspace
    MaxFlights    \* bound on reads under way when a key is pressed

VARIABLES
    ui,           \* the Model of the screen
    flights,      \* the reads under way or answered and not yet delivered
    world,        \* the present moment
    keys

viewerVars == <<ui, flights, world, keys>>

Panes == {Tabs[i] : i \in 1..Len(Tabs)}
Readiness == "readiness"
NoRequest == [generation |-> 0, workspace |-> Nothing, view |-> Nothing, observedAt |-> 0]
NoRows == [of |-> Nothing, seen |-> 0, upto |-> 0, state |-> "none", count |-> 0]
-----------------------------------------------------------------------------
(* What a read makes of what it saw. *)

\* ClassifyAttemptStatus, without a marker: exp ui reads none.
Classify(attempt, job) ==
    CASE attempt = "terminal" -> "none"
      [] attempt = "planned" /\ job = "none" -> "recoverable"
      [] job = "queued" /\ attempt \in {"planned", "queued", "starting"} -> "recoverable"
      [] job = "running" -> "active"
      [] OTHER -> "uncertain"

\* uiAttemptRows: the record as it was first, the job as it was later.
AttemptRow(from, upto) == Classify(History[from].attempt, History[upto].job)

TryRows(moment) == [state |-> "shown", count |-> History[moment].tries]
AttemptRows(from, upto) ==
    [state |-> AttemptRow(from, upto), count |-> IF History[from].attempt = "terminal" THEN 0 ELSE 1]
UnprobedRows == [state |-> "unprobed", count |-> 1]

\* loadUILocalSnapshot: the rows of every view; Readiness is not probed.
LocalSnapshot(workspace, from, upto) ==
    LET Rows(v) == CASE v = "attempts" -> AttemptRows(from, upto)
                     [] v = Readiness -> UnprobedRows
                     [] OTHER -> TryRows(from)
    IN  [v \in Panes |-> [of |-> workspace, seen |-> from, upto |-> upto,
                          state |-> Rows(v).state, count |-> Rows(v).count]]

\* loadUILiveReadiness: Readiness and no other view.
ProbeSnapshot(workspace, from) ==
    [v \in Panes |->
        IF v = Readiness
        THEN [of |-> workspace, seen |-> from, upto |-> from, state |-> "probed", count |-> 1]
        ELSE NoRows]
-----------------------------------------------------------------------------
(* The window of rows.  A row takes one line; so do the counts of the rows *)
(* above and below.                                                        *)

Largest(S) == CHOOSE x \in S : \A y \in S : y <= x
Smallest(S) == CHOOSE x \in S : \A y \in S : x <= y

\* currentRowCount
RowCount(m) == IF m.hasLocal \/ m.hasProbe THEN m.rows[m.view].count ELSE 0

\* rowLineBudget: messages take lines from the rows.
Budget(m) ==
    LET left == IF m.status[m.view] \in {"loading", "error", "stale"} THEN Lines - 1 ELSE Lines
    IN  IF left < 1 THEN 1 ELSE left

\* renderedRangeLineCount
RangeLines(first, last, count) ==
    last - first + (IF first > 0 THEN 1 ELSE 0) + (IF last < count THEN 1 ELSE 0)

\* visibleRowRange: from the offset when that shows the selection, else as
\* much as fits before and then after it.
VisibleRange(m) ==
    LET count == RowCount(m)
        from == Smallest({m.selection, IF m.offset >= count THEN count - 1 ELSE m.offset})
        to == Largest({from + 1} \cup
                {l \in (from + 1)..count : RangeLines(from, l, count) <= Budget(m)})
        back == Smallest({m.selection} \cup
                {f \in 0..m.selection : \A g \in f..(m.selection - 1) :
                    RangeLines(g, m.selection + 1, count) <= Budget(m)})
        ahead == Largest({m.selection + 1} \cup
                {l \in (m.selection + 1)..count : RangeLines(back, l, count) <= Budget(m)})
    IN  IF count = 0 THEN <<0, 0>>
        ELSE IF m.selection < to THEN <<from, to>>
        ELSE <<back, ahead>>

\* clampSelection and ensureSelectionVisible
Clamped(m) ==
    LET count == RowCount(m)
        held == [m EXCEPT !.selection = IF @ >= count THEN count - 1 ELSE @]
    IN  IF count = 0 THEN [m EXCEPT !.selection = 0, !.offset = 0]
        ELSE [held EXCEPT !.offset = VisibleRange(held)[1]]
-----------------------------------------------------------------------------
(* The reads. *)

StopReads(m) == [m EXCEPT !.local = NoRequest, !.probe = NoRequest]

\* scheduleReads and markLocalLoading
ScheduleReads(m, local, probe) ==
    LET request == [generation |-> m.generation, workspace |-> m.workspace, view |-> m.view,
                    observedAt |-> world]
        Loads(v) == \/ local /\ ~(v = Readiness /\ m.hasProbe)
                    \/ probe /\ v = Readiness
    IN  [m EXCEPT !.local = IF local THEN request ELSE @,
                  !.probe = IF probe THEN request ELSE @,
                  !.status = [v \in Panes |-> IF Loads(v) THEN "loading" ELSE @[v]]]

BeginReads(m, local, probe) ==
    ScheduleReads([StopReads(m) EXCEPT !.generation = @ + 1], local, probe)

\* selectView: a local read that was under way is asked for again.
SelectView(m, view) ==
    LET next == [StopReads(m) EXCEPT !.generation = @ + 1, !.view = view,
                                     !.selection = 0, !.offset = 0]
    IN  CASE view = m.view -> m
          [] m.local # NoRequest \/ ~m.hasLocal -> ScheduleReads(next, TRUE, view = Readiness)
          [] view = Readiness -> ScheduleReads(next, FALSE, TRUE)
          [] OTHER -> next

Refreshed(m) ==
    IF m.view = Readiness THEN BeginReads(m, FALSE, TRUE) ELSE BeginReads(m, TRUE, FALSE)

MovedTo(m, workspace) ==
    BeginReads([m EXCEPT !.workspace = workspace, !.rows = [v \in Panes |-> NoRows],
                         !.hasLocal = FALSE, !.hasProbe = FALSE,
                         !.selection = 0, !.offset = 0], TRUE, FALSE)

\* What Update returns: the new model and the commands it asks for; the
\* context of the reads it gave up is cancelled.
Flight(kind, request) == [kind |-> kind, request |-> request, live |-> TRUE, from |-> 0, upto |-> 0]
Show(m) ==
    /\ ui' = m
    /\ flights' =
        IF m.generation = ui.generation /\ ~m.quitting THEN flights
        ELSE {[f EXCEPT !.live = FALSE] : f \in flights}
             \cup {Flight(kind, m[kind]) : kind \in {k \in {"local", "probe"} : m[k] # NoRequest}}
    /\ UNCHANGED world
-----------------------------------------------------------------------------
(* Answers. *)

\* Faulty variant: any answer for the workspace settles a pending read.
AcceptsAny(m, kind, request) == m[kind] # NoRequest /\ request.workspace = m.workspace

\* applyResponse: only the answer to the request that is pending.
Accepts(m, kind, request) ==
    /\ m[kind] # NoRequest
    /\ request = m[kind]
    /\ request.generation = m.generation
    /\ request.workspace = m.workspace /\ request.view = m.view

StateOf(count) == IF count = 0 THEN "empty" ELSE "ready"

\* applySuccess: a probe replaces Readiness; a local read replaces the rest,
\* and Readiness until it was probed.
ApplyProbe(m, snapshot) ==
    [m EXCEPT !.rows = IF m.hasLocal \/ m.hasProbe
                       THEN [m.rows EXCEPT ![Readiness] = snapshot[Readiness]] ELSE snapshot,
              !.hasProbe = TRUE,
              !.status[Readiness] = StateOf(snapshot[Readiness].count)]
ApplyLocal(m, snapshot) ==
    [m EXCEPT !.rows = IF m.hasProbe
                       THEN [snapshot EXCEPT ![Readiness] = m.rows[Readiness]] ELSE snapshot,
              !.hasLocal = TRUE,
              !.status = [v \in Panes |->
                  CASE v = Readiness /\ m.probe # NoRequest -> "loading"
                    [] v = Readiness /\ m.hasProbe -> @[v]
                    [] OTHER -> StateOf(snapshot[v].count)]]

\* applyFailure: what is shown stays, and is called stale.
ApplyFailure(m, kind) ==
    IF kind = "probe"
    THEN [m EXCEPT !.status[Readiness] =
              IF m.hasProbe \/ (m.hasLocal /\ m.rows[Readiness].count > 0) THEN "stale" ELSE "error"]
    ELSE [m EXCEPT !.status = [v \in Panes |->
              IF v = Readiness /\ m.hasProbe THEN @[v]
              ELSE IF m.hasLocal THEN "stale" ELSE "error"]]

Applied(m, f, ok) ==
    LET settled == [m EXCEPT ![f.kind] = NoRequest]
        result == CASE ~ok -> ApplyFailure(settled, f.kind)
                    [] ok /\ f.kind = "probe" ->
                        ApplyProbe(settled, ProbeSnapshot(f.request.workspace, f.from))
                    [] ok /\ f.kind = "local" ->
                        ApplyLocal(settled, LocalSnapshot(f.request.workspace, f.from, f.upto))
    IN  IF Accepts(m, f.kind, f.request) THEN Clamped(result) ELSE m
-----------------------------------------------------------------------------
(* Messages and moments. *)

\* NewModel and Init: the first frame asks for one local read.
ViewerInit ==
    LET first == [generation |-> 1, workspace |-> CHOOSE w \in Selectors : TRUE,
                  view |-> Tabs[1], observedAt |-> 1]
    IN  /\ ui = [generation |-> 1, workspace |-> first.workspace, view |-> first.view,
                 local |-> first, probe |-> NoRequest,
                 hasLocal |-> FALSE, hasProbe |-> FALSE, rows |-> [v \in Panes |-> NoRows],
                 status |-> [v \in Panes |-> IF v = first.view THEN "loading" ELSE "idle"],
                 selection |-> 0, offset |-> 0, quitting |-> FALSE]
        /\ flights = {Flight("local", first)}
        /\ world = 1 /\ keys = 0

Key(m) ==
    /\ keys < MaxKeys /\ Cardinality(flights) <= MaxFlights
    /\ ~ui.quitting
    /\ keys' = keys + 1
    /\ Show(m)

Place(view) == CHOOSE i \in 1..Len(Tabs) : Tabs[i] = view
Turned(delta) == Tabs[((Place(ui.view) - 1 + delta) % Len(Tabs)) + 1]

NextTab == Key(SelectView(ui, Turned(1)))
PreviousTab == Key(SelectView(ui, Turned(Len(Tabs) - 1)))
RefreshKey == Key(Refreshed(ui))
WorkspaceChanged(w) == w # ui.workspace /\ Key(MovedTo(ui, w))
MoveDown == RowCount(ui) > 1 /\ Key(Clamped([ui EXCEPT !.selection = @ + 1]))
MoveUp == ui.selection > 0 /\ Key(Clamped([ui EXCEPT !.selection = @ - 1]))
End ==
    /\ RowCount(ui) > 1
    /\ LET last == [ui EXCEPT !.selection = RowCount(ui) - 1]
       IN  Key([last EXCEPT !.offset = VisibleRange(last)[1]])
Quit == Key([StopReads(ui) EXCEPT !.quitting = TRUE])

\* The records are read, unless the read was cancelled before.
Observe(f) ==
    /\ f.live /\ f.from = 0
    /\ flights' = (flights \ {f}) \cup
           {[f EXCEPT !.from = world, !.upto = IF f.kind = "probe" THEN world ELSE 0]}
    /\ UNCHANGED <<ui, world, keys>>

\* readUIOperationSummary
ReadOperations(f) ==
    /\ f.live /\ f.kind = "local" /\ f.from > 0 /\ f.upto = 0
    /\ flights' = (flights \ {f}) \cup {[f EXCEPT !.upto = world]}
    /\ UNCHANGED <<ui, world, keys>>

\* An answer reaches Update; a read may fail at any point.
Deliver(f, ok) ==
    /\ ok => f.upto > 0
    /\ ~ui.quitting
    /\ ui' = Applied(ui, f, ok)
    /\ flights' = flights \ {f}
    /\ UNCHANGED <<world, keys>>

TimePasses ==
    /\ world < Len(History)
    /\ world' = world + 1
    /\ UNCHANGED <<ui, flights, keys>>

ViewerNext ==
    \/ NextTab \/ PreviousTab \/ RefreshKey \/ MoveDown \/ MoveUp \/ End \/ Quit
    \/ \E w \in Selectors : WorkspaceChanged(w)
    \/ \E f \in flights : Observe(f) \/ ReadOperations(f)
    \/ \E f \in flights, ok \in BOOLEAN : Deliver(f, ok)
    \/ TimePasses
-----------------------------------------------------------------------------
\* New rows answer the read that was asked for last: they are of the
\* workspace the screen is about, were read after they were asked for, and
\* are not older than the rows they replace, unless those were not probed.  What an Attempt is called is
\* true of some moment of the read, or said to be uncertain.  The selected
\* row is in the window.  (Model.applyResponse, scheduleReads, visibleRowRange)
AskedSince(kind) == ui[kind].observedAt
NewRowsAnswer ==
    \A v \in Panes :
        ui'.rows[v] # ui.rows[v] /\ ui'.rows[v] # NoRows =>
            LET new == ui'.rows[v]
                asked == {k \in {"local", "probe"} : ui[k] # NoRequest /\ ui'[k] = NoRequest}
            IN  /\ new.of = ui'.workspace
                /\ \A k \in asked : new.seen >= AskedSince(k)
                /\ ui.rows[v].state = "unprobed" \/ new.seen >= ui.rows[v].seen
                /\ new.state \in {"active", "recoverable"} =>
                       \E i \in new.seen..new.upto :
                           Classify(History[i].attempt, History[i].job) = new.state
SelectionShown ==
    LET range == VisibleRange(ui')
    IN  RowCount(ui') > 0 => range[1] <= ui'.selection /\ ui'.selection < range[2]
ShownIsAsked == NewRowsAnswer /\ SelectionShown
=============================================================================
