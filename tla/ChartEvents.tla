----------------------------- MODULE ChartEvents -----------------------------
(***************************************************************************)
(* Two labels may appear where the mouse is over a chart: the values of the *)
(* series, kept by uPlot's cursor hook outside React, and the events of the *)
(* server near the mouse, kept by React.  Both listen to the same moves,    *)
(* with thresholds of their own, while events arrive, leave the window and  *)
(* move with the axis.  Lengths are CSS pixels, in units.                   *)
(***************************************************************************)
EXTENDS Integers, Sequences, FiniteSetsExt

CONSTANTS Width,     \* of the plot
          Gutter,    \* width of the axis left of it
          PxRatios,  \* canvas pixels to a CSS pixel
          CHART_EVENT_ANNOTATION_HOVER_THRESHOLD_PX,
          CHART_EVENT_ANNOTATION_TOOLTIP_SUPPRESS_PX,
          CHART_EVENT_ANNOTATION_MERGE_THRESHOLD_PX,
          MaxEvents  \* bound: events in the window

VARIABLES
  pxRatio,
  events,           \* where on the plot the events of the window are
  showAnnotations,
  mouse,            \* over the plot, or Away
  cursorAt,         \* uPlot's cursor, or Away
  seriesTip,        \* is the series tooltip displayed?
  annotationHover   \* events the annotation label lists; {} for no label

eventVars == <<pxRatio, events, showAnnotations, mouse, cursorAt, seriesTip, annotationHover>>

Away == -10
Plot == 0 .. Width

TypeOK ==
    /\ pxRatio \in PxRatios
    /\ events \subseteq Plot /\ annotationHover \subseteq Plot
    /\ showAnnotations \in BOOLEAN /\ seriesTip \in BOOLEAN
    /\ mouse \in Plot \cup {Away} /\ cursorAt \in Plot \cup {Away}

Init ==
    /\ pxRatio \in PxRatios
    /\ events = {} /\ showAnnotations \in BOOLEAN
    /\ mouse = Away /\ cursorAt = Away
    /\ seriesTip = FALSE /\ annotationHover = {}

-----------------------------------------------------------------------------
\* chart-event-annotations.ts

Distance(a, b) == IF a < b THEN b - a ELSE a - b

\* A round of the loop: the members, and the events near one of them
Near(annotations, clustered) ==
    {a \in annotations : \E member \in clustered :
        Distance(a, member) <= CHART_EVENT_ANNOTATION_MERGE_THRESHOLD_PX}

\* Rounds that add what is near a member: when there are as many as
\* annotations, the last one has nothing to add.
Rounds(annotations, seed) ==
    LET clustered[i \in 0 .. Cardinality(annotations)] ==
            IF i = 0 THEN {seed} ELSE Near(annotations, clustered[i - 1])
    IN clustered

clusterNearbyChartEventAnnotations(annotations, seed) ==
    Rounds(annotations, seed)[Cardinality(annotations)]

\* The nearest within the threshold (the later of two), and its cluster
findHoveredChartEventAnnotations(annotations, x, threshold) ==
    LET inRange == {a \in annotations : Distance(a, x) <= threshold}
        nearest == {a \in inRange : \A b \in inRange : Distance(a, x) <= Distance(b, x)}
    IN IF inRange = {} THEN {}
       ELSE clusterNearbyChartEventAnnotations(annotations, Max(nearest))

\* The mouse over the plot, by its place in the window: uPlot's bbox counts
\* canvas pixels.
clientXToPlotX(clientX) == clientX - Gutter * pxRatio

Shown(es) == IF showAnnotations THEN es ELSE {}

Annotations == Shown(events)

\* The cursor hook adds to its plot position what clientXToPlotX takes away.
Yields(annotations, at) ==
    findHoveredChartEventAnnotations(annotations, at,
        CHART_EVENT_ANNOTATION_TOOLTIP_SUPPRESS_PX) # {}

\* Mutant: the values yield to a label only where it is drawn.
ShowsSeriesBeside(annotations, at) == at # Away /\ at \notin annotations

\* createCursorTooltipHandler
ShowsSeries(annotations, at) == at # Away /\ ~Yields(annotations, at)

-----------------------------------------------------------------------------
\* The move of the mouse: uPlot's listener first, then React's.  Nobody listens
\* for annotations while there are none to show.

handleAnnotationHover(x) ==
    LET hover == findHoveredChartEventAnnotations(Annotations,
                     clientXToPlotX(x + Gutter), CHART_EVENT_ANNOTATION_HOVER_THRESHOLD_PX)
    IN IF Annotations = {} THEN UNCHANGED annotationHover /\ cursorAt' = x
       ELSE /\ annotationHover' = hover
            /\ cursorAt' = IF hover = {} THEN x ELSE Away

MouseMove(x) ==
    /\ mouse' = x
    /\ seriesTip' = ShowsSeries(Annotations, x)
    /\ handleAnnotationHover(x)
    /\ UNCHANGED <<pxRatio, events, showAnnotations>>

\* handleChartMouseLeave; a label of several events can be entered, and keeps
\* itself until it is left.
MouseLeave ==
    /\ mouse # Away
    /\ mouse' = Away /\ cursorAt' = Away /\ seriesTip' = FALSE
    /\ annotationHover' \in
          (IF Annotations = {} THEN {annotationHover} ELSE {{}})
          \cup (IF Cardinality(annotationHover) > 1 THEN {annotationHover} ELSE {})
    /\ UNCHANGED <<pxRatio, events, showAnnotations>>

LeaveLabel ==
    /\ mouse = Away /\ annotationHover # {}
    /\ annotationHover' = {}
    /\ UNCHANGED <<pxRatio, events, showAnnotations, mouse, cursorAt, seriesTip>>

\* New data, or another axis: events come, go and move; uPlot fires its hook
\* for the cursor where it is.
Redraw ==
    /\ \E e \in SUBSET Plot :
          /\ Cardinality(e) <= MaxEvents
          /\ Cardinality(e \ events) + Cardinality(events \ e) = 1
          /\ events' = e
          /\ seriesTip' = ShowsSeries(Shown(e), cursorAt)
    /\ UNCHANGED <<pxRatio, showAnnotations, mouse, cursorAt, annotationHover>>

\* The switch, reached by keyboard; hiding also forgets the label and the cursor.
ToggleAnnotations ==
    /\ showAnnotations' = ~showAnnotations
    /\ IF showAnnotations THEN annotationHover' = {} /\ cursorAt' = Away
                          ELSE UNCHANGED <<annotationHover, cursorAt>>
    /\ UNCHANGED <<pxRatio, events, mouse, seriesTip>>

\* dismissChartInteraction
Scroll ==
    /\ seriesTip
    /\ seriesTip' = FALSE /\ cursorAt' = Away
    /\ UNCHANGED <<pxRatio, events, showAnnotations, mouse, annotationHover>>

Next ==
    \/ \E x \in Plot : MouseMove(x)
    \/ MouseLeave \/ LeaveLabel \/ Redraw \/ ToggleAnnotations \/ Scroll

Spec == Init /\ [][Next]_eventVars
-----------------------------------------------------------------------------
\* A move of the mouse over a chart with events never leaves both labels on
\* screen, whatever came, went or was switched since the last move, on a display
\* whose canvas pixels are CSS pixels (chart-event-annotations.ts:9, 57; on any
\* other the offset of the plot is wrong, and without events the label that was
\* shown for the last one stays, metric-chart.tsx:379).
OneTooltip ==
    \A x \in Plot : MouseMove(x) /\ Annotations # {} /\ pxRatio = 1 =>
        ~(seriesTip' /\ annotationHover' # {})

\* A label that a move of the mouse brings up lists a run of events with no gap
\* wider than the merge distance, the whole run, and one event is within reach
\* of the mouse.
Run(es) ==
    \A a \in events : \A b \in es :
        Distance(a, b) <= CHART_EVENT_ANNOTATION_MERGE_THRESHOLD_PX => a \in es

Chained(es) ==
    \A a \in es : a = Min(es) \/ \E b \in es :
        b < a /\ a - b <= CHART_EVENT_ANNOTATION_MERGE_THRESHOLD_PX

LabelListsRun ==
    \A x \in Plot : MouseMove(x) /\ Annotations # {} /\ annotationHover' # {} =>
        Run(annotationHover') /\ Chained(annotationHover')
=============================================================================
