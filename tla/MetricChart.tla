----------------------------- MODULE MetricChart -----------------------------
(***************************************************************************)
(* A drawn chart: data that is refreshed, a legend whose buttons hide       *)
(* series, labels hidden on an earlier visit, and the uPlot instance behind *)
(* React, which is updated in place or replaced.  Series are known by three *)
(* numbers: their place in the query's answer, in the legend (stacks are    *)
(* sorted by the latest value) and in the plot (series without data are     *)
(* left out), and by their label in the browser's storage.                  *)
(***************************************************************************)
EXTENDS Integers, Sequences, FiniteSetsExt, Functions

CONSTANTS Labels,              \* names of series; numbers, for localeCompare
          None,
          Lanes,               \* bound: per mode, what a series may measure
          MAX_TOOLTIP_ENTRIES

VARIABLES
  mode,          \* "line" or "stack", for as long as the chart is mounted
  config,        \* BuiltChartConfig.series, as a set; {} when there is nothing to draw
  hiddenLabels,  \* localStorage, and the state that was read from it
  override,      \* what was toggled since, for the labels of that time
  yMaxFloor,     \* yMaxFloorRef of the axis
  uplot          \* the live instance, or None

chartVars == <<mode, config, hiddenLabels, override, yMaxFloor, uplot>>

Entry(m) == [label : Labels, values : Lanes[m]]

TypeOK ==
    /\ mode \in {"line", "stack"}
    /\ config \subseteq Entry(mode) /\ \A d, e \in config : d.label = e.label => d = e
    /\ hiddenLabels \subseteq Labels
    /\ override = None \/ (override.key \in Seq(Labels)
                            /\ override.hidden \subseteq DOMAIN override.key)
    /\ yMaxFloor \in Nat
    /\ uplot = None \/ DOMAIN uplot = {"labels", "data", "range", "scale", "shown"}

-----------------------------------------------------------------------------
\* series.ts

Measured(values) == {i \in DOMAIN values : values[i] # None}

hasValues(values) == Measured(values) # {}

getLatestValue(values) == IF hasValues(values) THEN values[Max(Measured(values))] ELSE None

stackSortValue(entry) ==
    LET latest == getLatestValue(entry.values) IN IF latest = None THEN -1 ELSE latest

\* A set as a sequence, each element after those ahead of it
InOrder(ahead) ==
    [k \in 1 .. Cardinality(DOMAIN ahead) |->
        CHOOSE x \in DOMAIN ahead : Cardinality(ahead[x]) = k - 1]

\* The query answers in the order of the labels.
ByLabel(series) == InOrder([e \in series |-> {d \in series : d.label < e.label}])

sortSeriesForStack(series) ==
    InOrder([e \in series |->
        {d \in series : IF stackSortValue(d) = stackSortValue(e) THEN d.label < e.label
                        ELSE stackSortValue(d) < stackSortValue(e)}])

\* Every eleven tenths of the peak, rounded up, is a nice bound (uPlot.rangeNum).
chartYMax(series) ==
    LET samples == {v \in UNION {Range(e.values) : e \in series} :
                       v # None /\ v # 0}
    IN IF {v \in samples : v > 0} = {} THEN 1 ELSE (11 * Max(samples) + 9) \div 10

\* The series that have values, with their places in the legend
buildMultiSeriesData(series) ==
    LET plotted == {i \in DOMAIN series : hasValues(series[i].values)}
        active == InOrder([i \in plotted |-> {k \in plotted : k < i}])
    IN [sourceIndices |-> active,
        labels |-> [j \in DOMAIN active |-> series[active[j]].label],
        data   |-> [j \in DOMAIN active |-> series[active[j]].values]]

\* What the first j series of a stack measure together at a point
Heights(data, p) ==
    LET sum[j \in 0 .. Len(data)] ==
            IF j = 0 THEN 0
            ELSE sum[j - 1] + (IF data[j][p] = None THEN 0 ELSE data[j][p])
    IN sum

stackAlignedData(data) ==
    [j \in DOMAIN data |->
        [p \in DOMAIN data[j] |->
            IF data[j][p] = None /\ Heights(data, p)[j] = 0 THEN None
            ELSE Heights(data, p)[j]]]

-----------------------------------------------------------------------------
\* chart-series-visibility.ts

resolveHiddenSeriesIndices(labels, hidden) ==
    LET indices == {i \in DOMAIN labels : labels[i] \in hidden}
    IN IF labels # <<>> /\ indices = DOMAIN labels THEN indices \ {1} ELSE indices

hiddenIndicesToLabels(labels, indices) == {labels[i] : i \in indices}

displaySeries(m, series) ==
    IF m = "stack" THEN sortSeriesForStack(series) ELSE ByLabel(series)

LabelsOf(series) == [i \in DOMAIN series |-> series[i].label]

seriesLabels == LabelsOf(displaySeries(mode, config))

\* useChartSeriesVisibility
HiddenBy(labels, stored, toggled) ==
    IF toggled # None /\ toggled.key = labels THEN toggled.hidden
    ELSE resolveHiddenSeriesIndices(labels, stored)

hiddenSeries == HiddenBy(seriesLabels, hiddenLabels, override)

\* ChartSeriesToggle: a button for each series, pressed while it is not hidden
canToggleSeries == Cardinality(config) > 1

SeriesLegend ==
    [i \in DOMAIN seriesLabels |->
        [label |-> seriesLabels[i], pressed |-> i \notin hiddenSeries,
         value |-> getLatestValue(displaySeries(mode, config)[i].values)]]

-----------------------------------------------------------------------------
\* metric-chart.tsx and use-metric-chart-instance.ts

\* buildChartConfig: line charts end at a nice bound; stacks leave it to uPlot.
resolveYRange(m, series) ==
    [autoMin |-> m = "stack", max |-> IF m = "stack" THEN None ELSE chartYMax(series)]

\* displayAxes: the axis keeps its height while the data shrinks a little.
DisplayedMax(computed, floor) ==
    IF 100 * computed < 85 * floor THEN computed
    ELSE IF floor > computed THEN floor ELSE computed

\* uplot-theme.ts: a scale that follows the data, or one with both ends
buildYScale(range) ==
    IF range.autoMin THEN [auto |-> TRUE] ELSE [auto |-> FALSE, min |-> 0, max |-> range.max]

\* ... and in a live chart, until a series is set
applyChartAxisScales(chart, range) ==
    IF range.max = None THEN chart.scale ELSE [chart.scale EXCEPT !.max = range.max]

Prepared(m, built) == IF m = "stack" THEN stackAlignedData(built.data) ELSE built.data

\* Mutant: the place in the plot is taken for the place in the legend.
HiddenByPlace(chart, sourceIndices, hidden) ==
    [chart EXCEPT !.shown = DOMAIN chart.labels \ hidden, !.scale = chart.range]

\* chart.setSeries for every plotted series; uPlot then ranges the scale of the
\* series anew, by the option it was created with.
applySeriesVisibility(chart, sourceIndices, hidden) ==
    [chart EXCEPT !.shown = {j \in DOMAIN chart.labels : sourceIndices[j] \notin hidden},
                  !.scale = chart.range]

\* What the plot is made of: a line and a fill for each label, one y axis
buildUPlotOptions(labels, range) == [labels |-> labels, range |-> buildYScale(range)]

\* new uPlot(...) with what the refs hold
Created(m, built, range, hidden) ==
    LET options == buildUPlotOptions(built.labels, range)
    IN applySeriesVisibility(
          [labels |-> options.labels, data |-> Prepared(m, built), range |-> options.range,
           scale |-> options.range, shown |-> DOMAIN built.labels],
          built.sourceIndices, hidden)

\* Effects after a render: labels that changed (labelsKey) replace the instance,
\* anything else is applied to it, the data and the axis first.
Rendered(chart, m, series, range, hidden) ==
    LET built == buildMultiSeriesData(displaySeries(m, series))
    IN IF chart = None \/ chart.labels # built.labels
       THEN Created(m, built, range, hidden)
       ELSE applySeriesVisibility(
               [chart EXCEPT !.data = Prepared(m, built),
                             !.scale = applyChartAxisScales(chart, range)],
               built.sourceIndices, hidden)

-----------------------------------------------------------------------------
\* MetricChartView draws a chart when buildChartConfig finds data in it.
Drawable(series) == \E e \in series : hasValues(e.values)

\* The axis as displayed; its height is remembered.
DisplayAxis(series, floor) ==
    LET range == resolveYRange(mode, series)
    IN IF range.max = None THEN range ELSE [range EXCEPT !.max = DisplayedMax(@, floor)]

\* A chart is mounted with new data, or gets new data.
Draw(series, chart, toggled, floor) ==
    LET range == DisplayAxis(series, floor)
    IN /\ config' = series
       /\ override' = toggled
       /\ yMaxFloor' = IF range.max = None THEN floor ELSE range.max
       /\ uplot' = Rendered(chart, mode, series, range,
                            HiddenBy(LabelsOf(displaySeries(mode, series)),
                                     hiddenLabels, toggled))

Unmount ==
    /\ config' = {} /\ override' = None /\ yMaxFloor' = 0 /\ uplot' = None

Init ==
    /\ mode \in {"line", "stack"}
    /\ config = {} /\ hiddenLabels = {} /\ override = None
    /\ yMaxFloor = 0 /\ uplot = None

\* What the next answer of the query may be: one series changed, came or went.
Answers ==
    {{e \in config : e.label # new.label} \cup {new} : new \in Entry(mode)}
    \cup {{e \in config : e.label # gone} : gone \in Labels}

Refresh ==
    /\ \E series \in Answers :
          IF Drawable(series) THEN Draw(series, uplot, override, yMaxFloor) ELSE Unmount
    /\ UNCHANGED <<mode, hiddenLabels>>

\* The page is left and visited again: what was stored is read.
Reload ==
    /\ config # {}
    /\ Draw(config, None, None, 0)
    /\ UNCHANGED <<mode, hiddenLabels>>

\* The theme is one of the keys that replace the instance.
ThemeChanged ==
    /\ uplot # None
    /\ uplot' = Created(mode, buildMultiSeriesData(displaySeries(mode, config)),
                        DisplayAxis(config, yMaxFloor), hiddenSeries)
    /\ UNCHANGED <<mode, config, hiddenLabels, override, yMaxFloor>>

\* The last button that is pressed stays pressed.
toggleSeries(i) ==
    /\ config # {} /\ canToggleSeries
    /\ IF i \in hiddenSeries THEN TRUE ELSE Cardinality(config) - Cardinality(hiddenSeries) > 1
    /\ LET next == IF i \in hiddenSeries THEN hiddenSeries \ {i} ELSE hiddenSeries \cup {i}
       IN /\ hiddenLabels' = hiddenIndicesToLabels(seriesLabels, next)
          /\ override' = [key |-> seriesLabels, hidden |-> next]
          /\ uplot' = Rendered(uplot, mode, config, DisplayAxis(config, yMaxFloor), next)
    /\ UNCHANGED <<mode, config, yMaxFloor>>

Next ==
    \/ Refresh \/ Reload \/ ThemeChanged
    \/ \E i \in DOMAIN seriesLabels : toggleSeries(i)

Spec == Init /\ [][Next]_chartVars

-----------------------------------------------------------------------------
\* chart-tooltip.ts

\* The visible series that have a value under the cursor; in a stack, what a
\* line adds to the one below it.
TooltipEntries(chart, p) ==
    LET Below(j) == IF mode # "stack" \/ j = 1 \/ chart.data[j - 1][p] = None THEN 0
                    ELSE chart.data[j - 1][p]
        visible == {j \in chart.shown : chart.data[j][p] # None}
    IN {[label |-> chart.labels[j], value |-> chart.data[j][p] - Below(j), line |-> j] :
           j \in visible}

\* The series of a stack the cursor points at
FocusedLine(chart, p, hover) ==
    LET At(j) == IF j = 0 \/ chart.data[j][p] = None THEN 0 ELSE chart.data[j][p]
        under == {j \in DOMAIN chart.data :
                     hover >= (IF j = 1 THEN 0 ELSE At(j - 1)) /\ hover <= At(j)}
    IN IF mode = "stack" /\ under # {} THEN Min(under) ELSE 0

\* The largest first; the one pointed at takes the last row when it is not
\* among them.
renderTooltipBody(entries, focused) ==
    LET ordered == InOrder([a \in entries |->
                       {b \in entries : IF b.value = a.value THEN b.line < a.line
                                        ELSE b.value > a.value}])
        n == Min({MAX_TOOLTIP_ENTRIES, Len(ordered)})
        at == {i \in DOMAIN ordered : ordered[i].line = focused}
    IN IF at # {} /\ Min(at) > MAX_TOOLTIP_ENTRIES
       THEN [rows |-> Append(SubSeq(ordered, 1, MAX_TOOLTIP_ENTRIES - 1), ordered[Min(at)]),
             remaining |-> Len(ordered) - MAX_TOOLTIP_ENTRIES]
       ELSE [rows |-> SubSeq(ordered, 1, n), remaining |-> Len(ordered) - n]

-----------------------------------------------------------------------------
\* What the legend says is what the plot shows, by label: through refreshes
\* that reorder a stack, add and drop series or leave some without data, in a
\* plot updated in place or replaced, with labels hidden on an earlier visit;
\* and never are all buttons up (chart-series-visibility.ts:37,
\* use-chart-series-visibility.ts:52, metric-chart.tsx:209).
LegendTellsPlot ==
    uplot # None =>
        /\ \E i \in DOMAIN SeriesLegend : SeriesLegend[i].pressed
        /\ {uplot.labels[j] : j \in uplot.shown}
             = {SeriesLegend[i].label : i \in {k \in DOMAIN SeriesLegend :
                    SeriesLegend[k].pressed /\ SeriesLegend[k].value # None}}

\* Heights of the cursor: between and on the lines
Measures == UNION {Range(lane) : lane \in Lanes[mode]} \ {None}

\* Wherever the cursor is, every row of the tooltip tells what the query
\* answered for that label, although a stack holds sums over hidden series
\* too; rows and "n more" make up the visible series, and the series pointed
\* at, if visible, has a row (chart-tooltip.ts:202, 386).
Answered(label, p) ==
    LET e == CHOOSE d \in config : d.label = label
    IN IF e.values[p] = None THEN 0 ELSE e.values[p]

TooltipTellsData ==
    uplot # None =>
        \A p \in UNION {DOMAIN e.values : e \in config}, hover \in Measures :
            LET entries == TooltipEntries(uplot, p)
                focused == FocusedLine(uplot, p, hover)
                body == renderTooltipBody(entries, focused)
            IN /\ \A i \in DOMAIN body.rows :
                     body.rows[i].value = Answered(body.rows[i].label, p)
               /\ Len(body.rows) + body.remaining = Cardinality(entries)
               /\ Cardinality(Range(body.rows)) = Len(body.rows)
               /\ \A e \in entries : e.line = focused => e \in Range(body.rows)
=============================================================================
