----------------------------- MODULE TimeWindow -----------------------------
(***************************************************************************)
(* The time range of the dashboard: kept in the URL, read back when the URL *)
(* changes, typed into the picker or dragged on a chart, and shown against  *)
(* a clock of its own, the epoch anchor, that moves with the refresh.       *)
(* Times are whole ticks; what is typed is a whole number of minutes.       *)
(***************************************************************************)
EXTENDS Integers

CONSTANTS METRIC_RANGE_LOOKBACK,   \* ticks of each preset range
          DEFAULT_METRIC_TIME_RANGE,
          None,
          MIN_SPAN, MAX_SPAN,      \* window-policy.ts
          Minute,                  \* ticks of a minute
          RefreshEvery,            \* ticks between two automatic refreshes
          Start, End               \* bound: the clock

VARIABLES
  now, epochAnchor,
  search,      \* the URL: a preset, unless it is the default one, or two times
  timeWindow,  \* what was read from it, when it changed
  draft        \* the open picker: what its two fields say, or Closed

windowVars == <<now, epochAnchor, search, timeWindow, draft>>

Presets == DOMAIN METRIC_RANGE_LOOKBACK
Preset(r) == [kind |-> "preset", range |-> r]
Custom(f, t) == [kind |-> "custom", from |-> f, to |-> t]
Closed == [open |-> FALSE, from |-> 0, to |-> 0, customError |-> FALSE]

Min2(a, b) == IF a < b THEN a ELSE b

\* What each way to choose a range puts into the URL
PresetParams(r) == [range |-> IF r = DEFAULT_METRIC_TIME_RANGE THEN None ELSE r,
                    from |-> None, to |-> None]
CustomParams(f, t) == [range |-> None, from |-> f, to |-> t]

\* datetime-local.ts
InMinutes(t) == Minute * (t \div Minute)

\* What the fields of the picker may say, and so what a range may begin with
Clock == InMinutes(Start - MAX_SPAN) .. End
Window == {Preset(r) : r \in Presets} \cup {Custom(f, t) : f, t \in Clock}

TypeOK ==
    /\ now \in Start .. End /\ epochAnchor \in Start .. now
    /\ search \in {PresetParams(r) : r \in Presets}
                 \cup {CustomParams(f, t) : f, t \in Clock}
    /\ timeWindow \in Window
    /\ draft \in [open : BOOLEAN, from : Clock \cup {0}, to : Clock \cup {0},
                  customError : BOOLEAN]

-----------------------------------------------------------------------------
\* time-window.ts

validateMetricEpochWindow(f, t, at) ==
    LET span == Min2(t, at) - f
    IN span > 0 /\ span >= MIN_SPAN /\ span <= MAX_SPAN

metricTimeWindowFromSearch(s, at) ==
    IF s.from # None /\ validateMetricEpochWindow(s.from, s.to, at)
    THEN Custom(s.from, Min2(s.to, at))
    ELSE Preset(IF s.range = None THEN DEFAULT_METRIC_TIME_RANGE ELSE s.range)

\* What links to other pages carry
metricTimeWindowSearchParams(s, at) ==
    LET w == metricTimeWindowFromSearch(s, at)
    IN IF w.kind = "custom" THEN CustomParams(w.from, w.to) ELSE PresetParams(w.range)

metricTimeWindowToEpochWindow(w, at) ==
    IF w.kind = "custom" THEN [from |-> w.from, to |-> Min2(w.to, at)]
    ELSE [from |-> at - METRIC_RANGE_LOOKBACK[w.range], to |-> at]

\* The x axis of every chart of the page
resolveChartXWindow == metricTimeWindowToEpochWindow(timeWindow, epochAnchor)

draftFromWindow(w, at) ==
    LET x == metricTimeWindowToEpochWindow(w, at)
    IN [open |-> TRUE, from |-> InMinutes(x.from), to |-> InMinutes(x.to),
        customError |-> FALSE]

\* A new URL is read at once; an open picker starts over with what it says.
navigate(s) ==
    /\ search' = s
    /\ timeWindow' = metricTimeWindowFromSearch(s, now)

-----------------------------------------------------------------------------
Init ==
    /\ now = Start /\ epochAnchor = Start
    /\ search \in {PresetParams(r) : r \in Presets}
    /\ timeWindow = metricTimeWindowFromSearch(search, now)
    /\ draft = Closed

\* The automatic refresh and the refresh button move the anchor, and the picker
\* that is open then forgets what was typed.
bumpEpochAnchor ==
    /\ epochAnchor # now
    /\ epochAnchor' = now
    /\ draft' = IF draft.open THEN draftFromWindow(timeWindow, now) ELSE draft
    /\ UNCHANGED <<now, search, timeWindow>>

Tick ==
    /\ now < End /\ now - epochAnchor < RefreshEvery
    /\ now' = now + 1
    /\ UNCHANGED <<epochAnchor, search, timeWindow, draft>>

\* DashboardTimeRangePicker
OpenPicker ==
    /\ ~draft.open
    /\ draft' = draftFromWindow(timeWindow, epochAnchor)
    /\ UNCHANGED <<now, epochAnchor, search, timeWindow>>

ClosePicker ==
    /\ draft.open
    /\ draft' = Closed
    /\ UNCHANGED <<now, epochAnchor, search, timeWindow>>

Typed == {t \in Clock : t % Minute = 0 /\ t >= Start - MAX_SPAN \div 2}

TypeIn ==
    /\ draft.open
    /\ \E t \in Typed :
          \/ draft' = [draft EXCEPT !.from = t, !.customError = FALSE]
          \/ draft' = [draft EXCEPT !.to = t, !.customError = FALSE]
    /\ UNCHANGED <<now, epochAnchor, search, timeWindow>>

applyCustomRange ==
    /\ draft.open
    /\ IF validateMetricEpochWindow(draft.from, draft.to, now)
       THEN navigate(CustomParams(draft.from, Min2(draft.to, now))) /\ draft' = Closed
       ELSE /\ draft' = [draft EXCEPT !.customError = TRUE]
            /\ UNCHANGED <<search, timeWindow>>
    /\ UNCHANGED <<now, epochAnchor>>

selectPreset(r) ==
    /\ draft.open
    /\ navigate(PresetParams(r))
    /\ draft' = Closed
    /\ UNCHANGED <<now, epochAnchor>>

-----------------------------------------------------------------------------
\* chart-zoom.ts

\* Mutant: a selection may be shorter than a custom range.
ZoomsAnyLength(f, t, data) ==
    /\ data.to > data.from /\ t > f
    /\ 20 * (t - f) < 19 * (data.to - data.from)

shouldNavigateChartZoom(f, t, data) ==
    /\ data.to > data.from /\ t > f
    /\ 20 * (t - f) < 19 * (data.to - data.from)
    /\ t - f >= MIN_SPAN

handleZoomToRange(f, t) == navigate(CustomParams(f, Min2(t, now)))

\* A selection dragged on a chart lies within the window it shows; a chart
\* outside the picker is dragged with the picker closed.
ZoomSelect ==
    /\ ~draft.open
    /\ \E f, t \in resolveChartXWindow.from .. resolveChartXWindow.to :
          /\ shouldNavigateChartZoom(f, t, resolveChartXWindow)
          /\ handleZoomToRange(f, t)
    /\ UNCHANGED <<now, epochAnchor, draft>>

\* A link to another page: its picker is closed, its range comes along.
FollowLink ==
    /\ navigate(metricTimeWindowSearchParams(search, now))
    /\ draft' = Closed
    /\ UNCHANGED <<now, epochAnchor>>

Next ==
    \/ Tick \/ bumpEpochAnchor \/ FollowLink
    \/ OpenPicker \/ ClosePicker \/ TypeIn \/ applyCustomRange \/ ZoomSelect
    \/ \E r \in Presets : selectPreset(r)

Spec == Init /\ [][Next]_windowVars

-----------------------------------------------------------------------------
\* A range that was accepted is the range shown: reading the URL, which checks
\* it again at another time, never falls back to the default, and a link to
\* another page carries the same range, however late it is opened
\* (time-window.ts:92; the default is left out of the URL, :84).
AcceptedIsShown ==
    /\ search.from # None => timeWindow = Custom(search.from, search.to)
    /\ LET there == metricTimeWindowSearchParams(search, now)
       IN \A t \in now .. End : metricTimeWindowFromSearch(there, t) = timeWindow

\* No chart is drawn with its axis reversed: the anchor may lag behind the
\* clock a range was checked with, and never by more than the shortest range
\* (chart-zoom.ts:52; with the automatic refresh off nothing bounds the lag).
AxisUpright == resolveChartXWindow.from <= resolveChartXWindow.to
=============================================================================
