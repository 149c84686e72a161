----------------------------- MODULE Web_proofs -----------------------------
(***************************************************************************)
(* Proofs about the pages of the browser, for every instance of its parts:  *)
(* the time range, the settings form, the admin pages and the lists.  Each  *)
(* has an invariant of its own, which the steps of the others leave alone.  *)
(***************************************************************************)
EXTENDS WebWidgets_proofs

-----------------------------------------------------------------------------
(* The time range                                                            *)

\* The URL says what is shown: a preset, or a range that passed the check.
Shows(s, w) ==
    \/ \E r \in Window!Presets : s = Window!PresetParams(r) /\ w = Window!Preset(r)
    \/ \E f, t \in Int :
         /\ s = Window!CustomParams(f, t) /\ w = Window!Custom(f, t)
         /\ t <= now /\ MIN_SPAN <= t - f /\ t - f <= MAX_SPAN

Draft == [open : BOOLEAN, from : Int, to : Int, customError : BOOLEAN]

WindowInv ==
    /\ now \in Int /\ epochAnchor \in Int
    /\ epochAnchor <= now /\ now - epochAnchor <= RefreshEvery
    /\ Shows(search, timeWindow)
    /\ draft \in Draft

-----------------------------------------------------------------------------
(* Reading a URL                                                             *)

\* A preset is read as itself at any time.
LEMMA PresetIsRead ==
    ASSUME NEW r \in Window!Presets, NEW at
    PROVE  Window!metricTimeWindowFromSearch(Window!PresetParams(r), at) = Window!Preset(r)
BY WindowAssumption DEF Window!metricTimeWindowFromSearch, Window!PresetParams, Window!Preset

\* A range of an allowed length that has passed is read as itself from then on.
LEMMA CustomIsRead ==
    ASSUME NEW f \in Int, NEW t \in Int, NEW at \in Int,
           t <= at, MIN_SPAN <= t - f, t - f <= MAX_SPAN
    PROVE  Window!metricTimeWindowFromSearch(Window!CustomParams(f, t), at) = Window!Custom(f, t)
<1>1. Window!Min2(t, at) = t
  BY DEF Window!Min2
<1>2. Window!validateMetricEpochWindow(f, t, at)
  BY <1>1, WindowAssumption DEF Window!validateMetricEpochWindow
<1>3. QED
  BY <1>1, <1>2, WindowAssumption DEF Window!metricTimeWindowFromSearch, Window!CustomParams

\* What is shown is what the URL says, also when it is read again later.
LEMMA ShownIsRead ==
    ASSUME now \in Int, NEW s, NEW w, Shows(s, w), NEW at \in Int, now <= at
    PROVE  Window!metricTimeWindowFromSearch(s, at) = w
<1>1. CASE \E r \in Window!Presets : s = Window!PresetParams(r) /\ w = Window!Preset(r)
  BY <1>1, PresetIsRead
<1>2. CASE \E f, t \in Int :
             /\ s = Window!CustomParams(f, t) /\ w = Window!Custom(f, t)
             /\ t <= now /\ MIN_SPAN <= t - f /\ t - f <= MAX_SPAN
  <2> PICK f \in Int, t \in Int :
             /\ s = Window!CustomParams(f, t) /\ w = Window!Custom(f, t)
             /\ t <= now /\ MIN_SPAN <= t - f /\ t - f <= MAX_SPAN
    BY <1>2
  <2>1. t <= at
    OBVIOUS
  <2>2. QED
    BY <2>1, CustomIsRead
<1>3. QED
  BY <1>1, <1>2 DEF Shows

\* A link carries what is shown.
LEMMA LinkCarries ==
    ASSUME now \in Int, NEW s, NEW w, Shows(s, w)
    PROVE  Window!metricTimeWindowSearchParams(s, now) = s
<1>1. Window!metricTimeWindowFromSearch(s, now) = w
  BY ShownIsRead
<1>2. (w.kind = "custom" /\ s = Window!CustomParams(w.from, w.to))
        \/ (w.kind = "preset" /\ s = Window!PresetParams(w.range))
  BY DEF Shows, Window!Custom, Window!Preset
<1>3. QED
  BY <1>1, <1>2 DEF Window!metricTimeWindowSearchParams

-----------------------------------------------------------------------------
(* The steps                                                                 *)

\* What the axis spans is no longer than the longest range, and has passed.
LEMMA AxisSpan ==
    ASSUME WindowInv
    PROVE  /\ Window!resolveChartXWindow.from \in Int /\ Window!resolveChartXWindow.to \in Int
           /\ Window!resolveChartXWindow.from <= Window!resolveChartXWindow.to
           /\ Window!resolveChartXWindow.to - Window!resolveChartXWindow.from <= MAX_SPAN
           /\ Window!resolveChartXWindow.to <= now
<1>1. CASE \E r \in Window!Presets : timeWindow = Window!Preset(r)
  <2> PICK r \in Window!Presets : timeWindow = Window!Preset(r)
    BY <1>1
  <2>1. Window!resolveChartXWindow = [from |-> epochAnchor - METRIC_RANGE_LOOKBACK[r],
                               to |-> epochAnchor]
    BY DEF Window!resolveChartXWindow, Window!metricTimeWindowToEpochWindow, Window!Preset
  <2>2. METRIC_RANGE_LOOKBACK[r] \in Int /\ METRIC_RANGE_LOOKBACK[r] >= 1
        /\ METRIC_RANGE_LOOKBACK[r] <= MAX_SPAN
    BY WindowAssumption
  <2>3. QED
    BY <2>1, <2>2 DEF WindowInv
<1>2. CASE \E f, t \in Int : /\ timeWindow = Window!Custom(f, t) /\ t <= now
                             /\ MIN_SPAN <= t - f /\ t - f <= MAX_SPAN
  <2> PICK f \in Int, t \in Int : /\ timeWindow = Window!Custom(f, t) /\ t <= now
                                  /\ MIN_SPAN <= t - f /\ t - f <= MAX_SPAN
    BY <1>2
  <2>1. Window!resolveChartXWindow = [from |-> f, to |-> Window!Min2(t, epochAnchor)]
    BY DEF Window!resolveChartXWindow, Window!metricTimeWindowToEpochWindow, Window!Custom
  <2>2. QED
    BY <2>1, WindowAssumption DEF WindowInv, Window!Min2
<1>3. QED
  BY <1>1, <1>2 DEF WindowInv, Shows

LEMMA DraftTypes ==
    ASSUME NEW w, NEW at \in Int,
           \/ \E r \in Window!Presets : w = Window!Preset(r)
           \/ \E f, t \in Int : w = Window!Custom(f, t)
    PROVE  Window!draftFromWindow(w, at) \in Draft
<1>1. \A t \in Int : Window!InMinutes(t) \in Int
  BY WindowAssumption DEF Window!InMinutes
<1>2. /\ Window!metricTimeWindowToEpochWindow(w, at).from \in Int
      /\ Window!metricTimeWindowToEpochWindow(w, at).to \in Int
  BY WindowAssumption DEF Window!metricTimeWindowToEpochWindow, Window!Preset, Window!Custom,
     Window!Min2
<1>3. QED
  BY <1>1, <1>2 DEF Window!draftFromWindow, Draft

\* A URL that says an allowed range, or a preset, is shown.
LEMMA NavigateShows ==
    ASSUME now \in Int, now' = now, NEW s, NEW w, Shows(s, w), Window!navigate(s)
    PROVE  Shows(search, timeWindow)'
<1>1. search' = s /\ timeWindow' = w
  BY ShownIsRead DEF Window!navigate
<1>2. QED
  BY <1>1 DEF Shows

LEMMA InitWindowInv == Window!Init => WindowInv
<1> SUFFICES ASSUME Window!Init PROVE WindowInv
  OBVIOUS
<1>1. PICK r \in Window!Presets : search = Window!PresetParams(r)
  BY DEF Window!Init
<1>2. timeWindow = Window!Preset(r)
  BY <1>1, PresetIsRead DEF Window!Init
<1>3. QED
  BY <1>1, <1>2, WindowAssumption DEF Window!Init, WindowInv, Shows, Window!Closed, Draft

LEMMA StepWindowInv ==
    ASSUME WindowInv, Window!Next \/ UNCHANGED timeVars
    PROVE  WindowInv'
<1> USE DEF WindowInv
<1>1. CASE Window!Tick
  <2>1. now' = now + 1 /\ now - epochAnchor < RefreshEvery
        /\ UNCHANGED <<epochAnchor, search, timeWindow, draft>>
    BY <1>1 DEF Window!Tick
  <2>2. RefreshEvery \in Int
    BY WindowAssumption
  <2>3. Shows(search, timeWindow)'
    BY <2>1 DEF Shows
  <2>4. QED
    BY <2>1, <2>2, <2>3
<1>2. CASE Window!bumpEpochAnchor
  <2>1. draft' \in Draft
    BY <1>2, DraftTypes DEF Window!bumpEpochAnchor, Shows
  <2>2. QED
    BY <1>2, <2>1, WindowAssumption DEF Window!bumpEpochAnchor, Shows
<1>3. CASE Window!FollowLink
  <2>1. Window!navigate(search) /\ now' = now /\ epochAnchor' = epochAnchor
        /\ draft' = Window!Closed
    BY <1>3, LinkCarries DEF Window!FollowLink
  <2>2. QED
    BY <2>1, NavigateShows DEF Window!Closed, Draft
<1>4. CASE Window!OpenPicker
  <2>1. draft' \in Draft
    BY <1>4, DraftTypes DEF Window!OpenPicker, Shows
  <2>2. QED
    BY <1>4, <2>1 DEF Window!OpenPicker, Shows
<1>5. CASE Window!ClosePicker
  BY <1>5 DEF Window!ClosePicker, Window!Closed, Draft, Shows
<1>6. CASE Window!TypeIn
  <2>1. \A t \in Window!Typed : t \in Int
    BY WindowAssumption DEF Window!Typed, Window!Clock
  <2>2. PICK t \in Window!Typed : \/ draft' = [draft EXCEPT !.from = t, !.customError = FALSE]
                           \/ draft' = [draft EXCEPT !.to = t, !.customError = FALSE]
    BY <1>6 DEF Window!TypeIn
  <2>3. draft' \in Draft
    BY <2>1, <2>2 DEF Draft
  <2>4. QED
    BY <1>6, <2>3 DEF Window!TypeIn, Shows
<1>7. CASE Window!applyCustomRange
  <2> DEFINE f == draft.from
             t == Window!Min2(draft.to, now)
  <2>1. f \in Int /\ t \in Int /\ t <= now
    BY DEF Window!Min2, Draft
  <2>2. CASE Window!validateMetricEpochWindow(draft.from, draft.to, now)
    <3>1. Window!navigate(Window!CustomParams(f, t)) /\ draft' = Window!Closed
          /\ now' = now /\ epochAnchor' = epochAnchor
      BY <1>7, <2>2 DEF Window!applyCustomRange
    <3>2. MIN_SPAN <= t - f /\ t - f <= MAX_SPAN
      BY <2>1, <2>2, WindowAssumption DEF Window!validateMetricEpochWindow
    <3>3. Shows(Window!CustomParams(f, t), Window!Custom(f, t))
      BY <2>1, <3>2 DEF Shows
    <3>4. QED
      BY <3>1, <3>3, NavigateShows DEF Window!Closed, Draft
  <2>3. CASE ~Window!validateMetricEpochWindow(draft.from, draft.to, now)
    <3>1. draft' \in Draft
          /\ UNCHANGED <<search, timeWindow, now, epochAnchor>>
      BY <1>7, <2>3 DEF Window!applyCustomRange, Draft
    <3>2. QED
      BY <3>1 DEF Shows
  <2>4. QED
    BY <2>2, <2>3
<1>8. CASE Window!ZoomSelect
  <2>1. PICK f \in Window!resolveChartXWindow.from .. Window!resolveChartXWindow.to,
             t \in Window!resolveChartXWindow.from .. Window!resolveChartXWindow.to :
          /\ Window!shouldNavigateChartZoom(f, t, Window!resolveChartXWindow)
          /\ Window!handleZoomToRange(f, t)
    BY <1>8 DEF Window!ZoomSelect
  <2>2. f \in Int /\ t \in Int /\ t <= now /\ t - f <= MAX_SPAN
    BY <2>1, AxisSpan, WindowAssumption
  <2>3. MIN_SPAN <= t - f
    BY <2>1, <2>2, WindowAssumption DEF Window!shouldNavigateChartZoom
  <2>4. Window!Min2(t, now) = t
    BY <2>2 DEF Window!Min2
  <2>5. Window!navigate(Window!CustomParams(f, t))
    BY <2>1, <2>4 DEF Window!handleZoomToRange
  <2>6. Shows(Window!CustomParams(f, t), Window!Custom(f, t))
    BY <2>2, <2>3 DEF Shows
  <2>7. UNCHANGED <<now, epochAnchor, draft>>
    BY <1>8 DEF Window!ZoomSelect
  <2>8. QED
    BY <2>5, <2>6, <2>7, NavigateShows
<1>9. ASSUME NEW r \in Window!Presets, Window!selectPreset(r) PROVE WindowInv'
  <2>1. Shows(Window!PresetParams(r), Window!Preset(r))
    BY DEF Shows
  <2>2. Window!navigate(Window!PresetParams(r)) /\ draft' = Window!Closed
        /\ now' = now /\ epochAnchor' = epochAnchor
    BY <1>9 DEF Window!selectPreset
  <2>3. QED
    BY <2>1, <2>2, NavigateShows DEF Window!Closed, Draft
<1>10. CASE UNCHANGED timeVars
  BY <1>10 DEF timeVars, Shows
<1>11. QED
  BY <1>1, <1>2, <1>3, <1>4, <1>5, <1>6, <1>7, <1>8, <1>9, <1>10 DEF Window!Next

LEMMA AcceptedShown == ASSUME WindowInv PROVE Window!AcceptedIsShown
<1>1. search.from # None => timeWindow = Window!Custom(search.from, search.to)
  BY DEF WindowInv, Shows, Window!PresetParams, Window!CustomParams
<1>2. ASSUME NEW t \in now .. End
      PROVE  Window!metricTimeWindowFromSearch(search, t) = timeWindow
  BY ShownIsRead, WindowAssumption DEF WindowInv
<1>3. Window!metricTimeWindowSearchParams(search, now) = search
  BY LinkCarries DEF WindowInv
<1>4. QED
  BY <1>1, <1>2, <1>3 DEF Window!AcceptedIsShown

\* The anchor a chart is drawn against may lag behind the clock its range was
\* checked with.
LEMMA Upright == ASSUME WindowInv PROVE Window!AxisUpright
BY AxisSpan DEF Window!AxisUpright

-----------------------------------------------------------------------------
(* The types of the time range                                               *)
\* The clock is bounded, and so is what is shown and typed.
WindowTypes ==
    /\ now \in Start .. End /\ epochAnchor >= Start
    /\ timeWindow.kind = "custom" => timeWindow.from \in Window!Clock /\ timeWindow.to \in Window!Clock
    /\ IF draft.open THEN draft.from \in Window!Clock /\ draft.to \in Window!Clock
       ELSE draft = Window!Closed

\* Whole minutes do not change the order of times.
LEMMA MinutesKeepOrder ==
    ASSUME NEW a \in Int, NEW b \in Int, a <= b
    PROVE  /\ Window!InMinutes(a) \in Int /\ Window!InMinutes(a) <= a
           /\ Window!InMinutes(a) <= Window!InMinutes(b)
           /\ Window!InMinutes(Window!InMinutes(a)) = Window!InMinutes(a)
<1>1. PICK m : m = Minute
  OBVIOUS
<1>2. m \in Int /\ m > 0
  BY <1>1, WindowAssumption
<1>3. \A x \in Int : x \div m \in Int /\ m * (x \div m) <= x /\ x < m * (x \div m) + m
  BY <1>2
<1>4. PICK q, r : q = a \div m /\ r = b \div m
  OBVIOUS
<1>5. q \in Int /\ r \in Int /\ m * q <= a /\ b < m * r + m
  BY <1>3, <1>4
<1>6. q <= r
  <2>1. SUFFICES ASSUME q >= r + 1 PROVE FALSE
    BY <1>5
  <2>2. m * q >= m * (r + 1) /\ m * (r + 1) = m * r + m
    BY <1>2, <1>5, <2>1
  <2>3. m * q \in Int /\ m * r \in Int
    BY <1>2, <1>5
  <2>4. QED
    BY <1>2, <1>5, <2>2, <2>3
<1>7. m * q <= m * r /\ m * q \in Int
  BY <1>2, <1>5, <1>6
<1>8. (m * q) \div m = q
  BY <1>2, <1>5
<1>9. QED
  BY <1>1, <1>4, <1>5, <1>7, <1>8 DEF Window!InMinutes

LEMMA ClockHolds ==
    ASSUME NEW x \in Int, Window!InMinutes(Start - MAX_SPAN) <= x, x <= End
    PROVE  x \in Window!Clock /\ Window!InMinutes(x) \in Window!Clock
<1>1. PICK s : s = Window!InMinutes(Start - MAX_SPAN)
  OBVIOUS
<1>2. Start - MAX_SPAN \in Int /\ End \in Int
  BY WindowAssumption
<1>3. s \in Int /\ Window!InMinutes(s) = s
  BY <1>1, <1>2, MinutesKeepOrder
<1>4. Window!InMinutes(x) \in Int /\ Window!InMinutes(x) <= x /\ s <= Window!InMinutes(x)
  BY <1>1, <1>3, MinutesKeepOrder
<1>5. QED
  BY <1>1, <1>2, <1>3, <1>4 DEF Window!Clock

\* What the axis spans is within the clock.
LEMMA AxisInClock ==
    ASSUME WindowInv, WindowTypes, NEW at \in epochAnchor .. now
    PROVE  LET x == Window!metricTimeWindowToEpochWindow(timeWindow, at)
           IN /\ x.from \in Window!Clock /\ x.to \in Window!Clock
              /\ Window!InMinutes(x.from) \in Window!Clock /\ Window!InMinutes(x.to) \in Window!Clock
<1>1. PICK s : s = Window!InMinutes(Start - MAX_SPAN)
  OBVIOUS
<1>2. Start \in Int /\ MAX_SPAN \in Int /\ End \in Int /\ MAX_SPAN > 0
  <2>1. METRIC_RANGE_LOOKBACK[DEFAULT_METRIC_TIME_RANGE] \in 1 .. MAX_SPAN
    BY WindowAssumption
  <2>2. QED
    BY <2>1, WindowAssumption
<1>3. s \in Int /\ s <= Start - MAX_SPAN
  BY <1>1, <1>2, MinutesKeepOrder
<1>4. at \in Int /\ Start <= at /\ at <= End
  BY <1>2 DEF WindowInv, WindowTypes
<1>5. CASE \E r \in Window!Presets : timeWindow = Window!Preset(r)
  <2>1. PICK r \in Window!Presets : timeWindow = Window!Preset(r)
    BY <1>5
  <2>2. PICK x : x = Window!metricTimeWindowToEpochWindow(timeWindow, at)
    OBVIOUS
  <2>3. x = [from |-> at - METRIC_RANGE_LOOKBACK[r], to |-> at]
    BY <2>1, <2>2 DEF Window!metricTimeWindowToEpochWindow, Window!Preset
  <2>4. METRIC_RANGE_LOOKBACK[r] \in 1 .. MAX_SPAN
    BY <2>1, WindowAssumption
  <2>5. x.from \in Int /\ s <= x.from /\ x.from <= End /\ x.to = at /\ s <= x.to
    BY <1>2, <1>3, <1>4, <2>3, <2>4
  <2>6. QED
    BY <1>1, <1>4, <2>2, <2>5, ClockHolds
<1>6. CASE \E f, t \in Int : timeWindow = Window!Custom(f, t)
  <2>1. PICK f \in Int, t \in Int : timeWindow = Window!Custom(f, t)
    BY <1>6
  <2>2. PICK x : x = Window!metricTimeWindowToEpochWindow(timeWindow, at)
    OBVIOUS
  <2>3. x = [from |-> f, to |-> Window!Min2(t, at)]
    BY <2>1, <2>2 DEF Window!metricTimeWindowToEpochWindow, Window!Custom
  <2>4. f \in s .. End /\ t \in s .. End
    BY <1>1, <2>1 DEF WindowTypes, Window!Custom, Window!Clock
  <2>5. /\ x.from \in Int /\ s <= x.from /\ x.from <= End
        /\ x.to \in Int /\ s <= x.to /\ x.to <= End
    BY <1>2, <1>3, <1>4, <2>3, <2>4 DEF Window!Min2
  <2>6. QED
    BY <1>1, <2>2, <2>5, ClockHolds
<1>7. QED
  BY <1>5, <1>6 DEF WindowInv, Shows

LEMMA DraftInClock ==
    ASSUME WindowInv, WindowTypes, NEW at \in epochAnchor .. now
    PROVE  LET d == Window!draftFromWindow(timeWindow, at)
           IN d.open /\ d.from \in Window!Clock /\ d.to \in Window!Clock
BY AxisInClock DEF Window!draftFromWindow

LEMMA WindowTypesInit == Window!Init => WindowTypes
<1> SUFFICES ASSUME Window!Init PROVE WindowTypes
  OBVIOUS
<1>1. PICK r \in Window!Presets : search = Window!PresetParams(r)
  BY DEF Window!Init
<1>2. timeWindow = Window!Preset(r)
  BY <1>1, PresetIsRead DEF Window!Init
<1>3. QED
  BY <1>2, WindowAssumption DEF Window!Init, WindowTypes, Window!Preset, Window!Closed

\* A URL that says a range within the clock, or a preset, is shown.
LEMMA NavigateInClock ==
    ASSUME now \in Int, NEW s, NEW w, Shows(s, w), Window!navigate(s)
    PROVE  timeWindow' = w
BY ShownIsRead DEF Window!navigate

LEMMA WindowTypesStep ==
    ASSUME WindowInv, WindowTypes, Window!Next \/ UNCHANGED timeVars
    PROVE  WindowTypes'
<1>0. now \in Start .. End /\ Start \in Int /\ End \in Int /\ now \in Int
      /\ epochAnchor \in Int /\ Start <= epochAnchor /\ epochAnchor <= now
  BY WindowAssumption DEF WindowInv, WindowTypes
<1>1. CASE Window!Tick
  BY <1>0, <1>1 DEF Window!Tick, WindowTypes
<1>2. CASE Window!bumpEpochAnchor
  <2>1. draft.open => /\ Window!draftFromWindow(timeWindow, now).open
                      /\ Window!draftFromWindow(timeWindow, now).from \in Window!Clock
                      /\ Window!draftFromWindow(timeWindow, now).to \in Window!Clock
    BY <1>0, DraftInClock
  <2>2. draft' = (IF draft.open THEN Window!draftFromWindow(timeWindow, now) ELSE draft)
        /\ UNCHANGED <<now, timeWindow>> /\ epochAnchor' = now
    BY <1>2 DEF Window!bumpEpochAnchor
  <2>3. QED
    BY <1>0, <2>1, <2>2 DEF WindowTypes
<1>3. CASE Window!FollowLink
  <2>1. Window!navigate(search) /\ draft' = Window!Closed /\ UNCHANGED <<now, epochAnchor>>
    BY <1>0, <1>3, LinkCarries DEF Window!FollowLink, WindowInv
  <2>2. timeWindow' = timeWindow
    BY <1>0, <2>1, NavigateInClock DEF WindowInv
  <2>3. QED
    BY <2>1, <2>2 DEF WindowTypes, Window!Closed
<1>4. CASE Window!OpenPicker
  <2>1. /\ Window!draftFromWindow(timeWindow, epochAnchor).open
        /\ Window!draftFromWindow(timeWindow, epochAnchor).from \in Window!Clock
        /\ Window!draftFromWindow(timeWindow, epochAnchor).to \in Window!Clock
    BY <1>0, DraftInClock
  <2>2. QED
    BY <1>4, <2>1 DEF Window!OpenPicker, WindowTypes
<1>5. CASE Window!ClosePicker
  BY <1>5 DEF Window!ClosePicker, WindowTypes, Window!Closed
<1>6. CASE Window!TypeIn
  <2>1. PICK t \in Window!Clock : \/ draft' = [draft EXCEPT !.from = t, !.customError = FALSE]
                                  \/ draft' = [draft EXCEPT !.to = t, !.customError = FALSE]
    BY <1>6 DEF Window!TypeIn, Window!Typed
  <2>2. draft.open /\ draft \in Draft /\ UNCHANGED <<now, epochAnchor, timeWindow>>
    BY <1>6 DEF Window!TypeIn, WindowInv
  <2>3. draft'.open /\ draft'.from \in Window!Clock /\ draft'.to \in Window!Clock
    BY <2>1, <2>2 DEF WindowTypes, Draft
  <2>4. QED
    BY <2>2, <2>3 DEF WindowTypes
<1>7. CASE Window!applyCustomRange
  <2>1. draft.open /\ draft \in Draft /\ UNCHANGED <<now, epochAnchor>>
    BY <1>7 DEF Window!applyCustomRange, WindowInv
  <2>2. PICK f, t : f = draft.from /\ t = Window!Min2(draft.to, now)
    OBVIOUS
  <2>3. f \in Int /\ t \in Int /\ t <= now /\ f \in Window!Clock
    BY <1>0, <2>1, <2>2 DEF Window!Min2, Draft, WindowTypes
  <2>4. CASE Window!validateMetricEpochWindow(draft.from, draft.to, now)
    <3>1. Window!navigate(Window!CustomParams(f, t)) /\ draft' = Window!Closed
      BY <1>7, <2>2, <2>4 DEF Window!applyCustomRange
    <3>2. MIN_SPAN <= t - f /\ t - f <= MAX_SPAN
      BY <2>2, <2>3, <2>4, WindowAssumption DEF Window!validateMetricEpochWindow
    <3>3. Shows(Window!CustomParams(f, t), Window!Custom(f, t))
      BY <2>3, <3>2 DEF Shows
    <3>4. timeWindow' = Window!Custom(f, t)
      BY <1>0, <3>1, <3>3, NavigateInClock
    <3>5. t \in Window!Clock
      BY <1>0, <2>3, <3>2, WindowAssumption, MinutesKeepOrder DEF Window!Clock
    <3>6. QED
      BY <2>1, <2>3, <3>1, <3>4, <3>5 DEF WindowTypes, Window!Custom, Window!Closed
  <2>5. CASE ~Window!validateMetricEpochWindow(draft.from, draft.to, now)
    <3>1. draft' = [draft EXCEPT !.customError = TRUE] /\ UNCHANGED <<search, timeWindow>>
      BY <1>7, <2>5 DEF Window!applyCustomRange
    <3>2. QED
      BY <2>1, <3>1 DEF WindowTypes, Draft
  <2>6. QED
    BY <2>4, <2>5
<1>8. CASE Window!ZoomSelect
  <2>1. PICK f \in Window!resolveChartXWindow.from .. Window!resolveChartXWindow.to,
             t \in Window!resolveChartXWindow.from .. Window!resolveChartXWindow.to :
          /\ Window!shouldNavigateChartZoom(f, t, Window!resolveChartXWindow)
          /\ Window!handleZoomToRange(f, t)
    BY <1>8 DEF Window!ZoomSelect
  <2>2. f \in Int /\ t \in Int /\ t <= now /\ t - f <= MAX_SPAN
    <3>1. PICK lo, hi : lo = Window!resolveChartXWindow.from /\ hi = Window!resolveChartXWindow.to
      OBVIOUS
    <3>2. lo \in Int /\ hi \in Int /\ hi <= now /\ hi - lo <= MAX_SPAN
      BY <3>1, AxisSpan
    <3>3. f \in lo .. hi /\ t \in lo .. hi
      BY <2>1, <3>1
    <3>4. QED
      BY <1>0, <3>2, <3>3, WindowAssumption
  <2>3. MIN_SPAN <= t - f
    BY <2>1, <2>2, WindowAssumption DEF Window!shouldNavigateChartZoom
  <2>4. Window!Min2(t, now) = t
    BY <1>0, <2>2 DEF Window!Min2
  <2>5. Window!navigate(Window!CustomParams(f, t))
    BY <2>1, <2>4 DEF Window!handleZoomToRange
  <2>6. Shows(Window!CustomParams(f, t), Window!Custom(f, t))
    BY <2>2, <2>3 DEF Shows
  <2>7. timeWindow' = Window!Custom(f, t)
    BY <1>0, <2>5, <2>6, NavigateInClock
  <2>8. epochAnchor \in epochAnchor .. now
    BY <1>0
  <2>9. Window!resolveChartXWindow.from \in Window!Clock /\ Window!resolveChartXWindow.to \in Window!Clock
    BY <2>8, AxisInClock DEF Window!resolveChartXWindow
  <2>10. PICK lo, hi : lo = Window!resolveChartXWindow.from /\ hi = Window!resolveChartXWindow.to
    OBVIOUS
  <2>11. f \in lo .. hi /\ t \in lo .. hi /\ lo \in Window!Clock /\ hi \in Window!Clock
    BY <2>1, <2>9, <2>10
  <2>12. PICK s : s = Window!InMinutes(Start - MAX_SPAN)
    OBVIOUS
  <2>13. f \in s .. End /\ t \in s .. End
    BY <1>0, <2>2, <2>11, <2>12, WindowAssumption, MinutesKeepOrder DEF Window!Clock
  <2>14. QED
    BY <1>8, <2>7, <2>12, <2>13 DEF Window!ZoomSelect, WindowTypes, Window!Custom, Window!Clock
<1>9. ASSUME NEW r \in Window!Presets, Window!selectPreset(r) PROVE WindowTypes'
  <2>1. Shows(Window!PresetParams(r), Window!Preset(r))
    BY DEF Shows
  <2>2. Window!navigate(Window!PresetParams(r)) /\ draft' = Window!Closed
        /\ UNCHANGED <<now, epochAnchor>>
    BY <1>9 DEF Window!selectPreset
  <2>3. timeWindow' = Window!Preset(r)
    BY <1>0, <2>1, <2>2, NavigateInClock
  <2>4. QED
    BY <2>2, <2>3 DEF WindowTypes, Window!Preset, Window!Closed
<1>10. CASE UNCHANGED timeVars
  BY <1>10 DEF timeVars, WindowTypes
<1>11. QED
  BY <1>1, <1>2, <1>3, <1>4, <1>5, <1>6, <1>7, <1>8, <1>9, <1>10 DEF Window!Next

LEMMA WindowTyped == ASSUME WindowInv, WindowTypes PROVE Window!TypeOK
<1>1. /\ now \in Start .. End /\ epochAnchor \in Start .. now
  BY WindowAssumption DEF WindowInv, WindowTypes
<1>2. draft \in [open : BOOLEAN, from : Window!Clock \cup {0}, to : Window!Clock \cup {0},
                  customError : BOOLEAN]
  BY DEF WindowInv, WindowTypes, Draft, Window!Closed
<1>3. /\ search \in {Window!PresetParams(r) : r \in Window!Presets}
                   \cup {Window!CustomParams(f, t) : f, t \in Window!Clock}
      /\ timeWindow \in Window!Window
  <2>1. CASE \E r \in Window!Presets : search = Window!PresetParams(r) /\ timeWindow = Window!Preset(r)
    BY <2>1 DEF Window!Window
  <2>2. CASE \E f, t \in Int : search = Window!CustomParams(f, t) /\ timeWindow = Window!Custom(f, t)
    <3>1. PICK f, t : search = Window!CustomParams(f, t) /\ timeWindow = Window!Custom(f, t)
      BY <2>2
    <3>2. f \in Window!Clock /\ t \in Window!Clock
      BY <3>1 DEF WindowTypes, Window!Custom
    <3>3. QED
      BY <3>1, <3>2 DEF Window!Window
  <2>3. QED
    BY <2>1, <2>2 DEF WindowInv, Shows
<1>4. QED
  BY <1>1, <1>2, <1>3 DEF Window!TypeOK

-----------------------------------------------------------------------------
(* The settings form                                                         *)

\* A form without edits shows the values of the cache.
UpToDate(values) == \A k \in Form!Fields : values[k] = cache[k]

\* Nothing was typed, and no request of an earlier save is left.
Quiet == ~Form!isDirty /\ orphans = {}

\* The two halves of what the list of settings is worth.
Fresh ==
    /\ Quiet /\ ~listed.invalid => UpToDate(listed.values)
    /\ Quiet /\ refetch.at = "answered" => UpToDate(refetch.values)

\* A form: every field, and for each a value that can be typed
IsDraft(f) ==
    /\ f \in [Form!Fields -> UNION {Form!Typable(k) : k \in Form!Fields}]
    /\ \A k \in Form!Fields : f[k] \in Form!Typable(k)

IsRequest(o) == o[1] \in Form!Keys /\ o[2] \in Form!Stored(o[1]) /\ o[3] \in Form!Stage

FormTypes ==
    /\ Form!IsRows(rows) /\ Form!IsRows(cache) /\ Form!IsRows(listed.values)
    /\ listed \in [values : {listed.values}, fresh : BOOLEAN, invalid : BOOLEAN]
    /\ refetch.at = "answered" => Form!IsRows(refetch.values)
    /\ formDraft = None \/ IsDraft(formDraft)
    /\ apiKeyDraft \in Form!Keyed \cup {None}
    /\ DOMAIN patch \subseteq Form!Keys
    /\ \A k \in DOMAIN patch : patch[k] \in [at : Form!Stage, value : Form!Stored(k)]
    /\ \A o \in orphans : IsRequest(o)

FormInv ==
    /\ FormTypes
    /\ saving = "no" => DOMAIN patch = {}
    /\ saving # "no" => Form!isDirty
    /\ Fresh

\* What a request that was checked was checked against still holds.
CheckHolds ==
    orphans = {} /\ ~({Form!max, Form!reserve} \subseteq DOMAIN patch) =>
        \A k \in DOMAIN patch : patch[k].at = "checked" => Form!validate_cross(k, patch[k].value)

LEMMA KeysDistinct ==
    /\ Form!max \in Form!Fields /\ Form!reserve \in Form!Fields /\ Form!models \in Form!Fields /\ Form!apiKey \notin Form!Fields
    /\ Form!Fields \subseteq Form!Keys /\ Form!apiKey \in Form!Keys /\ Form!max # Form!reserve /\ Form!models # Form!apiKey
BY DEF Form!max, Form!reserve, Form!models, Form!apiKey, Form!Fields, Form!Keys

LEMMA NoKey == None \notin Form!Keyed
BY FormAssumption

LEMMA NoForm == ~IsDraft(None)
<1> SUFFICES ASSUME IsDraft(None) PROVE FALSE
  OBVIOUS
<1>1. Form!Fields = {Form!max, Form!reserve, Form!models}
  BY DEF Form!Fields, Form!Keys, Form!max, Form!reserve, Form!models, Form!apiKey
<1>2. /\ Form!Typable(Form!max) = Numbers[Form!max]
      /\ Form!Typable(Form!reserve) = Numbers[Form!reserve] /\ Form!Typable(Form!models) = TypedLists
  BY DEF Form!Typable, Form!max, Form!reserve, Form!models
<1>3. PICK a \in Numbers[Form!max], b \in Numbers[Form!reserve], list \in TypedLists :
         a = None[Form!max] /\ b = None[Form!reserve] /\ list = None[Form!models]
  BY <1>1, <1>2 DEF IsDraft
<1>4. None = [k \in Form!Fields |-> None[k]]
  BY DEF IsDraft
<1>5. \A k \in Form!Fields :
         None[k] = IF k = Form!max THEN a ELSE IF k = Form!reserve THEN b ELSE list
  BY <1>1, <1>3
<1>6. QED
  BY <1>3, <1>4, <1>5, FormAssumption

LEMMA StoredIsTypable == ASSUME NEW k \in Form!Fields PROVE Form!Stored(k) \subseteq Form!Typable(k)
BY KeysDistinct, FormAssumption DEF Form!Stored, Form!Typable

LEMMA ListedIsCached ==
    ASSUME DOMAIN cache = Form!Keys
    PROVE  UpToDate(Form!list_all)
BY KeysDistinct DEF UpToDate, Form!list_all

LEMMA ListType == ASSUME Form!IsRows(cache) PROVE Form!IsRows(Form!list_all)
BY KeysDistinct DEF Form!IsRows, Form!list_all, Form!Stored, Form!Keyed

\* A row that gets a value of its key
LEMMA RowType ==
    ASSUME NEW r, Form!IsRows(r), NEW k \in Form!Keys, NEW v \in Form!Stored(k)
    PROVE  Form!IsRows([r EXCEPT ![k] = v])
BY DEF Form!IsRows

\* What is shown can be typed, and an edit of it as well.
LEMMA CurrentType == ASSUME FormTypes PROVE IsDraft(Form!currentValues)
<1>1. CASE formDraft # None
  BY <1>1 DEF FormTypes, Form!currentValues
<1>2. CASE formDraft = None
  <2>1. Form!currentValues = Form!Loaded
    BY <1>2 DEF Form!currentValues
  <2>2. \A k \in Form!Fields : Form!Loaded[k] \in Form!Stored(k)
    BY KeysDistinct DEF Form!Loaded, FormTypes, Form!IsRows
  <2>3. QED
    BY <2>1, <2>2, StoredIsTypable DEF Form!Loaded, IsDraft
<1>3. QED
  BY <1>1, <1>2

LEMMA EditType ==
    ASSUME FormTypes, NEW k \in Form!Fields, NEW v \in Form!Typable(k)
    PROVE  IsDraft([Form!currentValues EXCEPT ![k] = v]) /\ [Form!currentValues EXCEPT ![k] = v] # None
BY CurrentType, NoForm DEF IsDraft

LEMMA PatchType ==
    ASSUME FormTypes
    PROVE  /\ DOMAIN Form!dirtySettingPatches \subseteq Form!Keys
           /\ \A k \in DOMAIN Form!dirtySettingPatches :
                Form!dirtySettingPatches[k] \in [at : {"sent"}, value : Form!Stored(k)]
<1>1. ASSUME NEW k \in Form!Fields PROVE Form!Sent(k, Form!currentValues[k]) \in Form!Stored(k)
  <2>1. Form!currentValues[k] \in Form!Typable(k)
    BY CurrentType DEF IsDraft
  <2>2. QED
    BY <2>1, KeysDistinct DEF Form!Sent, Form!Typable, Form!Stored
<1>2. apiKeyDraft # None => apiKeyDraft \in Form!Stored(Form!apiKey)
  BY DEF FormTypes, Form!Stored
<1>3. QED
  BY <1>1, <1>2, KeysDistinct DEF Form!dirtySettingPatches

\* A request moves from stage to stage: the requests stay what they are.
LEMMA MovesKeep ==
    ASSUME FormTypes, NEW k \in Form!Keys, NEW v \in Form!Stored(k), NEW from, NEW to \in Form!Stage,
           Form!Moves(k, v, from, to)
    PROVE  /\ DOMAIN patch' = DOMAIN patch
           /\ \A j \in DOMAIN patch' : patch'[j] \in [at : Form!Stage, value : Form!Stored(j)]
           /\ \A o \in orphans' : IsRequest(o)
           /\ orphans' = {} => orphans = {} /\ k \in DOMAIN patch
           /\ orphans = {} => /\ k \in DOMAIN patch
                              /\ patch[k] = [at |-> from, value |-> v]
                              /\ patch' = [patch EXCEPT ![k].at = to]
<1>1. CASE /\ k \in DOMAIN patch /\ patch[k] = [at |-> from, value |-> v]
           /\ patch' = [patch EXCEPT ![k].at = to]
           /\ UNCHANGED orphans
  <2>1. [patch[k] EXCEPT !.at = to] \in [at : Form!Stage, value : Form!Stored(k)]
    BY <1>1 DEF FormTypes
  <2>2. /\ DOMAIN patch' = DOMAIN patch
        /\ \A j \in DOMAIN patch : patch'[j] = IF j = k THEN [patch[k] EXCEPT !.at = to]
                                                       ELSE patch[j]
    BY <1>1
  <2>3. \A j \in DOMAIN patch' : patch'[j] \in [at : Form!Stage, value : Form!Stored(j)]
    BY <2>1, <2>2 DEF FormTypes
  <2>4. QED
    BY <1>1, <2>2, <2>3 DEF FormTypes
<1>2. CASE /\ <<k, v, from>> \in orphans
           /\ orphans' = (orphans \ {<<k, v, from>>}) \cup {<<k, v, to>>}
           /\ UNCHANGED patch
  <2>1. ASSUME NEW o \in orphans'
        PROVE  IsRequest(o)
    BY <1>2 DEF FormTypes, IsRequest
  <2>2. orphans # {} /\ orphans' # {}
    BY <1>2
  <2>3. QED
    BY <1>2, <2>1, <2>2 DEF FormTypes
<1>3. QED
  BY <1>1, <1>2 DEF Form!Moves

LEMMA CheckKept ==
    ASSUME CheckHolds, UNCHANGED <<cache, patch, orphans>>
    PROVE  CheckHolds'
BY DEF CheckHolds, Form!validate_cross

LEMMA FreshKept ==
    ASSUME Fresh, UNCHANGED <<cache, orphans, formDraft, apiKeyDraft, listed, refetch>>
    PROVE  Fresh'
BY DEF Fresh, Quiet, Form!isDirty, UpToDate

LEMMA FormInit == Form!Init => FormInv /\ CheckHolds
<1> SUFFICES ASSUME Form!Init PROVE FormInv /\ CheckHolds
  OBVIOUS
<1>1. Form!IsRows(rows)
  BY KeysDistinct, FormAssumption DEF Form!Init, Form!IsRows, Form!Stored, Form!Keyed, Form!Keys,
     Form!max, Form!reserve, Form!models, Form!apiKey
<1>2. Form!IsRows(cache) /\ Form!IsRows(Form!list_all) /\ UpToDate(Form!list_all)
  BY <1>1, ListType, ListedIsCached DEF Form!Init, Form!IsRows
<1>3. DOMAIN patch = {} /\ orphans = {} /\ saving = "no" /\ refetch.at = "none"
      /\ formDraft = None /\ apiKeyDraft = None
  BY DEF Form!Init, Form!NoFetch
<1>4. listed = [values |-> Form!list_all, fresh |-> TRUE, invalid |-> FALSE]
  BY DEF Form!Init
<1>5. QED
  BY <1>1, <1>2, <1>3, <1>4 DEF FormInv, FormTypes, Fresh, CheckHolds

\* A step of the list alone.
LEMMA ListStep ==
    ASSUME FormInv, CheckHolds, UNCHANGED <<rows, cache, patch, orphans, saving, formDraft, apiKeyDraft>>,
           FormTypes', Fresh'
    PROVE  FormInv' /\ CheckHolds'
BY CheckKept DEF FormInv, Form!isDirty

\* A step of a request of the save.
LEMMA RequestStep ==
    ASSUME FormInv, UNCHANGED <<listed, refetch, formDraft, apiKeyDraft, saving>>,
           NEW k \in Form!Keys, NEW v \in Form!Stored(k), NEW from, NEW to \in Form!Stage,
           Form!Moves(k, v, from, to), Form!IsRows(rows'), Form!IsRows(cache'),
           CheckHolds'
    PROVE  FormInv' /\ CheckHolds'
<1>1. FormTypes'
  BY MovesKeep DEF FormInv, FormTypes
<1>2. saving = "no" => DOMAIN patch' = {}
  BY MovesKeep DEF FormInv
<1>3. Quiet' => FALSE
  <2>1. Quiet' => orphans = {} /\ k \in DOMAIN patch /\ ~Form!isDirty
    BY MovesKeep DEF FormInv, Quiet, Form!isDirty
  <2>2. QED
    BY <2>1 DEF FormInv
<1>4. QED
  BY <1>1, <1>2, <1>3 DEF FormInv, Fresh, Form!isDirty

\* A request that passes its check holds it, until the value it was checked
\* against is replaced: by a request of the same save, for there is no other.
LEMMA CheckStep ==
    ASSUME FormTypes, CheckHolds, cache' = cache,
           NEW k \in Form!Keys, NEW v \in Form!Stored(k), NEW from, NEW to \in Form!Stage,
           Form!Moves(k, v, from, to), to = "checked" => Form!validate_cross(k, v)
    PROVE  CheckHolds'
<1> SUFFICES ASSUME orphans' = {}, ~({Form!max, Form!reserve} \subseteq DOMAIN patch'),
                    NEW j \in DOMAIN patch', patch'[j].at = "checked"
             PROVE  Form!validate_cross(j, patch'[j].value)
  BY DEF CheckHolds, Form!validate_cross
<1>1. orphans = {} /\ k \in DOMAIN patch /\ patch[k] = [at |-> from, value |-> v]
      /\ patch' = [patch EXCEPT ![k].at = to] /\ DOMAIN patch' = DOMAIN patch
  BY MovesKeep
<1>2. CASE j = k
  BY <1>1, <1>2 DEF FormTypes
<1>3. CASE j # k
  BY <1>1, <1>3 DEF CheckHolds
<1>4. QED
  BY <1>2, <1>3

LEMMA CacheStep ==
    ASSUME FormTypes, CheckHolds, NEW k \in Form!Keys, NEW v \in Form!Stored(k),
           cache' = [cache EXCEPT ![k] = v], Form!Moves(k, v, "written", "done")
    PROVE  CheckHolds'
<1> SUFFICES ASSUME orphans' = {}, ~({Form!max, Form!reserve} \subseteq DOMAIN patch'),
                    NEW j \in DOMAIN patch', patch'[j].at = "checked"
             PROVE  /\ j = Form!reserve => patch'[j].value < cache'[Form!max]
                    /\ j = Form!max => cache'[Form!reserve] < patch'[j].value
  BY DEF CheckHolds, Form!validate_cross
<1>1. orphans = {} /\ k \in DOMAIN patch /\ DOMAIN patch' = DOMAIN patch
      /\ patch[k] = [at |-> "written", value |-> v]
      /\ patch' = [patch EXCEPT ![k].at = "done"]
  BY MovesKeep DEF Form!Stage
<1>2. j # k /\ patch'[j] = patch[j]
  BY <1>1 DEF FormTypes
<1>3. Form!validate_cross(j, patch[j].value)
  BY <1>1, <1>2 DEF CheckHolds
<1>4. (j = Form!max => cache'[Form!reserve] = cache[Form!reserve])
      /\ (j = Form!reserve => cache'[Form!max] = cache[Form!max])
  BY <1>1, <1>2, KeysDistinct DEF FormTypes, Form!IsRows
<1>5. QED
  BY <1>2, <1>3, <1>4 DEF Form!validate_cross

LEMMA FormStep == FormInv /\ CheckHolds /\ (Form!Next \/ UNCHANGED formVars) => FormInv' /\ CheckHolds'
<1> SUFFICES ASSUME FormInv, CheckHolds, Form!Next \/ UNCHANGED formVars PROVE FormInv' /\ CheckHolds'
  OBVIOUS
<1>1. CASE Form!Edit
  <2>1. UNCHANGED <<rows, cache, listed, refetch, patch, orphans, saving>>
    BY <1>1 DEF Form!Edit
  <2>2. /\ formDraft' = None \/ IsDraft(formDraft')
        /\ apiKeyDraft' \in Form!Keyed \cup {None}
        /\ Form!isDirty'
    <3>1. CASE /\ \E k \in Form!Fields : \E v \in Form!Typable(k) : formDraft' = [Form!currentValues EXCEPT ![k] = v]
               /\ UNCHANGED apiKeyDraft
      BY <3>1, EditType DEF FormInv, FormTypes, Form!isDirty
    <3>2. CASE apiKeyDraft' \in Form!Keyed /\ UNCHANGED formDraft
      BY <3>2, NoKey DEF FormInv, FormTypes, Form!isDirty
    <3>3. QED
      BY <1>1, <3>1, <3>2 DEF Form!Edit
  <2>3. QED
    BY <2>1, <2>2, CheckKept DEF FormInv, FormTypes, Fresh, Quiet
<1>2. CASE Form!handleSubmit
  <2>1. /\ UNCHANGED <<rows, cache, listed, refetch, formDraft, apiKeyDraft, orphans>>
        /\ patch' = Form!dirtySettingPatches /\ saving' = "patching" /\ Form!isDirty
    BY <1>2 DEF Form!handleSubmit, Form!FormSections
  <2>2. Form!isDirty'
    BY <2>1 DEF Form!isDirty
  <2>3. DOMAIN patch' \subseteq Form!Keys
        /\ \A k \in DOMAIN patch' : patch'[k] \in [at : {"sent"}, value : Form!Stored(k)]
    BY <2>1, PatchType DEF FormInv
  <2>4. CheckHolds'
    BY <2>3 DEF CheckHolds
  <2>5. FormTypes'
    BY <2>1, <2>3 DEF FormInv, FormTypes, Form!Stage
  <2>6. QED
    BY <2>1, <2>2, <2>4, <2>5 DEF FormInv, Fresh, Quiet
<1>3. CASE Form!PatchesDone
  <2>1. /\ UNCHANGED <<rows, cache, listed, formDraft, apiKeyDraft, patch, orphans>>
        /\ saving = "patching" /\ saving' = "refetching"
        /\ refetch' = refetch \/ refetch' = [at |-> "asked", values |-> None]
    BY <1>3 DEF Form!PatchesDone
  <2>2. Form!isDirty'
    BY <2>1 DEF FormInv, Form!isDirty
  <2>3. FormTypes'
    BY <2>1 DEF FormInv, FormTypes
  <2>4. CheckHolds'
    BY <2>1, CheckKept
  <2>5. QED
    BY <2>1, <2>2, <2>3, <2>4 DEF FormInv, Fresh, Quiet
<1>4. CASE Form!OnSuccess
  <2>1. /\ UNCHANGED <<rows, cache, orphans>>
        /\ saving' = "no" /\ patch' = <<>> /\ formDraft' = None /\ apiKeyDraft' = None
        /\ listed' = [listed EXCEPT !.fresh = TRUE, !.invalid = TRUE]
        /\ refetch' = [at |-> "asked", values |-> None]
    BY <1>4 DEF Form!OnSuccess, Form!Invalidates
  <2>2. /\ listed'.invalid /\ listed'.values = listed.values
        /\ listed' \in [values : {listed.values}, fresh : BOOLEAN, invalid : BOOLEAN]
    BY <2>1 DEF FormInv, FormTypes
  <2>3. FormTypes'
    BY <2>1, <2>2 DEF FormInv, FormTypes
  <2>4. QED
    BY <2>1, <2>2, <2>3 DEF FormInv, Fresh, CheckHolds
<1>5. CASE Form!OnError
  <2>1. /\ UNCHANGED <<rows, cache, listed, refetch, formDraft, apiKeyDraft>>
        /\ saving = "patching" /\ saving' = "no" /\ patch' = <<>>
        /\ \A o \in orphans' : o \in orphans \/ \E k \in DOMAIN patch : o = <<k, patch[k].value, patch[k].at>>
    BY <1>5 DEF Form!OnError
  <2>2. \A o \in orphans' : IsRequest(o)
    BY <2>1 DEF FormInv, FormTypes, IsRequest
  <2>3. FormTypes'
    BY <2>1, <2>2 DEF FormInv, FormTypes
  <2>4. Form!isDirty'
    BY <2>1 DEF FormInv, Form!isDirty
  <2>5. QED
    BY <2>1, <2>3, <2>4 DEF FormInv, Fresh, Quiet, CheckHolds
<1>6. ASSUME NEW k \in Form!Keys, NEW v \in Form!Stored(k), Form!UpdateChecks(k, v) PROVE FormInv' /\ CheckHolds'
  <2> DEFINE to == IF Form!validate_cross(k, v) THEN "checked" ELSE "failed"
  <2>1. /\ UNCHANGED <<rows, cache, listed, refetch, formDraft, apiKeyDraft, saving>>
        /\ Form!Moves(k, v, "sent", to) /\ to \in Form!Stage
    BY <1>6 DEF Form!UpdateChecks, Form!Stage
  <2>2. CheckHolds'
    BY <2>1, CheckStep DEF FormInv
  <2>3. QED
    BY <2>1, <2>2, RequestStep DEF FormInv, FormTypes
<1>7. ASSUME NEW k \in Form!Keys, NEW v \in Form!Stored(k), Form!UpdateWrites(k, v) PROVE FormInv' /\ CheckHolds'
  <2>1. /\ UNCHANGED <<cache, listed, refetch, formDraft, apiKeyDraft, saving>>
        /\ Form!Moves(k, v, "checked", "written") /\ rows' = [rows EXCEPT ![k] = v]
    BY <1>7 DEF Form!UpdateWrites
  <2>2. CheckHolds'
    BY <2>1, CheckStep DEF FormInv, Form!Stage
  <2>3. QED
    BY <2>1, <2>2, RequestStep, RowType DEF FormInv, FormTypes, Form!Stage
<1>8. ASSUME NEW k \in Form!Keys, NEW v \in Form!Stored(k), Form!UpdateCaches(k, v) PROVE FormInv' /\ CheckHolds'
  <2>1. /\ UNCHANGED <<rows, listed, refetch, formDraft, apiKeyDraft, saving>>
        /\ Form!Moves(k, v, "written", "done") /\ cache' = [cache EXCEPT ![k] = v]
    BY <1>8 DEF Form!UpdateCaches
  <2>2. CheckHolds'
    BY <2>1, CacheStep DEF FormInv, Form!Stage
  <2>3. QED
    BY <2>1, <2>2, RequestStep, RowType DEF FormInv, FormTypes, Form!Stage
<1>9. ASSUME NEW k \in Form!Keys, NEW v \in Form!Stored(k), Form!UpdateFails(k, v) PROVE FormInv' /\ CheckHolds'
  <2>1. PICK from \in {"checked", "written", "done"} : Form!Moves(k, v, from, "failed")
    BY <1>9 DEF Form!UpdateFails
  <2>2. UNCHANGED <<rows, cache, listed, refetch, formDraft, apiKeyDraft, saving>>
    BY <1>9 DEF Form!UpdateFails
  <2>3. CheckHolds'
    BY <2>1, <2>2, CheckStep DEF FormInv, Form!Stage
  <2>4. QED
    BY <2>1, <2>2, <2>3, RequestStep DEF FormInv, FormTypes, Form!Stage
<1>10. CASE Form!Ages
  <2>1. UNCHANGED <<rows, cache, refetch, formDraft, apiKeyDraft, patch, orphans, saving>>
        /\ listed' = [listed EXCEPT !.fresh = FALSE]
    BY <1>10 DEF Form!Ages
  <2>2. FormTypes' /\ listed'.values = listed.values /\ listed'.invalid = listed.invalid
    BY <2>1 DEF FormInv, FormTypes
  <2>3. QED
    BY <2>1, <2>2, ListStep DEF FormInv, Fresh, Quiet, Form!isDirty, UpToDate
<1>11. CASE Form!Focus
  <2>1. UNCHANGED <<rows, cache, listed, formDraft, apiKeyDraft, patch, orphans, saving>>
        /\ refetch' = [at |-> "asked", values |-> None]
    BY <1>11 DEF Form!Focus
  <2>2. FormTypes'
    BY <2>1 DEF FormInv, FormTypes
  <2>3. QED
    BY <2>1, <2>2, ListStep DEF FormInv, Fresh, Quiet, Form!isDirty, UpToDate
<1>12. CASE Form!FetchAnswers
  <2>1. UNCHANGED <<rows, cache, listed, formDraft, apiKeyDraft, patch, orphans, saving>>
        /\ refetch' = [at |-> "answered", values |-> Form!list_all]
    BY <1>12 DEF Form!FetchAnswers
  <2>2. Form!IsRows(Form!list_all) /\ UpToDate(Form!list_all)
    BY ListType, ListedIsCached DEF FormInv, FormTypes, Form!IsRows
  <2>3. FormTypes'
    BY <2>1, <2>2 DEF FormInv, FormTypes
  <2>4. Fresh'
    BY <2>1, <2>2 DEF FormInv, Fresh, Quiet, Form!isDirty, UpToDate
  <2>5. QED
    BY <2>1, <2>3, <2>4, ListStep
<1>13. CASE Form!FetchArrives
  <2>1. UNCHANGED <<rows, cache, formDraft, apiKeyDraft, patch, orphans, saving>>
        /\ refetch.at = "answered" /\ refetch'.at = "none"
        /\ listed' = [values |-> refetch.values, fresh |-> TRUE, invalid |-> FALSE]
    BY <1>13 DEF Form!FetchArrives, Form!NoFetch
  <2>2. FormTypes'
    BY <2>1 DEF FormInv, FormTypes
  <2>3. Fresh'
    BY <2>1 DEF FormInv, Fresh, Quiet, Form!isDirty, UpToDate
  <2>4. QED
    BY <2>1, <2>2, <2>3, ListStep
<1>14. CASE Form!FetchFails
  <2>1. UNCHANGED <<rows, cache, listed, formDraft, apiKeyDraft, orphans>>
        /\ refetch'.at = "none"
        /\ \/ saving' = saving /\ patch' = patch
           \/ saving' = "no" /\ patch' = <<>>
    BY <1>14 DEF Form!FetchFails, Form!NoFetch
  <2>2. FormTypes'
    BY <2>1 DEF FormInv, FormTypes
  <2>3. CheckHolds'
    BY <2>1 DEF CheckHolds, Form!validate_cross
  <2>4. QED
    BY <2>1, <2>2, <2>3 DEF FormInv, Fresh, Quiet, Form!isDirty, UpToDate
<1>15. CASE UNCHANGED formVars
  <2>1. FormTypes'
    BY <1>15 DEF formVars, FormInv, FormTypes
  <2>2. QED
    BY <1>15, <2>1, FreshKept, ListStep DEF formVars, FormInv
<1>16. QED
  BY <1>1, <1>2, <1>3, <1>4, <1>5, <1>6, <1>7, <1>8, <1>9, <1>10, <1>11, <1>12, <1>13,
     <1>14, <1>15 DEF Form!Next

LEMMA PairStep ==
    ASSUME FormInv, CheckHolds, Form!Next \/ UNCHANGED formVars
    PROVE  Form!PairHolds
<1> SUFFICES ASSUME Form!Valid(rows), cache[Form!max] = rows[Form!max], cache[Form!reserve] = rows[Form!reserve],
                    orphans = {}, ~({Form!max, Form!reserve} \subseteq DOMAIN patch)
             PROVE  Form!Valid(rows')
  BY DEF Form!PairHolds
<1>1. ASSUME NEW k \in Form!Keys, NEW v \in Form!Stored(k), Form!UpdateWrites(k, v) PROVE Form!Valid(rows')
  <2>1. k \in DOMAIN patch /\ patch[k] = [at |-> "checked", value |-> v]
        /\ rows' = [rows EXCEPT ![k] = v]
    BY <1>1, MovesKeep DEF Form!UpdateWrites, Form!Stage, FormInv
  <2>2. Form!validate_cross(k, v)
    BY <2>1 DEF CheckHolds
  <2>3. QED
    BY <2>1, <2>2, KeysDistinct DEF Form!Valid, Form!validate_cross, FormInv, FormTypes, Form!IsRows
<1>2. CASE UNCHANGED rows
  BY <1>2 DEF Form!Valid
<1>3. QED
  BY <1>1, <1>2 DEF Form!Next, formVars, Form!Edit, Form!handleSubmit, Form!PatchesDone,
     Form!OnSuccess, Form!OnError,
     Form!UpdateChecks, Form!UpdateCaches, Form!UpdateFails, Form!Ages, Form!Focus, Form!FetchAnswers, Form!FetchArrives,
     Form!FetchFails

LEMMA ShownIsStored == ASSUME FormInv PROVE Form!FormShowsStored
BY DEF FormInv, Fresh, Quiet, UpToDate, Form!FormShowsStored

-----------------------------------------------------------------------------
(* The types of the settings form                                            *)
SaveTypes ==
    /\ refetch.at \in {"none", "asked", "answered"}
    /\ saving \in {"no", "patching", "refetching"}
    /\ edits \in 0 .. MaxEdits /\ saves \in 0 .. MaxSaves

LEMMA SaveTypesInit == ASSUME Form!Init PROVE SaveTypes
<1>1. refetch.at = "none" /\ saving = "no"
  BY DEF Form!Init, Form!NoFetch
<1>2. edits = 0 /\ saves = 0
  BY DEF Form!Init
<1>3. QED
  BY <1>1, <1>2, FormAssumption DEF SaveTypes

LEMMA SaveTypesStep ==
    ASSUME SaveTypes, Form!Next \/ UNCHANGED formVars
    PROVE  SaveTypes'
<1>1. edits' \in 0 .. MaxEdits /\ saves' \in 0 .. MaxSaves
  <2>1. edits' = edits \/ (edits < MaxEdits /\ edits' = edits + 1)
    BY DEF formVars, Form!Next, Form!Edit, Form!handleSubmit, Form!UpdateChecks,
       Form!UpdateWrites, Form!UpdateCaches, Form!UpdateFails, Form!PatchesDone, Form!OnSuccess,
       Form!OnError, Form!Ages, Form!Focus, Form!FetchAnswers, Form!FetchArrives, Form!FetchFails
  <2>2. saves' = saves \/ (saves < MaxSaves /\ saves' = saves + 1)
    BY DEF formVars, Form!Next, Form!Edit, Form!handleSubmit, Form!UpdateChecks,
       Form!UpdateWrites, Form!UpdateCaches, Form!UpdateFails, Form!PatchesDone, Form!OnSuccess,
       Form!OnError, Form!Ages, Form!Focus, Form!FetchAnswers, Form!FetchArrives, Form!FetchFails
  <2>3. QED
    BY <2>1, <2>2, FormAssumption DEF SaveTypes
<1>2. saving' \in {"no", "patching", "refetching"}
  BY DEF SaveTypes, formVars, Form!Next, Form!Edit, Form!handleSubmit, Form!UpdateChecks,
     Form!UpdateWrites, Form!UpdateCaches, Form!UpdateFails, Form!PatchesDone, Form!OnSuccess,
     Form!OnError, Form!Ages, Form!Focus, Form!FetchAnswers, Form!FetchArrives, Form!FetchFails
<1>3. refetch'.at \in {"none", "asked", "answered"}
  <2>1. \/ refetch' = refetch \/ refetch' = [at |-> "asked", values |-> None]
        \/ refetch' = Form!NoFetch \/ refetch' = [at |-> "answered", values |-> Form!list_all]
    BY DEF formVars, Form!Next, Form!Edit, Form!handleSubmit, Form!UpdateChecks,
       Form!UpdateWrites, Form!UpdateCaches, Form!UpdateFails, Form!PatchesDone, Form!OnSuccess,
       Form!OnError, Form!Ages, Form!Focus, Form!FetchAnswers, Form!FetchArrives,
       Form!FetchFails, Form!Invalidates
  <2>2. PICK r : r = refetch'
    OBVIOUS
  <2>3. r.at \in {"none", "asked", "answered"}
    BY <2>1, <2>2 DEF SaveTypes, Form!NoFetch
  <2>4. QED
    BY <2>2, <2>3
<1>4. QED
  BY <1>1, <1>2, <1>3 DEF SaveTypes

LEMMA FormTyped == ASSUME FormInv, SaveTypes PROVE Form!TypeOK
<1>1. FormTypes
  BY DEF FormInv
<1>2. listed.fresh \in BOOLEAN /\ listed.invalid \in BOOLEAN
  BY <1>1 DEF FormTypes
<1>3. formDraft = None \/ Form!IsForm(formDraft)
  BY <1>1 DEF FormTypes, IsDraft, Form!IsForm
<1>4. \A k \in DOMAIN patch : patch[k].value \in Form!Stored(k) /\ patch[k].at \in Form!Stage
  BY <1>1 DEF FormTypes
<1>5. QED
  BY <1>1, <1>2, <1>3, <1>4 DEF FormTypes, SaveTypes, IsRequest, Form!TypeOK

-----------------------------------------------------------------------------
(* The admin pages                                                           *)

\* What each page changes, and the lists it asks for again afterwards
Kinds == [servers |-> {"create", "update", "delete", "pause"},
          suggestions |-> {"approve", "deny", "remove"}, users |-> {"flags"}]
Rest == [servers |-> {<<"servers">>}, users |-> {<<"users">>},
         suggestions |-> {<<"pending", "denied">>, <<"denied">>}]

IsMutation(m) ==
    m = [kind |-> m.kind, id |-> m.id, body |-> m.body, at |-> m.at, seen |-> m.seen,
         lists |-> m.lists]

\* A mutation is one of its page, refreshes the page's lists, and a server that
\* is to be added was reached.
MutationInv(m) ==
    /\ IsMutation(m)
    /\ m.kind \in Kinds[route] \/ m.at = "over"
    /\ m.at = "refreshing" => m.lists \in Rest[route]
    /\ m.kind = "create" /\ m.at \in {"sent", "read"} => m.body \in reached

\* The table has changed, and no list of the page has been asked for again.
Stale == {"written", "reread", "applied"}

\* The change of r has not reached the list l yet.
LeavesBehind(r, l) ==
    \/ mutations[r].at \in Stale
    \/ mutations[r].at = "refreshing" /\ mutations[r].lists = <<"pending", "denied">> /\ l = "denied"

Behind(l) == \E r \in DOMAIN mutations : LeavesBehind(r, l)

\* What is listed, and what is on its way to be, is the table.
Tells(l) ==
    /\ shown[l].invalid \/ shown[l].rows = Admin!Listed(l)
    /\ refetches[l].at = "answered" => refetches[l].rows = Admin!Listed(l)

Made == {mutations[r] : r \in DOMAIN mutations}

MutationsInv ==
    /\ Len(mutations) \in Nat /\ DOMAIN mutations = 1 .. Len(mutations)
    /\ mutations = [r \in 1 .. Len(mutations) |-> mutations[r]]
    /\ \A m \in Made : MutationInv(m)

IsQuery(s, f) ==
    s = [rows |-> s.rows, invalid |-> s.invalid]
    /\ f = [at |-> f.at, rows |-> f.rows, waits |-> f.waits]

ListsInv ==
    /\ DOMAIN shown = Admin!Lists /\ DOMAIN refetches = Admin!Lists
    /\ \A l \in Admin!Lists : IsQuery(shown[l], refetches[l])

\* A handler has yet to bring the row i to the list in memory, or it is there.
Pends(i) ==
    \E r \in DOMAIN mutations : mutations[r].at \in {"written", "reread"} /\ mutations[r].id = i

Agrees(i) ==
    /\ i \in DOMAIN stock <=> i \in DOMAIN inMemory
    /\ i \in DOMAIN stock => stock[i] = inMemory[i]

ListServed == route = "servers" => \A i : Pends(i) \/ Agrees(i)

Truth ==
    \/ unheard \/ overtaken
    \/ ListServed /\ \A l \in Admin!Lists : Behind(l) \/ Tells(l)

DialogInv ==
    /\ dialog.kind \in Kinds[route] \cup {None}
    /\ lookupState # None /\ lookupState.kind = "confirm" => lookupState.body \in reached
    /\ checkedBody # None \/ lookupState # None => route = "servers"

AdminInv ==
    route \in DOMAIN Kinds /\ DialogInv /\ MutationsInv /\ ListsInv /\ Truth

LEMMA Routes ==
    DOMAIN StoredRows \subseteq DOMAIN Kinds /\ \A p \in DOMAIN Kinds : None \notin Kinds[p]
BY AdminAssumption DEF Kinds

LEMMA PageLists ==
    ASSUME route \in DOMAIN Kinds
    PROVE  /\ route = "servers" \/ route = "suggestions" \/ route = "users"
           /\ route = "servers" => Kinds[route] = {"create", "update", "delete", "pause"}
                                   /\ Admin!Lists = {"servers"} /\ Rest[route] = {<<"servers">>}
           /\ route = "suggestions" => Kinds[route] = {"approve", "deny", "remove"}
                                   /\ Admin!Lists = {"pending", "denied"}
                                   /\ Rest[route] = {<<"pending", "denied">>, <<"denied">>}
           /\ route = "users" => Kinds[route] = {"flags"} /\ Admin!Lists = {"users"}
                                   /\ Rest[route] = {<<"users">>}
BY DEF Kinds, Rest, Admin!Lists

LEMMA Tuples ==
    /\ \A x, y : Head(<<x, y>>) = x /\ Tail(<<x, y>>) = <<y>> /\ Len(<<x, y>>) = 2
                 /\ Head(<<y>>) = y /\ Len(<<y>>) = 1 /\ <<x, y>> # <<y>>
OBVIOUS

\* A sequence is a function of its positions.
LEMMA Positions ==
    ASSUME NEW S, NEW s \in Seq(S)
    PROVE  Len(s) \in Nat /\ DOMAIN s = 1 .. Len(s) /\ s = [r \in 1 .. Len(s) |-> s[r]]
<1>1. s \in [1 .. Len(s) -> S] /\ Len(s) \in Nat
  OBVIOUS
<1>2. QED
  BY <1>1

LEMMA Appended ==
    ASSUME Len(mutations) \in Nat, DOMAIN mutations = 1 .. Len(mutations),
           mutations = [r \in 1 .. Len(mutations) |-> mutations[r]],
           NEW m, mutations' = Append(mutations, m)
    PROVE  /\ Len(mutations') \in Nat /\ DOMAIN mutations' = 1 .. Len(mutations')
           /\ mutations' = [r \in 1 .. Len(mutations') |-> mutations'[r]]
           /\ DOMAIN mutations' = DOMAIN mutations \cup {Len(mutations) + 1}
           /\ \A r \in DOMAIN mutations : mutations'[r] = mutations[r]
           /\ mutations'[Len(mutations) + 1] = m
<1> DEFINE S == {mutations[r] : r \in DOMAIN mutations} \cup {m}
<1>1. mutations \in [1 .. Len(mutations) -> S]
  OBVIOUS
<1>2. mutations \in Seq(S) /\ m \in S
  BY <1>1
<1> HIDE DEF S
<1>3. mutations' \in Seq(S) /\ Len(mutations') = Len(mutations) + 1
  BY <1>2
<1>4. /\ DOMAIN mutations' = 1 .. Len(mutations')
      /\ mutations' = [r \in 1 .. Len(mutations') |-> mutations'[r]]
  BY <1>3, Positions
<1>5. \A r \in 1 .. Len(mutations) : mutations'[r] = mutations[r]
  BY <1>2
<1>6. mutations'[Len(mutations) + 1] = m
  BY <1>2
<1>7. QED
  BY <1>3, <1>4, <1>5, <1>6

\* A mutation becomes another.
LEMMA MutationReplaced ==
    ASSUME Len(mutations) \in Nat, DOMAIN mutations = 1 .. Len(mutations),
           mutations = [q \in 1 .. Len(mutations) |-> mutations[q]],
           NEW r \in DOMAIN mutations, NEW m, mutations' = [mutations EXCEPT ![r] = m]
    PROVE  /\ Len(mutations') \in Nat /\ DOMAIN mutations' = 1 .. Len(mutations')
           /\ mutations' = [q \in 1 .. Len(mutations') |-> mutations'[q]]
           /\ DOMAIN mutations' = DOMAIN mutations
           /\ mutations'[r] = m /\ \A q \in DOMAIN mutations : q # r => mutations'[q] = mutations[q]
<1> DEFINE S == {mutations[q] : q \in DOMAIN mutations} \cup {m}
<1>1. mutations \in [1 .. Len(mutations) -> S] /\ mutations' \in [1 .. Len(mutations) -> S]
  OBVIOUS
<1>2. mutations \in Seq(S) /\ m \in S /\ mutations' \in Seq(S) /\ Len(mutations') = Len(mutations)
  BY <1>1
<1>3. \A q \in 1 .. Len(mutations) : mutations'[q] = IF q = r THEN m ELSE mutations[q]
  OBVIOUS
<1>4. DOMAIN mutations' = 1 .. Len(mutations)
  OBVIOUS
<1>5. Len(mutations') = Len(mutations) /\ mutations' = [q \in 1 .. Len(mutations) |-> mutations'[q]]
  BY <1>1, <1>2, <1>4
<1>6. QED
  BY <1>3, <1>4, <1>5

LEMMA AdminInit == ASSUME Admin!Init PROVE AdminInv
<1>1. /\ route \in DOMAIN Kinds /\ dialog = Admin!NoDialog /\ lookupState = None /\ checkedBody = None
      /\ mutations = <<>> /\ shown = [l \in Admin!Lists |-> [rows |-> Admin!Listed(l), invalid |-> FALSE]]
  BY Routes DEF Admin!Init
<1>2. PICK visit \in {"none", "asked"} :
        refetches = [l \in Admin!Lists |-> [Admin!NoFetch EXCEPT !.at = visit]]
  BY DEF Admin!Init
<1>3. \A l \in Admin!Lists : refetches[l] = [at |-> visit, rows |-> <<>>, waits |-> {}]
  BY <1>2 DEF Admin!NoFetch
<1>4. DialogInv
  BY <1>1 DEF DialogInv, Admin!NoDialog
<1>5. MutationsInv
  <2>1. <<>> \in Seq({}) /\ Len(<<>>) = 0 /\ 1 .. 0 = {}
    OBVIOUS
  <2>2. Made = {}
    BY <1>1, <2>1 DEF Made
  <2>3. QED
    BY <1>1, <2>1, <2>2, Positions DEF MutationsInv
<1>6. ListsInv
  BY <1>1, <1>2, <1>3 DEF ListsInv, IsQuery
<1>7. Truth
  <2>1. ListServed
    BY DEF ListServed, Agrees, Admin!Init
  <2>2. QED
    BY <1>1, <1>3, <2>1 DEF Truth, Tells
<1>8. QED
  BY <1>1, <1>4, <1>5, <1>6, <1>7 DEF AdminInv

\* What a mutation is does not change with the page's forms.
LEMMA MutationKept ==
    ASSUME route' = route, reached \subseteq reached'
    PROVE  \A m : MutationInv(m) => MutationInv(m)'
BY DEF MutationInv, IsMutation

LEMMA ServedKept ==
    ASSUME ListServed, UNCHANGED <<route, stock, inMemory>>, \A i : Pends(i) => Pends(i)'
    PROVE  ListServed'
<1>1. ASSUME NEW i, Agrees(i) PROVE Agrees(i)'
  BY <1>1 DEF Agrees
<1>2. QED
  BY <1>1 DEF ListServed

LEMMA TruthKept ==
    ASSUME Truth, UNCHANGED <<route, stock, inMemory, shown, refetches, unheard, overtaken>>,
           \A l : Behind(l) => Behind(l)', \A i : Pends(i) => Pends(i)'
    PROVE  Truth'
<1>1. ASSUME NEW l, Tells(l) PROVE Tells(l)'
  <2>1. UNCHANGED <<stock, shown, refetches>>
    OBVIOUS
  <2>2. QED
    BY <1>1, <2>1 DEF Tells, Admin!Listed, Admin!Of
<1>2. Admin!Lists' = Admin!Lists /\ UNCHANGED <<unheard, overtaken>>
  BY DEF Admin!Lists
<1>3. CASE unheard \/ overtaken
  BY <1>2, <1>3 DEF Truth
<1>4. CASE ListServed /\ \A l \in Admin!Lists : Behind(l) \/ Tells(l)
  <2>1. ListServed'
    BY <1>4, ServedKept
  <2>2. \A l \in Admin!Lists' : Behind(l)' \/ Tells(l)'
    BY <1>1, <1>2, <1>4
  <2>3. QED
    BY <2>1, <2>2 DEF Truth
<1>5. QED
  BY <1>3, <1>4 DEF Truth

\* A form or a dialog changes alone.
LEMMA DialogsKeep ==
    ASSUME AdminInv, DialogInv',
           UNCHANGED <<route, stock, inMemory, shown, refetches, mutations, unheard, overtaken>>,
           reached \subseteq reached'
    PROVE  AdminInv'
<1>1. MutationsInv'
  BY MutationKept DEF AdminInv, MutationsInv, Made
<1>2. ListsInv'
  BY DEF AdminInv, ListsInv, Admin!Lists, IsQuery
<1>3. (\A l : Behind(l) => Behind(l)') /\ (\A i : Pends(i) => Pends(i)')
  BY DEF Behind, LeavesBehind, Pends
<1>4. Truth'
  BY <1>3, TruthKept DEF AdminInv
<1>5. QED
  BY <1>1, <1>2, <1>4 DEF AdminInv

\* A mutation is sent.
LEMMA MutateStep ==
    ASSUME AdminInv,
           UNCHANGED <<route, stock, inMemory, shown, refetches, dialog, unheard, overtaken>>,
           UNCHANGED Admin!formVars,
           NEW kind \in Kinds[route], NEW id, NEW body, kind = "create" => body \in reached,
           Admin!mutate(kind, id, body)
    PROVE  AdminInv'
<1> DEFINE m == [kind |-> kind, id |-> id, body |-> body, at |-> "sent",
                 seen |-> None, lists |-> <<>>]
<1>1. mutations' = Append(mutations, m)
  BY DEF Admin!mutate
<1>2. MutationInv(m)'
  BY DEF MutationInv, IsMutation, Admin!formVars
<1> HIDE DEF m
<1>3. /\ Len(mutations') \in Nat /\ DOMAIN mutations' = 1 .. Len(mutations')
      /\ mutations' = [r \in 1 .. Len(mutations') |-> mutations'[r]]
      /\ DOMAIN mutations' = DOMAIN mutations \cup {Len(mutations) + 1}
      /\ \A r \in DOMAIN mutations : mutations'[r] = mutations[r]
      /\ mutations'[Len(mutations) + 1] = m
  BY <1>1, Appended DEF AdminInv, MutationsInv
<1>4. Made' \subseteq Made \cup {m}
  BY <1>3 DEF Made
<1>5. MutationsInv'
  BY <1>2, <1>3, <1>4, MutationKept DEF AdminInv, MutationsInv, Admin!formVars
<1>6. ListsInv' /\ DialogInv'
  BY DEF AdminInv, ListsInv, DialogInv, Admin!Lists, IsQuery, Admin!formVars
<1>7. (\A l : Behind(l) => Behind(l)') /\ (\A i : Pends(i) => Pends(i)')
  BY <1>3 DEF Behind, LeavesBehind, Pends
<1>8. Truth'
  BY <1>7, TruthKept DEF AdminInv
<1>9. QED
  BY <1>5, <1>6, <1>8 DEF AdminInv

\* A mutation moves on: what it was is what counts.
LEMMA MoveStep ==
    ASSUME AdminInv, NEW r \in DOMAIN mutations, NEW m,
           mutations' = [mutations EXCEPT ![r] = m], MutationInv(m),
           UNCHANGED <<route, reached>>
    PROVE  /\ MutationsInv'
           /\ DOMAIN mutations' = DOMAIN mutations /\ mutations'[r] = m
           /\ \A q \in DOMAIN mutations : q # r => mutations'[q] = mutations[q]
<1>1. /\ Len(mutations') \in Nat /\ DOMAIN mutations' = 1 .. Len(mutations')
      /\ mutations' = [q \in 1 .. Len(mutations') |-> mutations'[q]]
      /\ DOMAIN mutations' = DOMAIN mutations
      /\ mutations'[r] = m /\ \A q \in DOMAIN mutations : q # r => mutations'[q] = mutations[q]
  BY MutationReplaced DEF AdminInv, MutationsInv
<1>2. Made' \subseteq Made \cup {m}
  BY <1>1 DEF Made
<1>3. QED
  BY <1>1, <1>2, MutationKept DEF AdminInv, MutationsInv

LEMMA AnyMutation ==
    ASSUME AdminInv, NEW r \in DOMAIN mutations
    PROVE  MutationInv(mutations[r])
BY DEF AdminInv, MutationsInv, Made

\* The handler moves: whatever it writes is behind until its mutation is done.
LEMMA HandlerStep ==
    ASSUME AdminInv, NEW r \in DOMAIN mutations, NEW m,
           mutations' = [mutations EXCEPT ![r] = m], MutationInv(m),
           UNCHANGED <<route, shown, refetches, dialog>>, UNCHANGED Admin!formVars,
           mutations[r].at = "refreshing" => FALSE,
           mutations[r].at \in Stale => m.at \in Stale \/ unheard',
           stock' = stock \/ m.at \in Stale, unheard => unheard', overtaken => overtaken',
           ListServed => ListServed' \/ unheard' \/ overtaken'
    PROVE  AdminInv'
<1>1. /\ MutationsInv'
      /\ DOMAIN mutations' = DOMAIN mutations /\ mutations'[r] = m
      /\ \A q \in DOMAIN mutations : q # r => mutations'[q] = mutations[q]
  BY MoveStep DEF Admin!formVars
<1>2. ListsInv' /\ DialogInv'
  BY DEF AdminInv, ListsInv, DialogInv, Admin!Lists, IsQuery, Admin!formVars
<1>3. Truth'
  <2>1. CASE unheard' \/ overtaken'
    BY <2>1 DEF Truth
  <2>2. CASE ~unheard' /\ ~overtaken'
    <3>1. ListServed' /\ \A l \in Admin!Lists : Behind(l) \/ Tells(l)
      BY <2>2 DEF AdminInv, Truth
    <3>2. CASE m.at \in Stale
      BY <1>1, <3>1, <3>2 DEF Truth, Behind, LeavesBehind
    <3>3. CASE m.at \notin Stale
      <4>1. stock' = stock /\ mutations[r].at \notin Stale
        BY <2>2, <3>3
      <4>2. ASSUME NEW l, Behind(l) PROVE Behind(l)'
        BY <1>1, <4>1, <4>2 DEF Behind, LeavesBehind
      <4>3. ASSUME NEW l, Tells(l) PROVE Tells(l)'
        BY <4>1, <4>3 DEF Tells, Admin!Listed, Admin!Of
      <4>4. QED
        BY <3>1, <4>2, <4>3 DEF Truth, Admin!Lists
    <3>4. QED
      BY <3>2, <3>3
  <2>3. QED
    BY <2>1, <2>2
<1>4. QED
  BY <1>1, <1>2, <1>3 DEF AdminInv

LEMMA BecomesStep ==
    ASSUME AdminInv, NEW r \in DOMAIN mutations, NEW stage \in {"refused", "applied"},
           Admin!Becomes(r, stage), mutations[r].at # "refreshing",
           UNCHANGED <<route, shown, refetches, dialog>>, UNCHANGED Admin!formVars,
           mutations[r].at \in Stale => stage = "applied" \/ unheard',
           stock' = stock \/ stage = "applied", unheard => unheard', overtaken => overtaken',
           ListServed => ListServed' \/ unheard' \/ overtaken', mutations[r].at # "over"
    PROVE  AdminInv'
<1>1. PICK m : m = [Admin!Over EXCEPT !.kind = mutations[r].kind, !.at = stage]
  OBVIOUS
<1>2. IsMutation(m) /\ m.kind = mutations[r].kind /\ m.at = stage
  BY <1>1 DEF Admin!Over, IsMutation
<1>3. MutationInv(mutations[r])
  BY AnyMutation
<1>4. MutationInv(m)
  BY <1>2, <1>3 DEF MutationInv
<1>5. mutations' = [mutations EXCEPT ![r] = m]
  BY <1>1 DEF Admin!Becomes
<1>6. (m.at \in Stale <=> stage = "applied")
  BY <1>2 DEF Stale
<1>7. QED
  BY <1>2, <1>4, <1>5, <1>6, HandlerStep

\* What a handler does before it writes leaves the list in memory as true as it was.
LEMMA ServedBefore ==
    ASSUME AdminInv, NEW r \in DOMAIN mutations, NEW m, mutations' = [mutations EXCEPT ![r] = m],
           UNCHANGED <<route, stock, inMemory>>,
           mutations[r].at \in {"written", "reread"} =>
              m.at \in {"written", "reread"} /\ m.id = mutations[r].id
    PROVE  ListServed => ListServed'
<1>1. /\ DOMAIN mutations' = DOMAIN mutations /\ mutations'[r] = m
      /\ \A q \in DOMAIN mutations : q # r => mutations'[q] = mutations[q]
  BY MutationReplaced DEF AdminInv, MutationsInv
<1>2. ASSUME NEW i, Pends(i) PROVE Pends(i)'
  <2>1. PICK q \in DOMAIN mutations : mutations[q].at \in {"written", "reread"} /\ mutations[q].id = i
    BY <1>2 DEF Pends
  <2>2. mutations'[q].at \in {"written", "reread"} /\ mutations'[q].id = i
    BY <1>1, <2>1
  <2>3. QED
    BY <1>1, <2>2 DEF Pends
<1>3. QED
  BY <1>2, ServedKept

LEMMA BecomesBefore ==
    ASSUME AdminInv, NEW r \in DOMAIN mutations, NEW stage, Admin!Becomes(r, stage),
           UNCHANGED <<route, stock, inMemory>>, mutations[r].at \notin {"written", "reread"}
    PROVE  ListServed => ListServed'
<1>1. PICK m : m = [Admin!Over EXCEPT !.kind = mutations[r].kind, !.at = stage]
  OBVIOUS
<1>2. mutations' = [mutations EXCEPT ![r] = m]
  BY <1>1 DEF Admin!Becomes
<1>3. QED
  BY <1>2, ServedBefore

LEMMA ReadsStep == ASSUME AdminInv, NEW r, Admin!HandlerReads(r) PROVE AdminInv'
<1>1. /\ UNCHANGED <<route, stock, inMemory, shown, refetches, dialog, unheard, overtaken>>
      /\ UNCHANGED Admin!formVars
      /\ r \in DOMAIN mutations /\ mutations[r].at = "sent"
  BY DEF Admin!HandlerReads, Admin!Handles, Admin!serverVars
<1>2. CASE Admin!Becomes(r, "refused")
  <2>1. ListServed => ListServed'
    BY <1>1, <1>2, BecomesBefore
  <2>2. QED
    BY <1>1, <1>2, <2>1, BecomesStep DEF Stale
<1>3. CASE \E view : mutations' = [mutations EXCEPT ![r].at = "read", ![r].seen = view]
  <2>1. PICK view : mutations' = [mutations EXCEPT ![r].at = "read", ![r].seen = view]
    BY <1>3
  <2>2. MutationInv(mutations[r])
    BY <1>1, AnyMutation
  <2>3. PICK m : m = [mutations[r] EXCEPT !.at = "read", !.seen = view]
    OBVIOUS
  <2>4. m = [kind |-> mutations[r].kind, id |-> mutations[r].id, body |-> mutations[r].body,
             at |-> "read", seen |-> view, lists |-> mutations[r].lists]
    BY <2>2, <2>3 DEF MutationInv, IsMutation
  <2>5. MutationInv(m)
    BY <1>1, <2>2, <2>4 DEF MutationInv, IsMutation
  <2>6. mutations' = [mutations EXCEPT ![r] = m]
    BY <1>1, <2>1, <2>3
  <2>7. ListServed => ListServed'
    BY <1>1, <2>6, ServedBefore
  <2>8. mutations[r].at \notin Stale
    BY <1>1 DEF Stale
  <2>9. QED
    BY <1>1, <2>5, <2>6, <2>7, <2>8, HandlerStep
<1>4. QED
  BY <1>2, <1>3 DEF Admin!HandlerReads

\* Of the servers a handler changes one row, and then has to bring it to the list.
LEMMA OneRow ==
    ASSUME AdminInv, route = "servers", NEW r \in DOMAIN mutations, mutations[r].at = "read",
           Admin!Written(r) # None,
           NEW id, id = IF mutations[r].kind = "create" THEN Admin!NewId(r) ELSE mutations[r].id,
           NEW i, i # id
    PROVE  /\ i \in DOMAIN Admin!Written(r) <=> i \in DOMAIN stock
           /\ i \in DOMAIN stock => Admin!Written(r)[i] = stock[i]
<1>1. mutations[r].kind \in {"create", "update", "delete", "pause"}
  BY AnyMutation, PageLists DEF AdminInv, MutationInv
<1>2. CASE mutations[r].kind = "create"
  <2>1. Admin!Written(r) = Admin!AddRow(stock, r, mutations[r].body)
    BY <1>2 DEF Admin!Written
  <2>2. QED
    BY <1>2, <2>1 DEF Admin!AddRow
<1>3. CASE mutations[r].kind = "update"
  <2>1. PICK w : Admin!Written(r) = [stock EXCEPT ![mutations[r].id] = w]
    BY <1>3 DEF Admin!Written
  <2>2. QED
    BY <1>3, <2>1
<1>4. CASE mutations[r].kind = "pause"
  <2>1. PICK w : Admin!Written(r) = [stock EXCEPT ![mutations[r].id] = w]
    BY <1>4 DEF Admin!Written
  <2>2. QED
    BY <1>4, <2>1
<1>5. CASE mutations[r].kind = "delete"
  <2>1. Admin!Written(r) = [k \in DOMAIN stock \ {mutations[r].id} |-> stock[k]]
    BY <1>5 DEF Admin!Written
  <2>2. QED
    BY <1>5, <2>1
<1>6. QED
  BY <1>1, <1>2, <1>3, <1>4, <1>5

LEMMA WritesStep == ASSUME AdminInv, NEW r, Admin!HandlerWrites(r) PROVE AdminInv'
<1>1. /\ UNCHANGED <<route, inMemory, shown, refetches, dialog, unheard, overtaken>>
      /\ UNCHANGED Admin!formVars
      /\ r \in DOMAIN mutations /\ mutations[r].at = "read"
  BY DEF Admin!HandlerWrites, Admin!Handles
<1>2. mutations[r].at \notin Stale
  BY <1>1 DEF Stale
<1>3. CASE Admin!Becomes(r, "refused") /\ stock' = stock
  <2>1. ListServed => ListServed'
    BY <1>1, <1>3, BecomesBefore
  <2>2. QED
    BY <1>1, <1>2, <1>3, <2>1, BecomesStep
<1>4. CASE Admin!Becomes(r, "applied") /\ route # "servers"
  <2>1. ListServed'
    BY <1>1, <1>4 DEF ListServed
  <2>2. QED
    BY <1>1, <1>2, <1>4, <2>1, BecomesStep
<1>5. CASE Admin!Written(r) # None /\ route = "servers"
  <2>1. PICK id : id = IF mutations[r].kind = "create" THEN Admin!NewId(r) ELSE mutations[r].id
    OBVIOUS
  <2>2. /\ stock' = Admin!Written(r)
        /\ mutations' = [mutations EXCEPT ![r].at = "written", ![r].seen = None,
              ![r].id = IF mutations[r].kind = "create" THEN Admin!NewId(r) ELSE @]
    BY <1>5 DEF Admin!HandlerWrites
  <2>3. PICK old : old = mutations[r] /\ MutationInv(old)
    BY <1>1, AnyMutation
  <2>4. PICK m : m = [old EXCEPT !.at = "written", !.seen = None, !.id = id]
    OBVIOUS
  <2>5. m = [kind |-> old.kind, id |-> id, body |-> old.body, at |-> "written", seen |-> None,
             lists |-> old.lists]
    BY <2>3, <2>4 DEF MutationInv, IsMutation
  <2>6. MutationInv(m)
    BY <1>1, <2>3, <2>5 DEF MutationInv, IsMutation
  <2>7. mutations' = [mutations EXCEPT ![r] = m]
    BY <1>1, <2>1, <2>2, <2>3, <2>4
  <2>8. /\ DOMAIN mutations' = DOMAIN mutations /\ mutations'[r] = m
        /\ \A q \in DOMAIN mutations : q # r => mutations'[q] = mutations[q]
    BY <1>1, <2>7, MutationReplaced DEF AdminInv, MutationsInv
  <2>9. m.at \in Stale /\ m.at \in {"written", "reread"} /\ m.id = id
    BY <2>5 DEF Stale
  <2>10. Pends(id)'
    BY <1>1, <2>8, <2>9 DEF Pends
  <2>11. ASSUME NEW i, i # id, Pends(i) \/ Agrees(i) PROVE Pends(i)' \/ Agrees(i)'
    <3>1. CASE Pends(i)
      <4>1. PICK q \in DOMAIN mutations :
              mutations[q].at \in {"written", "reread"} /\ mutations[q].id = i
        BY <3>1 DEF Pends
      <4>2. q # r
        BY <1>1, <4>1
      <4>3. mutations'[q] = mutations[q]
        BY <2>8, <4>2
      <4>4. QED
        BY <2>8, <4>1, <4>3 DEF Pends
    <3>2. CASE Agrees(i)
      <4>1. /\ i \in DOMAIN stock' <=> i \in DOMAIN stock
            /\ i \in DOMAIN stock => stock'[i] = stock[i]
        BY <1>1, <1>5, <2>1, <2>2, <2>11, OneRow
      <4>2. QED
        BY <1>1, <3>2, <4>1 DEF Agrees
    <3>3. QED
      BY <2>11, <3>1, <3>2
  <2>12. ListServed => ListServed'
    BY <1>1, <1>5, <2>10, <2>11 DEF ListServed
  <2>13. QED
    BY <1>1, <1>2, <2>6, <2>7, <2>9, <2>12, HandlerStep
<1>6. QED
  BY <1>3, <1>4, <1>5 DEF Admin!HandlerWrites

LEMMA FailsStep == ASSUME AdminInv, NEW r, Admin!HandlerFails(r) PROVE AdminInv'
<1>1. /\ UNCHANGED <<route, stock, inMemory, shown, refetches, dialog, overtaken>>
      /\ UNCHANGED Admin!formVars /\ Admin!Becomes(r, "refused")
      /\ r \in DOMAIN mutations /\ mutations[r].at \in Stale \cup {"read"}
  BY DEF Admin!HandlerFails, Admin!Handles, Stale
<1>2. unheard' \/ (mutations[r].at = "read" /\ unheard' = unheard)
  BY <1>1 DEF Admin!HandlerFails, Admin!Handles
<1>3. unheard => unheard'
  BY DEF Admin!HandlerFails
<1>4. ListServed => ListServed' \/ unheard'
  BY <1>1, <1>2, BecomesBefore
<1>5. mutations[r].at \in Stale => unheard'
  BY <1>2 DEF Stale
<1>6. mutations[r].at # "refreshing" /\ mutations[r].at # "over"
  BY <1>1 DEF Stale
<1>7. QED
  BY <1>1, <1>3, <1>4, <1>5, <1>6, BecomesStep

LEMMA MislaysStep ==
    ASSUME AdminInv, NEW r \in DOMAIN mutations, mutations[r].at \in {"written", "reread"},
           Admin!Mislays(r), UNCHANGED <<route, stock, shown, refetches, dialog, overtaken>>,
           UNCHANGED Admin!formVars
    PROVE  AdminInv'
<1>1. unheard' /\ Admin!Becomes(r, "refused")
  BY DEF Admin!Mislays
<1>2. QED
  BY <1>1, BecomesStep

LEMMA RereadsStep == ASSUME AdminInv, NEW r, Admin!HandlerRereads(r) PROVE AdminInv'
<1>1. /\ UNCHANGED <<route, stock, inMemory, shown, refetches, dialog, overtaken>>
      /\ UNCHANGED Admin!formVars
      /\ r \in DOMAIN mutations /\ mutations[r].at = "written"
  BY DEF Admin!HandlerRereads, Admin!Handles
<1>2. CASE Admin!Mislays(r)
  BY <1>1, <1>2, MislaysStep
<1>3. CASE \E view : mutations' = [mutations EXCEPT ![r].at = "reread", ![r].seen = view]
                    /\ unheard' = unheard
  <2>1. PICK view : mutations' = [mutations EXCEPT ![r].at = "reread", ![r].seen = view]
    BY <1>3
  <2>2. PICK old : old = mutations[r] /\ MutationInv(old)
    BY <1>1, AnyMutation
  <2>3. PICK m : m = [old EXCEPT !.at = "reread", !.seen = view]
    OBVIOUS
  <2>4. m = [kind |-> old.kind, id |-> old.id, body |-> old.body,
             at |-> "reread", seen |-> view, lists |-> old.lists]
    BY <2>2, <2>3 DEF MutationInv, IsMutation
  <2>5. MutationInv(m)
    BY <1>1, <2>2, <2>4 DEF MutationInv, IsMutation
  <2>6. mutations' = [mutations EXCEPT ![r] = m]
    BY <1>1, <2>1, <2>2, <2>3
  <2>7. m.at = "reread" /\ m.id = old.id
    BY <2>4
  <2>8. ListServed => ListServed'
    BY <1>1, <2>2, <2>6, <2>7, ServedBefore
  <2>9. m.at \in Stale /\ mutations[r].at # "refreshing"
    BY <1>1, <2>7 DEF Stale
  <2>10. unheard' = unheard
    BY <1>3
  <2>11. QED
    BY <1>1, <2>5, <2>6, <2>8, <2>9, <2>10, HandlerStep
<1>4. QED
  BY <1>2, <1>3 DEF Admin!HandlerRereads

\* The list in memory has the row i, or lacks it, as before.
HeldAlike(i) ==
    /\ i \in DOMAIN inMemory' <=> i \in DOMAIN inMemory
    /\ i \in DOMAIN inMemory => inMemory'[i] = inMemory[i]

\* The row that a handler brings to the list is the table's, unless it was overtaken.
LEMMA ListsStepOne ==
    ASSUME AdminInv, ListServed, NEW r \in DOMAIN mutations, NEW id, id = mutations[r].id,
           Admin!Becomes(r, "applied"), UNCHANGED <<route, stock>>, Agrees(id)',
           \A i : i # id => HeldAlike(i)
    PROVE  ListServed'
<1>1. PICK m : m = [Admin!Over EXCEPT !.kind = mutations[r].kind, !.at = "applied"]
  OBVIOUS
<1>2. mutations' = [mutations EXCEPT ![r] = m]
  BY <1>1 DEF Admin!Becomes
<1>3. /\ DOMAIN mutations' = DOMAIN mutations
      /\ \A q \in DOMAIN mutations : q # r => mutations'[q] = mutations[q]
  BY <1>2, MutationReplaced DEF AdminInv, MutationsInv
<1>4. ASSUME NEW i, i # id, Pends(i) \/ Agrees(i) PROVE Pends(i)' \/ Agrees(i)'
  <2>1. CASE Pends(i)
    <3>1. PICK q \in DOMAIN mutations :
            mutations[q].at \in {"written", "reread"} /\ mutations[q].id = i
      BY <2>1 DEF Pends
    <3>2. mutations'[q] = mutations[q]
      BY <1>3, <1>4, <3>1
    <3>3. QED
      BY <1>3, <3>1, <3>2 DEF Pends
  <2>2. CASE Agrees(i)
    <3>1. HeldAlike(i)
      BY <1>4
    <3>2. QED
      BY <2>2, <3>1 DEF Agrees, HeldAlike
  <2>3. QED
    BY <1>4, <2>1, <2>2
<1>5. QED
  BY <1>4 DEF ListServed

LEMMA ListsInMemory == ASSUME AdminInv, NEW r, Admin!HandlerLists(r) PROVE AdminInv'
<1>1. /\ UNCHANGED <<route, stock, shown, refetches, dialog>> /\ UNCHANGED Admin!formVars
      /\ r \in DOMAIN mutations /\ mutations[r].at \in {"written", "reread"}
  BY DEF Admin!HandlerLists, Admin!Handles
<1>2. CASE Admin!Mislays(r) /\ overtaken' = overtaken
  BY <1>1, <1>2, MislaysStep
<1>3. CASE ~(Admin!Mislays(r) /\ overtaken' = overtaken)
  <2>1. PICK id, w : id = mutations[r].id /\ w = mutations[r].seen
    OBVIOUS
  <2>2. Admin!Becomes(r, "applied") /\ unheard' = unheard /\ (overtaken => overtaken')
    BY <1>3 DEF Admin!HandlerLists
  <2>3. ASSUME ListServed, ~overtaken' PROVE ListServed'
    <3>1. CASE mutations[r].kind = "delete"
      <4>1. inMemory' = [i \in DOMAIN inMemory \ {id} |-> inMemory[i]] /\ id \notin DOMAIN stock
        BY <1>3, <2>1, <2>3, <3>1 DEF Admin!HandlerLists
      <4>2. \A i : i # id => HeldAlike(i)
        BY <4>1 DEF HeldAlike
      <4>3. Agrees(id)'
        BY <1>1, <4>1 DEF Agrees
      <4>4. QED
        BY <1>1, <2>1, <2>2, <2>3, <4>2, <4>3, ListsStepOne
    <3>2. CASE mutations[r].kind # "delete"
      <4>1. /\ inMemory' = [i \in DOMAIN inMemory \cup {id} |-> IF i = id THEN w ELSE inMemory[i]]
            /\ id \in DOMAIN stock /\ stock[id] = w
        BY <1>3, <2>1, <2>3, <3>2 DEF Admin!HandlerLists
      <4>2. \A i : i # id => HeldAlike(i)
        BY <4>1 DEF HeldAlike
      <4>3. Agrees(id)'
        BY <1>1, <4>1 DEF Agrees
      <4>4. QED
        BY <1>1, <2>1, <2>2, <2>3, <4>2, <4>3, ListsStepOne
    <3>3. QED
      BY <3>1, <3>2
  <2>4. QED
    BY <1>1, <2>2, <2>3, BecomesStep
<1>4. QED
  BY <1>2, <1>3

\* A list that is asked for again tells the table or is known not to.
LEMMA AskedAgain ==
    ASSUME AdminInv, NEW l \in Admin!Lists, NEW r, Admin!Invalidates(l, r), UNCHANGED <<route, stock>>
    PROVE  /\ ListsInv' /\ Tells(l)'
           /\ \A k \in Admin!Lists : k # l /\ Tells(k) => Tells(k)'
<1>1. IsQuery(shown[l], refetches[l]) /\ DOMAIN shown = Admin!Lists /\ DOMAIN refetches = Admin!Lists
  BY DEF AdminInv, ListsInv
<1>2. PICK s, f : s = [shown[l] EXCEPT !.invalid = TRUE]
                  /\ f = [at |-> "asked", rows |-> <<>>, waits |-> {r}]
  OBVIOUS
<1>3. s = [rows |-> shown[l].rows, invalid |-> TRUE]
  BY <1>1, <1>2 DEF IsQuery
<1>4. shown' = [shown EXCEPT ![l] = s] /\ refetches' = [refetches EXCEPT ![l] = f]
  BY <1>1, <1>2 DEF Admin!Invalidates
<1>5. /\ DOMAIN shown' = Admin!Lists /\ DOMAIN refetches' = Admin!Lists
      /\ shown'[l] = s /\ refetches'[l] = f
      /\ \A k \in Admin!Lists : k # l => shown'[k] = shown[k] /\ refetches'[k] = refetches[k]
  BY <1>1, <1>4
<1>6. Admin!Lists' = Admin!Lists
  BY DEF Admin!Lists
<1>7. IsQuery(s, f)
  BY <1>2, <1>3 DEF IsQuery
<1>8. ListsInv'
  <2>1. ASSUME NEW k \in Admin!Lists PROVE IsQuery(shown'[k], refetches'[k])
    BY <1>5, <1>7 DEF AdminInv, ListsInv
  <2>2. QED
    BY <1>5, <1>6, <2>1 DEF ListsInv, IsQuery
<1>9. QED
  BY <1>2, <1>3, <1>5, <1>8 DEF Tells, Admin!Listed, Admin!Of

LEMMA SucceedsStep ==
    ASSUME AdminInv, NEW r, NEW kind, NEW lists \in Rest[route], lists # <<"denied">>,
           Admin!Succeeds(r, kind, lists), DialogInv', reached' = reached
    PROVE  AdminInv'
<1>1. /\ UNCHANGED <<route, stock, inMemory, unheard, overtaken>>
      /\ r \in DOMAIN mutations /\ mutations[r].at = "applied" /\ mutations[r].kind = kind
  BY DEF Admin!Succeeds, Admin!Handles, Admin!serverVars
<1>2. PICK m : m = [Admin!Over EXCEPT !.kind = kind, !.at = "refreshing", !.lists = lists]
  OBVIOUS
<1>3. IsMutation(m) /\ m.kind = kind /\ m.at = "refreshing" /\ m.lists = lists
  BY <1>2 DEF Admin!Over, IsMutation
<1>4. MutationInv(m)
  BY <1>1, <1>3, AnyMutation DEF MutationInv
<1>5. mutations' = [mutations EXCEPT ![r] = m] /\ Admin!Invalidates(Head(lists), r)
  BY <1>2 DEF Admin!Succeeds
<1>6. /\ MutationsInv'
      /\ DOMAIN mutations' = DOMAIN mutations /\ mutations'[r] = m
      /\ \A q \in DOMAIN mutations : q # r => mutations'[q] = mutations[q]
  BY <1>1, <1>4, <1>5, MoveStep
<1>7. /\ Head(lists) \in Admin!Lists
      /\ \A l \in Admin!Lists : l = Head(lists) \/ (lists = <<"pending", "denied">> /\ l = "denied")
  BY PageLists, Tuples DEF AdminInv
<1>8. PICK head \in Admin!Lists : head = Head(lists)
  BY <1>7
<1>9. ListsInv' /\ Tells(head)'
  BY <1>1, <1>5, <1>8, AskedAgain
<1>10. ASSUME NEW l \in Admin!Lists, l # head PROVE Behind(l)'
  <2>1. lists = <<"pending", "denied">> /\ l = "denied"
    BY <1>7, <1>8, <1>10
  <2>2. QED
    BY <1>1, <1>3, <1>6, <2>1 DEF Behind, LeavesBehind
<1>11. Truth'
  <2>1. ListServed => ListServed'
    BY <1>1, <1>5, ServedBefore
  <2>2. QED
    BY <1>1, <1>9, <1>10, <2>1 DEF AdminInv, Truth, Admin!Lists
<1>12. QED
  BY <1>1, <1>6, <1>9, <1>11 DEF AdminInv

LEMMA ClosesKeeps ==
    ASSUME AdminInv, route' = route,
           reached' = reached, checkedBody' = checkedBody, dialog' = Admin!NoDialog \/ dialog' = dialog,
           lookupState' = None \/ lookupState' = lookupState
    PROVE  DialogInv'
BY DEF AdminInv, DialogInv, Admin!NoDialog

LEMMA ServersStep ==
    ASSUME AdminInv, NEW r,
           Admin!ServerAdded(r) \/ Admin!ServerUpdated(r) \/ Admin!ServerPaused(r) \/ Admin!ServerRemoved(r)
    PROVE  AdminInv'
<1>1. PICK kind \in {"create", "update", "pause", "delete"} : Admin!Succeeds(r, kind, <<"servers">>)
  BY DEF Admin!ServerAdded, Admin!ServerUpdated, Admin!ServerPaused, Admin!ServerRemoved
<1>2. /\ dialog' = Admin!NoDialog \/ dialog' = dialog
      /\ lookupState' = None \/ lookupState' = lookupState
      /\ reached' = reached /\ checkedBody' = checkedBody
  BY DEF Admin!ServerAdded, Admin!ServerUpdated, Admin!ServerPaused, Admin!ServerRemoved,
     Admin!ClosesOpen, Admin!formVars
<1>3. mutations[r].kind \in Kinds[route] /\ mutations[r].kind = kind /\ route' = route
  BY <1>1, AnyMutation DEF Admin!Succeeds, Admin!Handles, MutationInv
<1>4. <<"servers">> \in Rest[route] /\ <<"servers">> # <<"denied">>
  BY <1>3, PageLists DEF AdminInv
<1>5. QED
  BY <1>1, <1>2, <1>3, <1>4, ClosesKeeps, SucceedsStep

LEMMA SuggestionsStep ==
    ASSUME AdminInv, NEW r,
           Admin!SuggestionApproved(r) \/ Admin!SuggestionDenied(r) \/ Admin!SuggestionRemoved(r)
    PROVE  AdminInv'
<1>1. PICK kind \in {"approve", "deny", "remove"} : Admin!Succeeds(r, kind, <<"pending", "denied">>)
  BY DEF Admin!SuggestionApproved, Admin!SuggestionDenied, Admin!SuggestionRemoved, Admin!invalidate
<1>2. /\ dialog' = Admin!NoDialog \/ dialog' = dialog
      /\ UNCHANGED <<lookupState, reached, checkedBody>>
  BY DEF Admin!SuggestionApproved, Admin!SuggestionDenied, Admin!SuggestionRemoved,
     Admin!ClosesOpen, Admin!formVars
<1>3. mutations[r].kind \in Kinds[route] /\ mutations[r].kind = kind /\ route' = route
  BY <1>1, AnyMutation DEF Admin!Succeeds, Admin!Handles, MutationInv
<1>4. <<"pending", "denied">> \in Rest[route] /\ <<"pending", "denied">> # <<"denied">>
  BY <1>3, PageLists DEF AdminInv
<1>5. QED
  BY <1>1, <1>2, <1>3, <1>4, ClosesKeeps, SucceedsStep

LEMMA FlagsStep == ASSUME AdminInv, NEW r, Admin!FlagsSaved(r) PROVE AdminInv'
<1>1. Admin!Succeeds(r, "flags", <<"users">>)
  BY DEF Admin!FlagsSaved
<1>2. /\ dialog' = Admin!NoDialog \/ dialog' = dialog
      /\ UNCHANGED <<lookupState, reached, checkedBody>>
  BY DEF Admin!FlagsSaved, Admin!ClosesOpen, Admin!formVars
<1>3. mutations[r].kind \in Kinds[route] /\ mutations[r].kind = "flags" /\ route' = route
  BY <1>1, AnyMutation DEF Admin!Succeeds, Admin!Handles, MutationInv
<1>4. <<"users">> \in Rest[route] /\ <<"users">> # <<"denied">>
  BY <1>3, PageLists DEF AdminInv
<1>5. QED
  BY <1>1, <1>2, <1>3, <1>4, ClosesKeeps, SucceedsStep

\* A mutation that is over leaves nothing behind that was not behind before.
LEMMA OverStep ==
    ASSUME AdminInv, NEW r \in DOMAIN mutations, mutations' = [mutations EXCEPT ![r] = Admin!Over],
           mutations[r].at = "refused" \/ (mutations[r].at = "refreshing" /\ Len(mutations[r].lists) = 1),
           UNCHANGED <<route, stock, inMemory, shown, refetches, dialog, unheard, overtaken>>,
           UNCHANGED Admin!formVars
    PROVE  AdminInv'
<1>1. PICK m : m = Admin!Over
  OBVIOUS
<1>2. MutationInv(m)
  BY <1>1 DEF Admin!Over, MutationInv, IsMutation
<1>3. /\ MutationsInv'
      /\ DOMAIN mutations' = DOMAIN mutations /\ mutations'[r] = m
      /\ \A q \in DOMAIN mutations : q # r => mutations'[q] = mutations[q]
  BY <1>1, <1>2, MoveStep DEF Admin!formVars
<1>4. ListsInv' /\ DialogInv'
  BY DEF AdminInv, ListsInv, DialogInv, Admin!Lists, IsQuery, Admin!formVars
<1>5. ~LeavesBehind(r, "denied") /\ \A l : LeavesBehind(r, l) => l = "denied"
  BY Tuples DEF LeavesBehind, Stale
<1>6. ASSUME NEW l, Behind(l) PROVE Behind(l)'
  BY <1>3, <1>5, <1>6 DEF Behind, LeavesBehind
<1>7. Truth'
  <2>1. ASSUME NEW i, Pends(i) PROVE Pends(i)'
    BY <1>3, <2>1 DEF Pends
  <2>2. QED
    BY <1>6, <2>1, TruthKept DEF AdminInv
<1>8. QED
  BY <1>3, <1>4, <1>7 DEF AdminInv

LEMMA RefreshedStep == ASSUME AdminInv, NEW r, Admin!Refreshed(r) PROVE AdminInv'
<1>1. /\ UNCHANGED <<route, stock, inMemory, dialog, unheard, overtaken>> /\ UNCHANGED Admin!formVars
      /\ r \in DOMAIN mutations /\ mutations[r].at = "refreshing"
  BY DEF Admin!Refreshed, Admin!Handles, Admin!serverVars
<1>2. MutationInv(mutations[r]) /\ mutations[r].lists \in Rest[route]
  BY <1>1, AnyMutation DEF MutationInv
<1>3. CASE Len(mutations[r].lists) = 1
  BY <1>1, <1>3, OverStep DEF Admin!Refreshed
<1>4. CASE Len(mutations[r].lists) # 1
  <2>1. mutations[r].lists = <<"pending", "denied">> /\ Admin!Lists = {"pending", "denied"}
    BY <1>2, <1>4, PageLists, Tuples DEF AdminInv
  <2>2. PICK m : m = [mutations[r] EXCEPT !.lists = <<"denied">>]
    OBVIOUS
  <2>3. IsMutation(m) /\ m.kind = mutations[r].kind /\ m.at = "refreshing" /\ m.lists = <<"denied">>
    BY <1>1, <1>2, <2>2 DEF MutationInv, IsMutation
  <2>4. <<"denied">> \in Rest[route]
    BY <1>2, <2>1, PageLists, Tuples DEF AdminInv
  <2>5. MutationInv(m)
    BY <1>1, <1>2, <2>3, <2>4 DEF MutationInv
  <2>6. mutations' = [mutations EXCEPT ![r] = m]
    BY <1>1, <1>4, <2>1, <2>2, Tuples DEF Admin!Refreshed
  <2>7. /\ MutationsInv'
        /\ DOMAIN mutations' = DOMAIN mutations /\ mutations'[r] = m
        /\ \A q \in DOMAIN mutations : q # r => mutations'[q] = mutations[q]
    BY <1>1, <2>5, <2>6, MoveStep DEF Admin!formVars
  <2>8. Admin!Invalidates("denied", r)
    BY <1>1, <1>4, <2>3, <2>7, Tuples DEF Admin!Refreshed
  <2>9. /\ ListsInv' /\ Tells("denied")'
        /\ \A k \in Admin!Lists : k # "denied" /\ Tells(k) => Tells(k)'
    BY <1>1, <2>1, <2>8, AskedAgain
  <2>10. ASSUME NEW l, l # "denied", Behind(l) PROVE Behind(l)'
    BY <1>1, <2>7, <2>10 DEF Behind, LeavesBehind, Stale
  <2>11. Truth'
    <3>1. ListServed => ListServed'
      BY <1>1, <2>6, ServedBefore
    <3>2. QED
      BY <1>1, <2>1, <2>9, <2>10, <3>1 DEF AdminInv, Truth, Admin!Lists
  <2>12. DialogInv'
    BY <1>1 DEF AdminInv, DialogInv, Admin!formVars
  <2>13. QED
    BY <1>1, <2>7, <2>9, <2>11, <2>12 DEF AdminInv
<1>5. QED
  BY <1>3, <1>4

\* A function changes at one place.
ChangesAt(old, new, l, x) ==
    DOMAIN new = DOMAIN old /\ new[l] = x /\ \A k \in DOMAIN old : k # l => new[k] = old[k]

\* With no change under way the server answers with the table.
LEMMA AnswerTrue ==
    ASSUME route \in DOMAIN Kinds, ListServed, NEW l \in Admin!Lists, ~Behind(l)
    PROVE  Admin!Answer(l) = Admin!Listed(l)
<1>1. CASE l # "servers"
  BY <1>1 DEF Admin!Answer, Admin!Listed
<1>2. CASE l = "servers"
  <2>1. route = "servers"
    BY <1>2, PageLists
  <2>2. ASSUME NEW i PROVE Agrees(i)
    <3>1. ~Pends(i)
      BY DEF Behind, LeavesBehind, Pends, Stale
    <3>2. QED
      BY <2>1, <3>1 DEF ListServed
  <2>3. \A i : i \in DOMAIN stock <=> i \in DOMAIN inMemory
    BY <2>2 DEF Agrees
  <2>4. \A i \in DOMAIN stock : stock[i] = inMemory[i]
    BY <2>2 DEF Agrees
  <2>5. DOMAIN stock = DOMAIN inMemory
    BY <2>3
  <2>6. Admin!Of(inMemory, l) = Admin!Of(stock, l)
    BY <2>4, <2>5 DEF Admin!Of
  <2>7. QED
    BY <1>2, <2>6 DEF Admin!Answer, Admin!Listed
<1>3. QED
  BY <1>1, <1>2

\* The query of one list moves.
LEMMA QueryStep ==
    ASSUME AdminInv, NEW l \in Admin!Lists,
           Admin!Focus(l) \/ Admin!FetchAnswers(l) \/ Admin!FetchArrives(l) \/ Admin!FetchFails(l)
    PROVE  AdminInv'
<1>1. /\ UNCHANGED <<route, stock, inMemory, dialog, mutations, unheard, overtaken>>
      /\ UNCHANGED Admin!formVars /\ Admin!Lists' = Admin!Lists
  BY DEF Admin!Focus, Admin!FetchAnswers, Admin!FetchArrives, Admin!FetchFails, Admin!Lists,
     Admin!serverVars
<1>2. /\ DOMAIN shown = Admin!Lists /\ DOMAIN refetches = Admin!Lists /\ IsQuery(shown[l], refetches[l])
  BY DEF AdminInv, ListsInv
<1>3. PICK s, f : /\ ChangesAt(shown, shown', l, s) /\ ChangesAt(refetches, refetches', l, f)
                  /\ IsQuery(s, f)
                  /\ ListServed /\ ~Behind(l) /\ Tells(l) =>
                        /\ s.invalid \/ s.rows = Admin!Listed(l)
                        /\ f.at = "answered" => f.rows = Admin!Listed(l)
  <2>1. CASE Admin!Focus(l)
    <3>1. PICK f : f = [refetches[l] EXCEPT !.at = "asked"]
      OBVIOUS
    <3>2. IsQuery(shown[l], f) /\ f.at = "asked"
      BY <1>2, <3>1 DEF IsQuery
    <3>3. ChangesAt(refetches, refetches', l, f) /\ ChangesAt(shown, shown', l, shown[l])
      BY <1>2, <2>1, <3>1 DEF Admin!Focus, ChangesAt
    <3>4. QED
      BY <3>2, <3>3 DEF Tells
  <2>2. CASE Admin!FetchAnswers(l)
    <3>1. PICK f : f = [[refetches[l] EXCEPT !.at = "answered"] EXCEPT !.rows = Admin!Answer(l)]
      OBVIOUS
    <3>2. IsQuery(shown[l], f) /\ f.at = "answered" /\ f.rows = Admin!Answer(l)
      BY <1>2, <3>1 DEF IsQuery
    <3>3. ChangesAt(refetches, refetches', l, f) /\ ChangesAt(shown, shown', l, shown[l])
      BY <1>2, <2>2, <3>1 DEF Admin!FetchAnswers, ChangesAt
    <3>4. ListServed /\ ~Behind(l) => Admin!Answer(l) = Admin!Listed(l)
      BY AnswerTrue DEF AdminInv
    <3>5. QED
      BY <3>2, <3>3, <3>4 DEF Tells
  <2>3. CASE Admin!FetchArrives(l)
    <3>1. PICK s, f : s = [rows |-> refetches[l].rows, invalid |-> FALSE] /\ f = Admin!NoFetch
      OBVIOUS
    <3>2. IsQuery(s, f) /\ s.rows = refetches[l].rows /\ f.at = "none"
      BY <3>1 DEF IsQuery, Admin!NoFetch
    <3>3. refetches[l].at = "answered"
      BY <2>3 DEF Admin!FetchArrives
    <3>4. ChangesAt(refetches, refetches', l, f) /\ ChangesAt(shown, shown', l, s)
      BY <1>2, <2>3, <3>1 DEF Admin!FetchArrives, ChangesAt
    <3>5. QED
      BY <3>2, <3>3, <3>4 DEF Tells
  <2>4. CASE Admin!FetchFails(l)
    <3>1. PICK f : f = Admin!NoFetch
      OBVIOUS
    <3>2. IsQuery(shown[l], f) /\ f.at = "none"
      BY <1>2, <3>1 DEF IsQuery, Admin!NoFetch
    <3>3. ChangesAt(refetches, refetches', l, f) /\ ChangesAt(shown, shown', l, shown[l])
      BY <1>2, <2>4, <3>1 DEF Admin!FetchFails, ChangesAt
    <3>4. QED
      BY <3>2, <3>3 DEF Tells
  <2>5. QED
    BY <2>1, <2>2, <2>3, <2>4
<1>4. /\ DOMAIN shown' = Admin!Lists /\ DOMAIN refetches' = Admin!Lists
      /\ shown'[l] = s /\ refetches'[l] = f
      /\ \A k \in Admin!Lists : k # l => shown'[k] = shown[k] /\ refetches'[k] = refetches[k]
  BY <1>2, <1>3 DEF ChangesAt
<1>5. ListsInv'
  <2>1. ASSUME NEW k \in Admin!Lists PROVE IsQuery(shown'[k], refetches'[k])
    BY <1>3, <1>4 DEF AdminInv, ListsInv
  <2>2. QED
    BY <1>1, <1>4, <2>1 DEF ListsInv, IsQuery
<1>6. ASSUME NEW k \in Admin!Lists, Tells(k), ListServed, ~Behind(k) PROVE Tells(k)'
  BY <1>1, <1>3, <1>4, <1>6 DEF Tells, Admin!Listed, Admin!Of
<1>7. ASSUME NEW k, Behind(k) PROVE Behind(k)'
  BY <1>1, <1>7 DEF Behind, LeavesBehind
<1>8. Truth'
  <2>1. ListServed => ListServed'
    BY <1>1, ServedKept DEF Pends
  <2>2. QED
    BY <1>1, <1>6, <1>7, <2>1 DEF AdminInv, Truth
<1>9. MutationsInv' /\ DialogInv'
  BY <1>1, MutationKept DEF AdminInv, MutationsInv, Made, DialogInv, Admin!formVars
<1>10. QED
  BY <1>1, <1>5, <1>8, <1>9 DEF AdminInv

\* The dialogs that can be open are those of the page.
LEMMA DialogKind ==
    ASSUME AdminInv, dialog.kind # None
    PROVE  dialog.kind \in Kinds[route]
BY DEF AdminInv, DialogInv

LEMMA OpenKind ==
    ASSUME AdminInv, NEW kind, Admin!OnTop(kind), NEW p \in DOMAIN Kinds, kind \in Kinds[p]
    PROVE  kind \in Kinds[route]
BY Routes DEF AdminInv, DialogInv, Admin!OnTop

LEMMA OpensStep ==
    ASSUME AdminInv, NEW kind, NEW l, Admin!Opens(kind, l),
           <<kind, l>> \in {<<"update", "servers">>, <<"delete", "servers">>, <<"approve", "pending">>,
                            <<"deny", "pending">>, <<"remove", "denied">>, <<"flags", "users">>}
    PROVE  AdminInv'
<1>1. l \in Admin!Lists /\ dialog'.kind = kind
      /\ UNCHANGED <<route, stock, inMemory, shown, refetches, mutations, unheard, overtaken>>
      /\ UNCHANGED Admin!formVars
  BY DEF Admin!Opens, Admin!serverVars
<1>2. kind \in Kinds[route]
  BY <1>1, PageLists DEF AdminInv
<1>3. DialogInv'
  BY <1>1, <1>2 DEF AdminInv, DialogInv, Admin!formVars
<1>4. QED
  BY <1>1, <1>3, DialogsKeep DEF Admin!formVars

LEMMA SendsStep ==
    ASSUME AdminInv, NEW kind, Admin!Sends(kind), NEW p \in DOMAIN Kinds, kind \in Kinds[p],
           kind # "create"
    PROVE  AdminInv'
<1>1. kind \in Kinds[route]
  BY OpenKind DEF Admin!Sends
<1>2. PICK id, body : id = dialog.id /\ body = dialog.form
  OBVIOUS
<1>3. Admin!mutate(kind, id, body)
  BY <1>2 DEF Admin!Sends
<1>4. QED
  BY <1>1, <1>3, MutateStep DEF Admin!Sends, Admin!serverVars

LEMMA ClosesStep == ASSUME AdminInv, NEW kind, Admin!Closes(kind) PROVE AdminInv'
BY ClosesKeeps, DialogsKeep DEF Admin!Closes, Admin!formVars, Admin!serverVars

LEMMA TypesStep == ASSUME AdminInv, NEW kind, NEW body, Admin!Types(kind, body) PROVE AdminInv'
<1>1. /\ UNCHANGED <<route, stock, inMemory, shown, refetches, mutations, unheard, overtaken>>
      /\ UNCHANGED Admin!formVars /\ dialog' = [dialog EXCEPT !.form = body]
  BY DEF Admin!Types, Admin!serverVars
<1>2. dialog'.kind = dialog.kind
  BY <1>1
<1>3. DialogInv'
  BY <1>1, <1>2 DEF AdminInv, DialogInv, Admin!formVars
<1>4. QED
  BY <1>1, <1>3, DialogsKeep DEF Admin!formVars

LEMMA KindsOf ==
    /\ DOMAIN Kinds = {"servers", "suggestions", "users"}
    /\ {"create", "update", "delete", "pause"} = Kinds["servers"]
    /\ {"approve", "deny", "remove"} = Kinds["suggestions"] /\ {"flags"} = Kinds["users"]
BY DEF Kinds

LEMMA DialogsStep ==
    ASSUME AdminInv, Admin!EditServer \/ Admin!DeleteServer \/ Admin!Approve \/ Admin!Deny \/ Admin!Remove \/ Admin!EditFlags
    PROVE  AdminInv'
<1>1. ASSUME NEW kind, Admin!Sends(kind), kind \in {"update", "delete", "approve", "deny", "remove", "flags"}
      PROVE  AdminInv'
  BY <1>1, SendsStep, KindsOf
<1>2. QED
  BY <1>1, ClosesStep, TypesStep DEF Admin!EditServer, Admin!DeleteServer, Admin!Approve,
     Admin!Deny, Admin!Remove, Admin!EditFlags

LEMMA TablesStep ==
    ASSUME AdminInv, Admin!ServerActions \/ Admin!PendingActions \/ Admin!DeniedActions \/ Admin!UserActions
    PROVE  AdminInv'
BY OpensStep DEF Admin!ServerActions, Admin!PendingActions, Admin!DeniedActions, Admin!UserActions

LEMMA PauseStep == ASSUME AdminInv, Admin!onPauseChange PROVE AdminInv'
<1>1. PICK id, body : Admin!mutate("pause", id, body)
  BY DEF Admin!onPauseChange
<1>2. "pause" \in Kinds[route]
  BY KindsOf DEF Admin!onPauseChange
<1>3. QED
  BY <1>1, <1>2, MutateStep DEF Admin!onPauseChange, Admin!serverVars

\* A server is added with what the dialog says was reached.
LEMMA ConfirmStep == ASSUME AdminInv, Admin!handleConfirmCreate PROVE AdminInv'
<1>1. PICK body : body = lookupState.body
  OBVIOUS
<1>2. Admin!mutate("create", None, body) /\ lookupState # None /\ lookupState.kind = "confirm"
  BY <1>1 DEF Admin!handleConfirmCreate, Admin!Confirmed
<1>3. "create" \in Kinds[route] /\ body \in reached
  BY <1>1, <1>2, KindsOf DEF AdminInv, DialogInv
<1>4. QED
  BY <1>2, <1>3, MutateStep DEF Admin!handleConfirmCreate, Admin!serverVars

LEMMA CreateFormStep ==
    ASSUME AdminInv,
           \/ \E b \in Bodies : Admin!FormFields(b)
           \/ Admin!handleCreate \/ Admin!LookupAnswers \/ Admin!CloseLookup
    PROVE  AdminInv'
<1>1. UNCHANGED <<route, stock, inMemory, shown, refetches, mutations, unheard, overtaken, dialog>>
  BY DEF Admin!FormFields, Admin!handleCreate, Admin!LookupAnswers, Admin!CloseLookup, Admin!serverVars
<1>2. DialogInv' /\ reached \subseteq reached'
  <2>1. CASE \E b \in Bodies : Admin!FormFields(b)
    BY <2>1 DEF AdminInv, DialogInv, Admin!FormFields
  <2>2. CASE Admin!handleCreate
    BY <2>2 DEF AdminInv, DialogInv, Admin!handleCreate
  <2>3. CASE Admin!LookupAnswers
    BY <2>3 DEF AdminInv, DialogInv, Admin!LookupAnswers
  <2>4. CASE Admin!CloseLookup
    BY <2>4 DEF AdminInv, DialogInv, Admin!CloseLookup
  <2>5. QED
    BY <2>1, <2>2, <2>3, <2>4
<1>3. QED
  BY <1>1, <1>2, DialogsKeep

LEMMA AdminStep == ASSUME AdminInv, Admin!Next \/ UNCHANGED adminVars PROVE AdminInv'
<1>1. CASE \E r \in 1 .. MaxSteps :
             \/ Admin!HandlerReads(r) \/ Admin!HandlerWrites(r) \/ Admin!HandlerRereads(r)
             \/ Admin!HandlerLists(r) \/ Admin!HandlerFails(r)
             \/ Admin!ServerAdded(r) \/ Admin!ServerUpdated(r) \/ Admin!ServerPaused(r) \/ Admin!ServerRemoved(r)
             \/ Admin!SuggestionApproved(r) \/ Admin!SuggestionDenied(r) \/ Admin!SuggestionRemoved(r)
             \/ Admin!FlagsSaved(r) \/ Admin!OnError(r) \/ Admin!Refreshed(r)
  <2>1. ASSUME NEW r, Admin!OnError(r) PROVE AdminInv'
    BY <2>1, OverStep DEF Admin!OnError, Admin!Handles, Admin!serverVars
  <2>2. QED
    BY <1>1, <2>1, ReadsStep, WritesStep, RereadsStep, ListsInMemory, FailsStep, ServersStep, SuggestionsStep, FlagsStep, RefreshedStep
<1>2. CASE \E l \in Admin!Lists : Admin!Focus(l) \/ Admin!FetchAnswers(l) \/ Admin!FetchArrives(l) \/ Admin!FetchFails(l)
  BY <1>2, QueryStep
<1>3. CASE UNCHANGED adminVars
  <2>1. DialogInv' /\ reached \subseteq reached'
    BY <1>3 DEF adminVars, AdminInv, DialogInv
  <2>2. QED
    BY <1>3, <2>1, DialogsKeep DEF adminVars
<1>4. QED
  BY <1>1, <1>2, <1>3, CreateFormStep, ConfirmStep, TablesStep, PauseStep,
     DialogsStep DEF Admin!Next

LEMMA ListTold == ASSUME AdminInv PROVE Admin!ListTellsTable
BY DEF AdminInv, Truth, Behind, LeavesBehind, Stale, Tells, Admin!ListTellsTable

\* A row that is new has what its mutation carries.
LEMMA WrittenRows ==
    ASSUME AdminInv, route = "servers", NEW r, Admin!Handles(r, "read"), Admin!Written(r) # None,
           NEW i \in DOMAIN Admin!Written(r) \ DOMAIN stock
    PROVE  mutations[r].kind = "create" /\ Admin!Written(r)[i].body = mutations[r].body
<1>1. mutations[r].kind \in {"create", "update", "delete", "pause"}
  BY AnyMutation, PageLists DEF Admin!Handles, AdminInv, MutationInv
<1>2. mutations[r].kind = "create"
  BY <1>1 DEF Admin!Written
<1>3. Admin!Written(r) = Admin!AddRow(stock, r, mutations[r].body)
  BY <1>2 DEF Admin!Written
<1>4. QED
  BY <1>2, <1>3 DEF Admin!AddRow

\* What a handler does after its write is to the list in memory.
LEMMA Brings ==
    ASSUME NEW r, Admin!HandlerRereads(r) \/ Admin!HandlerLists(r)
    PROVE  /\ route' = route /\ stock' = stock /\ shown' = shown /\ refetches' = refetches
           /\ dialog' = dialog /\ UNCHANGED Admin!formVars
           /\ Admin!HandlerRereads(r) => inMemory' = inMemory
BY DEF Admin!HandlerRereads, Admin!HandlerLists

\* What can happen on the page, by who does it
Entering ==
    \/ \E b \in Bodies : Admin!FormFields(b)
    \/ Admin!handleCreate \/ Admin!LookupAnswers \/ Admin!CloseLookup \/ Admin!handleConfirmCreate

Tables ==
    \/ Admin!ServerActions \/ Admin!PendingActions \/ Admin!DeniedActions \/ Admin!UserActions
    \/ Admin!onPauseChange

Dialogs ==
    \/ Admin!EditServer \/ Admin!DeleteServer \/ Admin!Approve \/ Admin!Deny \/ Admin!Remove
    \/ Admin!EditFlags

Handler(r) ==
    \/ Admin!HandlerReads(r) \/ Admin!HandlerWrites(r) \/ Admin!HandlerRereads(r)
    \/ Admin!HandlerLists(r) \/ Admin!HandlerFails(r)

Ends(r) ==
    \/ Admin!ServerAdded(r) \/ Admin!ServerUpdated(r) \/ Admin!ServerPaused(r)
    \/ Admin!ServerRemoved(r) \/ Admin!SuggestionApproved(r) \/ Admin!SuggestionDenied(r)
    \/ Admin!SuggestionRemoved(r) \/ Admin!FlagsSaved(r) \/ Admin!OnError(r) \/ Admin!Refreshed(r)

Asks(l) ==
    \/ Admin!Focus(l) \/ Admin!FetchAnswers(l) \/ Admin!FetchArrives(l) \/ Admin!FetchFails(l)

LEMMA Parts ==
    ASSUME Admin!Next \/ UNCHANGED adminVars
    PROVE  \/ Entering \/ Tables \/ Dialogs \/ \E r \in 1 .. MaxSteps : Handler(r) \/ Ends(r)
           \/ (\E l \in Admin!Lists : Asks(l)) \/ UNCHANGED adminVars
BY DEF Admin!Next, Entering, Tables, Dialogs, Handler, Ends, Asks

\* Only the handlers write the tables.
LEMMA StockMoves ==
    ASSUME Admin!Next \/ UNCHANGED adminVars
    PROVE  stock' = stock \/ \E r \in 1 .. MaxSteps : Admin!HandlerWrites(r)
<1>1. CASE Entering
  BY <1>1 DEF Entering, Admin!FormFields, Admin!handleCreate, Admin!LookupAnswers,
     Admin!CloseLookup, Admin!handleConfirmCreate, Admin!serverVars
<1>2. CASE Tables
  BY <1>2 DEF Tables, Admin!ServerActions, Admin!PendingActions, Admin!DeniedActions,
     Admin!UserActions, Admin!Opens, Admin!onPauseChange, Admin!serverVars
<1>3. CASE Dialogs
  BY <1>3 DEF Dialogs, Admin!EditServer, Admin!DeleteServer, Admin!Approve, Admin!Deny,
     Admin!Remove, Admin!EditFlags, Admin!Closes, Admin!Sends, Admin!Types, Admin!serverVars
<1>4. CASE \E r \in 1 .. MaxSteps : Handler(r)
  BY <1>4, Brings DEF Handler, Admin!HandlerReads, Admin!HandlerFails, Admin!serverVars
<1>5. CASE \E r \in 1 .. MaxSteps : Ends(r)
  BY <1>5 DEF Ends, Admin!ServerAdded, Admin!ServerUpdated, Admin!ServerPaused,
     Admin!ServerRemoved, Admin!SuggestionApproved, Admin!SuggestionDenied,
     Admin!SuggestionRemoved, Admin!FlagsSaved, Admin!Succeeds, Admin!OnError, Admin!Refreshed,
     Admin!serverVars
<1>6. CASE \E l \in Admin!Lists : Asks(l)
  BY <1>6 DEF Asks, Admin!Focus, Admin!FetchAnswers, Admin!FetchArrives, Admin!FetchFails,
     Admin!serverVars
<1>7. CASE UNCHANGED adminVars
  BY <1>7 DEF adminVars
<1>8. QED
  BY <1>1, <1>2, <1>3, <1>4, <1>5, <1>6, <1>7, Parts

LEMMA AddedStep == ASSUME AdminInv, Admin!Next \/ UNCHANGED adminVars PROVE Admin!AddedWasReached
<1>1. ASSUME NEW r \in 1 .. MaxSteps, Admin!HandlerWrites(r) PROVE Admin!AddedWasReached
  <2> SUFFICES ASSUME route = "servers", NEW i \in DOMAIN stock' \ DOMAIN stock
               PROVE  stock'[i].body \in reached
    BY DEF Admin!AddedWasReached
  <2>1. Admin!Written(r) # None /\ stock' = Admin!Written(r) /\ Admin!Handles(r, "read")
    BY <1>1 DEF Admin!HandlerWrites
  <2>2. mutations[r].kind = "create" /\ stock'[i].body = mutations[r].body
    BY <2>1, WrittenRows
  <2>3. QED
    BY <2>1, <2>2, AnyMutation DEF Admin!Handles, MutationInv
<1>2. CASE stock' = stock
  BY <1>2 DEF Admin!AddedWasReached
<1>3. QED
  BY <1>1, <1>2, StockMoves

-----------------------------------------------------------------------------
(* The types of the admin pages                                              *)
IsTableOf(p, t) == DOMAIN t \subseteq Nat /\ \A i \in DOMAIN t : t[i] \in Admin!RowsOf(p)

\* What a request still needs of its data
Carries(p, m) ==
    /\ m.at \in {"sent", "read"} =>
          /\ m.kind \in {"create", "update", "approve", "flags"} => m.body \in Admin!FormsOf(p)
          /\ m.kind = "pause" => m.body \in Admin!Server
    /\ m.at = "reread" \/ (m.at = "read" /\ m.kind # "create") => m.seen \in Admin!RowsOf(p)
    /\ m.at \in {"written", "reread"} => m.id \in Nat

MutationsTyped ==
    Len(mutations) <= MaxSteps /\ \A r \in DOMAIN mutations : Carries(route, mutations[r])

CachesList(p, s, f) ==
    /\ IsTableOf(p, s.rows) /\ s.invalid \in BOOLEAN
    /\ f.at \in {"none", "asked", "answered"} /\ IsTableOf(p, f.rows)
    /\ f.waits \subseteq DOMAIN mutations

CacheTyped == \A l \in Admin!Lists : CachesList(route, shown[l], refetches[l])

LookedUp(o) ==
    \/ o = None
    \/ o.kind = "error" /\ o.body = None
    \/ o.kind = "confirm" /\ o.body \in Bodies

EntryTyped ==
    /\ createForm \in Bodies \cup {None} /\ checkedBody \in Bodies \cup {None}
    /\ LookedUp(lookupState) /\ reached \subseteq Bodies
    /\ unheard \in BOOLEAN /\ overtaken \in BOOLEAN

\* The dialog of a row, with a form where its kind has one
IsDialog(p, d) ==
    /\ d = [kind |-> d.kind, id |-> d.id, opened |-> d.opened, form |-> d.form]
    /\ d.id \in Nat /\ d.opened \in Admin!FormsOf(p) \cup {None}
    /\ d.form \in Admin!FormsOf(p) \cup {None}
    /\ d.kind \in Admin!WithForm => d.form \in Admin!FormsOf(p)

DialogTyped == dialog = Admin!NoDialog \/ IsDialog(route, dialog)

AdminTypes ==
    /\ IsTableOf(route, stock) /\ IsTableOf(route, inMemory)
    /\ MutationsTyped /\ CacheTyped /\ EntryTyped /\ DialogTyped

LEMMA Statuses ==
    /\ {"active", "paused", "pending", "denied", "user", "approved"} \subseteq Admin!Status
    /\ Admin!Server \subseteq Admin!Status
<1>1. ASSUME NEW l \in DOMAIN Admin!Query, NEW s \in Admin!Query[l] PROVE s \in Admin!Status
  <2>1. s \in UNION {Admin!Query[k] : k \in DOMAIN Admin!Query}
    BY <1>1
  <2>2. QED
    BY <2>1 DEF Admin!Status
<1>2. /\ {"servers", "pending", "denied", "users"} = DOMAIN Admin!Query
      /\ Admin!Query["servers"] = {"active", "paused"} /\ Admin!Query["pending"] = {"pending"}
      /\ Admin!Query["denied"] = {"denied"} /\ Admin!Query["users"] = {"user"}
  BY DEF Admin!Query, Admin!Server
<1>3. "approved" \in Admin!Status
  BY DEF Admin!Status
<1>4. QED
  BY <1>1, <1>2, <1>3 DEF Admin!Server

LEMMA FormsOfPage ==
    /\ \A p : p # "users" => Admin!FormsOf(p) = Bodies
    /\ Admin!FormsOf("users") = SUBSET USER_FLAGS
BY DEF Admin!FormsOf

LEMMA RowFields ==
    ASSUME NEW p, NEW w \in Admin!RowsOf(p)
    PROVE  /\ w.body \in Admin!FormsOf(p) /\ w.status \in Admin!Status
           /\ w = [body |-> w.body, status |-> w.status]
BY DEF Admin!RowsOf

LEMMA RowMade ==
    ASSUME NEW p, NEW b \in Admin!FormsOf(p), NEW s \in Admin!Status
    PROVE  [body |-> b, status |-> s] \in Admin!RowsOf(p)
BY DEF Admin!RowsOf

LEMMA EmptyTable == ASSUME NEW p PROVE IsTableOf(p, <<>>)
<1>1. DOMAIN <<>> = {}
  OBVIOUS
<1>2. QED
  BY <1>1 DEF IsTableOf

LEMMA ListedTyped ==
    ASSUME IsTableOf(route, stock), IsTableOf(route, inMemory), NEW l
    PROVE  IsTableOf(route, Admin!Listed(l)) /\ IsTableOf(route, Admin!Answer(l))
<1>1. ASSUME NEW t, IsTableOf(route, t) PROVE IsTableOf(route, Admin!Of(t, l))
  <2>1. DOMAIN Admin!Of(t, l) \subseteq DOMAIN t
        /\ \A i \in DOMAIN Admin!Of(t, l) : Admin!Of(t, l)[i] = t[i]
    BY DEF Admin!Of
  <2>2. QED
    BY <1>1, <2>1 DEF IsTableOf
<1>2. QED
  BY <1>1 DEF Admin!Listed, Admin!Answer

\* A row is put into a table, added to it, or taken from it.
LEMMA Put ==
    ASSUME NEW p, NEW t, IsTableOf(p, t), NEW i, NEW w \in Admin!RowsOf(p)
    PROVE  IsTableOf(p, [t EXCEPT ![i] = w])
BY DEF IsTableOf

LEMMA NewIds == ASSUME route \in DOMAIN StoredRows, NEW r \in Nat PROVE Admin!NewId(r) \in Nat
<1>1. PICK first : first = StoredRows[route] /\ first \in Seq(Admin!RowsOf(route))
  BY AdminAssumption
<1>2. Len(first) \in Nat
  BY <1>1
<1>3. QED
  BY <1>1, <1>2 DEF Admin!NewId

LEMMA RowAdded ==
    ASSUME AdminInv, NEW t, IsTableOf(route, t), NEW r \in Nat, NEW b \in Admin!FormsOf(route),
           route \in DOMAIN StoredRows
    PROVE  IsTableOf(route, Admin!AddRow(t, r, b))
<1>1. PICK n \in Nat : n = Admin!NewId(r)
  BY NewIds
<1>2. PICK w : w = [body |-> b, status |-> "active"]
  OBVIOUS
<1>3. w \in Admin!RowsOf(route)
  BY <1>2, RowMade, Statuses
<1>4. Admin!AddRow(t, r, b) = [i \in DOMAIN t \cup {n} |-> IF i \in DOMAIN t THEN t[i] ELSE w]
  BY <1>1, <1>2 DEF Admin!AddRow
<1>5. QED
  BY <1>3, <1>4 DEF IsTableOf

\* The tables the handlers leave are tables of the page.
LEMMA WrittenTyped ==
    ASSUME AdminInv, AdminTypes, route \in DOMAIN StoredRows, NEW r \in DOMAIN mutations,
           mutations[r].at = "read", Admin!Written(r) # None
    PROVE  IsTableOf(route, Admin!Written(r))
<1>1. PICK m : m = mutations[r]
  OBVIOUS
<1>2. m.kind \in Kinds[route] /\ Carries(route, m) /\ m.at = "read" /\ r \in Nat
  BY <1>1, AnyMutation DEF AdminInv, MutationsInv, MutationInv, AdminTypes, MutationsTyped
<1>3. PICK old : old = m.seen
  OBVIOUS
<1>18. \A w \in Admin!RowsOf(route) : IsTableOf(route, [stock EXCEPT ![m.id] = w])
  BY Put DEF AdminTypes
<1>4. m.kind # "create" =>
        /\ old \in Admin!RowsOf(route) /\ old.body \in Admin!FormsOf(route)
        /\ old.status \in Admin!Status /\ old = [body |-> old.body, status |-> old.status]
  BY <1>2, <1>3, RowFields DEF Carries
<1>5. PICK body : body = m.body
  OBVIOUS
<1>6. /\ m.kind \in {"create", "update", "approve", "flags"} => body \in Admin!FormsOf(route)
      /\ m.kind = "pause" => body \in Admin!Status
  BY <1>2, <1>5, Statuses DEF Carries
<1>7. PICK full : full = Admin!Merged(body, old.body)
  OBVIOUS
<1>8. m.kind \in {"update", "approve"} => full \in Admin!FormsOf(route)
  BY <1>2, <1>4, <1>6, <1>7, PageLists, FormsOfPage, AdminAssumption DEF AdminInv
<1>9. CASE m.kind = "create"
  <2>1. Admin!Written(r) = Admin!AddRow(stock, r, body)
    BY <1>1, <1>5, <1>9 DEF Admin!Written
  <2>2. QED
    BY <1>2, <1>6, <1>9, <2>1, RowAdded DEF AdminTypes
<1>10. CASE m.kind = "update"
  <2>1. PICK w : w = [body |-> full, status |-> old.status]
    OBVIOUS
  <2>2. Admin!Written(r) = [stock EXCEPT ![m.id] = w]
    BY <1>1, <1>3, <1>5, <1>7, <1>10, <2>1 DEF Admin!Written
  <2>3. w \in Admin!RowsOf(route)
    BY <1>4, <1>8, <1>10, <2>1, RowMade
  <2>4. QED
    BY <1>18, <2>2, <2>3
<1>11. CASE m.kind = "pause"
  <2>1. PICK w : w = [body |-> old.body, status |-> body]
    OBVIOUS
  <2>2. Admin!Written(r) = [stock EXCEPT ![m.id] = w]
    BY <1>1, <1>3, <1>5, <1>11, <2>1 DEF Admin!Written
  <2>3. w \in Admin!RowsOf(route)
    BY <1>4, <1>6, <1>11, <2>1, RowMade
  <2>4. QED
    BY <1>18, <2>2, <2>3
<1>12. CASE m.kind = "approve"
  <2>1. PICK w : w = [body |-> full, status |-> "approved"]
    OBVIOUS
  <2>2. PICK t : t = [stock EXCEPT ![m.id] = w]
    OBVIOUS
  <2>3. Admin!Written(r) = Admin!AddRow(t, r, full)
    BY <1>1, <1>3, <1>5, <1>7, <1>12, <2>1, <2>2 DEF Admin!Written
  <2>4. w \in Admin!RowsOf(route)
    BY <1>8, <1>12, <2>1, RowMade, Statuses
  <2>5. QED
    BY <1>18, <1>2, <1>8, <1>12, <2>2, <2>3, <2>4, RowAdded
<1>13. CASE m.kind = "deny"
  <2>1. PICK w : w = [old EXCEPT !.status = "denied"]
    OBVIOUS
  <2>2. Admin!Written(r) = [stock EXCEPT ![m.id] = w]
    BY <1>1, <1>3, <1>13, <2>1 DEF Admin!Written
  <2>3. w = [body |-> old.body, status |-> "denied"]
    BY <1>4, <1>13, <2>1
  <2>4. w \in Admin!RowsOf(route)
    BY <1>4, <1>13, <2>3, RowMade, Statuses
  <2>5. QED
    BY <1>18, <2>2, <2>4
<1>14. CASE m.kind = "flags"
  <2>1. PICK w : w = [old EXCEPT !.body = body]
    OBVIOUS
  <2>2. Admin!Written(r) = [stock EXCEPT ![m.id] = w]
    BY <1>1, <1>3, <1>5, <1>14, <2>1 DEF Admin!Written
  <2>3. w = [body |-> body, status |-> old.status]
    BY <1>4, <1>14, <2>1
  <2>4. w \in Admin!RowsOf(route)
    BY <1>4, <1>6, <1>14, <2>3, RowMade
  <2>5. QED
    BY <1>18, <2>2, <2>4
<1>15. CASE m.kind \in {"delete", "remove"}
  <2>1. Admin!Written(r) = [i \in DOMAIN stock \ {m.id} |-> stock[i]]
    BY <1>1, <1>15 DEF Admin!Written
  <2>2. QED
    BY <2>1 DEF AdminTypes, IsTableOf
<1>16. m.kind \in {"create", "update", "delete", "pause", "approve", "deny", "remove", "flags"}
  BY <1>2, PageLists DEF AdminInv
<1>17. QED
  BY <1>9, <1>10, <1>11, <1>12, <1>13, <1>14, <1>15, <1>16

\* A page stays the page it is.
LEMMA RouteStays ==
    ASSUME Admin!Next \/ UNCHANGED adminVars
    PROVE  route' = route
<1>1. CASE Entering
  BY <1>1 DEF Entering, Admin!FormFields, Admin!handleCreate, Admin!LookupAnswers,
     Admin!CloseLookup, Admin!handleConfirmCreate
<1>2. CASE Tables
  BY <1>2 DEF Tables, Admin!ServerActions, Admin!PendingActions, Admin!DeniedActions,
     Admin!UserActions, Admin!Opens, Admin!onPauseChange
<1>3. CASE Dialogs
  BY <1>3 DEF Dialogs, Admin!EditServer, Admin!DeleteServer, Admin!Approve, Admin!Deny,
     Admin!Remove, Admin!EditFlags, Admin!Closes, Admin!Sends, Admin!Types
<1>4. CASE \E r \in 1 .. MaxSteps : Handler(r)
  BY <1>4, Brings DEF Handler, Admin!HandlerReads, Admin!HandlerWrites, Admin!HandlerFails
<1>5. CASE \E r \in 1 .. MaxSteps : Ends(r)
  BY <1>5 DEF Ends, Admin!ServerAdded, Admin!ServerUpdated, Admin!ServerPaused,
     Admin!ServerRemoved, Admin!SuggestionApproved, Admin!SuggestionDenied,
     Admin!SuggestionRemoved, Admin!FlagsSaved, Admin!Succeeds, Admin!OnError, Admin!Refreshed
<1>6. CASE \E l \in Admin!Lists : Asks(l)
  BY <1>6 DEF Asks, Admin!Focus, Admin!FetchAnswers, Admin!FetchArrives, Admin!FetchFails
<1>7. CASE UNCHANGED adminVars
  BY <1>7 DEF adminVars
<1>8. QED
  BY <1>1, <1>2, <1>3, <1>4, <1>5, <1>6, <1>7, Parts

\* Who moves the form of a new server, a dialog, the lists, the mutations
LEMMA EntryMoves ==
    ASSUME Admin!Next \/ UNCHANGED adminVars
    PROVE  \/ /\ UNCHANGED <<createForm, checkedBody, lookupState, reached>>
              /\ unheard' = unheard /\ overtaken' = overtaken
           \/ \E b \in Bodies : Admin!FormFields(b)
           \/ Admin!handleCreate \/ Admin!LookupAnswers \/ Admin!CloseLookup
           \/ \E r \in 1 .. MaxSteps :
                 \/ Admin!ServerAdded(r) \/ Admin!HandlerRereads(r) \/ Admin!HandlerLists(r)
                 \/ Admin!HandlerFails(r)
<1>1. CASE Entering
  BY <1>1 DEF Entering, Admin!handleConfirmCreate, Admin!serverVars, Admin!formVars
<1>2. CASE Tables
  BY <1>2 DEF Tables, Admin!ServerActions, Admin!PendingActions, Admin!DeniedActions,
     Admin!UserActions, Admin!Opens, Admin!onPauseChange, Admin!serverVars, Admin!formVars
<1>3. CASE Dialogs
  BY <1>3 DEF Dialogs, Admin!EditServer, Admin!DeleteServer, Admin!Approve, Admin!Deny,
     Admin!Remove, Admin!EditFlags, Admin!Closes, Admin!Sends, Admin!Types, Admin!serverVars,
     Admin!formVars
<1>4. CASE \E r \in 1 .. MaxSteps : Handler(r)
  BY <1>4 DEF Handler, Admin!HandlerReads, Admin!HandlerWrites, Admin!serverVars, Admin!formVars
<1>5. CASE \E r \in 1 .. MaxSteps : Ends(r)
  BY <1>5 DEF Ends, Admin!ServerUpdated, Admin!ServerPaused, Admin!ServerRemoved,
     Admin!SuggestionApproved, Admin!SuggestionDenied, Admin!SuggestionRemoved, Admin!FlagsSaved,
     Admin!Succeeds, Admin!ClosesOpen, Admin!OnError, Admin!Refreshed, Admin!serverVars,
     Admin!formVars
<1>6. CASE \E l \in Admin!Lists : Asks(l)
  BY <1>6 DEF Asks, Admin!Focus, Admin!FetchAnswers, Admin!FetchArrives, Admin!FetchFails,
     Admin!serverVars, Admin!formVars
<1>7. CASE UNCHANGED adminVars
  BY <1>7 DEF adminVars
<1>8. QED
  BY <1>1, <1>2, <1>3, <1>4, <1>5, <1>6, <1>7, Parts

LEMMA DialogMoves ==
    ASSUME Admin!Next \/ UNCHANGED adminVars
    PROVE  \/ dialog' = dialog \/ dialog' = Admin!NoDialog
           \/ Admin!ServerActions \/ Admin!PendingActions \/ Admin!DeniedActions \/ Admin!UserActions
           \/ \E b \in Bodies : Admin!Types("update", b) \/ Admin!Types("approve", b)
           \/ \E flag \in USER_FLAGS, enabled \in BOOLEAN :
                 Admin!Types("flags", Admin!setFlag(dialog.form, flag, enabled))
<1>1. CASE Entering
  BY <1>1 DEF Entering, Admin!FormFields, Admin!handleCreate, Admin!LookupAnswers,
     Admin!CloseLookup, Admin!handleConfirmCreate
<1>2. CASE Tables
  BY <1>2 DEF Tables, Admin!onPauseChange
<1>3. CASE Dialogs
  BY <1>3 DEF Dialogs, Admin!EditServer, Admin!DeleteServer, Admin!Approve, Admin!Deny,
     Admin!Remove, Admin!EditFlags, Admin!Closes, Admin!Sends
<1>4. CASE \E r \in 1 .. MaxSteps : Handler(r)
  BY <1>4, Brings DEF Handler, Admin!HandlerReads, Admin!HandlerWrites, Admin!HandlerFails
<1>5. CASE \E r \in 1 .. MaxSteps : Ends(r)
  BY <1>5 DEF Ends, Admin!ServerAdded, Admin!ServerUpdated, Admin!ServerPaused,
     Admin!ServerRemoved, Admin!SuggestionApproved, Admin!SuggestionDenied,
     Admin!SuggestionRemoved, Admin!FlagsSaved, Admin!ClosesOpen, Admin!OnError, Admin!Refreshed
<1>6. CASE \E l \in Admin!Lists : Asks(l)
  BY <1>6 DEF Asks, Admin!Focus, Admin!FetchAnswers, Admin!FetchArrives, Admin!FetchFails
<1>7. CASE UNCHANGED adminVars
  BY <1>7 DEF adminVars
<1>8. QED
  BY <1>1, <1>2, <1>3, <1>4, <1>5, <1>6, <1>7, Parts

LEMMA CacheMoves ==
    ASSUME Admin!Next \/ UNCHANGED adminVars
    PROVE  \/ UNCHANGED <<shown, refetches>>
           \/ \E r \in 1 .. MaxSteps : Admin!Refreshed(r) \/ \E kind, lists : Admin!Succeeds(r, kind, lists)
           \/ \E l \in Admin!Lists : Admin!Focus(l) \/ Admin!FetchAnswers(l) \/ Admin!FetchArrives(l) \/ Admin!FetchFails(l)
<1>1. CASE Entering
  BY <1>1 DEF Entering, Admin!FormFields, Admin!handleCreate, Admin!LookupAnswers,
     Admin!CloseLookup, Admin!handleConfirmCreate
<1>2. CASE Tables
  BY <1>2 DEF Tables, Admin!ServerActions, Admin!PendingActions, Admin!DeniedActions,
     Admin!UserActions, Admin!Opens, Admin!onPauseChange
<1>3. CASE Dialogs
  BY <1>3 DEF Dialogs, Admin!EditServer, Admin!DeleteServer, Admin!Approve, Admin!Deny,
     Admin!Remove, Admin!EditFlags, Admin!Closes, Admin!Sends, Admin!Types
<1>4. CASE \E r \in 1 .. MaxSteps : Handler(r)
  BY <1>4, Brings DEF Handler, Admin!HandlerReads, Admin!HandlerWrites, Admin!HandlerFails
<1>5. CASE \E r \in 1 .. MaxSteps : Ends(r)
  BY <1>5 DEF Ends, Admin!ServerAdded, Admin!ServerUpdated, Admin!ServerPaused,
     Admin!ServerRemoved, Admin!SuggestionApproved, Admin!SuggestionDenied,
     Admin!SuggestionRemoved, Admin!FlagsSaved, Admin!OnError
<1>6. CASE \E l \in Admin!Lists : Asks(l)
  BY <1>6 DEF Asks
<1>7. CASE UNCHANGED adminVars
  BY <1>7 DEF adminVars
<1>8. QED
  BY <1>1, <1>2, <1>3, <1>4, <1>5, <1>6, <1>7, Parts

LEMMA MutationsMove ==
    ASSUME Admin!Next \/ UNCHANGED adminVars
    PROVE  \/ mutations' = mutations
           \/ Admin!handleConfirmCreate \/ Admin!onPauseChange
           \/ \E kind \in {"update", "delete", "approve", "deny", "remove", "flags"} : Admin!Sends(kind)
           \/ \E r \in 1 .. MaxSteps :
                 \/ Admin!HandlerReads(r) \/ Admin!HandlerWrites(r) \/ Admin!HandlerRereads(r)
                 \/ Admin!HandlerLists(r) \/ Admin!HandlerFails(r)
                 \/ \E kind, lists : Admin!Succeeds(r, kind, lists)
                 \/ Admin!OnError(r) \/ Admin!Refreshed(r)
<1>1. CASE Entering
  BY <1>1 DEF Entering, Admin!FormFields, Admin!handleCreate, Admin!LookupAnswers,
     Admin!CloseLookup
<1>2. CASE Tables
  BY <1>2 DEF Tables, Admin!ServerActions, Admin!PendingActions, Admin!DeniedActions,
     Admin!UserActions, Admin!Opens
<1>3. CASE Dialogs
  BY <1>3 DEF Dialogs, Admin!EditServer, Admin!DeleteServer, Admin!Approve, Admin!Deny,
     Admin!Remove, Admin!EditFlags, Admin!Closes, Admin!Types
<1>4. CASE \E r \in 1 .. MaxSteps : Handler(r)
  BY <1>4 DEF Handler
<1>5. CASE \E r \in 1 .. MaxSteps : Ends(r)
  BY <1>5 DEF Ends, Admin!ServerAdded, Admin!ServerUpdated, Admin!ServerPaused,
     Admin!ServerRemoved, Admin!SuggestionApproved, Admin!SuggestionDenied,
     Admin!SuggestionRemoved, Admin!FlagsSaved
<1>6. CASE \E l \in Admin!Lists : Asks(l)
  BY <1>6 DEF Asks, Admin!Focus, Admin!FetchAnswers, Admin!FetchArrives, Admin!FetchFails
<1>7. CASE UNCHANGED adminVars
  BY <1>7 DEF adminVars
<1>8. QED
  BY <1>1, <1>2, <1>3, <1>4, <1>5, <1>6, <1>7, Parts

\* Only the last step of a handler brings a row to the list in memory.
LEMMA MemoryMoves ==
    ASSUME Admin!Next \/ UNCHANGED adminVars
    PROVE  inMemory' = inMemory \/ \E r \in 1 .. MaxSteps : Admin!HandlerLists(r)
<1>1. CASE Entering
  BY <1>1 DEF Entering, Admin!FormFields, Admin!handleCreate, Admin!LookupAnswers,
     Admin!CloseLookup, Admin!handleConfirmCreate, Admin!serverVars
<1>2. CASE Tables
  BY <1>2 DEF Tables, Admin!ServerActions, Admin!PendingActions, Admin!DeniedActions,
     Admin!UserActions, Admin!Opens, Admin!onPauseChange, Admin!serverVars
<1>3. CASE Dialogs
  BY <1>3 DEF Dialogs, Admin!EditServer, Admin!DeleteServer, Admin!Approve, Admin!Deny,
     Admin!Remove, Admin!EditFlags, Admin!Closes, Admin!Sends, Admin!Types, Admin!serverVars
<1>4. CASE \E r \in 1 .. MaxSteps : Handler(r)
  BY <1>4, Brings DEF Handler, Admin!HandlerReads, Admin!HandlerWrites, Admin!HandlerFails,
     Admin!serverVars
<1>5. CASE \E r \in 1 .. MaxSteps : Ends(r)
  BY <1>5 DEF Ends, Admin!ServerAdded, Admin!ServerUpdated, Admin!ServerPaused,
     Admin!ServerRemoved, Admin!SuggestionApproved, Admin!SuggestionDenied,
     Admin!SuggestionRemoved, Admin!FlagsSaved, Admin!Succeeds, Admin!OnError, Admin!Refreshed,
     Admin!serverVars
<1>6. CASE \E l \in Admin!Lists : Asks(l)
  BY <1>6 DEF Asks, Admin!Focus, Admin!FetchAnswers, Admin!FetchArrives, Admin!FetchFails,
     Admin!serverVars
<1>7. CASE UNCHANGED adminVars
  BY <1>7 DEF adminVars
<1>8. QED
  BY <1>1, <1>2, <1>3, <1>4, <1>5, <1>6, <1>7, Parts

LEMMA MemoryStep ==
    ASSUME AdminTypes, Admin!Next \/ UNCHANGED adminVars
    PROVE  IsTableOf(route, inMemory')
<1>1. CASE inMemory' = inMemory
  BY <1>1 DEF AdminTypes
<1>2. ASSUME NEW r, Admin!HandlerLists(r), inMemory' # inMemory PROVE IsTableOf(route, inMemory')
  <2>1. PICK id, w : id = mutations[r].id /\ w = mutations[r].seen
    OBVIOUS
  <2>2. r \in DOMAIN mutations /\ mutations[r].at \in {"written", "reread"}
        /\ (mutations[r].kind # "delete" => mutations[r].at = "reread")
    BY <1>2 DEF Admin!HandlerLists, Admin!Handles
  <2>3. id \in Nat /\ (mutations[r].kind # "delete" => w \in Admin!RowsOf(route))
    BY <2>1, <2>2 DEF AdminTypes, MutationsTyped, Carries
  <2>4. CASE mutations[r].kind = "delete"
    <3>1. inMemory' = [i \in DOMAIN inMemory \ {id} |-> inMemory[i]]
      BY <1>2, <2>1, <2>4 DEF Admin!HandlerLists
    <3>2. QED
      BY <3>1 DEF AdminTypes, IsTableOf
  <2>5. CASE mutations[r].kind # "delete"
    <3>1. inMemory' = [i \in DOMAIN inMemory \cup {id} |-> IF i = id THEN w ELSE inMemory[i]]
      BY <1>2, <2>1, <2>5 DEF Admin!HandlerLists
    <3>2. QED
      BY <2>3, <2>5, <3>1 DEF AdminTypes, IsTableOf
  <2>6. QED
    BY <2>4, <2>5
<1>3. QED
  BY <1>1, <1>2, MemoryMoves

LEMMA StockStep ==
    ASSUME AdminInv, AdminTypes, route \in DOMAIN StoredRows, Admin!Next \/ UNCHANGED adminVars
    PROVE  IsTableOf(route, stock')
<1>1. CASE stock' = stock
  BY <1>1 DEF AdminTypes
<1>2. ASSUME NEW r, Admin!HandlerWrites(r), stock' # stock PROVE IsTableOf(route, stock')
  <2>1. /\ stock' = Admin!Written(r) /\ Admin!Written(r) # None
        /\ r \in DOMAIN mutations /\ mutations[r].at = "read"
    BY <1>2 DEF Admin!HandlerWrites, Admin!Handles
  <2>2. QED
    BY <2>1, WrittenTyped
<1>3. QED
  BY <1>1, <1>2, StockMoves

\* A mutation is sent with what its handler needs, or moves on with that.
SentWell(kind, body) ==
    /\ kind \in {"create", "update", "approve", "flags"} => body \in Admin!FormsOf(route)
    /\ kind = "pause" => body \in Admin!Server

LEMMA MutateTypes ==
    ASSUME AdminInv, MutationsTyped, NEW kind, NEW id, NEW body, SentWell(kind, body), route' = route,
           Admin!mutate(kind, id, body)
    PROVE  MutationsTyped' /\ DOMAIN mutations \subseteq DOMAIN mutations'
<1> DEFINE m == [kind |-> kind, id |-> id, body |-> body, at |-> "sent",
                 seen |-> None, lists |-> <<>>]
<1>1. mutations' = Append(mutations, m)
  BY DEF Admin!mutate
<1>2. Carries(route, m)
  BY DEF Carries, SentWell
<1> HIDE DEF m
<1>3. /\ Len(mutations) \in Nat /\ DOMAIN mutations = 1 .. Len(mutations)
      /\ mutations = [r \in 1 .. Len(mutations) |-> mutations[r]]
  BY DEF AdminInv, MutationsInv
<1>4. /\ Len(mutations') \in Nat /\ DOMAIN mutations' = 1 .. Len(mutations')
      /\ DOMAIN mutations' = DOMAIN mutations \cup {Len(mutations) + 1}
      /\ \A r \in DOMAIN mutations : mutations'[r] = mutations[r]
      /\ mutations'[Len(mutations) + 1] = m
  BY <1>1, <1>3, Appended
<1>5. Len(mutations) + 1 <= MaxSteps
  BY <1>3, AdminAssumption DEF Admin!mutate, Admin!MayStep
<1>6. PICK n, k : n = Len(mutations) /\ k = Len(mutations')
  OBVIOUS
<1>7. k \in 1 .. n + 1 \/ k = 0
  <2>1. n \in Nat /\ k \in Nat /\ 1 .. k = 1 .. n \cup {n + 1}
    BY <1>3, <1>4, <1>6
  <2>2. QED
    BY <2>1
<1>8. Len(mutations') <= MaxSteps
  BY <1>3, <1>5, <1>6, <1>7, AdminAssumption
<1>9. \A r \in DOMAIN mutations' : Carries(route, mutations'[r])
  BY <1>2, <1>4 DEF MutationsTyped
<1>10. QED
  BY <1>4, <1>8, <1>9 DEF MutationsTyped

LEMMA MoveTypes ==
    ASSUME AdminInv, MutationsTyped, NEW r \in DOMAIN mutations, NEW m, Carries(route, m), route' = route,
           mutations' = [mutations EXCEPT ![r] = m]
    PROVE  MutationsTyped' /\ DOMAIN mutations \subseteq DOMAIN mutations'
<1>1. /\ Len(mutations) \in Nat /\ DOMAIN mutations = 1 .. Len(mutations)
      /\ mutations = [q \in 1 .. Len(mutations) |-> mutations[q]]
  BY DEF AdminInv, MutationsInv
<1>2. /\ Len(mutations') \in Nat /\ DOMAIN mutations' = 1 .. Len(mutations')
      /\ DOMAIN mutations' = DOMAIN mutations
      /\ mutations'[r] = m /\ \A q \in DOMAIN mutations : q # r => mutations'[q] = mutations[q]
  BY <1>1, MutationReplaced
<1>3. Len(mutations') = Len(mutations)
  <2>1. PICK n, k : n = Len(mutations) /\ k = Len(mutations')
    OBVIOUS
  <2>2. n \in Nat /\ k \in Nat /\ 1 .. k = 1 .. n
    BY <1>1, <1>2, <2>1
  <2>3. k = n
    BY <2>2
  <2>4. QED
    BY <2>1, <2>3
<1>4. \A q \in DOMAIN mutations' : Carries(route, mutations'[q])
  BY <1>2 DEF MutationsTyped
<1>5. QED
  BY <1>2, <1>3, <1>4 DEF MutationsTyped

\* Past its handler a mutation needs nothing of its data.
LEMMA BecomesTypes ==
    ASSUME AdminInv, MutationsTyped, NEW r \in DOMAIN mutations, NEW stage \in {"refused", "applied"},
           Admin!Becomes(r, stage), route' = route
    PROVE  MutationsTyped' /\ DOMAIN mutations \subseteq DOMAIN mutations'
<1>1. PICK m : m = [Admin!Over EXCEPT !.kind = mutations[r].kind, !.at = stage]
  OBVIOUS
<1>2. m.at = stage
  BY <1>1 DEF Admin!Over
<1>3. Carries(route, m)
  BY <1>2 DEF Carries
<1>4. mutations' = [mutations EXCEPT ![r] = m]
  BY <1>1 DEF Admin!Becomes
<1>5. QED
  BY <1>3, <1>4, MoveTypes

LEMMA ReadsTypes ==
    ASSUME AdminInv, AdminTypes, NEW r, Admin!HandlerReads(r)
    PROVE  MutationsTyped' /\ DOMAIN mutations \subseteq DOMAIN mutations'
<1>1. /\ MutationsTyped /\ IsTableOf(route, stock) /\ route' = route
      /\ r \in DOMAIN mutations /\ mutations[r].at = "sent"
  BY DEF AdminTypes, Admin!HandlerReads, Admin!Handles
<1>2. CASE Admin!Refuses(r)
  BY <1>1, <1>2, BecomesTypes DEF Admin!HandlerReads
<1>3. CASE ~Admin!Refuses(r)
  <2>1. PICK view : view = IF mutations[r].kind = "create" THEN None ELSE Admin!Now(r)
    OBVIOUS
  <2>2. mutations' = [mutations EXCEPT ![r].at = "read", ![r].seen = view]
    BY <1>3, <2>1 DEF Admin!HandlerReads
  <2>3. PICK m : m = [mutations[r] EXCEPT !.at = "read", !.seen = view]
    OBVIOUS
  <2>4. PICK old : old = mutations[r] /\ IsMutation(old)
    BY <1>1, AnyMutation DEF MutationInv
  <2>11. m = [kind |-> old.kind, id |-> old.id, body |-> old.body,
             at |-> "read", seen |-> view, lists |-> old.lists]
    BY <2>3, <2>4 DEF IsMutation
  <2>5. m.kind = mutations[r].kind /\ m.body = mutations[r].body /\ m.at = "read" /\ m.seen = view
    BY <2>11, <2>4
  <2>6. mutations[r].kind # "create" => view \in Admin!RowsOf(route)
    BY <1>1, <1>3, <2>1 DEF Admin!Refuses, Admin!Now, IsTableOf
  <2>7. Carries(route, mutations[r])
    BY <1>1 DEF MutationsTyped
  <2>8. Carries(route, m)
    BY <1>1, <2>5, <2>6, <2>7 DEF Carries
  <2>9. mutations' = [mutations EXCEPT ![r] = m]
    BY <1>1, <2>2, <2>3
  <2>10. QED
    BY <1>1, <2>8, <2>9, MoveTypes
<1>4. QED
  BY <1>2, <1>3

LEMMA WritesTypes ==
    ASSUME AdminInv, AdminTypes, route \in DOMAIN StoredRows, NEW r, Admin!HandlerWrites(r)
    PROVE  MutationsTyped' /\ DOMAIN mutations \subseteq DOMAIN mutations'
<1>1. /\ MutationsTyped /\ IsTableOf(route, stock) /\ route' = route
      /\ r \in DOMAIN mutations /\ mutations[r].at = "read"
  BY DEF AdminTypes, Admin!HandlerWrites, Admin!Handles
<1>2. CASE \E stage \in {"refused", "applied"} : Admin!Becomes(r, stage)
  BY <1>1, <1>2, BecomesTypes
<1>3. CASE Admin!Written(r) # None /\ route = "servers"
  <2>1. PICK id : id = IF mutations[r].kind = "create" THEN Admin!NewId(r) ELSE mutations[r].id
    OBVIOUS
  <2>2. mutations' = [mutations EXCEPT ![r].at = "written", ![r].seen = None,
              ![r].id = IF mutations[r].kind = "create" THEN Admin!NewId(r) ELSE @]
    BY <1>3 DEF Admin!HandlerWrites
  <2>3. PICK old : old = mutations[r] /\ IsMutation(old)
    BY <1>1, AnyMutation DEF MutationInv
  <2>4. PICK m : m = [old EXCEPT !.at = "written", !.seen = None, !.id = id]
    OBVIOUS
  <2>5. m = [kind |-> old.kind, id |-> id, body |-> old.body, at |-> "written", seen |-> None,
             lists |-> old.lists]
    BY <2>3, <2>4 DEF IsMutation
  <2>6. m.at = "written" /\ m.id = id
    BY <2>5
  <2>7. mutations' = [mutations EXCEPT ![r] = m]
    BY <1>1, <2>1, <2>2, <2>3, <2>4
  <2>8. r \in Nat
    BY <1>1 DEF AdminInv, MutationsInv
  <2>9. mutations[r].kind # "create" => mutations[r].id \in DOMAIN stock
    BY <1>3 DEF Admin!Written
  <2>10. id \in Nat
    BY <1>1, <2>1, <2>8, <2>9, NewIds DEF IsTableOf
  <2>11. Carries(route, m)
    BY <2>6, <2>10 DEF Carries
  <2>12. QED
    BY <1>1, <2>7, <2>11, MoveTypes
<1>4. QED
  BY <1>2, <1>3 DEF Admin!HandlerWrites

LEMMA RereadsTypes ==
    ASSUME AdminInv, AdminTypes, NEW r, Admin!HandlerRereads(r)
    PROVE  MutationsTyped' /\ DOMAIN mutations \subseteq DOMAIN mutations'
<1>1. /\ MutationsTyped /\ IsTableOf(route, stock) /\ route' = route
      /\ r \in DOMAIN mutations /\ mutations[r].at = "written"
  BY DEF AdminTypes, Admin!HandlerRereads, Admin!Handles
<1>2. CASE Admin!Becomes(r, "refused")
  BY <1>1, <1>2, BecomesTypes
<1>3. CASE ~Admin!Becomes(r, "refused")
  <2>1. PICK view : view = Admin!Now(r)
    OBVIOUS
  <2>2. /\ mutations' = [mutations EXCEPT ![r].at = "reread", ![r].seen = view]
        /\ mutations[r].id \in DOMAIN stock
    BY <1>3, <2>1 DEF Admin!HandlerRereads, Admin!Mislays
  <2>3. PICK old : old = mutations[r] /\ IsMutation(old)
    BY <1>1, AnyMutation DEF MutationInv
  <2>4. PICK m : m = [old EXCEPT !.at = "reread", !.seen = view]
    OBVIOUS
  <2>5. m = [kind |-> old.kind, id |-> old.id, body |-> old.body,
             at |-> "reread", seen |-> view, lists |-> old.lists]
    BY <2>3, <2>4 DEF IsMutation
  <2>6. m.at = "reread" /\ m.id = old.id /\ m.seen = view
    BY <2>5
  <2>7. view \in Admin!RowsOf(route) /\ old.id \in Nat
    BY <1>1, <2>1, <2>2, <2>3 DEF Admin!Now, IsTableOf
  <2>8. Carries(route, m)
    BY <2>6, <2>7 DEF Carries
  <2>9. mutations' = [mutations EXCEPT ![r] = m]
    BY <1>1, <2>2, <2>3, <2>4
  <2>10. QED
    BY <1>1, <2>8, <2>9, MoveTypes
<1>4. QED
  BY <1>2, <1>3

LEMMA BroughtTypes ==
    ASSUME AdminInv, AdminTypes, NEW r, Admin!HandlerLists(r)
    PROVE  MutationsTyped' /\ DOMAIN mutations \subseteq DOMAIN mutations'
<1>1. /\ MutationsTyped /\ route' = route /\ r \in DOMAIN mutations
      /\ \E stage \in {"refused", "applied"} : Admin!Becomes(r, stage)
  BY DEF AdminTypes, Admin!HandlerLists, Admin!Handles, Admin!Mislays
<1>2. QED
  BY <1>1, BecomesTypes

LEMMA SucceedsTypes ==
    ASSUME AdminInv, MutationsTyped, NEW r, NEW kind, NEW lists, Admin!Succeeds(r, kind, lists)
    PROVE  MutationsTyped' /\ DOMAIN mutations \subseteq DOMAIN mutations' /\ r \in DOMAIN mutations
<1>1. r \in DOMAIN mutations /\ route' = route
  BY DEF Admin!Succeeds, Admin!Handles
<1>2. PICK m : m = [Admin!Over EXCEPT !.kind = kind, !.at = "refreshing", !.lists = lists]
  OBVIOUS
<1>3. m.at = "refreshing"
  BY <1>2 DEF Admin!Over
<1>4. Carries(route, m)
  BY <1>3 DEF Carries
<1>5. mutations' = [mutations EXCEPT ![r] = m]
  BY <1>2 DEF Admin!Succeeds
<1>6. QED
  BY <1>1, <1>4, <1>5, MoveTypes

LEMMA EndTypes ==
    ASSUME AdminInv, MutationsTyped, NEW r \in DOMAIN mutations, route' = route,
           mutations' = [mutations EXCEPT ![r] = Admin!Over]
    PROVE  MutationsTyped' /\ DOMAIN mutations \subseteq DOMAIN mutations'
<1>1. PICK m : m = Admin!Over
  OBVIOUS
<1>2. m.at = "over"
  BY <1>1 DEF Admin!Over
<1>3. Carries(route, m)
  BY <1>2 DEF Carries
<1>4. QED
  BY <1>1, <1>3, MoveTypes

LEMMA RefreshedTypes ==
    ASSUME AdminInv, MutationsTyped, NEW r, Admin!Refreshed(r)
    PROVE  MutationsTyped' /\ DOMAIN mutations \subseteq DOMAIN mutations' /\ r \in DOMAIN mutations
<1>1. r \in DOMAIN mutations /\ mutations[r].at = "refreshing" /\ route' = route
  BY DEF Admin!Refreshed, Admin!Handles
<1>2. CASE Len(mutations[r].lists) = 1
  BY <1>1, <1>2, EndTypes DEF Admin!Refreshed
<1>3. CASE Len(mutations[r].lists) # 1
  <2>1. PICK tail : tail = Tail(mutations[r].lists)
    OBVIOUS
  <2>2. PICK m : m = [mutations[r] EXCEPT !.lists = tail]
    OBVIOUS
  <2>3. m = [kind |-> mutations[r].kind, id |-> mutations[r].id, body |-> mutations[r].body,
             at |-> mutations[r].at, seen |-> mutations[r].seen, lists |-> tail]
    BY <1>1, <2>2, AnyMutation DEF MutationInv, IsMutation
  <2>4. m.at = "refreshing"
    BY <1>1, <2>3
  <2>5. Carries(route, m)
    BY <2>4 DEF Carries
  <2>6. mutations' = [mutations EXCEPT ![r] = m]
    BY <1>1, <1>3, <2>1, <2>2 DEF Admin!Refreshed
  <2>7. QED
    BY <1>1, <2>5, <2>6, MoveTypes
<1>4. QED
  BY <1>2, <1>3

\* A dialog on top sends what its form holds.
LEMMA SendsTypes ==
    ASSUME AdminInv, AdminTypes, NEW kind \in {"update", "delete", "approve", "deny", "remove", "flags"},
           Admin!Sends(kind)
    PROVE  MutationsTyped' /\ DOMAIN mutations \subseteq DOMAIN mutations'
<1>1. dialog.kind = kind /\ route' = route
  BY DEF Admin!Sends, Admin!OnTop
<1>2. kind # None
  BY AdminAssumption
<1>3. dialog # Admin!NoDialog
  BY <1>1, <1>2 DEF Admin!NoDialog
<1>4. kind \in Admin!WithForm => dialog.form \in Admin!FormsOf(route)
  BY <1>1, <1>3 DEF AdminTypes, DialogTyped, IsDialog
<1>5. PICK id, body : id = dialog.id /\ body = dialog.form
  OBVIOUS
<1>6. Admin!mutate(kind, id, body)
  BY <1>5 DEF Admin!Sends
<1>7. SentWell(kind, body)
  BY <1>4, <1>5 DEF SentWell, Admin!WithForm
<1>8. QED
  BY <1>1, <1>6, <1>7, MutateTypes DEF AdminTypes

LEMMA ConfirmTypes ==
    ASSUME AdminInv, AdminTypes, Admin!handleConfirmCreate
    PROVE  MutationsTyped' /\ DOMAIN mutations \subseteq DOMAIN mutations'
<1>1. PICK body : body = lookupState.body
  OBVIOUS
<1>2. /\ Admin!mutate("create", None, body) /\ lookupState # None /\ lookupState.kind = "confirm"
      /\ route' = route
  BY <1>1 DEF Admin!handleConfirmCreate, Admin!Confirmed
<1>3. body \in Bodies /\ route = "servers"
  BY <1>1, <1>2 DEF AdminInv, DialogInv, AdminTypes, EntryTyped, LookedUp
<1>4. SentWell("create", body)
  BY <1>3, FormsOfPage DEF SentWell
<1>5. QED
  BY <1>2, <1>4, MutateTypes DEF AdminTypes

LEMMA PauseTypes ==
    ASSUME AdminInv, AdminTypes, Admin!onPauseChange
    PROVE  MutationsTyped' /\ DOMAIN mutations \subseteq DOMAIN mutations'
<1>1. PICK id, body : Admin!mutate("pause", id, body) /\ body \in {"active", "paused"}
  BY DEF Admin!onPauseChange
<1>2. route' = route
  BY DEF Admin!onPauseChange
<1>3. SentWell("pause", body)
  BY <1>1 DEF SentWell, Admin!Server
<1>4. QED
  BY <1>1, <1>2, <1>3, MutateTypes DEF AdminTypes

LEMMA MutationsStep ==
    ASSUME AdminInv, AdminTypes, route \in DOMAIN StoredRows, Admin!Next \/ UNCHANGED adminVars
    PROVE  MutationsTyped' /\ DOMAIN mutations \subseteq DOMAIN mutations'
<1>1. MutationsTyped /\ route' = route
  BY RouteStays DEF AdminTypes
<1>2. CASE mutations' = mutations
  BY <1>1, <1>2 DEF MutationsTyped
<1>3. ASSUME NEW r, Admin!HandlerFails(r)
      PROVE  MutationsTyped' /\ DOMAIN mutations \subseteq DOMAIN mutations'
  <2>1. r \in DOMAIN mutations /\ Admin!Becomes(r, "refused")
    BY <1>3 DEF Admin!HandlerFails, Admin!Handles
  <2>2. QED
    BY <1>1, <2>1, BecomesTypes
<1>4. ASSUME NEW r, Admin!OnError(r)
      PROVE  MutationsTyped' /\ DOMAIN mutations \subseteq DOMAIN mutations'
  BY <1>1, <1>4, EndTypes DEF Admin!OnError, Admin!Handles
<1>5. QED
  BY <1>1, <1>2, <1>3, <1>4, MutationsMove, SendsTypes, ConfirmTypes, PauseTypes, ReadsTypes,
     WritesTypes, RereadsTypes, BroughtTypes, SucceedsTypes, RefreshedTypes

\* The lists: what is asked for again holds no rows, an answer those of the table.
LEMMA CacheKept ==
    ASSUME CacheTyped, UNCHANGED <<route, shown, refetches>>, DOMAIN mutations \subseteq DOMAIN mutations'
    PROVE  CacheTyped'
<1>1. Admin!Lists' = Admin!Lists
  BY DEF Admin!Lists
<1>2. ASSUME NEW l \in Admin!Lists PROVE CachesList(route, shown[l], refetches[l])'
  BY <1>2 DEF CacheTyped, CachesList
<1>3. QED
  BY <1>1, <1>2 DEF CacheTyped

LEMMA CacheMoved ==
    ASSUME AdminInv, CacheTyped, route' = route, DOMAIN mutations \subseteq DOMAIN mutations',
           NEW l, NEW s, NEW f,
           shown' = [shown EXCEPT ![l] = s] \/ (shown' = shown /\ s = shown[l]),
           refetches' = [refetches EXCEPT ![l] = f],
           l \in Admin!Lists => CachesList(route, s, f)'
    PROVE  CacheTyped'
<1>1. DOMAIN shown = Admin!Lists /\ DOMAIN refetches = Admin!Lists /\ Admin!Lists' = Admin!Lists
  BY DEF AdminInv, ListsInv, Admin!Lists
<1>2. /\ l \in Admin!Lists => shown'[l] = s /\ refetches'[l] = f
      /\ \A k \in Admin!Lists : k # l => shown'[k] = shown[k] /\ refetches'[k] = refetches[k]
  BY <1>1
<1>3. ASSUME NEW k \in Admin!Lists PROVE CachesList(route, shown[k], refetches[k])'
  <2>1. CASE k = l
    BY <1>2, <1>3, <2>1 DEF CachesList
  <2>2. CASE k # l
    BY <1>2, <1>3, <2>2 DEF CacheTyped, CachesList
  <2>3. QED
    BY <2>1, <2>2
<1>4. QED
  BY <1>1, <1>3 DEF CacheTyped

LEMMA AskedAgainTypes ==
    ASSUME AdminInv, CacheTyped, route' = route, DOMAIN mutations \subseteq DOMAIN mutations',
           NEW l \in Admin!Lists, NEW r \in DOMAIN mutations, Admin!Invalidates(l, r)
    PROVE  CacheTyped'
<1>1. PICK old, s, f : old = shown[l] /\ s = [old EXCEPT !.invalid = TRUE]
                       /\ f = [at |-> "asked", rows |-> <<>>, waits |-> {r}]
  OBVIOUS
<1>2. old = [rows |-> old.rows, invalid |-> old.invalid] /\ IsTableOf(route, old.rows)
  BY <1>1 DEF AdminInv, ListsInv, IsQuery, CacheTyped, CachesList
<1>3. s.rows = old.rows /\ s.invalid = TRUE
  BY <1>1, <1>2
<1>4. f.at = "asked" /\ f.rows = <<>> /\ f.waits = {r}
  BY <1>1
<1>5. IsTableOf(route, s.rows) /\ IsTableOf(route, f.rows)
  BY <1>2, <1>3, <1>4, EmptyTable
<1>6. CachesList(route, s, f)'
  BY <1>3, <1>4, <1>5 DEF CachesList
<1>7. shown' = [shown EXCEPT ![l] = s] /\ refetches' = [refetches EXCEPT ![l] = f]
  BY <1>1 DEF AdminInv, ListsInv, Admin!Invalidates
<1>8. QED
  BY <1>6, <1>7, CacheMoved

LEMMA QueryTypes ==
    ASSUME AdminInv, AdminTypes, NEW l \in Admin!Lists,
           Admin!Focus(l) \/ Admin!FetchAnswers(l) \/ Admin!FetchArrives(l) \/ Admin!FetchFails(l)
    PROVE  CacheTyped'
<1>1. CacheTyped /\ route' = route /\ mutations' = mutations
  BY DEF AdminTypes, Admin!Focus, Admin!FetchAnswers, Admin!FetchArrives, Admin!FetchFails
<1>2. PICK held, old : held = shown[l] /\ old = refetches[l]
  OBVIOUS
<1>3. /\ old = [at |-> old.at, rows |-> old.rows, waits |-> old.waits]
      /\ CachesList(route, held, old) /\ DOMAIN refetches = Admin!Lists
  BY <1>1, <1>2 DEF AdminInv, ListsInv, IsQuery, CacheTyped
<1>4. PICK rest : rest = Admin!NoFetch
  OBVIOUS
<1>5. rest.at = "none" /\ rest.rows = <<>> /\ rest.waits = {}
  BY <1>4 DEF Admin!NoFetch
<1>6. CASE Admin!Focus(l)
  <2>1. PICK f : f = [old EXCEPT !.at = "asked"]
    OBVIOUS
  <2>2. f.at = "asked" /\ f.rows = old.rows /\ f.waits = old.waits
    BY <1>3, <2>1
  <2>3. CachesList(route, held, f)'
    BY <1>1, <1>3, <2>2 DEF CachesList
  <2>4. refetches' = [refetches EXCEPT ![l] = f] /\ shown' = shown
    BY <1>2, <1>6, <2>1 DEF Admin!Focus
  <2>5. QED
    BY <1>1, <1>2, <2>3, <2>4, CacheMoved
<1>7. CASE Admin!FetchAnswers(l)
  <2>1. PICK told : told = Admin!Answer(l)
    OBVIOUS
  <2>2. IsTableOf(route, told)
    BY <2>1, ListedTyped DEF AdminTypes
  <2>3. PICK f : f = [old EXCEPT !.at = "answered", !.rows = told]
    OBVIOUS
  <2>4. f.at = "answered" /\ f.rows = told /\ f.waits = old.waits
    BY <1>3, <2>3
  <2>5. CachesList(route, held, f)'
    BY <1>1, <1>3, <2>2, <2>4 DEF CachesList
  <2>6. refetches' = [refetches EXCEPT ![l] = f] /\ shown' = shown
    BY <1>2, <1>3, <1>7, <2>1, <2>3 DEF Admin!FetchAnswers
  <2>7. QED
    BY <1>1, <1>2, <2>5, <2>6, CacheMoved
<1>8. CASE Admin!FetchArrives(l)
  <2>1. PICK s : s = [rows |-> old.rows, invalid |-> FALSE]
    OBVIOUS
  <2>2. s.rows = old.rows /\ s.invalid = FALSE
    BY <2>1
  <2>3. CachesList(route, s, rest)'
    BY <1>1, <1>3, <1>5, <2>2, EmptyTable DEF CachesList
  <2>4. refetches' = [refetches EXCEPT ![l] = rest] /\ shown' = [shown EXCEPT ![l] = s]
    BY <1>2, <1>4, <1>8, <2>1 DEF Admin!FetchArrives
  <2>5. QED
    BY <1>1, <2>3, <2>4, CacheMoved
<1>9. CASE Admin!FetchFails(l)
  <2>1. CachesList(route, held, rest)'
    BY <1>1, <1>3, <1>5, EmptyTable DEF CachesList
  <2>2. refetches' = [refetches EXCEPT ![l] = rest] /\ shown' = shown
    BY <1>4, <1>9 DEF Admin!FetchFails
  <2>3. QED
    BY <1>1, <1>2, <2>1, <2>2, CacheMoved
<1>10. QED
  BY <1>6, <1>7, <1>8, <1>9

\* What follows a change asks for lists of the page only.
LEMMA ListsTypes ==
    ASSUME AdminInv, AdminTypes, route \in DOMAIN StoredRows, Admin!Next \/ UNCHANGED adminVars
    PROVE  CacheTyped'
<1>1. /\ CacheTyped /\ MutationsTyped /\ route' = route /\ DOMAIN mutations \subseteq DOMAIN mutations'
  BY RouteStays, MutationsStep DEF AdminTypes
<1>2. CASE UNCHANGED <<shown, refetches>>
  BY <1>1, <1>2, CacheKept
<1>3. ASSUME NEW r, NEW l, Admin!Invalidates(l, r), r \in DOMAIN mutations
      PROVE  CacheTyped'
  <2>1. CASE l \in Admin!Lists
    BY <1>1, <1>3, <2>1, AskedAgainTypes
  <2>2. CASE l \notin Admin!Lists
    <3>1. PICK s, f : shown' = [shown EXCEPT ![l] = s] /\ refetches' = [refetches EXCEPT ![l] = f]
      BY <1>3 DEF Admin!Invalidates
    <3>2. QED
      BY <1>1, <2>2, <3>1, CacheMoved
  <2>3. QED
    BY <2>1, <2>2
<1>4. ASSUME NEW r, Admin!Refreshed(r) PROVE CacheTyped'
  <2>1. r \in DOMAIN mutations
    BY <1>1, <1>4, RefreshedTypes
  <2>2. UNCHANGED <<shown, refetches>> \/ \E l : Admin!Invalidates(l, r)
    BY <1>4 DEF Admin!Refreshed
  <2>3. QED
    BY <1>2, <1>3, <2>1, <2>2
<1>5. ASSUME NEW r, NEW kind, NEW lists, Admin!Succeeds(r, kind, lists) PROVE CacheTyped'
  <2>1. r \in DOMAIN mutations
    BY <1>1, <1>5, SucceedsTypes
  <2>2. \E l : Admin!Invalidates(l, r)
    BY <1>5 DEF Admin!Succeeds
  <2>3. QED
    BY <1>3, <2>1, <2>2
<1>6. QED
  BY <1>2, <1>4, <1>5, CacheMoves, QueryTypes

(* The form that adds a server, and the dialogs of the rows                  *)

LEMMA ServerFormTypes ==
    ASSUME EntryTyped, Admin!Next \/ UNCHANGED adminVars
    PROVE  EntryTyped'
<1>1. CASE /\ UNCHANGED <<createForm, checkedBody, lookupState, reached>>
           /\ unheard' = unheard /\ overtaken' = overtaken
  BY <1>1 DEF EntryTyped, LookedUp
<1>2. CASE \E b \in Bodies : Admin!FormFields(b)
  BY <1>2 DEF EntryTyped, LookedUp, Admin!FormFields, Admin!serverVars
<1>3. CASE Admin!handleCreate
  BY <1>3 DEF EntryTyped, LookedUp, Admin!handleCreate, Admin!serverVars
<1>4. CASE Admin!LookupAnswers
  <2>1. PICK body \in Bodies : body = checkedBody
    BY <1>4 DEF EntryTyped, Admin!LookupAnswers
  <2>2. UNCHANGED <<createForm, unheard, overtaken>> /\ checkedBody' = None
    BY <1>4 DEF Admin!LookupAnswers, Admin!serverVars
  <2>3. \/ lookupState' = [kind |-> "confirm", body |-> body] /\ reached' = reached \cup {body}
        \/ lookupState' = [kind |-> "error", body |-> None] /\ reached' = reached
    BY <1>4, <2>1 DEF Admin!LookupAnswers
  <2>4. LookedUp(lookupState)' /\ reached' \subseteq Bodies
    BY <2>3 DEF EntryTyped, LookedUp
  <2>5. QED
    BY <2>2, <2>4 DEF EntryTyped
<1>5. CASE Admin!CloseLookup
  BY <1>5 DEF EntryTyped, LookedUp, Admin!CloseLookup, Admin!serverVars
<1>6. ASSUME NEW r, Admin!ServerAdded(r) PROVE EntryTyped'
  BY <1>6 DEF EntryTyped, LookedUp, Admin!ServerAdded, Admin!Succeeds, Admin!serverVars
<1>7. ASSUME NEW r, Admin!HandlerFails(r) \/ Admin!HandlerRereads(r) \/ Admin!HandlerLists(r)
      PROVE  EntryTyped'
  <2>1. UNCHANGED <<createForm, checkedBody, lookupState, reached>>
    BY <1>7 DEF Admin!HandlerFails, Admin!HandlerRereads, Admin!HandlerLists, Admin!formVars
  <2>2. unheard' \in BOOLEAN /\ overtaken' \in BOOLEAN
    BY <1>7 DEF EntryTyped, Admin!HandlerFails, Admin!HandlerRereads, Admin!HandlerLists, Admin!Mislays
  <2>3. QED
    BY <2>1, <2>2 DEF EntryTyped, LookedUp
<1>8. QED
  BY <1>1, <1>2, <1>3, <1>4, <1>5, <1>6, <1>7, EntryMoves

LEMMA OpensTypes ==
    ASSUME AdminInv, AdminTypes, NEW kind, NEW l, Admin!Opens(kind, l)
    PROVE  DialogTyped'
<1>1. l \in Admin!Lists /\ route' = route
  BY DEF Admin!Opens
<1>2. PICK table : table = shown[l].rows
  OBVIOUS
<1>3. IsTableOf(route, table)
  BY <1>1, <1>2 DEF AdminTypes, CacheTyped, CachesList
<1>4. PICK i \in DOMAIN table :
        dialog' = [kind |-> kind, id |-> i,
                   opened |-> IF kind = "flags" THEN table[i].body ELSE None,
                   form |-> IF kind \in Admin!WithForm THEN table[i].body ELSE None]
  BY <1>2 DEF Admin!Opens
<1>5. PICK body, opened, edited :
        /\ body = table[i].body /\ opened = IF kind = "flags" THEN body ELSE None
        /\ edited = IF kind \in Admin!WithForm THEN body ELSE None
  OBVIOUS
<1>6. PICK d : d = [kind |-> kind, id |-> i, opened |-> opened, form |-> edited]
  OBVIOUS
<1>7. d.kind = kind /\ d.id = i /\ d.opened = opened /\ d.form = edited
  BY <1>6
<1>8. i \in Nat /\ body \in Admin!FormsOf(route)
  BY <1>3, <1>5, RowFields DEF IsTableOf
<1>9. IsDialog(route, d)
  BY <1>5, <1>6, <1>7, <1>8 DEF IsDialog
<1>10. dialog' = d
  BY <1>4, <1>5, <1>6
<1>11. QED
  BY <1>1, <1>9, <1>10 DEF DialogTyped

LEMMA TypesTypes ==
    ASSUME AdminInv, AdminTypes, NEW kind \in Admin!WithForm, NEW body \in Admin!FormsOf(route),
           Admin!Types(kind, body)
    PROVE  DialogTyped'
<1>1. dialog.kind = kind /\ route' = route /\ dialog' = [dialog EXCEPT !.form = body]
  BY DEF Admin!Types, Admin!OnTop
<1>2. kind # None
  BY AdminAssumption DEF Admin!WithForm
<1>3. PICK old : old = dialog /\ old.kind = kind /\ IsDialog(route, old)
  BY <1>1, <1>2 DEF AdminTypes, DialogTyped, Admin!NoDialog
<1>4. PICK d : d = [old EXCEPT !.form = body]
  OBVIOUS
<1>5. d = [kind |-> kind, id |-> old.id, opened |-> old.opened, form |-> body]
  BY <1>3, <1>4 DEF IsDialog
<1>6. d.kind = kind /\ d.id = old.id /\ d.opened = old.opened /\ d.form = body
  BY <1>5
<1>7. IsDialog(route, d)
  BY <1>3, <1>5, <1>6 DEF IsDialog
<1>8. QED
  BY <1>1, <1>3, <1>4, <1>7 DEF DialogTyped

\* The page of a dialog that is open is its own.
LEMMA DialogPage ==
    ASSUME AdminInv, NEW kind, Admin!OnTop(kind)
    PROVE  /\ kind \in {"update", "approve"} => Admin!FormsOf(route) = Bodies
           /\ kind = "flags" => Admin!FormsOf(route) = SUBSET USER_FLAGS
<1>1. kind \in {"update", "approve", "flags"} => kind \in Kinds[route]
  BY AdminAssumption DEF AdminInv, DialogInv, Admin!OnTop
<1>2. QED
  BY <1>1, PageLists, FormsOfPage DEF AdminInv

LEMMA DialogTypes ==
    ASSUME AdminInv, AdminTypes, Admin!Next \/ UNCHANGED adminVars
    PROVE  DialogTyped'
<1>1. DialogTyped /\ route' = route
  BY RouteStays DEF AdminTypes
<1>2. CASE dialog' = dialog
  BY <1>1, <1>2 DEF DialogTyped, IsDialog
<1>3. CASE dialog' = Admin!NoDialog
  BY <1>3 DEF DialogTyped, Admin!NoDialog
<1>4. CASE Admin!ServerActions \/ Admin!PendingActions \/ Admin!DeniedActions \/ Admin!UserActions
  BY <1>4, OpensTypes DEF Admin!ServerActions, Admin!PendingActions, Admin!DeniedActions, Admin!UserActions
<1>5. ASSUME NEW b \in Bodies, NEW kind \in {"update", "approve"}, Admin!Types(kind, b) PROVE DialogTyped'
  <2>1. b \in Admin!FormsOf(route) /\ kind \in Admin!WithForm
    BY <1>5, DialogPage DEF Admin!Types, Admin!WithForm
  <2>2. QED
    BY <1>5, <2>1, TypesTypes
<1>6. ASSUME NEW flag \in USER_FLAGS, NEW enabled \in BOOLEAN,
             Admin!Types("flags", Admin!setFlag(dialog.form, flag, enabled))
      PROVE  DialogTyped'
  <2>1. Admin!OnTop("flags") /\ "flags" \in Admin!WithForm
    BY <1>6 DEF Admin!Types, Admin!WithForm
  <2>2. Admin!FormsOf(route) = SUBSET USER_FLAGS
    BY <2>1, DialogPage
  <2>3. dialog.form \in Admin!FormsOf(route)
    BY <1>1, <2>1, AdminAssumption DEF DialogTyped, IsDialog, Admin!OnTop, Admin!NoDialog
  <2>4. PICK body : body = Admin!setFlag(dialog.form, flag, enabled)
    OBVIOUS
  <2>5. body \in Admin!FormsOf(route)
    BY <2>2, <2>3, <2>4 DEF Admin!setFlag
  <2>6. QED
    BY <1>6, <2>1, <2>4, <2>5, TypesTypes
<1>7. QED
  BY <1>2, <1>3, <1>4, <1>5, <1>6, DialogMoves

LEMMA AdminTypesInit == ASSUME Admin!Init PROVE AdminTypes /\ route \in DOMAIN StoredRows
<1>1. /\ route \in DOMAIN StoredRows /\ stock = StoredRows[route] /\ dialog = Admin!NoDialog
      /\ createForm = None /\ checkedBody = None /\ lookupState = None /\ mutations = <<>>
      /\ reached = {} /\ unheard = FALSE /\ overtaken = FALSE
      /\ inMemory = IF route = "servers" THEN stock ELSE <<>>
  BY DEF Admin!Init
<1>2. stock \in Seq(Admin!RowsOf(route))
  BY <1>1, AdminAssumption
<1>3. IsTableOf(route, stock) /\ IsTableOf(route, inMemory)
  <2>1. DOMAIN stock = 1 .. Len(stock) /\ Len(stock) \in Nat
        /\ \A i \in DOMAIN stock : stock[i] \in Admin!RowsOf(route)
    BY <1>2
  <2>2. QED
    BY <1>1, <2>1, EmptyTable DEF IsTableOf
<1>4. MutationsTyped
  <2>1. DOMAIN <<>> = {} /\ Len(<<>>) = 0
    OBVIOUS
  <2>2. QED
    BY <1>1, <2>1, AdminAssumption DEF MutationsTyped
<1>5. CacheTyped
  <2>1. PICK visit \in {"none", "asked"} :
          refetches = [l \in Admin!Lists |-> [Admin!NoFetch EXCEPT !.at = visit]]
    BY DEF Admin!Init
  <2>2. PICK f : f = [Admin!NoFetch EXCEPT !.at = visit]
    OBVIOUS
  <2>3. f = [at |-> visit, rows |-> <<>>, waits |-> {}]
    BY <2>2 DEF Admin!NoFetch
  <2>4. f.at = visit /\ f.rows = <<>> /\ f.waits = {}
    BY <2>3
  <2>5. ASSUME NEW l \in Admin!Lists PROVE CachesList(route, shown[l], refetches[l])
    <3>1. PICK told, s : told = Admin!Listed(l) /\ s = [rows |-> told, invalid |-> FALSE]
      OBVIOUS
    <3>2. shown[l] = s /\ refetches[l] = f
      BY <2>1, <2>2, <3>1 DEF Admin!Init
    <3>3. s.rows = told /\ s.invalid = FALSE /\ IsTableOf(route, told)
      BY <1>3, <3>1, ListedTyped
    <3>4. QED
      BY <2>4, <3>2, <3>3, EmptyTable DEF CachesList
  <2>6. QED
    BY <2>5 DEF CacheTyped
<1>6. EntryTyped /\ DialogTyped
  BY <1>1 DEF EntryTyped, LookedUp, DialogTyped
<1>7. QED
  BY <1>1, <1>3, <1>4, <1>5, <1>6 DEF AdminTypes

LEMMA AdminTypesStep ==
    ASSUME AdminInv, AdminTypes, route \in DOMAIN StoredRows, Admin!Next \/ UNCHANGED adminVars
    PROVE  AdminTypes' /\ route' \in DOMAIN StoredRows
<1>1. route' = route
  BY RouteStays
<1>2. IsTableOf(route, stock)' /\ IsTableOf(route, inMemory)'
  <2>1. IsTableOf(route, stock') /\ IsTableOf(route, inMemory')
    BY StockStep, MemoryStep
  <2>2. QED
    BY <1>1, <2>1 DEF IsTableOf
<1>3. MutationsTyped' /\ CacheTyped' /\ EntryTyped' /\ DialogTyped'
  BY MutationsStep, ListsTypes, ServerFormTypes, DialogTypes DEF AdminTypes
<1>4. QED
  BY <1>1, <1>2, <1>3 DEF AdminTypes

LEMMA AdminTyped == ASSUME AdminInv, AdminTypes PROVE Admin!TypeOK
<1>1. route \in {"servers", "suggestions", "users"} /\ DOMAIN shown = Admin!Lists /\ DOMAIN refetches = Admin!Lists
  BY PageLists DEF AdminInv, ListsInv
<1>2. ASSUME NEW t PROVE IsTableOf(route, t) => Admin!IsTable(t)
  BY DEF IsTableOf, Admin!IsTable
<1>3. ASSUME NEW l \in Admin!Lists
      PROVE  /\ Admin!IsTable(shown[l].rows) /\ shown[l].invalid \in BOOLEAN
             /\ refetches[l].at \in {"none", "asked", "answered"} /\ Admin!IsTable(refetches[l].rows)
             /\ refetches[l].waits \subseteq DOMAIN mutations
  BY <1>2, <1>3 DEF AdminTypes, CacheTyped, CachesList
<1>4. Admin!IsTable(stock) /\ Admin!IsTable(inMemory) /\ Len(mutations) <= MaxSteps
  BY <1>2 DEF AdminTypes, MutationsTyped
<1>5. /\ {createForm, checkedBody} \subseteq Bodies \cup {None}
      /\ lookupState = None \/ (lookupState.kind = "error" /\ lookupState.body = None)
                            \/ (lookupState.kind = "confirm" /\ lookupState.body \in Bodies)
      /\ reached \subseteq Bodies /\ {unheard, overtaken} \subseteq BOOLEAN
  BY DEF AdminTypes, EntryTyped, LookedUp
<1>6. dialog = Admin!NoDialog \/ (dialog.id \in Nat /\ {dialog.opened, dialog.form}
                                                     \subseteq Admin!Forms \cup {None})
  BY DEF AdminTypes, DialogTyped, IsDialog, Admin!Forms
<1>7. QED
  BY <1>1, <1>3, <1>4, <1>5, <1>6 DEF Admin!TypeOK

-----------------------------------------------------------------------------
(* The lists                                                                 *)

Sortings == {Listing!DEFAULT_SERVER_SORT, Listing!DEFAULT_ASN_SORT}

LEMMA SortTypes ==
    /\ Listing!ServerSorts \subseteq Listing!AsnSorts
    /\ Sortings \subseteq Listing!AsnSorts /\ Listing!DEFAULT_SERVER_SORT \in Listing!ServerSorts
    /\ \A s \in Listing!AsnSorts :
          /\ s.field \in {"players", "servers", "name"} /\ s.order \in {"asc", "desc"}
          /\ s = Listing!Sort(s.field, s.order)
          /\ s.field # "servers" => s \in Listing!ServerSorts
    /\ \A s \in Listing!ServerSorts : s.field # "servers"
    /\ \A f \in {"players", "servers", "name"}, o \in {"asc", "desc"} :
          Listing!Sort(f, o) \in Listing!AsnSorts
BY DEF Listing!ServerSorts, Listing!AsnSorts, Listing!Orders, Sortings, Listing!Sort,
   Listing!DEFAULT_SERVER_SORT, Listing!DEFAULT_ASN_SORT

\* What a link says is a sort, on the pages of the servers one of servers.
LEMMA Resolved ==
    ASSUME NEW l \in Listing!Links, NEW default \in Sortings
    PROVE  /\ Listing!resolve(l, default) \in Listing!AsnSorts
           /\ l.sort # "servers" => Listing!resolve(l, default) \in Listing!ServerSorts
<1>1. /\ l.sort \in {"players", "servers", "name", None} /\ l.order \in {"asc", "desc", None}
      /\ default.field \in {"players", "name"}
  BY DEF Listing!Links, Listing!Orders, Sortings, Listing!Sort,
     Listing!DEFAULT_SERVER_SORT, Listing!DEFAULT_ASN_SORT
<1> DEFINE f == IF l.sort = None THEN default.field ELSE l.sort
           o == IF l.order = None THEN Listing!defaultOrder(f) ELSE l.order
<1>2. /\ f \in {"players", "servers", "name"} /\ o \in {"asc", "desc"}
      /\ l.sort # "servers" => f # "servers"
  BY <1>1 DEF Listing!defaultOrder
<1>3. Listing!resolve(l, default) = Listing!Sort(f, o)
  BY DEF Listing!resolve
<1> HIDE DEF f, o
<1>4. QED
  BY <1>2, <1>3 DEF Listing!Sort, Listing!AsnSorts, Listing!ServerSorts, Listing!Orders

\* A sort put into a link is read as itself, whatever the link leaves out; and
\* one it leaves out altogether is the default.
LEMMA RoundTrip ==
    ASSUME NEW l \in Listing!Links, NEW sort \in Listing!AsnSorts, NEW default \in Sortings
    PROVE  LET m == Listing!SortToSearchParams(l, sort, default)
           IN /\ m \in Listing!Links /\ Listing!resolve(m, default) = sort
              /\ m.page = l.page /\ m.platform = l.platform /\ m.view = l.view
              /\ m.tableSort = l.tableSort /\ m.tableOrder = l.tableOrder
              /\ m.sort \in {None, sort.field}
              /\ m.sort = None /\ m.order = None =>
                    sort = Listing!Sort(default.field, Listing!defaultOrder(default.field))
<1> DEFINE m == Listing!SortToSearchParams(l, sort, default)
<1>1. /\ sort.field \in {"players", "servers", "name"} /\ sort.order \in {"asc", "desc"}
      /\ sort = Listing!Sort(sort.field, sort.order)
  BY SortTypes
<1>2. None \notin {"players", "servers", "name", "asc", "desc"}
  BY ListAssumption
<1>3. m = [l EXCEPT !.sort = IF sort.field = default.field THEN None ELSE sort.field,
                    !.order = IF sort.order = Listing!defaultOrder(sort.field) THEN None
                              ELSE sort.order]
  BY DEF Listing!SortToSearchParams
<1>4. /\ m \in Listing!Links
      /\ m.page = l.page /\ m.platform = l.platform /\ m.view = l.view
      /\ m.tableSort = l.tableSort /\ m.tableOrder = l.tableOrder
      /\ m.sort = (IF sort.field = default.field THEN None ELSE sort.field)
      /\ m.order = (IF sort.order = Listing!defaultOrder(sort.field) THEN None ELSE sort.order)
  BY <1>1, <1>3 DEF Listing!Links, Listing!Orders
<1> HIDE DEF m
<1>5. Listing!resolve(m, default) = sort
  BY <1>1, <1>2, <1>4 DEF Listing!resolve
<1>6. m.sort = None /\ m.order = None =>
          sort = Listing!Sort(default.field, Listing!defaultOrder(default.field))
  BY <1>1, <1>2, <1>4
<1>7. m.sort \in {None, sort.field}
  BY <1>4
<1>8. QED
  BY <1>4, <1>5, <1>6, <1>7 DEF m

\* What the servers' pages show of a link and the state of the page
Shown(l, state) ==
    IF l.sort # None \/ l.order # None THEN Listing!resolve(l, Listing!DEFAULT_SERVER_SORT)
    ELSE state

LEMMA ServerSortShown == Listing!serverSort = Shown(link, storedSort)
BY DEF Listing!serverSort, Listing!hasUrlSort, Shown

LEMMA ShownType ==
    ASSUME NEW l \in Listing!Links, NEW state \in Listing!ServerSorts
    PROVE  /\ Shown(l, state) \in Listing!AsnSorts
           /\ l.sort # "servers" => Shown(l, state) \in Listing!ServerSorts
BY Resolved, SortTypes DEF Shown, Sortings

LEMMA NoSort == None \notin Listing!AsnSorts /\ None \notin Listing!ServerSorts
BY SortTypes, ListAssumption

\* A sort of servers that is put into the link of a servers' page is shown.
LEMMA PutIsShown ==
    ASSUME NEW l \in Listing!Links, NEW sort \in Listing!ServerSorts
    PROVE  LET m == Listing!SortToSearchParams(l, sort, Listing!DEFAULT_SERVER_SORT)
           IN /\ m \in Listing!Links /\ m.page = l.page /\ m.sort # "servers"
              /\ Shown(m, sort) = sort
              /\ Listing!resolve(m, Listing!DEFAULT_SERVER_SORT) = sort
              /\ m.platform = l.platform /\ m.view = l.view
              /\ m.tableSort = l.tableSort /\ m.tableOrder = l.tableOrder
<1> DEFINE m == Listing!SortToSearchParams(l, sort, Listing!DEFAULT_SERVER_SORT)
<1>1. sort \in Listing!AsnSorts /\ sort.field # "servers"
  BY SortTypes
<1>2. /\ m \in Listing!Links /\ Listing!resolve(m, Listing!DEFAULT_SERVER_SORT) = sort
      /\ m.page = l.page /\ m.platform = l.platform /\ m.view = l.view
      /\ m.tableSort = l.tableSort /\ m.tableOrder = l.tableOrder
      /\ m.sort \in {None, sort.field}
  BY <1>1, RoundTrip DEF Sortings
<1> HIDE DEF m
<1>3. Shown(m, sort) = sort
  BY <1>2 DEF Shown
<1>4. m.sort # "servers"
  BY <1>1, <1>2, ListAssumption
<1>5. QED
  BY <1>2, <1>3, <1>4 DEF m

LEMMA BareLink ==
    ASSUME NEW pg \in {"servers", "asn", "asns"}
    PROVE  /\ Listing!Bare(pg) \in Listing!Links /\ Listing!Bare(pg).page = pg
           /\ Listing!Bare(pg).sort = None /\ Listing!Bare(pg).order = None
BY DEF Listing!Bare, Listing!Links


\* Between the lists of the servers and the networks a page is mounted anew:
\* a link has only sorts of its page.
Fits(l) == l \in Listing!Links /\ (l.page # "asns" => l.sort # "servers")

Names(l) == l.sort # None \/ l.order # None

\* The sort of the table that a link says
TableOf(l) ==
    LET field == IF l.tableSort = None THEN "name" ELSE l.tableSort
    IN Listing!Sort(field, IF l.tableOrder = None THEN Listing!defaultOrder(field) ELSE l.tableOrder)

\* What a browser remembers that stored st
Recalls(st) == IF st = None THEN Listing!DEFAULT_SERVER_SORT ELSE st

\* The page l reads the address u unless a loader runs, and where it is another
\* page's, nothing was chosen there yet.
Placed(u, l, busy) ==
    /\ Fits(u) /\ busy \in BOOLEAN
    /\ l # None => /\ Fits(l)
                   /\ ~busy => l = u
                   /\ l.page # u.page => u = Listing!Bare(u.page)

\* The sort c that was chosen last is what the address says, or what is remembered.
Promises(u, l, st, state, c) ==
    IF u.page = "asns" THEN c = Listing!resolve(u, Listing!DEFAULT_ASN_SORT)
    ELSE c # None => IF Names(u) THEN c = Listing!resolve(u, Listing!DEFAULT_SERVER_SORT)
                     ELSE /\ c = Recalls(st)
                          /\ l # None /\ l.page = u.page => state = c

Stores(l, st, state) ==
    /\ st \in Listing!ServerSorts \cup {None} /\ state \in Listing!ServerSorts \cup {None}
    /\ l # None /\ l.page # "asns" => state \in Listing!ServerSorts

\* What is loaded was rendered.
Drew(l, state, data, r) ==
    /\ data \subseteq Listing!Queries /\ r \in Listing!ServerSorts \cup {None}
    /\ l # None /\ l.page = "servers" /\ Shown(l, state) \in data => r # None

Chosen(u, l, st, state, c) ==
    /\ c = [list |-> c.list, table |-> TableOf(u)]
    /\ c.list \in Listing!ServerSorts \cup Listing!AsnSorts \cup {None}
    /\ Promises(u, l, st, state, c.list)

ListInv ==
    /\ Placed(url, link, loading) /\ Stores(link, stored, storedSort)
    /\ Drew(link, storedSort, loaded, rendered)
    /\ Chosen(url, link, stored, storedSort, chosen)

LEMMA ToggledType ==
    ASSUME NEW current \in Listing!AsnSorts, NEW field \in {"players", "servers", "name"}
    PROVE  /\ Listing!Toggled(current, field) \in Listing!AsnSorts
           /\ field # "servers" => Listing!Toggled(current, field) \in Listing!ServerSorts
           /\ field = current.field => (Listing!Toggled(current, field).order = "asc")
                                          # (current.order = "asc")
<1>1. PICK o : o = IF field # current.field THEN Listing!defaultOrder(field)
                   ELSE IF current.order = "asc" THEN "desc" ELSE "asc"
  OBVIOUS
<1>2. o \in {"asc", "desc"} /\ (field = current.field => (o = "asc") # (current.order = "asc"))
  BY <1>1, SortTypes DEF Listing!defaultOrder
<1>3. Listing!Toggled(current, field) = Listing!Sort(field, o)
  BY <1>1 DEF Listing!Toggled
<1>4. QED
  BY <1>2, <1>3 DEF Listing!Sort, Listing!AsnSorts, Listing!ServerSorts, Listing!Orders


\* A sort that an address leaves out altogether is the default.
LEMMA NamesNone ==
    ASSUME NEW l \in Listing!Links, NEW sort \in Listing!ServerSorts,
           ~Names(Listing!SortToSearchParams(l, sort, Listing!DEFAULT_SERVER_SORT))
    PROVE  sort = Listing!DEFAULT_SERVER_SORT
<1>1. sort = Listing!Sort(Listing!DEFAULT_SERVER_SORT.field,
                          Listing!defaultOrder(Listing!DEFAULT_SERVER_SORT.field))
  BY SortTypes, RoundTrip DEF Names, Sortings
<1>2. QED
  BY <1>1 DEF Listing!DEFAULT_SERVER_SORT, Listing!Sort, Listing!defaultOrder

\* Sorting leaves a table as it is.
LEMMA TableStays ==
    ASSUME NEW l, NEW m, m.tableSort = l.tableSort, m.tableOrder = l.tableOrder
    PROVE  TableOf(m) = TableOf(l)
BY DEF TableOf

LEMMA BareTable ==
    ASSUME NEW pg \in {"servers", "asn", "asns"}
    PROVE  /\ TableOf(Listing!Bare(pg)) = Listing!DEFAULT_TABLE_SORT
           /\ Fits(Listing!Bare(pg)) /\ ~Names(Listing!Bare(pg)) /\ Listing!Bare(pg).page = pg
<1>1. Listing!Bare(pg).tableSort = None /\ Listing!Bare(pg).tableOrder = None
  BY DEF Listing!Bare
<1>2. TableOf(Listing!Bare(pg)) = Listing!DEFAULT_TABLE_SORT
  BY <1>1 DEF TableOf, Listing!DEFAULT_TABLE_SORT, Listing!defaultOrder, Listing!Sort
<1>3. None # "servers"
  BY ListAssumption
<1>4. QED
  BY <1>2, <1>3, BareLink DEF Fits, Names

LEMMA RecallsType ==
    ASSUME NEW st \in Listing!ServerSorts \cup {None}
    PROVE  Recalls(st) \in Listing!ServerSorts
BY SortTypes DEF Recalls

LEMMA RememberedIs == Listing!Remembered = Recalls(stored)
BY DEF Listing!Remembered, Recalls

\* What a page renders next
LEMMA DrawsOn ==
    ASSUME ListInv, Listing!Renders, Stores(link', stored', storedSort'),
           link' # None => Fits(link'), loaded' \subseteq Listing!Queries
    PROVE  /\ Drew(link', storedSort', loaded', rendered')
           /\ link' # None /\ link'.page = "servers" /\ rendered # None => rendered' # None
<1>1. PICK l, k, s, r, data : /\ l = link' /\ k = storedSort' /\ s = Listing!serverSort'
                              /\ r = rendered' /\ data = loaded'
  OBVIOUS
<1>2. s = Shown(l, k)
  <2>1. Listing!serverSort' = IF link'.sort # None \/ link'.order # None
                              THEN Listing!resolve(link', Listing!DEFAULT_SERVER_SORT)
                              ELSE storedSort'
    BY DEF Listing!serverSort, Listing!hasUrlSort, Listing!resolve
  <2>2. QED
    BY <1>1, <2>1 DEF Shown
<1>3. r = IF l = None \/ l.page # "servers" THEN None ELSE IF s \in data THEN s ELSE rendered
  BY <1>1 DEF Listing!Renders
<1>4. l # None /\ l.page = "servers" => s \in Listing!ServerSorts
  BY <1>1, <1>2, ShownType DEF Stores, Fits
<1>5. rendered \in Listing!ServerSorts \cup {None}
  BY DEF ListInv, Drew
<1>6. r \in Listing!ServerSorts \cup {None} /\ data \subseteq Listing!Queries
  BY <1>1, <1>3, <1>4, <1>5
<1>7. l # None /\ l.page = "servers" /\ s \in data => r # None
  BY <1>3, <1>4, NoSort
<1>8. l # None /\ l.page = "servers" /\ rendered # None => r # None
  BY <1>3, <1>4, NoSort
<1>9. QED
  BY <1>1, <1>2, <1>6, <1>7, <1>8 DEF Drew

\* A new address is read, or waited for.
LEMMA ShowsUp ==
    ASSUME Placed(url, link, loading), NEW u, Fits(u), NEW data, Listing!Shows(u, data), url' = u,
           link # None => u.page = link.page \/ u = Listing!Bare(u.page)
    PROVE  /\ Placed(url', link', loading')
           /\ link' \in {u, link} /\ (link' # None => Fits(link'))
<1>1. PICK l, busy : l = link' /\ busy = loading'
  OBVIOUS
<1>2. \/ l = u /\ busy = FALSE
      \/ l = link /\ busy = TRUE
  BY <1>1 DEF Listing!Shows
<1>3. link # None => Fits(link)
  BY DEF Placed
<1>4. Placed(u, l, busy)
  BY <1>2, <1>3 DEF Placed
<1>5. QED
  BY <1>1, <1>2, <1>3, <1>4

\* What a mount leaves: the address says what it said or, where it said nothing,
\* what was remembered.
LEMMA Mounted ==
    ASSUME stored \in Listing!ServerSorts \cup {None},
           NEW l, Fits(l), NEW data, Listing!Mount(l, data)
    PROVE  /\ Placed(url', link', loading') /\ Stores(link', stored, storedSort')
           /\ TableOf(url') = TableOf(l)
           /\ \A lk, k, c : /\ lk = None \/ lk.page # l.page
                            /\ Promises(l, lk, stored, k, c)
                            => Promises(url', link', stored, storedSort', c)
<1>1. PICK k : k = Recalls(stored)
  OBVIOUS
<1>2. k \in Listing!ServerSorts /\ Listing!Remembered = k
  BY <1>1, RecallsType, RememberedIs
<1>3. PICK m, u, busy, st : m = link' /\ u = url' /\ busy = loading' /\ st = storedSort'
  OBVIOUS
<1>4. PICK bare : bare \in BOOLEAN /\ bare = (l.sort = None /\ l.order = None /\ l.page # "asns")
  OBVIOUS
<1>5. /\ st = IF l.page = "asns" THEN None ELSE k
      /\ u = IF bare THEN Listing!SortToSearchParams(l, k, Listing!DEFAULT_SERVER_SORT) ELSE l
      /\ busy \in BOOLEAN
      /\ m = IF busy THEN l ELSE u
  BY <1>2, <1>3, <1>4 DEF Listing!Mount
<1>6. /\ Fits(u) /\ u.page = l.page /\ TableOf(u) = TableOf(l)
      /\ bare => /\ Listing!resolve(u, Listing!DEFAULT_SERVER_SORT) = k
                 /\ ~Names(u) => k = Listing!DEFAULT_SERVER_SORT
  <2>1. CASE bare
    <3>1. /\ u \in Listing!Links /\ u.page = l.page /\ u.sort # "servers"
          /\ Listing!resolve(u, Listing!DEFAULT_SERVER_SORT) = k
          /\ u.tableSort = l.tableSort /\ u.tableOrder = l.tableOrder
      BY <1>2, <1>5, <2>1, PutIsShown DEF Fits
    <3>2. ~Names(u) => k = Listing!DEFAULT_SERVER_SORT
      BY <1>2, <1>5, <2>1, NamesNone DEF Fits
    <3>3. QED
      BY <3>1, <3>2, TableStays DEF Fits
  <2>2. CASE ~bare
    BY <1>5, <2>2
  <2>3. QED
    BY <1>4, <2>1, <2>2
<1>7. Placed(u, m, busy)
  BY <1>5, <1>6 DEF Placed
<1>8. Stores(m, stored, st)
  BY <1>2, <1>5, <1>6 DEF Stores
<1>9. ASSUME NEW lk, NEW s, NEW c, lk = None \/ lk.page # l.page, Promises(l, lk, stored, s, c)
      PROVE  Promises(u, m, stored, st, c)
  <2>1. CASE l.page = "asns"
    BY <1>4, <1>5, <1>9, <2>1 DEF Promises
  <2>2. CASE l.page # "asns" /\ Names(l)
    BY <1>4, <1>5, <1>9, <2>2 DEF Promises, Names
  <2>3. CASE l.page # "asns" /\ ~Names(l)
    <3>1. bare /\ st = k /\ u.page # "asns"
      BY <1>4, <1>5, <1>6, <2>3 DEF Names
    <3>2. c # None => c = k
      BY <1>1, <1>9, <2>3 DEF Promises
    <3>3. QED
      BY <1>1, <1>6, <3>1, <3>2 DEF Promises
  <2>4. QED
    BY <2>1, <2>2, <2>3
<1>10. QED
  BY <1>3, <1>6, <1>7, <1>8, <1>9

\* A page whose list is on the screen keeps one.
KeepsList ==
    (/\ link # None /\ link.page = "servers" /\ link' # None /\ link'.page = "servers"
     /\ rendered # None)
    => rendered' # None

LEMMA ListInit == ASSUME Listing!Init PROVE ListInv
<1>1. /\ stored \in Listing!ServerSorts \cup {None} /\ url = Listing!Bare("servers")
      /\ link = None /\ loading = TRUE /\ storedSort = None /\ loaded = {} /\ rendered = None
      /\ chosen = [list |-> Recalls(stored), table |-> Listing!DEFAULT_TABLE_SORT]
  BY RememberedIs DEF Listing!Init
<1>2. Fits(url) /\ ~Names(url) /\ url.page = "servers"
      /\ TableOf(url) = Listing!DEFAULT_TABLE_SORT
  BY <1>1, BareTable
<1>3. Placed(url, link, loading) /\ Stores(link, stored, storedSort)
      /\ Drew(link, storedSort, loaded, rendered)
  BY <1>1, <1>2 DEF Placed, Stores, Drew
<1>4. Chosen(url, link, stored, storedSort, chosen)
  BY <1>1, <1>2, RecallsType DEF Chosen, Promises
<1>5. QED
  BY <1>3, <1>4 DEF ListInv

\* An address named by the page that is up starts from the latest one.
LEMMA Previous ==
    ASSUME ListInv, link # None
    PROVE  /\ Listing!previous \in Listing!Links /\ Fits(Listing!previous)
           /\ Listing!previous.page = link.page
           /\ Listing!previous.sort = url.sort /\ Listing!previous.order = url.order
           /\ TableOf(Listing!previous) = chosen.table
           /\ link.page # url.page => ~Names(url) /\ chosen.table = Listing!DEFAULT_TABLE_SORT
<1>1. PICK p : p = [url EXCEPT !.page = link.page]
  OBVIOUS
<1>2. Fits(url) /\ Fits(link) /\ (link.page # url.page => url = Listing!Bare(url.page))
  BY DEF ListInv, Placed
<1>3. /\ p \in Listing!Links /\ p.page = link.page
      /\ p.sort = url.sort /\ p.order = url.order
      /\ p.tableSort = url.tableSort /\ p.tableOrder = url.tableOrder
  BY <1>1, <1>2 DEF Fits, Listing!Links
<1>4. url.page \in {"servers", "asn", "asns"} /\ None # "servers"
  BY <1>2, ListAssumption DEF Fits, Listing!Links
<1>5. link.page # url.page => /\ ~Names(url) /\ url.sort = None
                              /\ TableOf(url) = Listing!DEFAULT_TABLE_SORT
  BY <1>2, <1>4, BareTable DEF Names
<1>6. Fits(p)
  BY <1>2, <1>3, <1>4, <1>5 DEF Fits
<1>7. TableOf(p) = TableOf(url) /\ chosen.table = TableOf(url)
  BY <1>3, TableStays DEF ListInv, Chosen
<1>8. QED
  BY <1>1, <1>3, <1>5, <1>6, <1>7 DEF Listing!previous

\* A click on the page that is up: what has to hold of the address it makes
LEMMA Navigated ==
    ASSUME ListInv, link # None, NEW u, Fits(u), u.page = link.page, Listing!navigate(u),
           Stores(link, stored', storedSort'),
           Promises(u, link, stored', storedSort', chosen'.list),
           chosen' = [list |-> chosen'.list, table |-> TableOf(u)],
           chosen'.list \in Listing!ServerSorts \cup Listing!AsnSorts \cup {None}
    PROVE  ListInv' /\ KeepsList
<1>1. url' = u /\ Listing!Shows(u, loaded) /\ loaded' = loaded /\ Listing!Renders
  BY DEF Listing!navigate
<1>2. /\ Placed(url', link', loading')
      /\ link' \in {u, link} /\ (link' # None => Fits(link'))
  BY <1>1, ShowsUp DEF ListInv
<1>3. Stores(link', stored', storedSort')
  BY <1>2 DEF Stores
<1>4. loaded' \subseteq Listing!Queries
  BY <1>1 DEF ListInv, Drew
<1>5. Drew(link', storedSort', loaded', rendered') /\ KeepsList
  BY <1>1, <1>2, <1>3, <1>4, DrawsOn DEF KeepsList
<1>6. Promises(u, link', stored', storedSort', chosen'.list)
  BY <1>2 DEF Promises
<1>7. Chosen(url', link', stored', storedSort', chosen')
  BY <1>1, <1>6 DEF Chosen
<1>8. QED
  BY <1>2, <1>3, <1>5, <1>7 DEF ListInv

\* The sorts a page shows
LEMMA SortsShown ==
    ASSUME ListInv, link # None
    PROVE  /\ Listing!asnSort \in Listing!AsnSorts
           /\ link.page # "asns" => Listing!serverSort \in Listing!ServerSorts
           /\ link.page # "asns" => Listing!serverSort \in Listing!AsnSorts
<1>1. Fits(link) /\ (link.page # "asns" => storedSort \in Listing!ServerSorts)
  BY DEF ListInv, Placed, Stores
<1>2. Listing!asnSort \in Listing!AsnSorts
  BY <1>1, Resolved DEF Fits, Listing!asnSort, Sortings
<1>3. QED
  BY <1>1, <1>2, ServerSortShown, ShownType DEF Fits

\* Choosing a sort of servers
LEMMA ChooseStep ==
    ASSUME ListInv, link # None, NEW sort \in Listing!ServerSorts, Listing!setServerSort(sort)
    PROVE  ListInv' /\ KeepsList
<1>1. PICK p : p = Listing!previous
  OBVIOUS
<1>2. PICK u : u = Listing!SortToSearchParams(p, sort, Listing!DEFAULT_SERVER_SORT)
  OBVIOUS
<1>3. /\ link.page # "asns" /\ storedSort' = sort /\ stored' = sort /\ Listing!navigate(u)
      /\ chosen' = [list |-> sort, table |-> IF url.page = link.page THEN chosen.table
                                            ELSE Listing!DEFAULT_TABLE_SORT]
  BY <1>1, <1>2 DEF Listing!setServerSort
<1>4. /\ p \in Listing!Links /\ p.page = link.page /\ TableOf(p) = chosen.table
      /\ link.page # url.page => chosen.table = Listing!DEFAULT_TABLE_SORT
  BY <1>1, Previous
<1>5. /\ u \in Listing!Links /\ u.page = link.page /\ u.sort # "servers"
      /\ Listing!resolve(u, Listing!DEFAULT_SERVER_SORT) = sort
      /\ u.tableSort = p.tableSort /\ u.tableOrder = p.tableOrder
  BY <1>2, <1>4, PutIsShown
<1>6. TableOf(u) = chosen.table
  BY <1>4, <1>5, TableStays
<1>7. ~Names(u) => sort = Listing!DEFAULT_SERVER_SORT
  BY <1>2, <1>4, NamesNone
<1>8. chosen'.list = sort /\ chosen' = [list |-> chosen'.list, table |-> TableOf(u)]
  BY <1>3, <1>4, <1>6
<1>9. Promises(u, link, stored', storedSort', chosen'.list)
  BY <1>3, <1>5, <1>8, NoSort DEF Promises, Recalls
<1>10. Stores(link, stored', storedSort')
  BY <1>3 DEF Stores
<1>11. QED
  BY <1>3, <1>5, <1>8, <1>9, <1>10, Navigated DEF Fits

\* ... one of networks
LEMMA ChooseAsnStep ==
    ASSUME ListInv, link # None, NEW sort \in Listing!AsnSorts, Listing!setAsnSort(sort)
    PROVE  ListInv' /\ KeepsList
<1>1. PICK p : p = Listing!previous
  OBVIOUS
<1>2. PICK u : u = Listing!SortToSearchParams(p, sort, Listing!DEFAULT_ASN_SORT)
  OBVIOUS
<1>3. /\ link.page = "asns" /\ stored' = stored /\ storedSort' = storedSort
      /\ Listing!navigate(u) /\ chosen' = [chosen EXCEPT !.list = sort]
  BY <1>1, <1>2 DEF Listing!setAsnSort, Listing!asnSortToSearchParams
<1>4. p \in Listing!Links /\ p.page = link.page /\ TableOf(p) = chosen.table
  BY <1>1, Previous
<1>5. /\ u \in Listing!Links /\ u.page = link.page
      /\ Listing!resolve(u, Listing!DEFAULT_ASN_SORT) = sort
      /\ u.tableSort = p.tableSort /\ u.tableOrder = p.tableOrder
  BY <1>2, <1>4, RoundTrip DEF Sortings
<1>6. TableOf(u) = chosen.table
  BY <1>4, <1>5, TableStays
<1>7. chosen = [list |-> chosen.list, table |-> chosen.table]
  BY DEF ListInv, Chosen
<1>8. chosen' = [list |-> sort, table |-> chosen.table]
  BY <1>3, <1>7
<1>9. chosen'.list = sort /\ chosen' = [list |-> chosen'.list, table |-> TableOf(u)]
  BY <1>6, <1>8
<1>10. Promises(u, link, stored', storedSort', chosen'.list)
  BY <1>3, <1>5, <1>9 DEF Promises
<1>11. Stores(link, stored', storedSort')
  BY <1>3 DEF Stores, ListInv
<1>12. QED
  BY <1>3, <1>5, <1>9, <1>10, <1>11, Navigated DEF Fits

\* A click that leaves the list's sort as it is
LEMMA KeptSort ==
    ASSUME ListInv, link # None, link.page # "asns", NEW table, Listing!KeepsSort(table),
           NEW u, Fits(u), u.page = link.page, u.sort = url.sort, u.order = url.order,
           TableOf(u) = table, Listing!navigate(u)
    PROVE  ListInv' /\ KeepsList
<1>1. stored' = stored /\ storedSort' = storedSort
  BY DEF Listing!KeepsSort
<1>2. PICK c : c = IF url.page = link.page THEN chosen.list ELSE Listing!Promised(link.page)
  OBVIOUS
<1>3. chosen' = [list |-> c, table |-> table]
  BY <1>2 DEF Listing!KeepsSort
<1>4. chosen'.list = c /\ chosen' = [list |-> chosen'.list, table |-> TableOf(u)]
  BY <1>3
<1>5. Stores(link, stored', storedSort') /\ Recalls(stored) \in Listing!ServerSorts
  BY <1>1, RecallsType DEF ListInv, Stores
<1>6. CASE url.page = link.page
  <2>1. Promises(url, link, stored, storedSort, c)
        /\ c \in Listing!ServerSorts \cup Listing!AsnSorts \cup {None}
    BY <1>2, <1>6 DEF ListInv, Chosen
  <2>2. Listing!resolve(u, Listing!DEFAULT_SERVER_SORT) = Listing!resolve(url, Listing!DEFAULT_SERVER_SORT)
    BY DEF Listing!resolve
  <2>3. Promises(u, link, stored', storedSort', c)
    BY <1>1, <1>6, <2>1, <2>2 DEF Promises, Names
  <2>4. QED
    BY <1>4, <1>5, <2>1, <2>3, Navigated
<1>7. CASE url.page # link.page
  <2>1. ~Names(u)
    BY <1>7, Previous DEF Names
  <2>2. c = IF storedSort # Recalls(stored) THEN None ELSE Recalls(stored)
    BY <1>2, <1>7, RememberedIs DEF Listing!Promised, Listing!IsMounted
  <2>3. Promises(u, link, stored', storedSort', c)
    BY <1>1, <2>1, <2>2 DEF Promises
  <2>4. c \in Listing!ServerSorts \cup Listing!AsnSorts \cup {None}
    BY <1>5, <2>2
  <2>5. QED
    BY <1>4, <1>5, <2>3, <2>4, Navigated
<1>8. QED
  BY <1>6, <1>7

\* Sorting the table by a column
LEMMA TableStep ==
    ASSUME ListInv, NEW field \in TableFields, Listing!handleTableSort(field)
    PROVE  ListInv' /\ KeepsList
<1>1. PICK new, isDefault :
         /\ new = Listing!Toggled(Listing!tableSort, field)
         /\ isDefault \in BOOLEAN /\ isDefault = (new = Listing!DEFAULT_TABLE_SORT)
  OBVIOUS
<1>2. PICK p : p = Listing!previous
  OBVIOUS
<1>3. PICK u : u = [p EXCEPT !.tableSort = IF isDefault THEN None ELSE field,
                             !.tableOrder = IF isDefault THEN None ELSE new.order]
  OBVIOUS
<1>4. link # None /\ link.page = "servers" /\ Listing!KeepsSort(new) /\ Listing!navigate(u)
  BY <1>1, <1>2, <1>3 DEF Listing!handleTableSort, Listing!IsMounted
<1>5. new.field = field /\ new.order \in {"asc", "desc"} /\ new = Listing!Sort(new.field, new.order)
  BY <1>1 DEF Listing!Toggled, Listing!Sort, Listing!defaultOrder
<1>6. /\ p \in Listing!Links /\ p.page = link.page /\ Fits(p)
      /\ p.sort = url.sort /\ p.order = url.order
  BY <1>2, <1>4, Previous
<1>7. /\ u \in Listing!Links /\ u.page = p.page /\ u.sort = p.sort /\ u.order = p.order
      /\ u.tableSort = (IF isDefault THEN None ELSE field)
      /\ u.tableOrder = (IF isDefault THEN None ELSE new.order)
  BY <1>3, <1>5, <1>6 DEF Listing!Links, Listing!Orders
<1>8. TableOf(u) = new
  <2>1. CASE isDefault
    BY <1>1, <1>7, <2>1 DEF TableOf, Listing!defaultOrder, Listing!DEFAULT_TABLE_SORT
  <2>2. CASE ~isDefault
    BY <1>5, <1>7, <2>2, ListAssumption DEF TableOf
  <2>3. QED
    BY <1>1, <2>1, <2>2
<1>9. QED
  BY <1>4, <1>6, <1>7, <1>8, KeptSort DEF Fits

\* Filtering by a platform, and showing the table or the cards
LEMMA ParamStep ==
    ASSUME ListInv, Listing!SetParam
    PROVE  ListInv' /\ KeepsList
<1>1. PICK p, table : /\ p = Listing!previous
                      /\ table = IF url.page = link.page THEN chosen.table
                                 ELSE Listing!DEFAULT_TABLE_SORT
  OBVIOUS
<1>2. PICK u : /\ Listing!navigate(u)
               /\ \/ link.page # "asns" /\ \E x \in Platforms \cup {None} : u = [p EXCEPT !.platform = x]
                  \/ link.page = "servers" /\ \E v \in {"table", None} : u = [p EXCEPT !.view = v]
  BY <1>1 DEF Listing!SetParam
<1>3. link # None /\ link.page # "asns" /\ Listing!KeepsSort(table)
  BY <1>1, <1>2 DEF Listing!SetParam
<1>4. /\ p \in Listing!Links /\ p.page = link.page /\ Fits(p)
      /\ p.sort = url.sort /\ p.order = url.order /\ TableOf(p) = table
  BY <1>1, <1>3, Previous
<1>5. /\ u \in Listing!Links /\ u.page = p.page /\ u.sort = p.sort /\ u.order = p.order
      /\ u.tableSort = p.tableSort /\ u.tableOrder = p.tableOrder
  BY <1>2, <1>4 DEF Listing!Links
<1>6. TableOf(u) = table
  BY <1>4, <1>5, TableStays
<1>7. QED
  BY <1>2, <1>3, <1>4, <1>5, <1>6, KeptSort DEF Fits

\* Following a link of the site
LEMMA FollowStep ==
    ASSUME ListInv, NEW pg \in {"servers", "asns", "asn"}, Listing!FollowLink(pg)
    PROVE  ListInv' /\ KeepsList
<1>1. PICK b, k : b = Listing!Bare(pg) /\ k = Recalls(stored)
  OBVIOUS
<1>2. Fits(b) /\ b.page = pg /\ ~Names(b) /\ TableOf(b) = Listing!DEFAULT_TABLE_SORT
  BY <1>1, BareTable
<1>3. k \in Listing!ServerSorts /\ Listing!Remembered = k
  BY <1>1, RecallsType, RememberedIs DEF ListInv, Stores
<1>4. PICK c : c = Listing!Promised(pg)
  OBVIOUS
<1>5. /\ stored' = stored /\ loaded' = loaded /\ Listing!Renders
      /\ chosen' = [list |-> c, table |-> Listing!DEFAULT_TABLE_SORT]
  BY <1>4 DEF Listing!FollowLink
<1>6. /\ c = IF pg = "asns" THEN Listing!DEFAULT_ASN_SORT
             ELSE IF link # None /\ link.page = pg /\ storedSort # k THEN None ELSE k
      /\ c \in Listing!ServerSorts \cup Listing!AsnSorts \cup {None}
  BY <1>3, <1>4, SortTypes DEF Listing!Promised, Listing!IsMounted, Sortings
<1>7. Promises(b, link, stored, storedSort, c)
  <2>1. CASE pg = "asns"
    BY <1>2, <1>6, <2>1 DEF Promises, Names, Listing!resolve, Listing!DEFAULT_ASN_SORT,
       Listing!Sort, Listing!defaultOrder
  <2>2. CASE pg # "asns"
    BY <1>1, <1>2, <1>6, <2>2 DEF Promises
  <2>3. QED
    BY <2>1, <2>2
<1>8. chosen'.list = c /\ chosen'.table = Listing!DEFAULT_TABLE_SORT
      /\ chosen' = [list |-> chosen'.list, table |-> Listing!DEFAULT_TABLE_SORT]
  BY <1>5
<1>9. loaded' \subseteq Listing!Queries
  BY <1>5 DEF ListInv, Drew
<1>10. CASE url' = b /\ Listing!Shows(b, loaded) /\ storedSort' = storedSort
            /\ (Listing!IsMounted(pg) \/ ~(Listing!Needs(b) \subseteq loaded))
  <2>1. /\ Placed(url', link', loading') /\ link' \in {b, link} /\ (link' # None => Fits(link'))
    BY <1>1, <1>2, <1>10, ShowsUp DEF ListInv
  <2>2. link' = link \/ (link # None /\ link.page = pg /\ link' = b)
    BY <1>10 DEF Listing!Shows, Listing!IsMounted
  <2>3. Stores(link', stored', storedSort')
    BY <1>2, <1>5, <1>10, <2>2 DEF ListInv, Stores
  <2>4. Drew(link', storedSort', loaded', rendered') /\ KeepsList
    BY <1>5, <1>9, <2>1, <2>3, DrawsOn DEF KeepsList
  <2>5. Promises(b, link', stored', storedSort', c)
    BY <1>2, <1>5, <1>7, <1>10, <2>2 DEF Promises
  <2>6. Chosen(url', link', stored', storedSort', chosen')
    BY <1>2, <1>6, <1>8, <1>10, <2>5 DEF Chosen
  <2>7. QED
    BY <2>1, <2>3, <2>4, <2>6 DEF ListInv
<1>11. CASE Listing!Mount(b, loaded) /\ ~Listing!IsMounted(pg)
  <2>1. /\ Placed(url', link', loading') /\ Stores(link', stored', storedSort')
        /\ TableOf(url') = TableOf(b)
        /\ Promises(url', link', stored', storedSort', c)
    <3>1. stored \in Listing!ServerSorts \cup {None} /\ (link = None \/ link.page # b.page)
      BY <1>2, <1>11 DEF ListInv, Stores, Listing!IsMounted
    <3>2. QED
      BY <1>2, <1>5, <1>7, <1>11, <3>1, Mounted
  <2>2. link' # None => Fits(link')
    BY <2>1 DEF Placed
  <2>3. Drew(link', storedSort', loaded', rendered') /\ KeepsList
    BY <1>5, <1>9, <2>1, <2>2, DrawsOn DEF KeepsList
  <2>4. Chosen(url', link', stored', storedSort', chosen')
    BY <1>2, <1>6, <1>8, <2>1 DEF Chosen
  <2>5. QED
    BY <2>1, <2>3, <2>4 DEF ListInv
<1>12. QED
  BY <1>1, <1>10, <1>11 DEF Listing!FollowLink

\* A document is loaded anew.
LEMMA DocumentStep ==
    ASSUME ListInv, NEW u, Fits(u), Listing!Document(u),
           Promises(u, None, stored, None, chosen'.list),
           chosen' = [list |-> chosen'.list, table |-> TableOf(u)],
           chosen'.list \in Listing!ServerSorts \cup Listing!AsnSorts \cup {None}
    PROVE  ListInv' /\ KeepsList
<1>1. /\ url' = u /\ link' = None /\ loading' = TRUE /\ stored' = stored
      /\ storedSort' = None /\ loaded' = {} /\ rendered' = None
  BY DEF Listing!Document
<1>2. Placed(url', link', loading') /\ Stores(link', stored', storedSort')
      /\ Drew(link', storedSort', loaded', rendered') /\ KeepsList
  BY <1>1 DEF ListInv, Placed, Stores, Drew, KeepsList
<1>3. Chosen(url', link', stored', storedSort', chosen')
  BY <1>1 DEF Chosen
<1>4. QED
  BY <1>2, <1>3 DEF ListInv

LEMMA ReloadStep == ASSUME ListInv, Listing!Reload PROVE ListInv' /\ KeepsList
<1>1. Listing!Document(url) /\ chosen' = chosen
  BY DEF Listing!Reload
<1>2. Fits(url) /\ Chosen(url, link, stored, storedSort, chosen)
  BY DEF ListInv, Placed
<1>3. Promises(url, None, stored, None, chosen.list)
  BY <1>2 DEF Chosen, Promises
<1>4. QED
  BY <1>1, <1>2, <1>3, DocumentStep DEF Chosen

LEMMA CopiedStep ==
    ASSUME ListInv, NEW sort \in Elsewhere, Listing!OpenCopied(sort)
    PROVE  ListInv' /\ KeepsList
<1>1. PICK b, k : b = Listing!Bare("servers") /\ k = Recalls(stored)
  OBVIOUS
<1>2. PICK u : u = Listing!SortToSearchParams(b, sort, Listing!DEFAULT_SERVER_SORT)
  OBVIOUS
<1>3. PICK c : c = IF sort = Listing!DEFAULT_SERVER_SORT THEN k ELSE sort
  OBVIOUS
<1>4. Listing!Document(u) /\ chosen' = [list |-> c, table |-> Listing!DEFAULT_TABLE_SORT]
  BY <1>1, <1>2, <1>3, RememberedIs DEF Listing!OpenCopied
<1>5. /\ sort \in Listing!ServerSorts /\ k \in Listing!ServerSorts /\ b \in Listing!Links
      /\ b.page = "servers" /\ TableOf(b) = Listing!DEFAULT_TABLE_SORT
  BY <1>1, ListAssumption, RecallsType, BareTable DEF ListInv, Stores, Fits
<1>6. /\ Fits(u) /\ u.page = "servers"
      /\ Listing!resolve(u, Listing!DEFAULT_SERVER_SORT) = sort
      /\ u.tableSort = b.tableSort /\ u.tableOrder = b.tableOrder
  BY <1>2, <1>5, PutIsShown DEF Fits
<1>7. ~Names(u) <=> sort = Listing!DEFAULT_SERVER_SORT
  <2>1. ~Names(u) => sort = Listing!DEFAULT_SERVER_SORT
    BY <1>2, <1>5, NamesNone
  <2>2. ASSUME sort = Listing!DEFAULT_SERVER_SORT PROVE ~Names(u)
    <3>1. u = [b EXCEPT !.sort = None, !.order = None]
      BY <1>2, <2>2 DEF Listing!SortToSearchParams, Listing!DEFAULT_SERVER_SORT, Listing!Sort,
         Listing!defaultOrder
    <3>2. u.sort = None /\ u.order = None
      BY <1>5, <3>1 DEF Listing!Links
    <3>3. QED
      BY <3>2 DEF Names
  <2>3. QED
    BY <2>1, <2>2
<1>8. TableOf(u) = Listing!DEFAULT_TABLE_SORT
  BY <1>5, <1>6, TableStays
<1>9. chosen'.list = c /\ chosen' = [list |-> chosen'.list, table |-> TableOf(u)]
  BY <1>4, <1>8
<1>10. Promises(u, None, stored, None, c)
  BY <1>1, <1>3, <1>6, <1>7 DEF Promises
<1>11. QED
  BY <1>3, <1>4, <1>5, <1>6, <1>9, <1>10, DocumentStep

\* The loader's answer
LEMMA AnswersStep == ASSUME ListInv, Listing!LoaderAnswers PROVE ListInv' /\ KeepsList
<1>1. /\ loaded' = loaded \cup Listing!Needs(url) /\ stored' = stored /\ chosen' = chosen
      /\ Listing!Renders
  BY DEF Listing!LoaderAnswers
<1>2. /\ Fits(url) /\ Chosen(url, link, stored, storedSort, chosen)
      /\ stored \in Listing!ServerSorts \cup {None}
  BY DEF ListInv, Placed, Stores
<1>3. loaded' \subseteq Listing!Queries
  <2>1. Listing!Needs(url) \subseteq Listing!Queries
    <3>1. url.page \in {"servers", "asn", "asns"}
      BY <1>2 DEF Fits, Listing!Links
    <3>2. url.page # "asns" => Listing!resolve(url, Listing!DEFAULT_SERVER_SORT) \in Listing!ServerSorts
      BY <1>2, Resolved DEF Fits, Sortings
    <3>3. QED
      BY <3>1, <3>2, SortTypes DEF Listing!Needs, Listing!Queries
  <2>2. QED
    BY <1>1, <2>1 DEF ListInv, Drew
<1>4. CASE /\ Listing!IsMounted(url.page) /\ Listing!Shows(url, loaded')
           /\ url' = url /\ storedSort' = storedSort
  <2>1. /\ Placed(url', link', loading') /\ link' \in {url, link} /\ (link' # None => Fits(link'))
    BY <1>2, <1>4, ShowsUp DEF ListInv, Listing!IsMounted
  <2>2. link # None /\ link.page = url.page
    BY <1>4 DEF Listing!IsMounted
  <2>3. Stores(link', stored', storedSort')
    BY <1>1, <1>4, <2>1, <2>2 DEF ListInv, Stores
  <2>4. Drew(link', storedSort', loaded', rendered') /\ KeepsList
    BY <1>1, <1>3, <2>1, <2>3, DrawsOn DEF KeepsList
  <2>5. Chosen(url', link', stored', storedSort', chosen')
    BY <1>1, <1>2, <1>4, <2>1, <2>2 DEF Chosen, Promises
  <2>6. QED
    BY <2>1, <2>3, <2>4, <2>5 DEF ListInv
<1>5. CASE ~Listing!IsMounted(url.page) /\ Listing!Mount(url, loaded')
  <2>1. /\ Placed(url', link', loading') /\ Stores(link', stored', storedSort')
        /\ TableOf(url') = TableOf(url)
        /\ Promises(url', link', stored', storedSort', chosen.list)
    <3>1. PICK d : d = loaded'
      OBVIOUS
    <3>2. Listing!Mount(url, d) /\ (link = None \/ link.page # url.page)
      BY <1>5, <3>1 DEF Listing!IsMounted
    <3>3. Promises(url, link, stored, storedSort, chosen.list)
      BY <1>2 DEF Chosen
    <3>4. QED
      BY <1>1, <1>2, <3>2, <3>3, Mounted
  <2>2. link' # None => Fits(link')
    BY <2>1 DEF Placed
  <2>3. Drew(link', storedSort', loaded', rendered') /\ KeepsList
    BY <1>1, <1>3, <2>1, <2>2, DrawsOn DEF KeepsList
  <2>4. Chosen(url', link', stored', storedSort', chosen')
    BY <1>1, <1>2, <2>1 DEF Chosen
  <2>5. QED
    BY <2>1, <2>3, <2>4 DEF ListInv
<1>6. QED
  BY <1>4, <1>5 DEF Listing!LoaderAnswers

LEMMA ListsStep ==
    ASSUME ListInv, Listing!Next \/ UNCHANGED listVars
    PROVE  ListInv' /\ KeepsList
<1>1. CASE UNCHANGED listVars
  BY <1>1 DEF KeepsList, ListInv, listVars
<1>2. CASE \E pg \in {"servers", "asns", "asn"} : Listing!FollowLink(pg)
  BY <1>2, FollowStep
<1>3. CASE \E pg \in {"servers", "asns", "asn"} : Listing!Preload(pg)
  <2>1. PICK pg \in {"servers", "asns", "asn"} : Listing!Preload(pg)
    BY <1>3
  <2>2. /\ loaded' = loaded \cup Listing!Needs(Listing!Bare(pg)) /\ Listing!Renders
        /\ url' = url /\ link' = link /\ loading' = loading /\ stored' = stored
        /\ storedSort' = storedSort /\ chosen' = chosen
    BY <2>1 DEF Listing!Preload
  <2>3. Listing!Needs(Listing!Bare(pg)) \subseteq Listing!Queries
    <3>1. Listing!resolve(Listing!Bare(pg), Listing!DEFAULT_SERVER_SORT) \in Listing!ServerSorts
          \/ pg = "asns"
      BY Resolved, BareTable DEF Fits, Sortings
    <3>2. QED
      BY <3>1, BareTable, SortTypes DEF Listing!Needs, Listing!Queries
  <2>4. loaded' \subseteq Listing!Queries /\ (link' # None => Fits(link'))
    BY <2>2, <2>3 DEF ListInv, Drew, Placed
  <2>5. Placed(url', link', loading') /\ Stores(link', stored', storedSort')
        /\ Chosen(url', link', stored', storedSort', chosen')
    BY <2>2 DEF ListInv
  <2>6. Drew(link', storedSort', loaded', rendered') /\ KeepsList
    BY <2>2, <2>4, <2>5, DrawsOn DEF KeepsList
  <2>7. QED
    BY <2>5, <2>6 DEF ListInv
<1>4. CASE \E sort \in Elsewhere : Listing!OpenCopied(sort)
  BY <1>4, CopiedStep
<1>5. CASE Listing!LoaderFails
  <2>1. /\ link' = None /\ loading' = FALSE /\ storedSort' = None /\ rendered' = None
        /\ url' = url /\ stored' = stored /\ loaded' = loaded /\ chosen' = chosen
    BY <1>5 DEF Listing!LoaderFails
  <2>2. Chosen(url', link', stored', storedSort', chosen')
    BY <2>1 DEF ListInv, Chosen, Promises
  <2>3. QED
    BY <2>1, <2>2 DEF ListInv, Placed, Stores, Drew, KeepsList
<1>6. CASE Listing!ListLoads
  <2>1. /\ loaded' = loaded \cup {Listing!serverSort} /\ Listing!Renders /\ link # None
        /\ link.page = "servers"
        /\ url' = url /\ link' = link /\ loading' = loading /\ stored' = stored
        /\ storedSort' = storedSort /\ chosen' = chosen
    BY <1>6 DEF Listing!ListLoads, Listing!IsMounted
  <2>2. loaded' \subseteq Listing!Queries /\ (link' # None => Fits(link'))
    BY <2>1, SortsShown DEF ListInv, Drew, Placed, Listing!Queries
  <2>3. Placed(url', link', loading') /\ Stores(link', stored', storedSort')
        /\ Chosen(url', link', stored', storedSort', chosen')
    BY <2>1 DEF ListInv
  <2>4. Drew(link', storedSort', loaded', rendered') /\ KeepsList
    BY <2>1, <2>2, <2>3, DrawsOn DEF KeepsList
  <2>5. QED
    BY <2>3, <2>4 DEF ListInv
<1>7. CASE Listing!OtherTab
  <2>1. /\ stored' \in Elsewhere
        /\ chosen' = IF url.page = "asns" THEN chosen ELSE [chosen EXCEPT !.list = None]
        /\ url' = url /\ link' = link /\ loading' = loading /\ storedSort' = storedSort
        /\ loaded' = loaded /\ rendered' = rendered
    BY <1>7 DEF Listing!OtherTab
  <2>2. Placed(url', link', loading') /\ Stores(link', stored', storedSort')
        /\ Drew(link', storedSort', loaded', rendered') /\ KeepsList
    BY <2>1, ListAssumption DEF ListInv, Stores, KeepsList
  <2>3. Chosen(url, link, stored, storedSort, chosen)
    BY DEF ListInv
  <2>4. CASE url.page = "asns"
    BY <2>1, <2>2, <2>3, <2>4 DEF ListInv, Chosen, Promises
  <2>5. CASE url.page # "asns"
    <3>1. chosen' = [list |-> None, table |-> TableOf(url)]
      BY <2>1, <2>3, <2>5 DEF Chosen
    <3>2. chosen'.list = None
      BY <3>1
    <3>3. Chosen(url', link', stored', storedSort', chosen')
      BY <2>1, <2>5, <3>1, <3>2 DEF Chosen, Promises
    <3>4. QED
      BY <2>2, <3>3 DEF ListInv
  <2>6. QED
    BY <2>4, <2>5
<1>8. CASE \E field \in {"players", "name"} : Listing!ServerSortToggle(field)
  <2>1. PICK field \in {"players", "name"} : Listing!ServerSortToggle(field)
    BY <1>8
  <2>2. PICK sort : sort = Listing!Toggled(Listing!serverSort, field)
    OBVIOUS
  <2>3. link # None /\ Listing!setServerSort(sort)
    BY <2>1, <2>2 DEF Listing!ServerSortToggle
  <2>4. Listing!serverSort \in Listing!AsnSorts
    BY <2>3, SortsShown DEF Listing!setServerSort
  <2>5. sort \in Listing!ServerSorts
    BY <2>2, <2>4, ToggledType
  <2>6. QED
    BY <2>3, <2>5, ChooseStep
<1>9. CASE \E field \in {"players", "servers", "name"} : Listing!AsnSortToggle(field)
  <2>1. PICK field \in {"players", "servers", "name"} : Listing!AsnSortToggle(field)
    BY <1>9
  <2>2. PICK sort : sort = Listing!Toggled(Listing!asnSort, field)
    OBVIOUS
  <2>3. link # None /\ Listing!setAsnSort(sort)
    BY <2>1, <2>2 DEF Listing!AsnSortToggle
  <2>4. sort \in Listing!AsnSorts
    BY <2>2, <2>3, SortsShown, ToggledType
  <2>5. QED
    BY <2>3, <2>4, ChooseAsnStep
<1>10. CASE \E field \in TableFields : Listing!handleTableSort(field)
  BY <1>10, TableStep
<1>11. QED
  BY <1>1, <1>2, <1>3, <1>4, <1>5, <1>6, <1>7, <1>8, <1>9, <1>10, ReloadStep, AnswersStep,
     ParamStep DEF Listing!Next

LEMMA ListShown == ASSUME ListInv PROVE Listing!ChosenIsShown
<1> SUFFICES ASSUME link # None, ~loading
             PROVE  /\ chosen.list \in {None, Listing!ListSort}
                    /\ link.page = "servers" => chosen.table = Listing!tableSort
  BY DEF Listing!ChosenIsShown
<1>1. link = url /\ Promises(url, link, stored, storedSort, chosen.list)
      /\ chosen.table = TableOf(url)
  BY DEF ListInv, Placed, Chosen
<1>2. Listing!tableSort = TableOf(link)
  BY DEF Listing!tableSort, TableOf
<1>3. chosen.list \in {None, Listing!ListSort}
  BY <1>1, ServerSortShown DEF Promises, Names, Shown, Listing!ListSort, Listing!asnSort
<1>4. QED
  BY <1>1, <1>2, <1>3

\* Where rows are sorted by the same number the other way, those that stay turn.
LEMMA OppositeTurns ==
    ASSUME NEW l, NEW m, l.rows \in SUBSET DOMAIN AllItems,
           NEW number \in [DOMAIN AllItems -> Int],
           NEW up \in {"asc", "desc"}, NEW down \in {"asc", "desc"}, up # down,
           NEW before, before = Listing!Sorted(l, number, up),
           NEW now2, now2 = Listing!Sorted(m, number, down), now2.rows = m.rows,
           l = [rows |-> l.rows, above |-> l.above], m = [rows |-> m.rows, above |-> m.above],
           NEW p \in before.above \cap (now2.rows \X now2.rows)
    PROVE  number[p[1]] = number[p[2]] \/ <<p[2], p[1]>> \in now2.above
<1> SUFFICES ASSUME number[p[1]] # number[p[2]]
             PROVE  <<p[2], p[1]>> \in now2.above
  OBVIOUS
<1>1. PICK above, held : above = before.above /\ held = l.rows
  OBVIOUS
<1>2. above = {q \in held \X held :
                 IF number[q[1]] = number[q[2]] THEN q \in l.above
                 ELSE (up = "asc") = (number[q[1]] < number[q[2]])}
  BY <1>1 DEF Listing!Sorted
<1>3. now2.above = {q \in m.rows \X m.rows :
                 IF number[q[1]] = number[q[2]] THEN q \in m.above
                 ELSE (down = "asc") = (number[q[1]] < number[q[2]])}
  BY DEF Listing!Sorted
<1>4. PICK i \in held, j \in held : p = <<i, j>>
  BY <1>1, <1>2
<1>5. number[i] \in Int /\ number[j] \in Int /\ number[i] # number[j]
  BY <1>1, <1>4
<1>6. (up = "asc") = (number[i] < number[j])
  BY <1>1, <1>2, <1>4, <1>5
<1>7. (down = "asc") = (number[j] < number[i])
  BY <1>5, <1>6
<1>8. <<j, i>> \in m.rows \X m.rows
  BY <1>4
<1>9. <<j, i>> \in now2.above
  BY <1>3, <1>5, <1>7, <1>8
<1>10. QED
  BY <1>4, <1>9

LEMMA Values ==
    ASSUME NEW field
    PROVE  /\ Listing!ServerValue(field) \in [DOMAIN AllItems -> Int]
           /\ Listing!TableValue(field) \in [DOMAIN AllItems -> Int]
           /\ Listing!AsnValue(field) \in [DOMAIN AllItems -> Int]
BY ListAssumption DEF Listing!ServerValue, Listing!TableValue, Listing!AsnValue, Listing!Or

\* The rows of a platform
Kept(held, platform) == {i \in held : platform \in {None, AllItems[i].type}}

LEMMA FilterKeeps ==
    ASSUME NEW l
    PROVE  Listing!filterServersByPlatform(l)
             = [rows |-> Kept(l.rows, link.platform),
                above |-> l.above \cap (Kept(l.rows, link.platform) \X Kept(l.rows, link.platform))]
BY DEF Listing!filterServersByPlatform, Kept

\* A list in a page: which rows, and how they are sorted
IsSorted(l, held, number, order) ==
    /\ held \in SUBSET DOMAIN AllItems
    /\ \E above : l = Listing!Sorted([rows |-> held, above |-> above], number, order)

LEMMA SortedTurns ==
    ASSUME NEW old, NEW new, NEW before, NEW after, NEW held, NEW stay,
           NEW number \in [DOMAIN AllItems -> Int], NEW other,
           old.field = new.field => other = number,
           old.order \in {"asc", "desc"}, new.order \in {"asc", "desc"},
           IsSorted(before, held, number, old.order),
           IsSorted(after, stay, other, new.order)
    PROVE  Listing!Turns(old, new, before, after, number)
<1> SUFFICES ASSUME old.field = new.field, old.order # new.order,
                    NEW p \in before.above \cap (after.rows \X after.rows)
             PROVE  number[p[1]] = number[p[2]] \/ <<p[2], p[1]>> \in after.above
  BY DEF Listing!Turns
<1>1. PICK a : before = Listing!Sorted([rows |-> held, above |-> a], number, old.order)
  BY DEF IsSorted
<1>2. PICK b : after = Listing!Sorted([rows |-> stay, above |-> b], number, new.order)
  BY DEF IsSorted
<1>3. held \in SUBSET DOMAIN AllItems
  BY DEF IsSorted
<1>4. PICK l, m : l = [rows |-> held, above |-> a] /\ m = [rows |-> stay, above |-> b]
  OBVIOUS
<1>5. after.rows = m.rows
  BY <1>2, <1>4 DEF Listing!Sorted
<1>6. QED
  BY <1>1, <1>2, <1>3, <1>4, <1>5, OppositeTurns

\* The cards of a network's page, the networks, and the table are sorted lists.
ServersBy(l, sort) ==
    \E held : IsSorted(l, held, Listing!ServerValue(sort.field), sort.order)

NetworksBy(l, sort) ==
    \E held : IsSorted(l, held, Listing!AsnValue(sort.field), sort.order)

RowsBy(l, sort) ==
    \E held : IsSorted(l, held, Listing!TableValue(sort.field), sort.order)

CardsSorted ==
    /\ ServersBy(Listing!AsnDetailPage.items, Listing!serverSort)
    /\ NetworksBy(Listing!AsnsPage.items, Listing!asnSort)

LEMMA Cards == CardsSorted
<1>1. PICK above : above = {p \in Network \X Network : p[1] < p[2]}
  OBVIOUS
<1>2. PICK held : held = Kept(Network, link.platform)
  OBVIOUS
<1>3. Listing!AsnDetailPage.items
        = Listing!Sorted([rows |-> held, above |-> above \cap (held \X held)],
                         Listing!ServerValue(Listing!serverSort.field), Listing!serverSort.order)
  BY <1>1, <1>2 DEF Listing!AsnDetailPage, Listing!ServerMetricsGrid, Listing!EntityMetricsGrid,
     Listing!sortServersBy, Listing!filterServersByPlatform, Listing!Listed, Kept
<1>4. held \in SUBSET DOMAIN AllItems
  BY <1>2, ListAssumption DEF Kept
<1>5. PICK all : all = DOMAIN AllItems
  OBVIOUS
<1>6. Listing!AsnsPage.items
        = Listing!Sorted([rows |-> all, above |-> {p \in all \X all : p[1] < p[2]}],
                         Listing!AsnValue(Listing!asnSort.field), Listing!asnSort.order)
  BY <1>5 DEF Listing!AsnsPage, Listing!EntityMetricsGrid, Listing!sortAsnsBy,
     Listing!AllListed, Listing!Listed
<1>7. QED
  BY <1>3, <1>4, <1>5, <1>6 DEF IsSorted, CardsSorted, ServersBy, NetworksBy

TableSorted ==
    IF link.view = "table" THEN RowsBy(Listing!ServersPage.table, Listing!tableSort)
    ELSE Listing!ServersPage.table = Listing!EmptyList

LEMMA TableRows == TableSorted
<1>1. CASE link.view = "table"
  <2>1. PICK data : data = Listing!ServersData
    OBVIOUS
  <2>2. data.rows \in SUBSET DOMAIN AllItems
    BY <2>1 DEF Listing!ServersData, Listing!EmptyList, Listing!sortServersBy, Listing!Sorted,
       Listing!AllListed, Listing!Listed
  <2>3. PICK held : held = Kept(data.rows, link.platform)
    OBVIOUS
  <2>4. Listing!ServersPage.table
          = Listing!Sorted([rows |-> held, above |-> data.above \cap (held \X held)],
                           Listing!TableValue(Listing!tableSort.field), Listing!tableSort.order)
    BY <1>1, <2>1, <2>3 DEF Listing!ServersPage, Listing!ServersTable, Listing!sortServersList,
       Listing!filterServersByPlatform, Kept
  <2>5. held \in SUBSET DOMAIN AllItems
    BY <2>2, <2>3 DEF Kept
  <2>6. QED
    BY <1>1, <2>4, <2>5 DEF IsSorted, RowsBy, TableSorted
<1>2. CASE link.view # "table"
  BY <1>2 DEF Listing!ServersPage, TableSorted
<1>3. QED
  BY <1>1, <1>2

\* The order of every sort that is shown is one of two.
OrdersHold ==
    ListInv /\ link # None =>
        /\ link.page # "asns" => /\ Listing!serverSort \in Listing!ServerSorts
                                 /\ Listing!serverSort.order \in {"asc", "desc"}
        /\ Listing!asnSort.order \in {"asc", "desc"}
        /\ Listing!tableSort.order \in {"asc", "desc"}

LEMMA OrdersShown == OrdersHold
<1> SUFFICES ASSUME ListInv, link # None
             PROVE  /\ link.page # "asns" => /\ Listing!serverSort \in Listing!ServerSorts
                                             /\ Listing!serverSort.order \in {"asc", "desc"}
                    /\ Listing!asnSort.order \in {"asc", "desc"}
                    /\ Listing!tableSort.order \in {"asc", "desc"}
  BY DEF OrdersHold
<1>1. link \in Listing!Links
  BY DEF ListInv, Placed, Fits
<1>2. Listing!tableSort.order \in {"asc", "desc"}
  BY <1>1 DEF Listing!Links, Listing!Orders, Listing!tableSort, Listing!Sort, Listing!defaultOrder
<1>3. QED
  BY <1>2, SortsShown, SortTypes

LEMMA ListSorts ==
    ASSUME ListInv, Listing!Next \/ UNCHANGED listVars
    PROVE  Listing!ListTurns
<1> SUFFICES ASSUME link # None, link' # None, link.page = link'.page
             PROVE  /\ link.page = "asn" =>
                          Listing!Turns(Listing!serverSort, Listing!serverSort',
                                        Listing!AsnDetailPage.items, Listing!AsnDetailPage'.items,
                                        Listing!ServerValue(Listing!serverSort.field))
                    /\ link.page = "asns" =>
                          Listing!Turns(Listing!asnSort, Listing!asnSort', Listing!AsnsPage.items,
                                        Listing!AsnsPage'.items,
                                        Listing!AsnValue(Listing!asnSort.field))
                    /\ link.page = "servers" =>
                          /\ Listing!Turns(Listing!tableSort, Listing!tableSort',
                                           Listing!ServersPage.table, Listing!ServersPage'.table,
                                           Listing!TableValue(Listing!tableSort.field))
                          /\ Listing!DataSort # None => Listing!DataSort' # None
  BY DEF Listing!ListTurns
<1>1. ListInv' /\ KeepsList
  BY ListsStep
<1>2. OrdersHold /\ OrdersHold'
  BY OrdersShown, PTL
<1>3. ListInv /\ ListInv'
  BY <1>1
<1>4. CardsSorted /\ TableSorted /\ CardsSorted' /\ TableSorted'
  BY Cards, TableRows, PTL
<1>5. CASE link.page = "asn"
  <2>1. PICK old, new, before, after :
           /\ old = Listing!serverSort /\ new = Listing!serverSort'
           /\ before = Listing!AsnDetailPage.items /\ after = Listing!AsnDetailPage'.items
    OBVIOUS
  <2>2. old.order \in {"asc", "desc"} /\ new.order \in {"asc", "desc"}
    BY <1>2, <1>3, <1>5, <2>1 DEF OrdersHold
  <2>3. PICK held : IsSorted(before, held, Listing!ServerValue(old.field), old.order)
    BY <1>4, <2>1 DEF CardsSorted, ServersBy
  <2>4. PICK stay : IsSorted(after, stay, Listing!ServerValue(new.field), new.order)
    BY <1>4, <2>1 DEF CardsSorted, ServersBy
  <2>5. Listing!Turns(old, new, before, after, Listing!ServerValue(old.field))
    BY <2>2, <2>3, <2>4, Values, SortedTurns
  <2>6. QED
    BY <1>5, <2>1, <2>5
<1>6. CASE link.page = "asns"
  <2>1. PICK old, new, before, after :
           /\ old = Listing!asnSort /\ new = Listing!asnSort'
           /\ before = Listing!AsnsPage.items /\ after = Listing!AsnsPage'.items
    OBVIOUS
  <2>2. old.order \in {"asc", "desc"} /\ new.order \in {"asc", "desc"}
    BY <1>2, <1>3, <2>1, <1>6 DEF OrdersHold
  <2>3. PICK held : IsSorted(before, held, Listing!AsnValue(old.field), old.order)
    BY <1>4, <2>1 DEF CardsSorted, NetworksBy
  <2>4. PICK stay : IsSorted(after, stay, Listing!AsnValue(new.field), new.order)
    BY <1>4, <2>1 DEF CardsSorted, NetworksBy
  <2>5. Listing!Turns(old, new, before, after, Listing!AsnValue(old.field))
    BY <2>2, <2>3, <2>4, Values, SortedTurns
  <2>6. QED
    BY <1>6, <2>1, <2>5
<1>7. CASE link.page = "servers"
  <2>1. PICK old, new, before, after :
           /\ old = Listing!tableSort /\ new = Listing!tableSort'
           /\ before = Listing!ServersPage.table /\ after = Listing!ServersPage'.table
    OBVIOUS
  <2>2. old.order \in {"asc", "desc"} /\ new.order \in {"asc", "desc"}
    BY <1>2, <1>3, <2>1 DEF OrdersHold
  <2>3. Listing!Turns(old, new, before, after, Listing!TableValue(old.field))
    <3>1. CASE link.view = "table" /\ link'.view = "table"
      <4>1. PICK held : IsSorted(before, held, Listing!TableValue(old.field), old.order)
        BY <1>4, <2>1, <3>1 DEF TableSorted, RowsBy
      <4>2. PICK stay : IsSorted(after, stay, Listing!TableValue(new.field), new.order)
        BY <1>4, <2>1, <3>1 DEF TableSorted, RowsBy
      <4>3. QED
        BY <2>2, <4>1, <4>2, Values, SortedTurns
    <3>2. CASE link.view # "table"
      <4>1. before.above = {}
        BY <1>4, <2>1, <3>2 DEF TableSorted, Listing!EmptyList
      <4>2. QED
        BY <4>1 DEF Listing!Turns
    <3>3. CASE link'.view # "table"
      <4>1. after.rows = {}
        BY <1>4, <2>1, <3>3 DEF TableSorted, Listing!EmptyList
      <4>2. QED
        BY <4>1 DEF Listing!Turns
    <3>4. QED
      BY <3>1, <3>2, <3>3
  <2>4. Listing!DataSort # None => Listing!DataSort' # None
    <3>1. ASSUME Listing!DataSort # None PROVE rendered # None
      BY <1>7, <3>1, ServerSortShown DEF ListInv, Drew, Listing!DataSort
    <3>2. ASSUME rendered' # None PROVE Listing!DataSort' # None
      <4>1. PICK s, r : s = Listing!serverSort' /\ r = rendered'
        OBVIOUS
      <4>2. s # None
        BY <1>2, <1>3, <1>7, <4>1, NoSort DEF OrdersHold
      <4>3. QED
        BY <3>2, <4>1, <4>2 DEF Listing!DataSort
    <3>3. QED
      BY <1>1, <1>7, <3>1, <3>2 DEF KeepsList
  <2>5. QED
    BY <1>7, <2>1, <2>3, <2>4
<1>8. QED
  BY <1>5, <1>6, <1>7

\* The types of the lists
LEMMA ListsTyped == ASSUME ListInv PROVE Listing!TypeOK
<1>1. url \in Listing!Links /\ link \in Listing!Links \cup {None} /\ loading \in BOOLEAN
  BY DEF ListInv, Placed, Fits
<1>2. {stored, storedSort, rendered} \subseteq Listing!ServerSorts \cup {None}
      /\ loaded \subseteq Listing!Queries
  BY DEF ListInv, Stores, Drew
<1>3. TableOf(url) \in [field : TableFields \cup {"name"}, order : Listing!Orders]
  BY <1>1 DEF TableOf, Listing!Links, Listing!Orders, Listing!Sort, Listing!defaultOrder
<1>4. chosen \in [list : Listing!ServerSorts \cup Listing!AsnSorts \cup {None},
                  table : [field : TableFields \cup {"name"}, order : Listing!Orders]]
  BY <1>3 DEF ListInv, Chosen
<1>5. QED
  BY <1>1, <1>2, <1>4 DEF Listing!TypeOK

-----------------------------------------------------------------------------
(* The pinned servers                                                        *)

IsPinRequest(q) ==
    /\ q \in PinnedServers!Request
    /\ q.kind = "pin" /\ q.at = "checked" => q.server \in Pinnable

Requested(s) == s \in Seq(PinnedServers!Request) /\ \A r \in DOMAIN s : IsPinRequest(s[r])

PinInv ==
    /\ DOMAIN position \subseteq Pinnable /\ \A s \in DOMAIN position : position[s] \in Nat
    /\ tracked \subseteq Pinnable /\ pauses \in 0 .. MaxPauses
    /\ Requested(requests)
    /\ cached \in PinnedServers!List
    /\ fetch \in [answered : BOOLEAN, answer : PinnedServers!List]
    /\ optimisticItems \in PinnedServers!List \cup {None}

\* An order of a set of servers
LEMMA Orders ==
    ASSUME NEW S \in SUBSET Pinnable, NEW l
    PROVE  /\ l \in PinnedServers!SetToSeqs(S) <=>
                 l \in [1 .. Cardinality(S) -> S]
                 /\ \A i, j \in 1 .. Cardinality(S) : i # j => l[i] # l[j]
           /\ l \in PinnedServers!SetToSeqs(S) => l \in PinnedServers!List
           /\ Cardinality(S) \in Nat /\ IsFiniteSet(S)
<1>1. PinnedServers!Cardinality(S) = Cardinality(S)
  BY DEF PinnedServers!Cardinality, Cardinality, PinnedServers!IsFiniteSet, IsFiniteSet
<1>2. PICK n : n = Cardinality(S)
  OBVIOUS
<1>3. PinnedServers!SetToSeqs(S) = {f \in [1 .. n -> S] : \A i, j \in 1 .. n : i # j => f[i] # f[j]}
  BY <1>1, <1>2 DEF PinnedServers!SetToSeqs
<1>4. IsFiniteSet(S) /\ Cardinality(S) \in Nat
  BY FS_Subset, FS_CardinalityType, PinsAssumption
<1>5. l \in PinnedServers!SetToSeqs(S) => l \in PinnedServers!List
  BY DEF PinnedServers!List
<1>6. QED
  BY <1>2, <1>3, <1>4, <1>5

LEMMA ListIsOrder ==
    ASSUME NEW l \in PinnedServers!List
    PROVE  \E S \in SUBSET Pinnable :
              /\ Cardinality(S) \in Nat /\ IsFiniteSet(S)
              /\ l \in [1 .. Cardinality(S) -> S]
              /\ \A i, j \in 1 .. Cardinality(S) : i # j => l[i] # l[j]
<1>1. PICK S \in SUBSET Pinnable : l \in PinnedServers!SetToSeqs(S)
  BY DEF PinnedServers!List
<1>2. QED
  BY <1>1, Orders

LEMMA EmptyList == <<>> \in PinnedServers!List
<1>1. Cardinality({}) = 0
  BY FS_EmptySet
<1>2. <<>> \in [1 .. 0 -> {}] /\ \A i, j \in 1 .. 0 : i # j => <<>>[i] # <<>>[j]
  OBVIOUS
<1>3. <<>> \in PinnedServers!SetToSeqs({})
  BY <1>1, <1>2, Orders
<1>4. QED
  BY <1>3, Orders

LEMMA JoinedType ==
    ASSUME NEW S, NEW s \in Seq(S), NEW t \in Seq(S)
    PROVE  s \o t \in Seq(S) /\ Len(s \o t) = Len(s) + Len(t)
OBVIOUS

LEMMA Joined ==
    ASSUME NEW S, NEW s \in Seq(S), NEW t \in Seq(S), NEW k \in 1 .. Len(s) + Len(t)
    PROVE  /\ k <= Len(s) => (s \o t)[k] = s[k]
           /\ k > Len(s) => (s \o t)[k] = t[k - Len(s)]
OBVIOUS

\* Without its first server
LEMMA TailOfList ==
    ASSUME NEW l \in PinnedServers!List, l # <<>>
    PROVE  Tail(l) \in PinnedServers!List
<1>1. PICK S \in SUBSET Pinnable :
              /\ Cardinality(S) \in Nat /\ IsFiniteSet(S)
              /\ l \in [1 .. Cardinality(S) -> S]
              /\ \A i, j \in 1 .. Cardinality(S) : i # j => l[i] # l[j]
  BY ListIsOrder
<1>2. PICK n : n = Cardinality(S)
  OBVIOUS
<1>3. n \in Nat /\ l \in [1 .. n -> S] /\ \A i, j \in 1 .. n : i # j => l[i] # l[j]
  BY <1>1, <1>2
<1>4. l \in Seq(S) /\ Len(l) = n /\ n # 0
  BY <1>3
<1>5. PICK t, T : t = Tail(l) /\ T = S \ {l[1]}
  OBVIOUS
<1>6. t \in Seq(S) /\ Len(t) = n - 1 /\ \A k \in 1 .. n - 1 : t[k] = l[k + 1]
  BY <1>3, <1>4, <1>5
<1>7. Cardinality(T) = n - 1
  <2>1. l[1] \in S
    BY <1>3, <1>4
  <2>2. Cardinality(S \ {l[1]}) = Cardinality(S) - 1
    BY <1>1, <2>1, FS_RemoveElement
  <2>3. QED
    BY <1>2, <1>5, <2>2
<1>8. \A k \in 1 .. n - 1 : t[k] \in T
  BY <1>3, <1>5, <1>6
<1>9. t \in [1 .. n - 1 -> T]
  BY <1>4, <1>6, <1>8
<1>10. \A i, j \in 1 .. n - 1 : i # j => t[i] # t[j]
  BY <1>3, <1>6
<1>11. t \in PinnedServers!SetToSeqs(T)
  BY <1>5, <1>7, <1>9, <1>10, Orders
<1>12. QED
  BY <1>5, <1>11, Orders

\* The first server alone
LEMMA HeadOfList ==
    ASSUME NEW l \in PinnedServers!List, l # <<>>
    PROVE  <<Head(l)>> \in PinnedServers!List
<1>1. PICK S \in SUBSET Pinnable : Cardinality(S) \in Nat /\ l \in [1 .. Cardinality(S) -> S]
  BY ListIsOrder
<1>2. PICK n : n = Cardinality(S)
  OBVIOUS
<1>3. n \in Nat /\ l \in [1 .. n -> S]
  BY <1>1, <1>2
<1>4. l \in Seq(S) /\ Len(l) = n /\ n # 0
  BY <1>3
<1>5. PICK x : x = Head(l)
  OBVIOUS
<1>6. x \in Pinnable
  BY <1>1, <1>3, <1>4, <1>5
<1>7. Cardinality({x}) = 1
  BY FS_Singleton
<1>8. <<x>> \in [1 .. 1 -> {x}] /\ \A i, j \in 1 .. 1 : i # j => <<x>>[i] # <<x>>[j]
  OBVIOUS
<1>9. <<x>> \in PinnedServers!SetToSeqs({x})
  BY <1>6, <1>7, <1>8, Orders
<1>10. QED
  BY <1>5, <1>6, <1>9, Orders

\* A list that is dragged about still names every server once.
LEMMA MovedList ==
    ASSUME NEW l \in PinnedServers!List, NEW i \in DOMAIN l, NEW j \in DOMAIN l
    PROVE  PinnedServers!arrayMove(l, i, j) \in PinnedServers!List
<1>1. PICK S \in SUBSET Pinnable :
              /\ Cardinality(S) \in Nat /\ IsFiniteSet(S)
              /\ l \in [1 .. Cardinality(S) -> S]
              /\ \A a, b \in 1 .. Cardinality(S) : a # b => l[a] # l[b]
  BY ListIsOrder
<1>2. PICK n : n = Cardinality(S)
  OBVIOUS
<1>3. n \in Nat /\ l \in [1 .. n -> S] /\ \A a, b \in 1 .. n : a # b => l[a] # l[b]
  BY <1>1, <1>2
<1>4. l \in Seq(S) /\ Len(l) = n /\ i \in 1 .. n /\ j \in 1 .. n
  BY <1>3
<1>15. n \in Nat /\ i \in 1 .. n /\ j \in 1 .. n
  BY <1>3, <1>4
<1>5. PICK m : m = PinnedServers!RemoveAt(l, i)
  OBVIOUS
<1>6. /\ m \in Seq(S) /\ Len(m) = n - 1
      /\ \A k \in 1 .. n - 1 : m[k] = l[IF k < i THEN k ELSE k + 1]
  <2>1. m = SubSeq(l, 1, i - 1) \o SubSeq(l, i + 1, n)
    BY <1>4, <1>5 DEF PinnedServers!RemoveAt
  <2>2. PICK before, after : before = SubSeq(l, 1, i - 1) /\ after = SubSeq(l, i + 1, n)
    OBVIOUS
  <2>3. before \in Seq(S) /\ Len(before) = i - 1 /\ \A k \in 1 .. i - 1 : before[k] = l[k]
    BY <1>3, <1>4, <2>2
  <2>4. after \in Seq(S) /\ Len(after) = n - i /\ \A k \in 1 .. n - i : after[k] = l[i + k]
    BY <1>3, <1>4, <2>2
  <2>5. m = before \o after
    BY <2>1, <2>2
  <2>6. m \in Seq(S) /\ Len(m) = n - 1
    <3>1. m \in Seq(S) /\ Len(m) = Len(before) + Len(after)
      BY <2>3, <2>4, <2>5, JoinedType
    <3>2. Len(before) = i - 1 /\ Len(after) = n - i
      BY <2>3, <2>4
    <3>3. QED
      BY <1>15, <3>1, <3>2
  <2>7. ASSUME NEW k \in 1 .. n - 1 PROVE m[k] = l[IF k < i THEN k ELSE k + 1]
    <3>1. CASE k < i
      <4>1. m[k] = before[k]
        <5>1. Len(before) = i - 1 /\ Len(after) = n - i
          BY <2>3, <2>4
        <5>2. k \in 1 .. Len(before) + Len(after) /\ k <= Len(before)
          BY <1>15, <3>1, <5>1
        <5>3. QED
          BY <2>3, <2>4, <2>5, <5>2, Joined
      <4>2. QED
        BY <1>4, <2>3, <3>1, <4>1
    <3>2. CASE ~(k < i)
      <4>1. PICK q : q = k - (i - 1)
        OBVIOUS
      <4>2. q \in 1 .. n - i /\ i + q = k + 1
        BY <1>3, <1>4, <3>2, <4>1
      <4>3. m[k] = after[q]
        <5>1. k \in 1 .. Len(before) + Len(after) /\ k > Len(before) /\ k - Len(before) = q
          <6>1. Len(before) = i - 1 /\ Len(after) = n - i
            BY <2>3, <2>4
          <6>2. QED
            BY <1>15, <3>2, <4>1, <6>1
        <5>2. (before \o after)[k] = after[k - Len(before)]
          BY <2>3, <2>4, <5>1, Joined
        <5>3. QED
          BY <2>5, <5>1, <5>2
      <4>4. QED
        BY <2>4, <3>2, <4>2, <4>3
    <3>3. QED
      BY <3>1, <3>2
  <2>8. QED
    BY <2>6, <2>7
<1>7. PICK x, r : x = l[i] /\ r = PinnedServers!arrayMove(l, i, j)
  OBVIOUS
<1>8. x \in S /\ \A k \in 1 .. n - 1 : m[k] # x /\ m[k] \in S
  BY <1>3, <1>4, <1>6, <1>7
<1>9. \A a, b \in 1 .. n - 1 : a # b => m[a] # m[b]
  BY <1>3, <1>4, <1>6
<1>10. /\ r \in Seq(S) /\ Len(r) = n /\ r[j] = x
       /\ \A k \in 1 .. n : k < j => r[k] = m[k]
       /\ \A k \in 1 .. n : k > j => r[k] = m[k - 1]
  <2>1. r = SubSeq(m, 1, j - 1) \o <<x>> \o SubSeq(m, j, n - 1)
    BY <1>5, <1>6, <1>7 DEF PinnedServers!arrayMove, PinnedServers!InsertAt
  <2>2. PICK before, after : before = SubSeq(m, 1, j - 1) /\ after = SubSeq(m, j, n - 1)
    OBVIOUS
  <2>3. before \in Seq(S) /\ Len(before) = j - 1 /\ \A k \in 1 .. j - 1 : before[k] = m[k]
    BY <1>3, <1>4, <1>6, <2>2
  <2>4. after \in Seq(S) /\ Len(after) = n - j /\ \A k \in 1 .. n - j : after[k] = m[j + k - 1]
    BY <1>3, <1>4, <1>6, <2>2
  <2>5. PICK front : front = before \o <<x>>
    OBVIOUS
  <2>6. /\ front \in Seq(S) /\ Len(front) = j /\ front[j] = x
        /\ \A k \in 1 .. j - 1 : front[k] = m[k]
    BY <1>4, <1>8, <2>3, <2>5
  <2>7. r = front \o after
    BY <2>1, <2>2, <2>5
  <2>8. r \in Seq(S) /\ Len(r) = n /\ r[j] = x
    <3>1. r \in Seq(S) /\ Len(r) = Len(front) + Len(after)
      BY <2>4, <2>6, <2>7, JoinedType
    <3>2. j \in 1 .. Len(front) + Len(after) /\ j <= Len(front)
      <4>1. Len(front) = j /\ Len(after) = n - j
        BY <2>4, <2>6
      <4>2. QED
        BY <1>15, <4>1
    <3>3. (front \o after)[j] = front[j]
      BY <2>4, <2>6, <3>2, Joined
    <3>4. Len(front) = j /\ Len(after) = n - j /\ r[j] = x
      BY <2>4, <2>6, <2>7, <3>3
    <3>5. QED
      BY <1>15, <3>1, <3>4
  <2>9. ASSUME NEW k \in 1 .. n, k < j PROVE r[k] = m[k]
    <3>1. k \in 1 .. Len(front) + Len(after) /\ k <= Len(front) /\ k \in 1 .. j - 1
      <4>1. Len(front) = j /\ Len(after) = n - j
        BY <2>4, <2>6
      <4>2. QED
        BY <1>15, <2>9, <4>1
    <3>2. (front \o after)[k] = front[k]
      BY <2>4, <2>6, <3>1, Joined
    <3>3. QED
      BY <2>6, <2>7, <3>1, <3>2
  <2>10. ASSUME NEW k \in 1 .. n, k > j PROVE r[k] = m[k - 1]
    <3>1. PICK q : q = k - j
      OBVIOUS
    <3>2. q \in 1 .. n - j /\ j + q - 1 = k - 1
      BY <1>3, <1>4, <2>10, <3>1
    <3>3. r[k] = after[q]
      <4>1. k \in 1 .. Len(front) + Len(after) /\ k > Len(front) /\ k - Len(front) = q
        <5>1. Len(front) = j /\ Len(after) = n - j
          BY <2>4, <2>6
        <5>2. QED
          BY <1>15, <2>10, <3>1, <5>1
      <4>2. (front \o after)[k] = after[k - Len(front)]
        <5>1. front \in Seq(S) /\ after \in Seq(S)
          BY <2>4, <2>6
        <5>2. k \in 1 .. Len(front) + Len(after) /\ k > Len(front)
          BY <4>1
        <5>3. QED
          BY <5>1, <5>2, Joined
      <4>3. k - Len(front) = q
        BY <4>1
      <4>4. after[k - Len(front)] = after[q]
        BY <4>3
      <4>5. QED
        BY <2>7, <4>2, <4>4
    <3>4. QED
      BY <2>4, <3>2, <3>3
  <2>11. QED
    BY <2>8, <2>9, <2>10
<1>11. r \in [1 .. n -> S]
  BY <1>10
<1>12. \A a, b \in 1 .. n : a # b => r[a] # r[b]
  <2> SUFFICES ASSUME NEW a \in 1 .. n, NEW b \in 1 .. n, a < b PROVE r[a] # r[b]
    BY <1>3
  <2>1. CASE b < j
    BY <1>3, <1>4, <1>9, <1>10, <2>1
  <2>2. CASE b = j
    BY <1>3, <1>4, <1>8, <1>10, <2>2
  <2>3. CASE b > j /\ a < j
    BY <1>3, <1>4, <1>9, <1>10, <2>3
  <2>4. CASE b > j /\ a = j
    BY <1>3, <1>4, <1>8, <1>10, <2>4
  <2>5. CASE b > j /\ a > j
    BY <1>3, <1>4, <1>9, <1>10, <2>5
  <2>6. QED
    BY <1>3, <1>4, <2>1, <2>2, <2>3, <2>4, <2>5
<1>13. r \in PinnedServers!SetToSeqs(S)
  BY <1>2, <1>11, <1>12, Orders
<1>14. QED
  BY <1>7, <1>13, Orders

\* What the server lists is a list.
LEMMA ServersList ==
    ASSUME NEW S \in SUBSET Pinnable
    PROVE  PinnedServers!ByPosition(S) \subseteq PinnedServers!List
BY Orders DEF PinnedServers!ByPosition

LEMMA AnswersList ==
    ASSUME PinInv
    PROVE  PinnedServers!build_pinned_response \subseteq PinnedServers!List
<1>1. DOMAIN position \cap tracked \in SUBSET Pinnable
  BY DEF PinInv
<1>2. QED
  BY <1>1, ServersList DEF PinnedServers!build_pinned_response, PinnedServers!pinned

LEMMA PlaceInList ==
    ASSUME NEW l \in PinnedServers!List, NEW s \in PinnedServers!ToSet(l)
    PROVE  PinnedServers!Index(l, s) \in Nat
<1>1. PICK S \in SUBSET Pinnable : Cardinality(S) \in Nat /\ l \in [1 .. Cardinality(S) -> S]
  BY ListIsOrder
<1>2. \E i \in DOMAIN l : l[i] = s
  BY DEF PinnedServers!ToSet
<1>3. PICK i : i = CHOOSE k \in DOMAIN l : l[k] = s
  OBVIOUS
<1>4. i \in DOMAIN l
  BY <1>2, <1>3
<1>5. i \in Nat /\ i >= 1
  BY <1>1, <1>4
<1>6. QED
  BY <1>3, <1>5 DEF PinnedServers!Index

LEMMA PlacedType ==
    ASSUME PinInv, NEW l \in PinnedServers!List, NEW first \in Nat, NEW new,
           new = PinnedServers!Placed(l, first)
    PROVE  DOMAIN new = DOMAIN position /\ \A s \in DOMAIN position : new[s] \in Nat
<1>1. /\ DOMAIN new = DOMAIN position
      /\ \A s \in DOMAIN position :
            new[s] = IF s \in PinnedServers!ToSet(l) THEN first + PinnedServers!Index(l, s)
                     ELSE position[s]
  BY DEF PinnedServers!Placed, PinnedServers!pinned
<1>2. ASSUME NEW s \in DOMAIN position PROVE new[s] \in Nat
  <2>1. CASE s \in PinnedServers!ToSet(l)
    <3>1. PICK k : k = PinnedServers!Index(l, s)
      OBVIOUS
    <3>2. k \in Nat
      BY <2>1, <3>1, PlaceInList
    <3>3. QED
      BY <1>1, <2>1, <3>1, <3>2
  <2>2. CASE s \notin PinnedServers!ToSet(l)
    BY <1>1, <2>2 DEF PinInv
  <2>3. QED
    BY <2>1, <2>2
<1>3. QED
  BY <1>1, <1>2

LEMMA NextPosition == ASSUME PinInv PROVE PinnedServers!next_position \in Nat
<1>1. CASE DOMAIN position = {}
  BY <1>1 DEF PinnedServers!next_position, PinnedServers!pinned
<1>2. CASE DOMAIN position # {}
  <2>1. PICK T : T = Plot!Range(position)
    OBVIOUS
  <2>2. IsFiniteSet(DOMAIN position)
    BY FS_Subset, PinsAssumption DEF PinInv
  <2>3. IsFiniteSet(T)
    BY <2>1, <2>2, FiniteRange
  <2>4. T \in SUBSET Nat /\ T # {}
    BY <1>2, <2>1 DEF Plot!Range, PinInv
  <2>5. PICK top : top = Plot!Max(T)
    OBVIOUS
  <2>6. top \in Nat
    BY <2>3, <2>4, <2>5, GreatestIsMax
  <2>7. PinnedServers!Range(position) = T
    BY <2>1 DEF PinnedServers!Range, Plot!Range
  <2>8. PinnedServers!Max(T) = top
    BY <2>5 DEF PinnedServers!Max, Plot!Max
  <2>9. PinnedServers!next_position = top + 1
    BY <1>2, <2>7, <2>8 DEF PinnedServers!next_position, PinnedServers!pinned
  <2>10. QED
    BY <2>6, <2>9
<1>3. QED
  BY <1>1, <1>2

\* A request that is replaced by another
LEMMA RequestReplaced ==
    ASSUME NEW old, Requested(old), NEW r \in DOMAIN old, NEW q, IsPinRequest(q), NEW new,
           new = [old EXCEPT ![r] = q]
    PROVE  Requested(new)
<1>1. PICK Q : Q = PinnedServers!Request
  OBVIOUS
<1>2. old \in Seq(Q) /\ q \in Q
  BY <1>1 DEF Requested, IsPinRequest
<1>3. PICK n : n = Len(old)
  OBVIOUS
<1>4. n \in Nat /\ old \in [1 .. n -> Q]
  BY <1>2, <1>3
<1>5. new \in [1 .. n -> Q] /\ \A p \in 1 .. n : new[p] = IF p = r THEN q ELSE old[p]
  BY <1>2, <1>4
<1>6. new \in Seq(Q)
  BY <1>4, <1>5
<1>7. \A p \in DOMAIN new : IsPinRequest(new[p])
  BY <1>4, <1>5 DEF Requested
<1>8. QED
  BY <1>1, <1>6, <1>7 DEF Requested

LEMMA RequestAppended ==
    ASSUME NEW old, Requested(old), NEW q, IsPinRequest(q), NEW new, new = Append(old, q)
    PROVE  Requested(new)
<1>1. PICK Q : Q = PinnedServers!Request
  OBVIOUS
<1>2. old \in Seq(Q) /\ q \in Q
  BY <1>1 DEF Requested, IsPinRequest
<1>3. new \in Seq(Q) /\ Len(new) = Len(old) + 1
  BY <1>2
<1>4. PICK n : n = Len(old)
  OBVIOUS
<1>5. n \in Nat /\ DOMAIN old = 1 .. n /\ DOMAIN new = 1 .. n + 1
  BY <1>2, <1>3, <1>4
<1>6. \A p \in 1 .. n : new[p] = old[p]
  BY <1>2, <1>4
<1>7. new[n + 1] = q
  BY <1>2, <1>4
<1>8. \A p \in DOMAIN new : IsPinRequest(new[p])
  BY <1>5, <1>6, <1>7 DEF Requested
<1>9. QED
  BY <1>1, <1>3, <1>8 DEF Requested

LEMMA RequestTypes ==
    ASSUME NEW q
    PROVE  q \in PinnedServers!Request <=>
              \E kind \in {"pin", "unpin", "reorder"}, place \in PinnedServers!Place \cup {None},
                 server \in Pinnable \cup {None}, order \in PinnedServers!List,
                 at \in {"sent", "checked", "deleted", "compacting", "built", "answered",
                         "failed", "over"},
                 next \in Nat, rest \in PinnedServers!List, answer \in PinnedServers!List :
                 q = [kind |-> kind, place |-> place, server |-> server, order |-> order,
                      at |-> at, next |-> next, rest |-> rest, answer |-> answer]
BY DEF PinnedServers!Request

RequestStages == {"sent", "checked", "deleted", "compacting", "built", "answered", "failed", "over"}

LEMMA RequestParts ==
    ASSUME NEW q \in PinnedServers!Request
    PROVE  /\ q.kind \in {"pin", "unpin", "reorder"} /\ q.place \in PinnedServers!Place \cup {None}
           /\ q.server \in Pinnable \cup {None} /\ q.order \in PinnedServers!List
           /\ q.at \in RequestStages /\ q.next \in Nat
           /\ q.rest \in PinnedServers!List /\ q.answer \in PinnedServers!List
BY DEF PinnedServers!Request, RequestStages

\* A request of which nothing has been read yet, or is read any more
LEMMA FreshRequest ==
    ASSUME NEW kind \in {"pin", "unpin", "reorder"}, NEW place \in PinnedServers!Place \cup {None},
           NEW server \in Pinnable \cup {None}, NEW order \in PinnedServers!List,
           NEW stage \in RequestStages, stage # "checked"
    PROVE  IsPinRequest(PinnedServers!NewRequest(kind, place, server, order, stage))
<1>1. PICK q : q = PinnedServers!NewRequest(kind, place, server, order, stage)
  OBVIOUS
<1>2. PICK none \in PinnedServers!List : none = <<>>
  BY EmptyList
<1>3. q = [kind |-> kind, place |-> place, server |-> server, order |-> order, at |-> stage,
           next |-> 0, rest |-> none, answer |-> none]
  BY <1>1, <1>2 DEF PinnedServers!NewRequest
<1>4. q \in PinnedServers!Request
  BY <1>3 DEF PinnedServers!Request, RequestStages
<1>5. q.at = stage
  BY <1>3
<1>6. QED
  BY <1>1, <1>4, <1>5 DEF IsPinRequest

LEMMA AnyRequest ==
    ASSUME PinInv, NEW r \in DOMAIN requests
    PROVE  requests[r] \in PinnedServers!Request /\ IsPinRequest(requests[r])
BY DEF PinInv, Requested, IsPinRequest

\* A step of a request
LEMMA RequestMoves ==
    ASSUME PinInv, NEW r \in DOMAIN requests, NEW q, IsPinRequest(q),
           requests' = [requests EXCEPT ![r] = q],
           UNCHANGED <<tracked, pauses, fetch>>,
           cached' \in PinnedServers!List, optimisticItems' \in PinnedServers!List \cup {None},
           DOMAIN position' \subseteq Pinnable, \A s \in DOMAIN position' : position'[s] \in Nat
    PROVE  PinInv'
<1>1. PICK old, new : old = requests /\ new = requests'
  OBVIOUS
<1>2. Requested(old) /\ r \in DOMAIN old /\ new = [old EXCEPT ![r] = q]
  BY <1>1 DEF PinInv
<1>3. Requested(new)
  BY <1>2, RequestReplaced
<1>4. QED
  BY <1>1, <1>3 DEF PinInv

LEMMA BecomesMoves ==
    ASSUME PinInv, NEW r \in DOMAIN requests, NEW stage \in RequestStages, stage # "checked",
           requests' = [requests EXCEPT ![r] = PinnedServers!Becomes(r, stage)],
           UNCHANGED <<tracked, pauses, fetch, cached, optimisticItems>>,
           DOMAIN position' \subseteq Pinnable, \A s \in DOMAIN position' : position'[s] \in Nat
    PROVE  PinInv'
<1>1. PICK old, q : old = requests[r] /\ q = PinnedServers!Becomes(r, stage)
  OBVIOUS
<1>2. old \in PinnedServers!Request
  BY <1>1, AnyRequest
<1>3. q = PinnedServers!NewRequest(old.kind, old.place, old.server, <<>>, stage)
  BY <1>1 DEF PinnedServers!Becomes
<1>4. PICK kind, place, server : kind = old.kind /\ place = old.place /\ server = old.server
  OBVIOUS
<1>5. /\ kind \in {"pin", "unpin", "reorder"} /\ place \in PinnedServers!Place \cup {None}
      /\ server \in Pinnable \cup {None}
  BY <1>2, <1>4, RequestParts
<1>6. IsPinRequest(q)
  BY <1>3, <1>4, <1>5, EmptyList, FreshRequest
<1>7. QED
  BY <1>1, <1>6, RequestMoves DEF PinInv

\* A request that moves on with what it read
LEMMA WithData ==
    ASSUME NEW q, IsPinRequest(q), NEW stage \in RequestStages,
           stage = "checked" => q.kind # "pin" \/ q.server \in Pinnable,
           NEW next \in Nat, NEW rest \in PinnedServers!List, NEW answer \in PinnedServers!List,
           NEW p, p = [q EXCEPT !.at = stage, !.next = next, !.rest = rest, !.answer = answer]
    PROVE  IsPinRequest(p)
<1>1. q \in PinnedServers!Request
  BY DEF IsPinRequest
<1>2. p \in PinnedServers!Request
  BY <1>1 DEF PinnedServers!Request, RequestStages
<1>3. p.at = stage /\ p.kind = q.kind /\ p.server = q.server
  BY <1>1 DEF PinnedServers!Request
<1>4. QED
  BY <1>2, <1>3 DEF IsPinRequest

LEMMA ToMoves ==
    ASSUME PinInv, NEW r \in DOMAIN requests, NEW stage \in RequestStages,
           stage = "checked" => requests[r].kind # "pin",
           PinnedServers!To(r, stage),
           UNCHANGED <<tracked, pauses, cached, fetch, optimisticItems>>,
           DOMAIN position' \subseteq Pinnable, \A s \in DOMAIN position' : position'[s] \in Nat
    PROVE  PinInv'
<1>1. PICK old, next, rest, answer : old = requests[r] /\ next = old.next /\ rest = old.rest
                                     /\ answer = old.answer
  OBVIOUS
<1>2. old \in PinnedServers!Request
  BY <1>1, AnyRequest
<1>3. next \in Nat /\ rest \in PinnedServers!List /\ answer \in PinnedServers!List
  BY <1>1, <1>2, RequestParts
<1>4. PICK p : p = [old EXCEPT !.at = stage, !.next = next, !.rest = rest, !.answer = answer]
  OBVIOUS
<1>5. IsPinRequest(p)
  BY <1>1, <1>3, <1>4, AnyRequest, WithData
<1>6. p = [old EXCEPT !.at = stage]
  BY <1>1, <1>2, <1>4 DEF PinnedServers!Request
<1>7. requests' = [requests EXCEPT ![r] = p]
  BY <1>1, <1>6 DEF PinnedServers!To
<1>8. QED
  BY <1>5, <1>7, RequestMoves DEF PinInv

LEMMA PinReadsStep == ASSUME PinInv, NEW r, PinnedServers!PinReads(r) PROVE PinInv'
<1>1. /\ r \in DOMAIN requests /\ requests[r].at = "sent" /\ requests[r].kind = "pin"
      /\ UNCHANGED <<position, tracked, pauses, cached, fetch, optimisticItems>>
  BY DEF PinnedServers!PinReads, PinnedServers!At
<1>2. CASE PinnedServers!Fails(r)
  BY <1>1, <1>2, BecomesMoves DEF PinnedServers!Fails, RequestStages, PinInv
<1>3. CASE /\ requests[r].server \in tracked
           /\ requests' = [requests EXCEPT ![r].at = "checked", ![r].next = PinnedServers!next_position]
  <2>1. PICK old, next, rest, answer : old = requests[r] /\ next = PinnedServers!next_position
            /\ rest = old.rest /\ answer = old.answer
    OBVIOUS
  <2>2. old \in PinnedServers!Request /\ next \in Nat
    BY <1>1, <2>1, AnyRequest, NextPosition
  <2>3. old.server \in Pinnable
    BY <1>3, <2>1 DEF PinInv
  <2>4. rest \in PinnedServers!List /\ answer \in PinnedServers!List /\ "checked" \in RequestStages
    BY <2>1, <2>2, RequestParts DEF RequestStages
  <2>5. PICK p : p = [old EXCEPT !.at = "checked", !.next = next, !.rest = rest, !.answer = answer]
    OBVIOUS
  <2>6. IsPinRequest(p)
    BY <1>1, <2>1, <2>2, <2>3, <2>4, <2>5, AnyRequest, WithData
  <2>7. p = [old EXCEPT !.at = "checked", !.next = next]
    BY <2>1, <2>2, <2>5 DEF PinnedServers!Request
  <2>8. requests' = [requests EXCEPT ![r] = p]
    BY <1>1, <1>3, <2>1, <2>7
  <2>9. QED
    BY <1>1, <2>6, <2>8, RequestMoves DEF PinInv
<1>4. QED
  BY <1>2, <1>3 DEF PinnedServers!PinReads

LEMMA PinInsertsStep == ASSUME PinInv, NEW r, PinnedServers!PinInserts(r) PROVE PinInv'
<1>1. /\ r \in DOMAIN requests /\ requests[r].at = "checked" /\ requests[r].kind = "pin"
      /\ UNCHANGED <<tracked, pauses, cached, fetch, optimisticItems>>
  BY DEF PinnedServers!PinInserts, PinnedServers!At
<1>2. CASE PinnedServers!Fails(r) /\ UNCHANGED position
  BY <1>1, <1>2, BecomesMoves DEF PinnedServers!Fails, RequestStages, PinInv
<1>3. CASE /\ position' = [s \in DOMAIN position \cup {requests[r].server} |->
                              IF s \in DOMAIN position THEN position[s] ELSE requests[r].next]
           /\ PinnedServers!Builds(r)
  <2>1. PICK old, server, next : old = requests[r] /\ server = old.server /\ next = old.next
    OBVIOUS
  <2>2. old \in PinnedServers!Request /\ IsPinRequest(old)
    BY <1>1, <2>1, AnyRequest
  <2>3. server \in Pinnable /\ next \in Nat
    BY <1>1, <2>1, <2>2, RequestParts DEF IsPinRequest
  <2>4. /\ DOMAIN position' = DOMAIN position \cup {server}
        /\ \A s \in DOMAIN position' : position'[s] = IF s \in DOMAIN position THEN position[s] ELSE next
    BY <1>3, <2>1
  <2>5. DOMAIN position' \subseteq Pinnable /\ \A s \in DOMAIN position' : position'[s] \in Nat
    BY <2>3, <2>4 DEF PinInv
  <2>6. QED
    BY <1>1, <1>3, <2>5, BecomesMoves DEF PinnedServers!Builds, RequestStages
<1>4. QED
  BY <1>2, <1>3 DEF PinnedServers!PinInserts, PinnedServers!pinned

LEMMA UnpinDeletesStep == ASSUME PinInv, NEW r, PinnedServers!UnpinDeletes(r) PROVE PinInv'
<1>1. /\ r \in DOMAIN requests
      /\ UNCHANGED <<tracked, pauses, cached, fetch, optimisticItems>>
  BY DEF PinnedServers!UnpinDeletes, PinnedServers!At
<1>2. CASE PinnedServers!Fails(r) /\ UNCHANGED position
  BY <1>1, <1>2, BecomesMoves DEF PinnedServers!Fails, RequestStages, PinInv
<1>3. CASE /\ position' = [s \in DOMAIN position \ {requests[r].server} |-> position[s]]
           /\ PinnedServers!To(r, "deleted")
  <2>1. DOMAIN position' \subseteq Pinnable /\ \A s \in DOMAIN position' : position'[s] \in Nat
    BY <1>3 DEF PinInv
  <2>2. QED
    BY <1>1, <1>3, <2>1, ToMoves DEF RequestStages
<1>4. QED
  BY <1>2, <1>3 DEF PinnedServers!UnpinDeletes, PinnedServers!pinned

LEMMA CompactReadsStep == ASSUME PinInv, NEW r, PinnedServers!CompactReads(r) PROVE PinInv'
<1>1. /\ r \in DOMAIN requests
      /\ UNCHANGED <<position, tracked, pauses, cached, fetch, optimisticItems>>
  BY DEF PinnedServers!CompactReads, PinnedServers!At
<1>2. PICK l \in PinnedServers!list_by_user :
          requests' = [requests EXCEPT ![r].at = "compacting", ![r].rest = l, ![r].next = 0]
  BY DEF PinnedServers!CompactReads
<1>3. l \in PinnedServers!List
  BY <1>2, ServersList DEF PinnedServers!list_by_user, PinnedServers!pinned, PinInv
<1>4. PICK old, answer : old = requests[r] /\ answer = old.answer
  OBVIOUS
<1>5. old \in PinnedServers!Request
  BY <1>1, <1>4, AnyRequest
<1>6. answer \in PinnedServers!List /\ "compacting" \in RequestStages
  BY <1>4, <1>5, RequestParts DEF RequestStages
<1>7. PICK p : p = [old EXCEPT !.at = "compacting", !.next = 0, !.rest = l, !.answer = answer]
  OBVIOUS
<1>8. IsPinRequest(p)
  BY <1>1, <1>3, <1>4, <1>6, <1>7, AnyRequest, WithData
<1>9. p = [old EXCEPT !.at = "compacting", !.rest = l, !.next = 0]
  BY <1>4, <1>5, <1>7 DEF PinnedServers!Request
<1>10. requests' = [requests EXCEPT ![r] = p]
  BY <1>1, <1>2, <1>4, <1>9
<1>11. QED
  BY <1>1, <1>8, <1>10, RequestMoves DEF PinInv

LEMMA CompactUpdatesStep == ASSUME PinInv, NEW r, PinnedServers!CompactUpdates(r) PROVE PinInv'
<1>1. /\ r \in DOMAIN requests /\ requests[r].at = "compacting"
      /\ UNCHANGED <<tracked, pauses, cached, fetch, optimisticItems>>
  BY DEF PinnedServers!CompactUpdates, PinnedServers!At
<1>2. CASE PinnedServers!Builds(r) /\ UNCHANGED position
  BY <1>1, <1>2, BecomesMoves DEF PinnedServers!Builds, RequestStages, PinInv
<1>3. CASE /\ requests[r].rest # <<>>
           /\ position' = PinnedServers!Placed(<<Head(requests[r].rest)>>, requests[r].next)
           /\ requests' = [requests EXCEPT ![r].rest = Tail(@), ![r].next = @ + 1]
  <2>1. PICK old, rest, next, answer, at : old = requests[r] /\ rest = old.rest /\ next = old.next
            /\ answer = old.answer /\ at = old.at
    OBVIOUS
  <2>2. old \in PinnedServers!Request
    BY <1>1, <2>1, AnyRequest
  <2>3. /\ rest \in PinnedServers!List /\ next \in Nat /\ answer \in PinnedServers!List
        /\ at \in RequestStages /\ at # "checked"
    BY <1>1, <2>1, <2>2, RequestParts
  <2>4. PICK l, t : l = <<Head(rest)>> /\ t = Tail(rest)
    OBVIOUS
  <2>5. l \in PinnedServers!List
    BY <1>3, <2>1, <2>3, <2>4, HeadOfList
  <2>6. t \in PinnedServers!List
    BY <1>3, <2>1, <2>3, <2>4, TailOfList
  <2>7. position' = PinnedServers!Placed(l, next)
    BY <1>3, <2>1, <2>4
  <2>8. DOMAIN position' = DOMAIN position /\ \A s \in DOMAIN position : position'[s] \in Nat
    BY <2>3, <2>5, <2>7, PlacedType
  <2>9. DOMAIN position' \subseteq Pinnable /\ \A s \in DOMAIN position' : position'[s] \in Nat
    BY <2>8 DEF PinInv
  <2>10. PICK n, p : n = next + 1
            /\ p = [old EXCEPT !.at = at, !.next = n, !.rest = t, !.answer = answer]
    OBVIOUS
  <2>11. n \in Nat
    BY <2>3, <2>10
  <2>12. IsPinRequest(p)
    <3>1. at = "checked" => old.kind # "pin" \/ old.server \in Pinnable
      BY <2>3
    <3>2. IsPinRequest(old)
      BY <1>1, <2>1, AnyRequest
    <3>3. QED
      BY <2>3, <2>6, <2>10, <2>11, <3>1, <3>2, WithData
  <2>13. p = [old EXCEPT !.rest = t, !.next = n]
    BY <2>1, <2>2, <2>10 DEF PinnedServers!Request
  <2>14. requests' = [requests EXCEPT ![r].rest = t, ![r].next = n]
    BY <1>1, <1>3, <2>1, <2>4, <2>10
  <2>15. requests' = [requests EXCEPT ![r] = p]
    BY <1>1, <2>1, <2>13, <2>14
  <2>16. QED
    BY <1>1, <2>9, <2>12, <2>15, RequestMoves DEF PinInv
<1>4. QED
  BY <1>2, <1>3 DEF PinnedServers!CompactUpdates

LEMMA ReorderStep ==
    ASSUME PinInv, NEW r, PinnedServers!ReorderChecks(r) \/ PinnedServers!ReorderCommits(r)
    PROVE  PinInv'
<1>1. /\ r \in DOMAIN requests /\ requests[r].kind = "reorder"
      /\ UNCHANGED <<tracked, pauses, cached, fetch, optimisticItems>>
  BY DEF PinnedServers!ReorderChecks, PinnedServers!ReorderCommits, PinnedServers!At
<1>2. CASE PinnedServers!Fails(r) /\ UNCHANGED position
  BY <1>1, <1>2, BecomesMoves DEF PinnedServers!Fails, RequestStages, PinInv
<1>3. CASE PinnedServers!To(r, "checked") /\ UNCHANGED position
  BY <1>1, <1>3, ToMoves DEF RequestStages, PinInv
<1>4. CASE position' = PinnedServers!Placed(requests[r].order, 0) /\ PinnedServers!Builds(r)
  <2>1. PICK old, order : old = requests[r] /\ order = old.order
    OBVIOUS
  <2>2. order \in PinnedServers!List
    BY <1>1, <2>1, AnyRequest, RequestParts
  <2>3. position' = PinnedServers!Placed(order, 0)
    BY <1>4, <2>1
  <2>4. DOMAIN position' = DOMAIN position /\ \A s \in DOMAIN position : position'[s] \in Nat
    BY <2>2, <2>3, PlacedType
  <2>5. DOMAIN position' \subseteq Pinnable /\ \A s \in DOMAIN position' : position'[s] \in Nat
    BY <2>4 DEF PinInv
  <2>6. QED
    BY <1>1, <1>4, <2>5, BecomesMoves DEF PinnedServers!Builds, RequestStages
<1>5. QED
  BY <1>2, <1>3, <1>4 DEF PinnedServers!ReorderChecks, PinnedServers!ReorderCommits

LEMMA RespondsStep == ASSUME PinInv, NEW r, PinnedServers!Responds(r) PROVE PinInv'
<1>1. /\ r \in DOMAIN requests
      /\ UNCHANGED <<position, tracked, pauses, cached, fetch, optimisticItems>>
  BY DEF PinnedServers!Responds
<1>2. PICK l \in PinnedServers!build_pinned_response :
          requests' = [requests EXCEPT ![r].at = "answered", ![r].answer = l]
  BY DEF PinnedServers!Responds
<1>3. l \in PinnedServers!List
  BY <1>2, AnswersList
<1>4. PICK old, next, rest : old = requests[r] /\ next = old.next /\ rest = old.rest
  OBVIOUS
<1>5. old \in PinnedServers!Request
  BY <1>1, <1>4, AnyRequest
<1>6. next \in Nat /\ rest \in PinnedServers!List /\ "answered" \in RequestStages
  BY <1>4, <1>5, RequestParts DEF RequestStages
<1>7. PICK p : p = [old EXCEPT !.at = "answered", !.next = next, !.rest = rest, !.answer = l]
  OBVIOUS
<1>8. IsPinRequest(p)
  BY <1>1, <1>3, <1>4, <1>6, <1>7, AnyRequest, WithData
<1>9. p = [old EXCEPT !.at = "answered", !.answer = l]
  BY <1>4, <1>5, <1>7 DEF PinnedServers!Request
<1>10. requests' = [requests EXCEPT ![r] = p]
  BY <1>1, <1>2, <1>4, <1>9
<1>11. QED
  BY <1>1, <1>8, <1>10, RequestMoves DEF PinInv

LEMMA EndsStep ==
    ASSUME PinInv, NEW r,
           PinnedServers!OnSuccess(r) \/ PinnedServers!OnError(r) \/ PinnedServers!RequestFails(r)
    PROVE  PinInv'
<1>1. r \in DOMAIN requests /\ UNCHANGED <<position, tracked, pauses, fetch>>
  BY DEF PinnedServers!OnSuccess, PinnedServers!OnError, PinnedServers!RequestFails
<1>2. CASE PinnedServers!RequestFails(r)
  BY <1>1, <1>2, BecomesMoves DEF PinnedServers!RequestFails, PinnedServers!Fails, RequestStages, PinInv
<1>3. CASE PinnedServers!OnSuccess(r) \/ PinnedServers!OnError(r)
  <2>1. PICK old, q : old = requests[r] /\ q = PinnedServers!NewRequest("pin", None, None, <<>>, "over")
    OBVIOUS
  <2>2. old.answer \in PinnedServers!List
    BY <1>1, <2>1, AnyRequest, RequestParts
  <2>3. cached' \in PinnedServers!List /\ optimisticItems' \in PinnedServers!List \cup {None}
    BY <1>3, <2>1, <2>2 DEF PinnedServers!OnSuccess, PinnedServers!OnError, PinnedServers!Settles, PinInv
  <2>4. IsPinRequest(q)
    BY <2>1, EmptyList, FreshRequest DEF RequestStages
  <2>5. requests' = [requests EXCEPT ![r] = q]
    BY <1>3, <2>1 DEF PinnedServers!OnSuccess, PinnedServers!OnError, PinnedServers!Ends
  <2>6. QED
    BY <1>1, <2>3, <2>4, <2>5, RequestMoves DEF PinInv
<1>4. QED
  BY <1>2, <1>3

LEMMA RequestAsked ==
    ASSUME PinInv, NEW kind \in {"pin", "unpin", "reorder"},
           NEW place \in PinnedServers!Place \cup {None}, NEW server \in Pinnable \cup {None},
           NEW order \in PinnedServers!List, PinnedServers!Ask(kind, place, server, order),
           UNCHANGED <<position, tracked, pauses, cached, fetch>>,
           optimisticItems' \in PinnedServers!List \cup {None}
    PROVE  PinInv'
<1>1. PICK old, new, q : old = requests /\ new = requests' /\
          q = PinnedServers!NewRequest(kind, place, server, order, "sent")
  OBVIOUS
<1>2. IsPinRequest(q)
  BY <1>1, FreshRequest DEF RequestStages
<1>3. new = Append(old, q)
  BY <1>1 DEF PinnedServers!Ask
<1>4. Requested(new)
  BY <1>1, <1>2, <1>3, RequestAppended DEF PinInv
<1>5. QED
  BY <1>1, <1>4 DEF PinInv

LEMMA UserStep ==
    ASSUME PinInv,
           \/ \E s \in Pinnable, place \in PinnedServers!Place : PinnedServers!ClickPin(place, s)
           \/ PinnedServers!handleDragEnd
    PROVE  PinInv'
<1>1. ASSUME NEW s \in Pinnable, NEW place \in PinnedServers!Place, PinnedServers!ClickPin(place, s)
      PROVE  PinInv'
  <2>1. PICK kind : kind = IF PinnedServers!PinButton(place, s).pressed THEN "unpin" ELSE "pin"
    OBVIOUS
  <2>2. kind \in {"pin", "unpin", "reorder"} /\ PinnedServers!Ask(kind, place, s, <<>>)
        /\ UNCHANGED <<position, tracked, pauses, cached, fetch, optimisticItems>>
    BY <1>1, <2>1 DEF PinnedServers!ClickPin
  <2>3. PICK none \in PinnedServers!List : none = <<>>
    BY EmptyList
  <2>4. PinnedServers!Ask(kind, place, s, none)
    BY <2>2, <2>3
  <2>5. s \in Pinnable \cup {None} /\ place \in PinnedServers!Place \cup {None}
        /\ optimisticItems' \in PinnedServers!List \cup {None}
    BY <2>2 DEF PinInv
  <2>6. QED
    BY <2>2, <2>4, <2>5, RequestAsked
<1>2. CASE PinnedServers!handleDragEnd
  <2>1. PICK items \in {PinnedServers!PinnedServersGrid, PinnedServers!AccountPinnedServersSection} :
        \E i, j \in DOMAIN items :
            /\ optimisticItems' = PinnedServers!arrayMove(items, i, j)
            /\ PinnedServers!Ask("reorder", None, None, optimisticItems')
    BY <1>2 DEF PinnedServers!handleDragEnd
  <2>2. items \in PinnedServers!List
    BY <2>1, EmptyList DEF PinnedServers!PinnedServersGrid, PinnedServers!AccountPinnedServersSection,
       PinnedServers!Items, PinInv
  <2>3. PICK i \in DOMAIN items, j \in DOMAIN items :
            /\ optimisticItems' = PinnedServers!arrayMove(items, i, j)
            /\ PinnedServers!Ask("reorder", None, None, optimisticItems')
    BY <2>1
  <2>4. PICK order : order = optimisticItems'
    OBVIOUS
  <2>5. order \in PinnedServers!List
    BY <2>2, <2>3, <2>4, MovedList
  <2>6. PinnedServers!Ask("reorder", None, None, order)
    BY <2>3, <2>4
  <2>7. UNCHANGED <<position, tracked, pauses, cached, fetch>>
    BY <1>2 DEF PinnedServers!handleDragEnd
  <2>8. PICK none, kind : none = None /\ kind = "reorder"
    OBVIOUS
  <2>9. /\ none \in Pinnable \cup {None} /\ none \in PinnedServers!Place \cup {None}
        /\ kind \in {"pin", "unpin", "reorder"} /\ optimisticItems' \in PinnedServers!List \cup {None}
    BY <2>4, <2>5, <2>8
  <2>10. PinnedServers!Ask(kind, none, none, order)
    BY <2>6, <2>8
  <2>11. QED
    BY <2>5, <2>7, <2>9, <2>10, RequestAsked
<1>3. QED
  BY <1>1, <1>2

LEMMA PinStep == ASSUME PinInv, PinnedServers!Next \/ UNCHANGED pinVars PROVE PinInv'
<1>1. CASE UNCHANGED pinVars
  <2>1. requests' = requests
    BY <1>1 DEF pinVars
  <2>2. QED
    BY <1>1, <2>1 DEF PinInv, pinVars
<1>2. CASE PinnedServers!Fetches
  <2>1. UNCHANGED <<position, tracked, pauses, requests, optimisticItems>>
    BY <1>2 DEF PinnedServers!Fetches, PinnedServers!FetchAnswers, PinnedServers!FetchArrives
  <2>2. cached' \in PinnedServers!List /\ fetch' \in [answered : BOOLEAN, answer : PinnedServers!List]
    <3>1. CASE PinnedServers!FetchAnswers
      BY <3>1, AnswersList DEF PinnedServers!FetchAnswers, PinInv
    <3>2. CASE PinnedServers!FetchArrives
      BY <3>2, EmptyList DEF PinnedServers!FetchArrives, PinInv
    <3>3. QED
      BY <1>2, <3>1, <3>2 DEF PinnedServers!Fetches
  <2>3. QED
    BY <2>1, <2>2 DEF PinInv
<1>3. ASSUME NEW s \in Pausable, PinnedServers!Pauses(s) PROVE PinInv'
  <2>1. UNCHANGED <<position, requests, cached, fetch, optimisticItems>>
    BY <1>3 DEF PinnedServers!Pauses
  <2>2. tracked' \subseteq Pinnable /\ pauses' \in 0 .. MaxPauses
    BY <1>3, PinsAssumption DEF PinnedServers!Pauses, PinInv
  <2>3. QED
    BY <2>1, <2>2 DEF PinInv
<1>4. ASSUME NEW r, PinnedServers!Handler(r) \/ PinnedServers!RequestFails(r) PROVE PinInv'
  BY <1>4, PinReadsStep, PinInsertsStep, UnpinDeletesStep, CompactReadsStep, CompactUpdatesStep,
     ReorderStep, RespondsStep, EndsStep DEF PinnedServers!Handler
<1>5. QED
  BY <1>1, <1>2, <1>3, <1>4, UserStep DEF PinnedServers!Next

LEMMA PinInit == ASSUME PinnedServers!Init PROVE PinInv
<1>1. /\ tracked = Pinnable /\ pauses = 0 /\ requests = <<>> /\ cached = <<>>
      /\ optimisticItems = None /\ fetch = [answered |-> FALSE, answer |-> <<>>]
  BY DEF PinnedServers!Init
<1>2. DOMAIN position \subseteq Pinnable /\ \A s \in DOMAIN position : position[s] \in Nat
  <2>1. CASE position = <<>>
    <3>1. DOMAIN position = {}
      BY <2>1
    <3>2. QED
      BY <3>1
  <2>2. CASE position \in [Pinnable -> 0 .. Cardinality(Pinnable) - 1]
    BY <2>2, FS_CardinalityType, PinsAssumption
  <2>3. position = <<>> \/ position \in [Pinnable -> 0 .. PinnedServers!Cardinality(Pinnable) - 1]
    BY DEF PinnedServers!Init, PinnedServers!Earlier
  <2>4. PinnedServers!Cardinality(Pinnable) = Cardinality(Pinnable)
    BY DEF PinnedServers!Cardinality, Cardinality, PinnedServers!IsFiniteSet, IsFiniteSet
  <2>5. QED
    BY <2>1, <2>2, <2>3, <2>4
<1>3. PICK none : none = <<>>
  OBVIOUS
<1>4. Requested(none)
  <2>1. DOMAIN none = {} /\ none \in Seq(PinnedServers!Request)
    BY <1>3
  <2>2. QED
    BY <2>1 DEF Requested
<1>5. Requested(requests)
  BY <1>1, <1>3, <1>4
<1>6. fetch \in [answered : BOOLEAN, answer : PinnedServers!List] /\ cached \in PinnedServers!List
  BY <1>1, EmptyList
<1>7. pauses \in 0 .. MaxPauses
  BY <1>1, PinsAssumption
<1>8. QED
  BY <1>1, <1>2, <1>5, <1>6, <1>7 DEF PinInv

LEMMA PinTyped == ASSUME PinInv PROVE PinnedServers!TypeOK
<1>1. PinnedServers!Range(position) \subseteq Nat
  BY DEF PinInv, PinnedServers!Range
<1>2. QED
  BY <1>1 DEF PinInv, Requested, PinnedServers!TypeOK

-----------------------------------------------------------------------------
(* The browser                                                               *)

\* A time range that was accepted by picker, zoom, preset or link is the one
\* shown, whoever opens its link later sees it too, and no chart is drawn with
\* its axis reversed.
THEOREM RangeAlwaysHolds == Spec => []RangeHolds
<1>1. Init => WindowInv
  BY InitWindowInv DEF Init
<1>2. WindowInv /\ [Next]_vars => WindowInv'
  BY StepWindowInv, PartSteps
<1>3. WindowInv => RangeHolds
  BY AcceptedShown, Upright DEF RangeHolds
<1>4. QED
  BY <1>1, <1>2, <1>3, PTL DEF Spec

\* A form without edits shows the settings stored, or the next refetch is due to
\* replace what it shows; and a save of one of the two numbers that depend on
\* one another keeps their order.
THEOREM SettingsAlwaysHold == Spec => SettingsHold
<1> DEFINE Inv == FormInv /\ CheckHolds
<1>1. Init => Inv
  BY FormInit DEF Init
<1>2. Inv /\ [Next]_vars => Inv'
  BY FormStep, PartSteps
<1>3. Inv => (page = "form" => Form!FormShowsStored)
  BY ShownIsStored
<1>4. Inv /\ [Next]_vars => [page = "form" => Form!PairHolds]_vars
  BY PairStep, PartSteps
<1> HIDE DEF Inv
<1>5. QED
  BY <1>1, <1>2, <1>3, <1>4, PTL DEF Spec, SettingsHold

\* Whatever was changed, and in whatever order the answers came, the lists of an
\* admin page show the tables again once nothing is under way; and a server is
\* only added with the details that a lookup reached.
THEOREM AdminListsAlwaysTrue == Spec => AdminListsTrue
<1>1. Init => AdminInv
  BY AdminInit DEF Init
<1>2. AdminInv /\ [Next]_vars => AdminInv'
  BY AdminStep, PartSteps
<1>3. AdminInv => (page = "admin" => Admin!ListTellsTable)
  BY ListTold
<1>4. AdminInv /\ [Next]_vars => [page = "admin" => Admin!AddedWasReached]_vars
  BY AddedStep, PartSteps
<1>5. QED
  BY <1>1, <1>2, <1>3, <1>4, PTL DEF Spec, AdminListsTrue

\* Whatever is clicked, followed, copied, reloaded or chosen in another tab, and
\* whatever a loader fails at: once it has answered, a list is sorted as was chosen
\* last, its rows turn with the order, and a list on the screen stays until the next
\* one is there.
THEOREM SortAlwaysSurvives == Spec => SortSurvives
<1>1. Init => ListInv
  BY ListInit DEF Init
<1>2. ListInv /\ [Next]_vars => ListInv'
  BY ListsStep, PartSteps
<1>3. ListInv => (page = "lists" => Listing!ChosenIsShown)
  BY ListShown
<1>4. ListInv /\ [Next]_vars => [page = "lists" => Listing!ListTurns]_vars
  BY ListSorts, PartSteps
<1>5. QED
  BY <1>1, <1>2, <1>3, <1>4, PTL DEF Spec, SortSurvives

\* The types of every part, in whatever order its steps come.  Among others: no
\* list of pins names a server twice, which the handler of a reorder counts on,
\* every answer of the chat belongs to a session there is, and every row that a
\* handler writes is a row of its page.
THEOREM PagesAlwaysTyped == Spec => []TypeOK
<1>1. Spec => [](page \in Pages)
  <2>1. Init => page \in Pages
    BY DEF Init
  <2>2. page \in Pages /\ [Next]_vars => (page \in Pages)'
    BY DEF Next, vars, On, OnChat, OnHydration, OnCard, OnWindow, OnPlot, OnEvents, OnPins, OnLists,
       OnForm, OnAdmin
  <2>3. QED
    BY <2>1, <2>2, PTL DEF Spec
<1>2. Spec => []Chat!TypeOK
  <2> DEFINE Inv == ChatInv /\ MoreChatTypes
  <2>1. Init => Inv
    BY ChatInit, MoreChatTypesInit DEF Init
  <2>2. Inv /\ [Next]_vars => Inv'
    BY ChatKept, MoreChatTypesStep, PartSteps
  <2>3. Inv => Chat!TypeOK
    BY ChatTyped
  <2> HIDE DEF Inv
  <2>4. QED
    BY <2>1, <2>2, <2>3, PTL DEF Spec
<1>3. Spec => []Hydration!TypeOK
  <2> DEFINE Inv == HydrationInv /\ QueueTypes
  <2>1. Init => Inv
    BY HydrationInit, QueueTypesInit DEF Init
  <2>2. Inv /\ [Next]_vars => Inv'
    BY HydrationStep, QueueTypesStep, PartSteps
  <2>3. Inv => Hydration!TypeOK
    BY QueueTyped
  <2> HIDE DEF Inv
  <2>4. QED
    BY <2>1, <2>2, <2>3, PTL DEF Spec
<1>4. Spec => []Card!TypeOK
  <2> DEFINE Inv == CardInv /\ MoreCardTypes
  <2>1. Init => Inv
    BY CardInit, CardTypesInit DEF Init
  <2>2. Inv /\ [Next]_vars => Inv'
    BY CardStep, CardTypesStep, PartSteps
  <2>3. Inv => Card!TypeOK
    BY CardTyped
  <2> HIDE DEF Inv
  <2>4. QED
    BY <2>1, <2>2, <2>3, PTL DEF Spec
<1>5. Spec => []Window!TypeOK
  <2> DEFINE Inv == WindowInv /\ WindowTypes
  <2>1. Init => Inv
    BY InitWindowInv, WindowTypesInit DEF Init
  <2>2. Inv /\ [Next]_vars => Inv'
    BY StepWindowInv, WindowTypesStep, PartSteps
  <2>3. Inv => Window!TypeOK
    BY WindowTyped
  <2> HIDE DEF Inv
  <2>4. QED
    BY <2>1, <2>2, <2>3, PTL DEF Spec
<1>6. Spec => []Plot!TypeOK
  <2> DEFINE Inv == PlotInv /\ PlotTypes
  <2>1. Init => Inv
    BY PlotInit, PlotTypesInit DEF Init
  <2>2. Inv /\ [Next]_vars => Inv'
    BY PlotStep, PlotTypesStep, PartSteps
  <2>3. Inv => Plot!TypeOK
    BY PlotTyped
  <2> HIDE DEF Inv
  <2>4. QED
    BY <2>1, <2>2, <2>3, PTL DEF Spec
<1>7. Spec => []Events!TypeOK
  <2> DEFINE Inv == EventsInv /\ EventTypes
  <2>1. Init => Inv
    BY EventsInit, EventTypesInit DEF Init
  <2>2. Inv /\ [Next]_vars => Inv'
    BY EventsStep, EventTypesStep, PartSteps
  <2>3. Inv => Events!TypeOK
    BY EventsTyped
  <2> HIDE DEF Inv
  <2>4. QED
    BY <2>1, <2>2, <2>3, PTL DEF Spec
<1>8. Spec => []PinnedServers!TypeOK
  <2>1. Init => PinInv
    BY PinInit DEF Init
  <2>2. PinInv /\ [Next]_vars => PinInv'
    BY PinStep, PartSteps
  <2>3. PinInv => PinnedServers!TypeOK
    BY PinTyped
  <2>4. QED
    BY <2>1, <2>2, <2>3, PTL DEF Spec
<1>9. Spec => []Listing!TypeOK
  <2>1. Init => ListInv
    BY ListInit DEF Init
  <2>2. ListInv /\ [Next]_vars => ListInv'
    BY ListsStep, PartSteps
  <2>3. ListInv => Listing!TypeOK
    BY ListsTyped
  <2>4. QED
    BY <2>1, <2>2, <2>3, PTL DEF Spec
<1>10. Spec => []Form!TypeOK
  <2> DEFINE Inv == FormInv /\ CheckHolds /\ SaveTypes
  <2>1. Init => Inv
    BY FormInit, SaveTypesInit DEF Init
  <2>2. Inv /\ [Next]_vars => Inv'
    BY FormStep, SaveTypesStep, PartSteps
  <2>3. Inv => Form!TypeOK
    BY FormTyped
  <2> HIDE DEF Inv
  <2>4. QED
    BY <2>1, <2>2, <2>3, PTL DEF Spec
<1>11. Spec => []Admin!TypeOK
  <2> DEFINE Inv == AdminInv /\ AdminTypes /\ route \in DOMAIN StoredRows
  <2>1. Init => Inv
    BY AdminInit, AdminTypesInit DEF Init
  <2>2. Inv /\ [Next]_vars => Inv'
    BY AdminStep, AdminTypesStep, PartSteps
  <2>3. Inv => Admin!TypeOK
    BY AdminTyped
  <2> HIDE DEF Inv
  <2>4. QED
    BY <2>1, <2>2, <2>3, PTL DEF Spec
<1>12. /\ page \in Pages /\ Chat!TypeOK /\ Hydration!TypeOK /\ Card!TypeOK /\ Window!TypeOK
       /\ Plot!TypeOK /\ Events!TypeOK /\ PinnedServers!TypeOK /\ Listing!TypeOK /\ Form!TypeOK
       /\ Admin!TypeOK
       => TypeOK
  BY DEF TypeOK, At
<1>13. QED
  BY <1>1, <1>2, <1>3, <1>4, <1>5, <1>6, <1>7, <1>8, <1>9, <1>10, <1>11, <1>12, PTL
=============================================================================
