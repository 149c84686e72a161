-------------------------------- MODULE Web --------------------------------
(***************************************************************************)
(* The browser: the stateful parts of the frontend side by side.  They      *)
(* share no state but the server's, so a behaviour is one of one part, the  *)
(* others at rest: a state of the whole is a state of that part, and what   *)
(* is checked of each is checked of all its own interleavings (clicks,      *)
(* frames of the browser, answers in any order).                            *)
(***************************************************************************)
EXTENDS Integers, Sequences, FiniteSets

CONSTANTS
  None,
  Sessions, MaxTurns, MaxParts, MaxAsked, Limit, Exempt,              \* ChatWidget
  Charts, CHARTS_PER_FRAME, MaxEntries,                               \* ChartHydration
  RefreshInterval, StaleTime, MaxCrossings, MaxAge,                   \* LazyChart
  METRIC_RANGE_LOOKBACK, DEFAULT_METRIC_TIME_RANGE, MIN_SPAN, MAX_SPAN,
  Minute, RefreshEvery, Start, End,                                   \* TimeWindow
  Labels, Lanes, MAX_TOOLTIP_ENTRIES,                                 \* MetricChart
  Width, Gutter, PxRatios, MaxEvents,                                 \* ChartEvents
  CHART_EVENT_ANNOTATION_HOVER_THRESHOLD_PX,
  CHART_EVENT_ANNOTATION_TOOLTIP_SUPPRESS_PX,
  CHART_EVENT_ANNOTATION_MERGE_THRESHOLD_PX,
  Pinnable, Pausable, MaxRequests, MaxPauses,                         \* Pins
  AllItems, Network, TableFields, Platforms, Elsewhere,               \* ServerLists
  Numbers, TypedLists, MaxEdits, MaxSaves,                            \* SettingsPage
  StoredRows, Bodies, USER_FLAGS, MaxSteps                            \* AdminPages

VARIABLES
  page,
  open, user, messages, sessionId, isStreaming, abortRef, quotaUsed, turn,
  unwinding, history, saved, counted,
  mounted, near, entries, intersecting, hydrated, queue, flushScheduled,
  storeChangedKeys, storeFlushScheduled, ready,
  cardNear, crossings, item, notifyDue, seen, query, dirty, refetchIn, checkIn, focused,
  now, epochAnchor, search, timeWindow, draft,
  mode, config, hiddenLabels, override, yMaxFloor, uplot,
  pxRatio, events, showAnnotations, mouse, cursorAt, seriesTip, annotationHover,
  position, tracked, pauses, requests, cached, fetch, optimisticItems,
  url, link, loading, stored, storedSort, loaded, rendered, chosen,
  rows, cache, listed, refetch, formDraft, apiKeyDraft, patch, orphans, saving,
  edits, saves,
  route, stock, inMemory, shown, refetches, createForm, checkedBody, lookupState, dialog,
  mutations, reached, unheard, overtaken

chatVars == <<open, user, messages, sessionId, isStreaming, abortRef, quotaUsed, turn,
              unwinding, history, saved, counted>>
hydVars == <<mounted, near, entries, intersecting, hydrated, queue, flushScheduled,
             storeChangedKeys, storeFlushScheduled, ready>>
cardVars == <<cardNear, crossings, item, notifyDue, seen, query, dirty, refetchIn,
              checkIn, focused>>
timeVars == <<now, epochAnchor, search, timeWindow, draft>>
plotVars == <<mode, config, hiddenLabels, override, yMaxFloor, uplot>>
eventVars == <<pxRatio, events, showAnnotations, mouse, cursorAt, seriesTip, annotationHover>>
pinVars == <<position, tracked, pauses, requests, cached, fetch, optimisticItems>>
listVars == <<url, link, loading, stored, storedSort, loaded, rendered, chosen>>
formVars == <<rows, cache, listed, refetch, formDraft, apiKeyDraft, patch, orphans, saving,
              edits, saves>>
adminVars == <<route, stock, inMemory, shown, refetches, createForm, checkedBody,
               lookupState, dialog, mutations, reached, unheard, overtaken>>
vars == <<page, chatVars, hydVars, cardVars, timeVars, plotVars, eventVars, pinVars,
          listVars, formVars, adminVars>>

-----------------------------------------------------------------------------
Chat == INSTANCE ChatWidget
Hydration == INSTANCE ChartHydration
Card == INSTANCE LazyChart
Window == INSTANCE TimeWindow
Plot == INSTANCE MetricChart
Events == INSTANCE ChartEvents
PinnedServers == INSTANCE Pins
Listing == INSTANCE ServerLists
Form == INSTANCE SettingsPage
Admin == INSTANCE AdminPages

\* What the proofs need of the constants.  A turn has a number.
ASSUME ChatAssumption == None \notin Nat /\ MaxTurns \in Nat /\ Limit \in Nat

ASSUME HydrationAssumption == CHARTS_PER_FRAME \in Nat

ASSUME CardAssumption == RefreshInterval \in Nat /\ StaleTime \in Nat \ {0} /\ MaxAge \in Nat

\* window-policy.ts, range.ts, refresh-interval.ts: a preset is no longer than
\* the longest range, and the automatic refresh comes within the shortest one.
ASSUME WindowAssumption ==
    /\ {MIN_SPAN, MAX_SPAN, RefreshEvery, Start, End} \subseteq Int
    /\ Minute \in Int /\ Minute > 0 /\ Start <= End
    /\ 0 < MIN_SPAN /\ 0 <= RefreshEvery /\ RefreshEvery <= MIN_SPAN
    /\ METRIC_RANGE_LOOKBACK \in [Window!Presets -> 1 .. MAX_SPAN]
    /\ DEFAULT_METRIC_TIME_RANGE \in Window!Presets
    /\ None \notin Int /\ None \notin Window!Presets

\* series.ts: the series of a chart have a number of players, or none, at the
\* same times.  Labels are numbers, in the order of localeCompare.
ASSUME PlotAssumption ==
    /\ Labels \subseteq Int /\ MAX_TOOLTIP_ENTRIES \in Nat \ {0}
    /\ None \notin Int \cup [key : Seq(Labels), hidden : SUBSET Nat]
    /\ \A m \in {"line", "stack"} : \A v, w \in Lanes[m] :
          v \in Seq(Nat \cup {None}) /\ Len(v) = Len(w)

\* chart-event-annotations.ts:9-13: within reach of a label's hover the values of
\* the series are suppressed.
ASSUME EventsAssumption ==
    /\ Width \in Nat /\ Gutter \in Int /\ PxRatios \subseteq Int
    /\ CHART_EVENT_ANNOTATION_MERGE_THRESHOLD_PX \in Nat
    /\ CHART_EVENT_ANNOTATION_HOVER_THRESHOLD_PX \in Nat
    /\ CHART_EVENT_ANNOTATION_TOOLTIP_SUPPRESS_PX \in Nat
    /\ CHART_EVENT_ANNOTATION_HOVER_THRESHOLD_PX
          <= CHART_EVENT_ANNOTATION_TOOLTIP_SUPPRESS_PX

\* Only a server that is known can be paused.
ASSUME PinsAssumption ==
    /\ IsFiniteSet(Pinnable) /\ Pausable \subseteq Pinnable
    /\ MaxRequests \in Nat /\ MaxPauses \in Nat

\* The rows have their numbers, and None is none of the values of a link.
ASSUME ListAssumption ==
    /\ Network \subseteq DOMAIN AllItems
    /\ \A i \in DOMAIN AllItems :
          /\ AllItems[i].name \in Int
          /\ AllItems[i].players \in Int \cup {None} /\ AllItems[i].trend \in Int \cup {None}
    /\ None \notin {"players", "servers", "name", "asc", "desc"} \cup TableFields
    /\ None \notin Listing!AsnSorts
    /\ None \notin Platforms /\ Elsewhere \subseteq Listing!ServerSorts

\* The values stored at first can be typed, and every list as it is cleaned up;
\* None is neither a key nor a form.
ASSUME FormAssumption ==
    /\ 3 \in Numbers[Form!max] /\ 1 \in Numbers[Form!reserve]
    /\ <<"a">> \in Form!Stored(Form!models)
    /\ \A list \in TypedLists : Form!trimmedModelValues(list) \in TypedLists
    /\ None \notin Form!Keyed /\ MaxEdits \in Nat /\ MaxSaves \in Nat
    /\ \A a \in Numbers[Form!max], b \in Numbers[Form!reserve], list \in TypedLists :
          None # [k \in Form!Fields |->
                    IF k = Form!max THEN a ELSE IF k = Form!reserve THEN b ELSE list]

\* The pages there are and their rows; details that lack a port get the row's;
\* None is no change.
ASSUME AdminAssumption ==
    /\ DOMAIN StoredRows \subseteq {"servers", "suggestions", "users"}
    /\ \A p \in DOMAIN StoredRows : StoredRows[p] \in Seq(Admin!RowsOf(p))
    /\ \A b, old \in Bodies : Admin!Merged(b, old) \in Bodies
    /\ MaxSteps \in Nat
    /\ None \notin {"create", "update", "delete", "pause", "approve", "deny", "remove", "flags"}

Pages == {"chat", "hydration", "card", "window", "plot", "events", "pins", "lists", "form",
          "admin"}

-----------------------------------------------------------------------------
\* A part that is not the one looked at rests in one of its initial states.
Rests(p, there) == page = p \/ there

Init ==
    /\ page \in Pages
    /\ Chat!Init /\ Rests("chat", user = None)
    /\ Hydration!Init /\ Card!Init /\ Form!Init
    /\ Window!Init /\ Rests("window", timeWindow.range = DEFAULT_METRIC_TIME_RANGE)
    /\ Plot!Init /\ Rests("plot", mode = "line")
    /\ Events!Init /\ Rests("events", pxRatio = 1 /\ showAnnotations)
    /\ PinnedServers!Init /\ Rests("pins", position = <<>>)
    /\ Listing!Init /\ Rests("lists", stored = None)
    /\ Admin!Init /\ Rests("admin", route = "users" /\ refetches["users"] = Admin!NoFetch)

On(p) == page = p /\ UNCHANGED page

OnChat == On("chat") /\
    UNCHANGED <<hydVars, cardVars, timeVars, plotVars, eventVars,
                pinVars, listVars, formVars, adminVars>>
OnHydration == On("hydration") /\
    UNCHANGED <<chatVars, cardVars, timeVars, plotVars, eventVars,
                pinVars, listVars, formVars, adminVars>>
OnCard == On("card") /\
    UNCHANGED <<chatVars, hydVars, timeVars, plotVars, eventVars,
                pinVars, listVars, formVars, adminVars>>
OnWindow == On("window") /\
    UNCHANGED <<chatVars, hydVars, cardVars, plotVars, eventVars,
                pinVars, listVars, formVars, adminVars>>
OnPlot == On("plot") /\
    UNCHANGED <<chatVars, hydVars, cardVars, timeVars, eventVars,
                pinVars, listVars, formVars, adminVars>>
OnEvents == On("events") /\
    UNCHANGED <<chatVars, hydVars, cardVars, timeVars, plotVars,
                pinVars, listVars, formVars, adminVars>>
OnPins == On("pins") /\
    UNCHANGED <<chatVars, hydVars, cardVars, timeVars, plotVars,
                eventVars, listVars, formVars, adminVars>>
OnLists == On("lists") /\
    UNCHANGED <<chatVars, hydVars, cardVars, timeVars, plotVars,
                eventVars, pinVars, formVars, adminVars>>
OnForm == On("form") /\
    UNCHANGED <<chatVars, hydVars, cardVars, timeVars, plotVars,
                eventVars, pinVars, listVars, adminVars>>
OnAdmin == On("admin") /\
    UNCHANGED <<chatVars, hydVars, cardVars, timeVars, plotVars,
                eventVars, pinVars, listVars, formVars>>

Next ==
    \/ OnChat /\ Chat!Next
    \/ OnHydration /\ Hydration!Next
    \/ OnCard /\ Card!Next
    \/ OnWindow /\ Window!Next
    \/ OnPlot /\ Plot!Next
    \/ OnEvents /\ Events!Next
    \/ OnPins /\ PinnedServers!Next
    \/ OnLists /\ Listing!Next
    \/ OnForm /\ Form!Next
    \/ OnAdmin /\ Admin!Next

\* The fairness of each part, where it states one
Fairness ==
    /\ \A c \in Charts : WF_vars(OnHydration /\ Hydration!Observe(c))
    /\ WF_vars(OnHydration /\ Hydration!FlushQueue)
    /\ WF_vars(OnHydration /\ Hydration!StoreFlush)
    /\ WF_vars(OnCard /\ Card!Browser) /\ SF_vars(OnCard /\ Card!FetchOk)
    /\ WF_vars(OnPins /\ \E r \in 1 .. MaxRequests : PinnedServers!Handler(r))
    /\ WF_vars(OnPins /\ PinnedServers!Fetches)

Spec == Init /\ [][Next]_vars /\ Fairness

-----------------------------------------------------------------------------
\* The properties of the parts, each where its part is looked at; the modules
\* of the parts say more of each.
At(p, Holds) == page = p => Holds

\* The types of every part's state: sessions of the chat are known ones, a
\* setting on its way has a value the form can send, a pinned server a position.
TypeOK ==
    /\ page \in Pages
    /\ At("chat", Chat!TypeOK) /\ At("hydration", Hydration!TypeOK)
    /\ At("card", Card!TypeOK) /\ At("window", Window!TypeOK)
    /\ At("plot", Plot!TypeOK) /\ At("events", Events!TypeOK)
    /\ At("pins", PinnedServers!TypeOK) /\ At("lists", Listing!TypeOK)
    /\ At("form", Form!TypeOK) /\ At("admin", Admin!TypeOK)

\* A request that is read can be stopped, and writes only into its own draft
\* of the conversation that is shown (use-chat-session.ts:77, 109, 120).
ChatOneStream == page = "chat" => Chat!RunningTurnStoppable /\ Chat!DraftOfRunningTurn

\* What the reader has seen of an answer stays, whether it ends, breaks or is
\* stopped, until the conversation is left (use-chat-session.ts:85, 304).
AnswerNotLost == [][page = "chat" => Chat!AnswerNotLost]_vars

\* A chart waits at most once in the queue, and one that is drawn is not older
\* than the intervals promise (chart-hydration-queue.ts:28,
\* use-timeseries-dirty-refresh.ts:19).
ChartsFresh ==
    /\ page = "hydration" => Hydration!OnceInQueue
    /\ page = "card" => Card!VisibleFresh

\* A chart that stays near the screen is ready in the end, and its card is drawn
\* again and again, whatever failed (use-chart-hydration.ts:126,
\* use-intersection-visible.ts:103).
ChartsKeepUp == Hydration!ChartsReady /\ Card!CardDrawn

\* A time range that was accepted is the one shown, on an axis that runs
\* forward (time-window.ts:92, chart-zoom.ts:52).
RangeHolds == page = "window" => Window!AcceptedIsShown /\ Window!AxisUpright

\* Legend, plot and tooltip tell the same of the same series
\* (metric-chart.tsx:209, chart-tooltip.ts:386).
ChartTellsData ==
    page = "plot" => Plot!LegendTellsPlot /\ Plot!TooltipTellsData

\* The label of an event and the tooltip of the values are never open together,
\* and a label lists a whole run of events (chart-event-annotations.ts:72, 110).
TooltipsYield == [][page = "events" => Events!OneTooltip /\ Events!LabelListsRun]_vars

\* The list shown ends up as the list the server has, whatever overlapped,
\* failed or was overtaken (pinned-servers-grid.tsx:152, pinned_servers.rs:151).
PinsConverge == PinnedServers!PinsConverge

\* A list is sorted as was chosen last, whatever its link leaves out and its
\* loader failed at, and its rows turn with the order
\* (use-persisted-server-sort.ts:36, server-sort.ts:95, servers/index.tsx:92).
SortSurvives ==
    /\ [](page = "lists" => Listing!ChosenIsShown)
    /\ [][page = "lists" => Listing!ListTurns]_vars

\* A form without edits shows what is stored or knows that it does not, and a
\* save of one of two numbers that depend on one another keeps their order
\* (settings.tsx:52, registry.rs:196).
SettingsHold ==
    /\ [](page = "form" => Form!FormShowsStored)
    /\ [][page = "form" => Form!PairHolds]_vars

\* A server is added with the details that were looked up, and the lists show
\* the tables after whatever was changed (servers.tsx:203, suggestions.tsx:113).
AdminListsTrue ==
    /\ [](page = "admin" => Admin!ListTellsTable)
    /\ [][page = "admin" => Admin!AddedWasReached]_vars
=============================================================================
