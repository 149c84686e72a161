------------------------------ MODULE LazyChart ------------------------------
(***************************************************************************)
(* One card of the dashboard: its chart is loaded when the card comes near  *)
(* the viewport, kept up to date while it is there, and asked for again     *)
(* when it comes back with old data.  Four clocks meet: the frames of the   *)
(* visibility store, the interval of the query cache while the card is     *)
(* visible, the interval of the dirty mark while it is hidden, and the age *)
(* after which the cache calls its data stale.  Times are counted in ticks. *)
(***************************************************************************)
EXTENDS Naturals, Sequences

CONSTANTS RefreshInterval,  \* the dashboard's automatic refresh, on
          StaleTime,        \* of the query client
          MaxCrossings,     \* bound: crossings the observer reports at one time
          MaxAge            \* bound: where ages stop being told apart

VARIABLES
  cardNear,    \* is the card within the viewport's margin?
  crossings,   \* those not yet reported by the observer
  item,        \* the visibility store's entry of the card
  notifyDue,   \* flushScheduled
  seen,        \* the entry as last rendered
  query,       \* the entry of the query cache
  dirty,       \* dirtyRef
  refetchIn,   \* ticks to the cache's next refetch of a visible card
  checkIn,     \* ticks to the next check of a hidden card's age
  focused      \* is the page in front?

cardVars == <<cardNear, crossings, item, notifyDue, seen, query, dirty,
              refetchIn, checkIn, focused>>

Visibility == [intersecting : BOOLEAN, hasBeenVisible : BOOLEAN]

TypeOK ==
    /\ cardNear \in BOOLEAN /\ crossings \in Seq(BOOLEAN)
    /\ item \in Visibility /\ seen \in Visibility
    /\ notifyDue \in BOOLEAN /\ dirty \in BOOLEAN /\ focused \in BOOLEAN
    /\ query \in [data : BOOLEAN, age : 0 .. MaxAge, fetching : BOOLEAN,
                  error : BOOLEAN, invalid : BOOLEAN]
    /\ refetchIn \in 0 .. RefreshInterval /\ checkIn \in 0 .. RefreshInterval

Init ==
    /\ cardNear = FALSE /\ crossings = <<FALSE>>
    /\ item = [intersecting |-> FALSE, hasBeenVisible |-> FALSE]
    /\ seen = item /\ notifyDue = FALSE
    /\ query = [data |-> FALSE, age |-> 0, fetching |-> FALSE,
                error |-> FALSE, invalid |-> FALSE]
    /\ dirty = FALSE /\ focused = TRUE
    /\ refetchIn = RefreshInterval /\ checkIn = RefreshInterval

isVisible == seen.intersecting

-----------------------------------------------------------------------------
\* What the card shows
resolveLazyMetricChartState ==
    CASE query.error -> "error"
      [] ~query.error /\ seen.hasBeenVisible /\ query.data -> "chart"
      [] ~query.error /\ ~query.data /\ isVisible -> "loading"
      [] OTHER -> "idle"

\* A card of a grid hands the chart its visibility; the chart of a page keeps
\* its frame, and covers it while it loads.
EntityMetricsChart == [body |-> resolveLazyMetricChartState, hydrateWhen |-> isVisible]

PlayersMetricChart ==
    CASE ~seen.hasBeenVisible /\ ~query.data -> "placeholder"
      [] ~(~seen.hasBeenVisible /\ ~query.data) /\ query.error -> "error"
      [] OTHER -> IF isVisible /\ ~query.data THEN "loading" ELSE "chart"

Drawn ==
    /\ EntityMetricsChart = [body |-> "chart", hydrateWhen |-> TRUE]
    /\ PlayersMetricChart = "chart"

\* The query cache's rules (an external library): data is stale by age or when
\* invalidated; every change of the entry restarts the refetch interval.
Stale(q) == ~q.data \/ q.age >= StaleTime \/ q.invalid

Fetching(q) == [q EXCEPT !.fetching = TRUE, !.error = q.data /\ q.error]

\* markDirtyIfStale
TooOld == query.data /\ query.age >= RefreshInterval

-----------------------------------------------------------------------------
\* use-intersection-visible.ts

Scroll ==
    /\ Len(crossings) < MaxCrossings
    /\ cardNear' = ~cardNear
    /\ crossings' = Append(crossings, ~cardNear)
    /\ UNCHANGED <<item, notifyDue, seen, query, dirty, refetchIn, checkIn, focused>>

\* The callback reads the first of the crossings it is handed.
updateVisibility ==
    /\ crossings # <<>>
    /\ crossings' = <<>>
    /\ item' = [intersecting |-> Head(crossings),
                hasBeenVisible |-> item.hasBeenVisible \/ Head(crossings)]
    /\ notifyDue' = (notifyDue \/ item' # item)
    /\ UNCHANGED <<cardNear, seen, query, dirty, refetchIn, checkIn, focused>>

\* The effects of a card that became visible: the cache fetches what is stale,
\* the dirty mark whatever it has.
Appear ==
    /\ query' = IF Stale(query) \/ dirty THEN Fetching(query) ELSE query
    /\ dirty' = FALSE
    /\ refetchIn' = RefreshInterval
    /\ UNCHANGED checkIn

\* ... and of one that was hidden: its age is checked now and at every interval.
Disappear ==
    /\ dirty' = (dirty \/ TooOld)
    /\ checkIn' = RefreshInterval
    /\ UNCHANGED <<query, refetchIn>>

\* The frame of scheduleNotify renders the card.
Notify ==
    /\ notifyDue
    /\ notifyDue' = FALSE
    /\ seen' = item
    /\ IF item.intersecting = isVisible
       THEN UNCHANGED <<query, dirty, refetchIn, checkIn>>
       ELSE IF item.intersecting THEN Appear ELSE Disappear
    /\ UNCHANGED <<cardNear, crossings, item, focused>>

-----------------------------------------------------------------------------
\* use-visible-timeseries-query.ts

Refetch ==
    /\ isVisible /\ refetchIn = 0
    /\ query' = IF focused THEN Fetching(query) ELSE query
    /\ refetchIn' = RefreshInterval
    /\ UNCHANGED <<cardNear, crossings, item, notifyDue, seen, dirty, checkIn, focused>>

\* An answer, or the last retry failed.  A hidden card's check starts over.
FetchEnds(q) ==
    /\ query.fetching
    /\ query' = q
    /\ refetchIn' = RefreshInterval
    /\ checkIn' = RefreshInterval
    /\ UNCHANGED <<cardNear, crossings, item, notifyDue, seen, dirty, focused>>

FetchOk == FetchEnds([data |-> TRUE, age |-> 0, fetching |-> FALSE,
                      error |-> FALSE, invalid |-> FALSE])

FetchFails == FetchEnds([query EXCEPT !.fetching = FALSE, !.error = TRUE])

\* refreshAll: invalidated; an active query is fetched again.
refreshAll ==
    /\ query' = IF isVisible THEN Fetching([query EXCEPT !.invalid = TRUE])
                             ELSE [query EXCEPT !.invalid = TRUE]
    /\ UNCHANGED <<cardNear, crossings, item, notifyDue, seen, dirty,
                   refetchIn, checkIn, focused>>

-----------------------------------------------------------------------------
\* use-timeseries-dirty-refresh.ts

markDirtyIfStale ==
    /\ ~isVisible /\ query.data /\ checkIn = 0
    /\ dirty' = (dirty \/ TooOld)
    /\ checkIn' = RefreshInterval
    /\ UNCHANGED <<cardNear, crossings, item, notifyDue, seen, query, refetchIn, focused>>

Blur ==
    /\ focused
    /\ focused' = FALSE
    /\ UNCHANGED <<cardNear, crossings, item, notifyDue, seen, query, dirty,
                   refetchIn, checkIn>>

\* A visible card is fetched if stale, a hidden one is marked.
onFocus ==
    /\ ~focused
    /\ focused' = TRUE
    /\ query' = IF isVisible /\ Stale(query) THEN Fetching(query) ELSE query
    /\ dirty' = (dirty \/ (~isVisible /\ query.data))
    /\ UNCHANGED <<cardNear, crossings, item, notifyDue, seen, refetchIn, checkIn>>

-----------------------------------------------------------------------------
\* A tick is long: frames, reports and timers that are due come first.
Due ==
    \/ crossings # <<>> \/ notifyDue
    \/ isVisible /\ refetchIn = 0
    \/ ~isVisible /\ query.data /\ checkIn = 0

Left(n) == IF n = 0 THEN 0 ELSE n - 1

Tick ==
    /\ ~Due
    /\ query' = [query EXCEPT !.age = IF @ < MaxAge THEN @ + 1 ELSE @]
    /\ refetchIn' = Left(refetchIn)
    /\ checkIn' = Left(checkIn)
    /\ UNCHANGED <<cardNear, crossings, item, notifyDue, seen, dirty, focused>>

Next ==
    \/ Scroll \/ updateVisibility \/ Notify
    \/ Refetch \/ FetchOk \/ FetchFails \/ refreshAll
    \/ markDirtyIfStale \/ Blur \/ onFocus \/ Tick

\* The browser goes on: its frames, reports and timers come, and time passes.  A
\* server that is asked again and again answers in the end.
Browser == updateVisibility \/ Notify \/ Refetch \/ markDirtyIfStale \/ Tick

Fairness ==
    /\ WF_cardVars(Browser)
    /\ SF_cardVars(FetchOk)

Spec == Init /\ [][Next]_cardVars /\ Fairness

-----------------------------------------------------------------------------
\* A chart in front of the user is never older than the stale time and one
\* refresh interval together, however long the page was away and however the
\* card was scrolled out and back between two checks of its age.
VisibleFresh ==
    Drawn /\ focused /\ ~query.fetching => query.age < StaleTime + RefreshInterval

\* A card that stays near is drawn again and again whatever failed before, when
\* the browser reports its crossings one at a time (of two reported together
\* the hook reads the older one, use-intersection-visible.ts:104).
CardDrawn ==
    [](Len(crossings) < 2) =>
        (<>[](cardNear /\ focused) => []<>Drawn)
=============================================================================
