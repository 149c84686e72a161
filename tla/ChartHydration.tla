--------------------------- MODULE ChartHydration ---------------------------
(***************************************************************************)
(* When a chart that watches its own place in the page is first drawn.      *)
(* Drawing is heavy, so charts near the viewport queue for it and each      *)
(* animation frame serves a few; charts that scroll away leave the queue.   *)
(* What the observer and the queue find out goes into stores outside React, *)
(* and one more animation frame tells the components.                       *)
(***************************************************************************)
EXTENDS Naturals, SequencesExt, FiniteSets

CONSTANTS Charts,
          CHARTS_PER_FRAME,
          MaxEntries  \* bound: crossings the observer reports at one time

VARIABLES
  mounted,       \* charts in the page
  near,          \* places within the viewport's margin
  entries,       \* per chart, the crossings not yet reported
  intersecting,  \* intersectingByKey: the keys that are true
  hydrated,      \* hydratedByKey
  queue, flushScheduled,
  storeChangedKeys, storeFlushScheduled,
  ready          \* MetricChartCard.chartWasReadyRef: charts drawn

hydrationVars == <<mounted, near, entries, intersecting, hydrated, queue, flushScheduled,
                   storeChangedKeys, storeFlushScheduled, ready>>

TypeOK ==
    /\ mounted \subseteq Charts /\ near \subseteq Charts
    /\ entries \in [Charts -> Seq(BOOLEAN)]
    /\ intersecting \subseteq Charts /\ hydrated \subseteq Charts
    /\ queue \in Seq(Charts)
    /\ flushScheduled \in BOOLEAN /\ storeFlushScheduled \in BOOLEAN
    /\ storeChangedKeys \subseteq Charts /\ ready \subseteq Charts

Init ==
    /\ mounted = {} /\ near = {}
    /\ entries = [c \in Charts |-> <<>>]
    /\ intersecting = {} /\ hydrated = {}
    /\ queue = <<>> /\ flushScheduled = FALSE
    /\ storeChangedKeys = {} /\ storeFlushScheduled = FALSE
    /\ ready = {}

-----------------------------------------------------------------------------
\* setIntersecting, setHydrated: a value that changed is told with the frame.
With(set, c, value) == IF value THEN set \cup {c} ELSE set \ {c}

scheduleStoreNotify(changed) ==
    /\ storeChangedKeys' = storeChangedKeys \cup changed
    /\ storeFlushScheduled' = (storeFlushScheduled \/ changed # {})

setIntersecting(c, value) ==
    /\ intersecting' = With(intersecting, c, value)
    /\ scheduleStoreNotify(IF (c \in intersecting) = value THEN {} ELSE {c})

\* Mutant: no frame is asked for.
EnqueuesOnly(c) ==
    /\ queue' = Append(queue, c)
    /\ UNCHANGED flushScheduled

enqueueChartHydration(c) ==
    /\ queue' = Append(queue, c)
    /\ flushScheduled' = TRUE

Dequeued(c) == RemoveFirst(queue, c)

\* inView; a chart that was in view once stays drawn.
chartReady(c) == c \in intersecting /\ c \in hydrated

-----------------------------------------------------------------------------
\* The effect of useChartHydration: a new observer reports where it starts.
Mount(c) ==
    /\ c \notin mounted
    /\ mounted' = mounted \cup {c}
    /\ entries' = [entries EXCEPT ![c] = <<c \in near>>]
    /\ UNCHANGED <<near, intersecting, hydrated, queue, flushScheduled,
                   storeChangedKeys, storeFlushScheduled, ready>>

Unmount(c) ==
    /\ c \in mounted
    /\ mounted' = mounted \ {c}
    /\ entries' = [entries EXCEPT ![c] = <<>>]
    /\ queue' = Dequeued(c)
    /\ intersecting' = intersecting \ {c}
    /\ hydrated' = hydrated \ {c}
    /\ ready' = ready \ {c}
    /\ UNCHANGED <<near, flushScheduled, storeChangedKeys, storeFlushScheduled>>

\* The place crosses the viewport's margin.
Scroll(c) ==
    /\ near' = With(near, c, c \notin near)
    /\ IF c \in mounted
       THEN /\ Len(entries[c]) < MaxEntries
            /\ entries' = [entries EXCEPT ![c] = Append(@, c \notin near)]
       ELSE UNCHANGED entries
    /\ UNCHANGED <<mounted, intersecting, hydrated, queue, flushScheduled,
                   storeChangedKeys, storeFlushScheduled, ready>>

\* What several crossings reported at once come to
isIntersecting(reported) == TRUE \in ToSet(reported)

\* Mutant: a chart that waits already queues again.
QueuesAgain(c) == c \notin hydrated

\* A chart that waits in the queue, or was served, does not queue again.
Queues(c) == c \notin ToSet(queue) /\ c \notin hydrated

\* The observer's callback
Observe(c) ==
    /\ entries[c] # <<>>
    /\ entries' = [entries EXCEPT ![c] = <<>>]
    /\ setIntersecting(c, isIntersecting(entries[c]))
    /\ IF ~isIntersecting(entries[c])
       THEN queue' = Dequeued(c) /\ UNCHANGED flushScheduled
       ELSE IF Queues(c) THEN enqueueChartHydration(c)
            ELSE UNCHANGED <<queue, flushScheduled>>
    /\ UNCHANGED <<mounted, near, hydrated, ready>>

\* The animation frame of scheduleFlush
FlushQueue ==
    /\ flushScheduled
    /\ LET n == IF Len(queue) < CHARTS_PER_FRAME THEN Len(queue) ELSE CHARTS_PER_FRAME
           served == ToSet(SubSeq(queue, 1, n))
       IN /\ queue' = SubSeq(queue, n + 1, Len(queue))
          /\ flushScheduled' = (Len(queue) > n)
          /\ hydrated' = hydrated \cup served
          /\ scheduleStoreNotify(served \ hydrated)
    /\ UNCHANGED <<mounted, near, entries, intersecting, ready>>

\* The animation frame of scheduleStoreNotify: subscribers render again.
StoreFlush ==
    /\ storeFlushScheduled
    /\ storeFlushScheduled' = FALSE
    /\ storeChangedKeys' = {}
    /\ ready' = ready \cup {c \in storeChangedKeys \cap mounted : chartReady(c)}
    /\ UNCHANGED <<mounted, near, entries, intersecting, hydrated, queue, flushScheduled>>

\* A render for another reason reads the stores as they are.
Render(c) ==
    /\ c \in mounted /\ chartReady(c)
    /\ ready' = ready \cup {c}
    /\ UNCHANGED <<mounted, near, entries, intersecting, hydrated, queue, flushScheduled,
                   storeChangedKeys, storeFlushScheduled>>

Next ==
    \/ \E c \in Charts : Mount(c) \/ Unmount(c) \/ Scroll(c) \/ Observe(c) \/ Render(c)
    \/ FlushQueue \/ StoreFlush

\* The browser reports crossings and runs the frames it was asked for.
Fairness ==
    /\ \A c \in Charts : WF_hydrationVars(Observe(c))
    /\ WF_hydrationVars(FlushQueue) /\ WF_hydrationVars(StoreFlush)

Spec == Init /\ [][Next]_hydrationVars /\ Fairness

-----------------------------------------------------------------------------
\* However charts come, go and cross the margin between two frames: a chart is
\* at most once in the queue, only while it is in the page, near and not yet
\* served; while one waits a frame is due; and the stores, which outlive the
\* components, keep nothing of a chart that is gone
\* (chart-hydration-queue.ts:32, use-chart-hydration.ts:153).
OnceInQueue ==
    /\ IsInjective(queue)
    /\ ToSet(queue) \subseteq (mounted \cap intersecting) \ hydrated
    /\ queue # <<>> => flushScheduled
    /\ intersecting \cup hydrated \cup ready \subseteq mounted
    /\ storeChangedKeys # {} => storeFlushScheduled

\* A chart that stays near the viewport is drawn in the end: no burst of
\* scrolling, no other chart's coming and going makes the queue forget it.
ChartsReady ==
    \A c \in Charts : <>[](c \in mounted \cap near) => <>[](c \in ready)
=============================================================================
