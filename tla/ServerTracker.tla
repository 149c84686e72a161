--------------------------- MODULE ServerTracker ---------------------------
(***************************************************************************)
(* The core of mc-tracker: the servers table, the list ServerManager keeps  *)
(* of it in memory, the admin requests that write to both, and the push     *)
(* cycle that pings every tracked server, applies the answers to the list,  *)
(* persists new peaks and collects the samples sent to VictoriaMetrics.     *)
(*                                                                          *)
(* Every handler is an async function: it can be overtaken at each .await,  *)
(* and it is dropped there when the client disconnects.  One action below   *)
(* is one stretch of a handler between two awaits on shared state (a        *)
(* statement of the database, or one critical section of the RwLock around  *)
(* the list).                                                               *)
(***************************************************************************)
EXTENDS ServerCatalog, Sequences, FiniteSets

CONSTANTS Requests,     \* admin requests of this instance, each served once
          NoId,         \* the id of a request that has none yet
          MaxInFlight,  \* admin requests served at the same time, at most
          Disconnects,  \* may clients disconnect before the answer?
          Crashes,      \* may the process crash and restart?
          DbFaults      \* may a statement of the database fail?

ASSUME NoIdAssumption == NoId \notin Ids
ASSUME MaxInFlightAssumption == MaxInFlight \in Nat
ASSUME FaultsAssumption == {Disconnects, Crashes, DbFaults} \subseteq BOOLEAN

VARIABLES
  events,   \* monitored_server_events: per id, the event types in order
  tracked,  \* ids in ServerManager.servers
  mem,      \* their TrackedServer entries
  req,      \* the admin requests: what they ask and where they are
  pushing,  \* ServerManager.pushing
  cyc,      \* the push cycle: its stage and the peak it is persisting
  ping,     \* the cycle's ping of each id
  entries,  \* the samples of the cycle being pushed
  crossed,  \* history: ids whose list entry missed a change of their row
  garbled   \* history: ids whose log missed or doubled a change of their row

dbVars == <<live, issued, row, events>>
memVars == <<tracked, mem>>
cycVars == <<pushing, cyc, ping, entries>>
histVars == <<crossed, garbled>>
vars == <<live, issued, row, events, tracked, mem, req, pushing, cyc, ping,
          entries, crossed, garbled>>

-----------------------------------------------------------------------------
(* Types *)

EventType == {"added", "paused", "unpaused", "removed"}

\* asn stands for the AsnLookup of the address that answered the last ping:
\* it is that address, NoHost when empty.
Tracked == [host : Hosts \cup {NoHost}, paused : BOOLEAN,
            players : OptCount, peak : OptCount,
            asn : Hosts \cup {NoHost}]

Ops == {"none", "create", "update", "delete"}

\* Where a handler is: the stretch it runs next.
Stage == {"idle", "insert", "base", "write", "reread", "event", "delete",
          "memory", "done"}

\* What PATCH says about the pause flag: Option<bool>.
PauseArg == {"keep", "pause", "resume"}

Request == [op : Ops, at : Stage, id : Ids \cup {NoId},
            host : Hosts \cup {NoHost}, pause : PauseArg,
            was : BOOLEAN, seen : Row]

IdleRequest == [op |-> "none", at |-> "idle", id |-> NoId, host |-> NoHost,
                pause |-> "keep", was |-> FALSE, seen |-> EmptyRow]

DoneRequest == [IdleRequest EXCEPT !.at = "done"]

PingState == [st : {"none", "todo", "sent", "ok", "err"},
              host : Hosts \cup {NoHost}, players : OptCount]

NoPing == [st |-> "none", host |-> NoHost, players |-> NoCount]

Cycle == [at : {"off", "ping", "persist", "push"}, id : Ids \cup {NoId},
          players : OptCount]

NoCycle == [at |-> "off", id |-> NoId, players |-> NoCount]

Sample == [id : Ids, asn : Hosts \cup {NoHost}, players : Counts]

TypeOK ==
    /\ live \in SUBSET Ids
    /\ issued \in SUBSET Ids
    /\ row \in [Ids -> Row]
    /\ events \in [Ids -> Seq(EventType)]
    /\ tracked \in SUBSET Ids
    /\ mem \in [Ids -> Tracked]
    /\ req \in [Requests -> Request]
    /\ pushing \in BOOLEAN
    /\ cyc \in Cycle
    /\ ping \in [Ids -> PingState]
    /\ entries \in SUBSET Sample
    /\ crossed \in SUBSET Ids
    /\ garbled \in SUBSET Ids

-----------------------------------------------------------------------------
(* TrackedServer and ServerManager *)

FromConfig(r) == [host |-> r.host, paused |-> r.paused, players |-> NoCount,
                  peak |-> r.peak, asn |-> NoHost]

NoEntry == FromConfig(EmptyRow)

IsTracking(i) == i \in tracked /\ ~mem[i].paused

ClearPingState(e) == [e EXCEPT !.players = NoCount]

\* apply_success: neither the pause flag nor the address is looked at again.
ApplySuccess(e, h, n) ==
    [e EXCEPT !.players = n, !.asn = h,
              !.peak = IF n > e.peak THEN n ELSE e.peak]

\* Mutant: pause_changed is forgotten, an entry with the same address keeps
\* its flag.
UpdateConfigIgnoringPause(e, r) ==
    IF e.host # r.host THEN FromConfig(r) ELSE [e EXCEPT !.peak = r.peak]

\* update_server_config: the row replaces the configuration and the peak;
\* a new address or pause flag also forgets what the last ping said.
UpdateConfig(e, r) ==
    IF e.host # r.host \/ e.paused # r.paused
    THEN FromConfig(r)
    ELSE [e EXCEPT !.peak = r.peak]

\* The list as ServerManager::new builds it from servers::list.
LoadedList == [i \in Ids |-> IF i \in live THEN FromConfig(row[i]) ELSE NoEntry]

-----------------------------------------------------------------------------
(* Initial states: the process has started over some table *)

Init ==
    /\ CatalogInit
    /\ events = [i \in Ids |->
                   IF i \notin live THEN <<>>
                   ELSE IF row[i].paused THEN <<"added", "paused">>
                   ELSE <<"added">>]
    /\ tracked = live
    /\ mem = LoadedList
    /\ req = [r \in Requests |-> IdleRequest]
    /\ pushing = FALSE
    /\ cyc = NoCycle
    /\ ping = [i \in Ids |-> NoPing]
    /\ entries = {}
    /\ crossed = {}
    /\ garbled = {}

-----------------------------------------------------------------------------
(* Admin requests *)

InFlight == {r \in Requests : req[r].at \notin {"idle", "done"}}

\* Handlers that have written row i and not yet told the list.
Pending(i) ==
    {r \in InFlight :
        /\ req[r].id = i
        /\ \/ req[r].op # "delete" /\ req[r].at \in {"reread", "event", "memory"}
           \/ req[r].op = "delete" /\ req[r].at = "memory"}

\* Handlers between their first look at row i and the last of the two writes
\* (row and event) that belong together.
Telling(i) ==
    {r \in InFlight :
        req[r].id = i /\ req[r].at \in {"base", "write", "reread", "event", "delete"}}

\* One of the two is written, the other is not.
HalfTold(i) ==
    {r \in Telling(i) :
        IF req[r].op = "delete" THEN req[r].at = "delete"
                                ELSE req[r].at \in {"reread", "event"}}

\* History: row i is written while another handler still has to tell the list
\* what it wrote before.
Crosses(i) == crossed' = IF Pending(i) # {} THEN crossed \cup {i} ELSE crossed

\* History: a handler of row i starts while another one is at work on it.
Meets(i) == garbled' = IF Telling(i) # {} THEN garbled \cup {i} ELSE garbled

\* History: the handler r stops where it is.
CutShort(r) ==
    /\ crossed' = crossed \cup {i \in Ids : r \in Pending(i)}
    /\ garbled' = garbled \cup {i \in Ids : r \in HalfTold(i)}

\* An admin names an id it was shown: by the list, or by the event log.
Known(i) == i \in tracked \/ events[i] # <<>>

Goto(r, s) == req' = [req EXCEPT ![r].at = s]
Finish(r) == req' = [req EXCEPT ![r] = DoneRequest]

\* record_server_event: a failed insert is only logged.
Record(i, e) ==
    \/ /\ events' = [events EXCEPT ![i] = Append(@, e)]
       /\ UNCHANGED garbled
    \/ /\ DbFaults
       /\ garbled' = garbled \cup {i}
       /\ UNCHANGED events

Accept(r, q) ==
    /\ req[r].at = "idle"
    /\ Cardinality(InFlight) < MaxInFlight
    /\ req' = [req EXCEPT ![r] = q]
    /\ UNCHANGED <<live, issued, row, events, tracked, mem, pushing, cyc,
                   ping, entries, crossed>>

(* POST /admin/servers *)

\* Bound: UUIDs do not run out, Ids does.  A create is accepted while an id is
\* left for it.
IdLeft ==
    Cardinality({r \in InFlight : req[r].at = "insert"})
        < Cardinality(Ids \ issued)

CreateAccept(r, h) ==
    /\ IdLeft
    /\ Accept(r, [IdleRequest EXCEPT !.op = "create", !.at = "insert",
                                     !.host = h])
    /\ UNCHANGED garbled

\* servers::insert: the INSERT, under a fresh UUID.
CreateInsert(r, i) ==
    /\ req[r].op = "create" /\ req[r].at = "insert"
    /\ Free(req[r].host)
    /\ i \notin issued
    /\ live' = live \cup {i}
    /\ issued' = issued \cup {i}
    /\ row' = [row EXCEPT ![i] = [EmptyRow EXCEPT !.host = req[r].host]]
    /\ req' = [req EXCEPT ![r].at = "reread", ![r].id = i]
    /\ UNCHANGED <<events, tracked, mem, pushing, cyc, ping, entries, crossed,
                   garbled>>

\* servers::insert: the SELECT of the new row, whose id nobody else has seen.
CreateReread(r) ==
    /\ req[r].op = "create" /\ req[r].at = "reread"
    /\ req' = [req EXCEPT ![r].at = "event", ![r].seen = row[req[r].id]]
    /\ UNCHANGED <<live, issued, row, events, tracked, mem, pushing, cyc,
                   ping, entries, crossed, garbled>>

CreateConflict(r) ==
    /\ req[r].op = "create" /\ req[r].at = "insert"
    /\ ~Free(req[r].host)
    /\ Finish(r)
    /\ UNCHANGED <<live, issued, row, events, tracked, mem, pushing, cyc,
                   ping, entries, crossed, garbled>>

CreateEvent(r) ==
    /\ req[r].op = "create" /\ req[r].at = "event"
    /\ Record(req[r].id, "added")
    /\ Goto(r, "memory")
    /\ UNCHANGED <<live, issued, row, tracked, mem, pushing, cyc, ping,
                   entries, crossed>>

\* append_server pushes the row it holds, still in the table or not.
CreateAppend(r) ==
    /\ req[r].op = "create" /\ req[r].at = "memory"
    /\ tracked' = tracked \cup {req[r].id}
    /\ mem' = [mem EXCEPT ![req[r].id] = FromConfig(req[r].seen)]
    /\ Finish(r)
    /\ UNCHANGED <<live, issued, row, events, pushing, cyc, ping, entries,
                   crossed, garbled>>

(* PATCH /admin/servers/{id} *)

\* The row is read three times: by the handler, which only keeps the pause
\* flag, and twice by servers::update, around its UPDATE.
UpdateAccept(r, i, h, p) ==
    /\ Known(i) /\ i \in live
    /\ Accept(r, [IdleRequest EXCEPT !.op = "update", !.at = "base", !.id = i,
                                     !.host = h, !.pause = p,
                                     !.was = row[i].paused])
    /\ Meets(i)

UpdateReadBase(r) ==
    /\ req[r].op = "update" /\ req[r].at = "base"
    /\ req[r].id \in live
    /\ req' = [req EXCEPT ![r].at = "write", ![r].seen = row[req[r].id]]
    /\ UNCHANGED <<live, issued, row, events, tracked, mem, pushing, cyc,
                   ping, entries, crossed, garbled>>

NewHost(q) == IF q.host = NoHost THEN q.seen.host ELSE q.host

NewPaused(q) == \/ q.pause = "pause"
                \/ q.pause = "keep" /\ q.seen.paused

TakenByOther(i, h) == \E j \in live \ {i} : row[j].host = h

\* UPDATE writes every column of the form, the ones PATCH left out from the
\* row read before.
UpdateWrite(r) ==
    LET q == req[r] IN
    /\ q.op = "update" /\ q.at = "write"
    /\ q.id \in live
    /\ ~TakenByOther(q.id, NewHost(q))
    /\ row' = [row EXCEPT ![q.id].host = NewHost(q),
                          ![q.id].paused = NewPaused(q)]
    /\ Goto(r, "reread")
    /\ Crosses(q.id)
    /\ UNCHANGED <<live, issued, events, tracked, mem, pushing, cyc, ping,
                   entries, garbled>>

UpdateConflict(r) ==
    LET q == req[r] IN
    /\ q.op = "update" /\ q.at = "write"
    /\ q.id \in live
    /\ TakenByOther(q.id, NewHost(q))
    /\ Finish(r)
    /\ UNCHANGED <<live, issued, row, events, tracked, mem, pushing, cyc,
                   ping, entries, crossed, garbled>>

\* Mutant: every PATCH that names the flag is logged, changed or not.
PauseNamed(q) == q.pause # "keep"

PauseAsked(q) == \/ q.pause = "pause" /\ ~q.was
                 \/ q.pause = "resume" /\ q.was

UpdateReread(r) ==
    LET q == req[r] IN
    /\ q.op = "update" /\ q.at = "reread"
    /\ q.id \in live
    /\ req' = [req EXCEPT ![r].seen = row[q.id],
                          ![r].at = IF PauseAsked(q) THEN "event" ELSE "memory"]
    /\ UNCHANGED <<live, issued, row, events, tracked, mem, pushing, cyc,
                   ping, entries, crossed, garbled>>

\* Mutant: only the first read may miss.
UpdateNotFoundAtFirstRead(r) ==
    /\ req[r].op = "update" /\ req[r].at = "base"
    /\ req[r].id \notin live
    /\ Finish(r)
    /\ UNCHANGED <<live, issued, row, events, tracked, mem, pushing, cyc,
                   ping, entries, crossed, garbled>>

\* The row went away between two statements: 404.  An UPDATE of no row is
\* not an error, the SELECT after it is.
UpdateNotFound(r) ==
    /\ req[r].op = "update" /\ req[r].at \in {"base", "write", "reread"}
    /\ req[r].id \notin live
    /\ Finish(r)
    /\ UNCHANGED <<live, issued, row, events, tracked, mem, pushing, cyc,
                   ping, entries, crossed, garbled>>

UpdateEvent(r) ==
    /\ req[r].op = "update" /\ req[r].at = "event"
    /\ Record(req[r].id, IF req[r].pause = "pause" THEN "paused" ELSE "unpaused")
    /\ Goto(r, "memory")
    /\ UNCHANGED <<live, issued, row, tracked, mem, pushing, cyc, ping,
                   entries, crossed>>

\* update_server_config; an id that is not in the list is answered 500.
UpdateApply(r) ==
    LET q == req[r] IN
    /\ q.op = "update" /\ q.at = "memory"
    /\ mem' = IF q.id \in tracked
              THEN [mem EXCEPT ![q.id] = UpdateConfig(@, q.seen)]
              ELSE mem
    /\ Finish(r)
    /\ UNCHANGED <<live, issued, row, events, tracked, pushing, cyc, ping,
                   entries, crossed, garbled>>

(* DELETE /admin/servers/{id} *)

\* Mutant: the row goes first, the event is left to the end.
DeleteAcceptRowFirst(r, i) ==
    /\ Known(i) /\ i \in live
    /\ Accept(r, [IdleRequest EXCEPT !.op = "delete", !.at = "delete",
                                     !.id = i])
    /\ Meets(i)

DeleteAccept(r, i) ==
    /\ Known(i) /\ i \in live
    /\ Accept(r, [IdleRequest EXCEPT !.op = "delete", !.at = "event",
                                     !.id = i])
    /\ Meets(i)

DeleteEvent(r) ==
    /\ req[r].op = "delete" /\ req[r].at = "event"
    /\ Record(req[r].id, "removed")
    /\ Goto(r, "delete")
    /\ UNCHANGED <<live, issued, row, tracked, mem, pushing, cyc, ping,
                   entries, crossed>>

DeleteRow(r) ==
    LET i == req[r].id IN
    /\ req[r].op = "delete" /\ req[r].at = "delete"
    /\ live' = live \ {i}
    /\ row' = [row EXCEPT ![i] = EmptyRow]
    /\ IF i \in live THEN Goto(r, "memory") /\ Crosses(i)
                     ELSE Finish(r) /\ UNCHANGED crossed
    /\ UNCHANGED <<issued, events, tracked, mem, pushing, cyc, ping, entries,
                   garbled>>

DeleteForget(r) ==
    /\ req[r].op = "delete" /\ req[r].at = "memory"
    /\ tracked' = tracked \ {req[r].id}
    /\ mem' = [mem EXCEPT ![req[r].id] = NoEntry]
    /\ Finish(r)
    /\ UNCHANGED <<live, issued, row, events, pushing, cyc, ping, entries,
                   crossed, garbled>>

\* The connection closes: the handler's future is dropped where it waits.
Disconnect(r) ==
    /\ Disconnects
    /\ r \in InFlight
    /\ Finish(r)
    /\ CutShort(r)
    /\ UNCHANGED <<live, issued, row, events, tracked, mem, pushing, cyc,
                   ping, entries>>

\* A statement of servers::insert, ::update or ::delete fails, the INSERT or
\* UPDATE itself or the SELECT after it: the error is answered at once.
StatementFails(r) ==
    /\ DbFaults
    /\ req[r].at \in {"insert", "base", "write", "reread", "delete"}
    /\ Finish(r)
    /\ CutShort(r)
    /\ UNCHANGED <<live, issued, row, events, tracked, mem, pushing, cyc,
                   ping, entries>>

-----------------------------------------------------------------------------
(* run_push_cycle *)

\* compare_exchange, then the ids of the tracked servers under a read lock.
CycleStart ==
    /\ ~pushing
    /\ pushing' = TRUE
    /\ cyc' = [NoCycle EXCEPT !.at = "ping"]
    /\ ping' = [i \in Ids |-> IF IsTracking(i) THEN [NoPing EXCEPT !.st = "todo"]
                                               ELSE NoPing]
    /\ UNCHANGED <<live, issued, row, events, tracked, mem, req, entries,
                   crossed, garbled>>

\* Mutant: a server that is no longer tracked gives no result at all.
PingSendSilently(i) ==
    /\ ping[i].st = "todo" /\ IsTracking(i)
    /\ ping' = [ping EXCEPT ![i] = [NoPing EXCEPT !.st = "sent",
                                                  !.host = mem[i].host]]
    /\ UNCHANGED <<live, issued, row, events, tracked, mem, req, pushing, cyc,
                   entries, crossed, garbled>>

\* ping_server looks the server up again; one that left the list or was
\* paused meanwhile is NotTracked.
PingSend(i) ==
    /\ ping[i].st = "todo"
    /\ ping' = [ping EXCEPT ![i] =
                  IF IsTracking(i)
                  THEN [NoPing EXCEPT !.st = "sent", !.host = mem[i].host]
                  ELSE [NoPing EXCEPT !.st = "err"]]
    /\ UNCHANGED <<live, issued, row, events, tracked, mem, req, pushing, cyc,
                   entries, crossed, garbled>>

PingAnswer(i, n) ==
    /\ ping[i].st = "sent"
    /\ ping' = [ping EXCEPT ![i].st = "ok", ![i].players = n]
    /\ UNCHANGED <<live, issued, row, events, tracked, mem, req, pushing, cyc,
                   entries, crossed, garbled>>

\* DNS, every ping attempt, or the ASN lookup failed.
PingFail(i) ==
    /\ ping[i].st = "sent"
    /\ ping' = [ping EXCEPT ![i] = [NoPing EXCEPT !.st = "err"]]
    /\ UNCHANGED <<live, issued, row, events, tracked, mem, req, pushing, cyc,
                   entries, crossed, garbled>>

\* join_all: no result is looked at before every ping has one.
AllAnswered == \A i \in Ids : ping[i].st \notin {"todo", "sent"}

\* The order of the results is that of the list, which is any order.
ApplyPing(i) ==
    LET n == ping[i].players IN
    /\ cyc.at = "ping" /\ AllAnswered
    /\ ping[i].st = "ok"
    /\ ping' = [ping EXCEPT ![i] = NoPing]
    /\ mem' = IF i \in tracked
              THEN [mem EXCEPT ![i] = ApplySuccess(@, ping[i].host, n)]
              ELSE mem
    /\ cyc' = IF i \in tracked /\ n > mem[i].peak
              THEN [at |-> "persist", id |-> i, players |-> n]
              ELSE cyc
    /\ UNCHANGED <<live, issued, row, events, tracked, req, pushing, entries,
                   crossed, garbled>>

ApplyFailure(i) ==
    /\ cyc.at = "ping" /\ AllAnswered
    /\ ping[i].st = "err"
    /\ ping' = [ping EXCEPT ![i] = NoPing]
    /\ mem' = IF i \in tracked
              THEN [mem EXCEPT ![i] = ClearPingState(@)] ELSE mem
    /\ UNCHANGED <<live, issued, row, events, tracked, req, pushing, cyc,
                   entries, crossed, garbled>>

\* Mutants of the UPDATE: the row overwritten unconditionally, and the NULL case
\* left out of the filter.
OverwritePeak(i, n) ==
    row' = IF i \in live THEN [row EXCEPT ![i].peak = n] ELSE row
UpdatePeakIfNotNull(i, n) ==
    row' = IF i \in live /\ row[i].peak # NoCount /\ n > row[i].peak
           THEN [row EXCEPT ![i].peak = n] ELSE row

\* servers::update_peak_if_higher: one conditional UPDATE.
UpdatePeakIfHigher(i, n) ==
    row' = IF i \in live /\ n > row[i].peak
           THEN [row EXCEPT ![i].peak = n] ELSE row

\* A failed UPDATE is only logged.
PersistPeak ==
    /\ cyc.at = "persist"
    /\ \/ UpdatePeakIfHigher(cyc.id, cyc.players)
       \/ /\ DbFaults
          /\ UNCHANGED row
    /\ cyc' = [NoCycle EXCEPT !.at = "ping"]
    /\ UNCHANGED <<live, issued, events, tracked, mem, req, pushing, ping,
                   entries, crossed, garbled>>

\* Mutant: the samples are taken of every entry that has players.
CollectPausedToo ==
    /\ cyc.at = "ping"
    /\ \A i \in Ids : ping[i].st = "none"
    /\ cyc' = [NoCycle EXCEPT !.at = "push"]
    /\ entries' = {[id |-> i, asn |-> mem[i].asn, players |-> mem[i].players] :
                     i \in {j \in tracked : mem[j].players # NoCount}}
    /\ UNCHANGED <<live, issued, row, events, tracked, mem, req, pushing, ping,
                   crossed, garbled>>

\* One sample for every tracked server whose last ping answered.
Collect ==
    /\ cyc.at = "ping"
    /\ \A i \in Ids : ping[i].st = "none"
    /\ cyc' = [NoCycle EXCEPT !.at = "push"]
    /\ entries' = {[id |-> i, asn |-> mem[i].asn, players |-> mem[i].players] :
                     i \in {j \in tracked : ~mem[j].paused
                                            /\ mem[j].players # NoCount}}
    /\ UNCHANGED <<live, issued, row, events, tracked, mem, req, pushing, ping,
                   crossed, garbled>>

\* push_player_counts answers or fails; Guard resets the flag either way.  It
\* may do neither: the HTTP client of the push has no timeout.
CycleEnd ==
    /\ cyc.at = "push"
    /\ pushing' = FALSE
    /\ cyc' = NoCycle
    /\ entries' = {}
    /\ UNCHANGED <<live, issued, row, events, tracked, mem, req, ping, crossed,
                   garbled>>

-----------------------------------------------------------------------------

\* Everything but the tables is lost; main loads the list again.
Restart ==
    /\ Crashes
    /\ tracked' = live
    /\ mem' = LoadedList
    /\ req' = [r \in Requests |-> IF r \in InFlight THEN DoneRequest ELSE req[r]]
    /\ pushing' = FALSE
    /\ cyc' = NoCycle
    /\ ping' = [i \in Ids |-> NoPing]
    /\ entries' = {}
    /\ crossed' = {}
    /\ garbled' = garbled \cup {i \in Ids : HalfTold(i) # {}}
    /\ UNCHANGED <<live, issued, row, events>>

CreateNext(r) ==
    \/ \E h \in Hosts : CreateAccept(r, h)
    \/ \E i \in Ids : CreateInsert(r, i)
    \/ CreateReread(r)
    \/ CreateConflict(r)
    \/ CreateEvent(r)
    \/ CreateAppend(r)

\* What a PATCH can ask: at least one of the two fields.
PatchArgs == {a \in (Hosts \cup {NoHost}) \X PauseArg :
                a[1] # NoHost \/ a[2] # "keep"}

UpdateNext(r) ==
    \/ \E i \in Ids, a \in PatchArgs : UpdateAccept(r, i, a[1], a[2])
    \/ UpdateReadBase(r)
    \/ UpdateWrite(r)
    \/ UpdateConflict(r)
    \/ UpdateReread(r)
    \/ UpdateNotFound(r)
    \/ UpdateEvent(r)
    \/ UpdateApply(r)

DeleteNext(r) ==
    \/ \E i \in Ids : DeleteAccept(r, i)
    \/ DeleteEvent(r)
    \/ DeleteRow(r)
    \/ DeleteForget(r)

RequestNext(r) == CreateNext(r) \/ UpdateNext(r) \/ DeleteNext(r)

PingNext(i) ==
    \/ PingSend(i)
    \/ \E n \in Counts : PingAnswer(i, n)
    \/ PingFail(i)
    \/ ApplyPing(i)
    \/ ApplyFailure(i)

\* The part of the cycle that goes on by itself: pings end in an answer or a
\* timeout, statements answer or fail.
CycleRuns ==
    \/ CycleStart
    \/ \E i \in Ids : PingNext(i)
    \/ PersistPeak
    \/ Collect

CycleNext == CycleRuns \/ CycleEnd

Next ==
    \/ \E r \in Requests : RequestNext(r) \/ Disconnect(r) \/ StatementFails(r)
    \/ CycleNext
    \/ Restart

Spec == Init /\ [][Next]_vars

\* tokio polls every task that is ready, the database answers its statements,
\* and the push loop starts a cycle at each tick of its schedule.  Nobody owes
\* the server another request, and VictoriaMetrics no answer to a push.
Fairness ==
    /\ WF_vars(CycleRuns)
    /\ \A r \in Requests : WF_vars(r \in InFlight /\ RequestNext(r))

FairSpec == Spec /\ Fairness

-----------------------------------------------------------------------------
(* Properties *)

\* The entry of an id is that of its row.
Mirrored(i) ==
    /\ i \in tracked <=> i \in live
    /\ i \in live => /\ mem[i].host = row[i].host
                     /\ mem[i].paused = row[i].paused

\* The list mirrors the table, whatever is going on with other servers: while
\* no handler has yet to tell the list what it wrote, the row of an id is
\* tracked under its own address and pause flag, and an id without a row is
\* not tracked (create_server, update_server and delete_server write the table
\* first and the list afterwards).  Excepted are ids whose row was written
\* between another handler's write and its update of the list, and ids whose
\* handler was cut short there, until the process loads the list again.
ListMatchesTable == \A i \in Ids \ crossed : Pending(i) = {} => Mirrored(i)

\* An entry agrees with its row, whenever no admin request is in flight.
EntriesMatchRows ==
    InFlight = {} =>
        \A i \in live \cap tracked : /\ mem[i].host = row[i].host
                                     /\ mem[i].paused = row[i].paused

\* The log of an id ends with what its row says and doubles nothing.
Told(i) ==
    LET e == events[i] IN
    /\ e # <<>>
    /\ e[Len(e)] \in IF i \notin live THEN {"removed"}
                     ELSE IF row[i].paused THEN {"paused"}
                     ELSE {"added", "unpaused"}
    /\ \A k \in 1..Len(e)-1 : e[k] # e[k+1]

\* The event log tells the story of each server: between two handlers of an
\* id, its last event says whether its row is paused or gone, and no two
\* neighbours are the same.  Excepted are ids of which two handlers met before
\* both had written row and event, and ids of which a handler was cut short,
\* or its event insert failed, between the two.
EventsTellTheStory ==
    \A i \in issued \ garbled : Telling(i) = {} => Told(i)

\* A sample is that of a row which is in the table and not paused, although
\* the ping behind it may have been sent before the row was paused or deleted;
\* excepted are the ids whose entry is not, or not yet, that of their row.
SamplesOfTrackedRows ==
    [][Collect =>
         \A s \in entries' : s.id \notin crossed /\ Pending(s.id) = {} =>
                               s.id \in live /\ ~row[s.id].paused]_vars

\* A peak the list shows is in the table as well, unless the cycle is about
\* to write it: what visitors were shown as the all-time peak survives a
\* crash.
PeakDurable ==
    \A i \in live \cap tracked :
        \/ mem[i].peak <= row[i].peak
        \/ cyc.at = "persist" /\ cyc.id = i /\ mem[i].peak <= cyc.players

\* No id leaves the table without a "removed" event, wherever the handler or
\* the process stopped.
RemovalLogged ==
    \A i \in issued \ live : \E k \in 1..Len(events[i]) : events[i][k] = "removed"

\* Players and ASN of a list entry were measured at the entry's own address.
MeasuredAtOwnAddress ==
    \A i \in tracked : mem[i].players # NoCount => mem[i].asn = mem[i].host

\* Every cycle ends, so that the flag never keeps the next one out for good,
\* unless it is its push that VictoriaMetrics never answers: nothing before
\* the push can hold a cycle, whatever happens to its servers meanwhile.
CyclesEnd == []<>(~pushing) \/ <>[](cyc.at = "push")

\* Every admin request that was accepted is answered.
RequestsEnd == \A r \in Requests : []<>(r \notin InFlight)
=============================================================================
