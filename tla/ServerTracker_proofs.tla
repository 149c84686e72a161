----------------------- MODULE ServerTracker_proofs ------------------------
(***************************************************************************)
(* Proofs about ServerTracker, for every set of ids, addresses and          *)
(* requests, any number of requests in flight, disconnects, failing         *)
(* statements and crashes.                                                  *)
(*                                                                          *)
(* The second half looks at one id at a time, whatever happens to others.   *)
(* The handlers of an id that did not cross each other and were not cut     *)
(* short leave its list entry at its row, and its log at what became of it. *)
(***************************************************************************)
EXTENDS ServerTracker, SequenceTheorems, FiniteSetTheorems, TLAPS

-----------------------------------------------------------------------------
(* Types.  TypeOK is not inductive alone: the id a handler carries must be   *)
(* one the table has given out.                                             *)

IdsIssued ==
    /\ live \subseteq issued
    /\ tracked \subseteq issued
    /\ \A r \in Requests :
         req[r].at \notin {"idle", "insert", "done"} => req[r].id \in issued
    /\ cyc.at = "persist" => cyc.id \in Ids

TypeInv == TypeOK /\ IdsIssued

LEMMA CountTypes == /\ NoCount \in OptCount
                    /\ Counts \subseteq OptCount
                    /\ OptCount \subseteq Int
                    /\ EmptyRow \in Row
                    /\ \A n \in OptCount : n # NoCount => n \in Counts
BY MaxPlayersAssumption DEF NoCount, OptCount, Counts, EmptyRow, Row

\* What the operators on list entries return.
LEMMA EntryTypes ==
    ASSUME NEW e \in Tracked, NEW r \in Row, NEW h \in Hosts \cup {NoHost},
           NEW n \in OptCount
    PROVE  /\ FromConfig(r) \in Tracked
           /\ ClearPingState(e) \in Tracked
           /\ ApplySuccess(e, h, n) \in Tracked
           /\ UpdateConfig(e, r) \in Tracked
<1>1. NoCount \in OptCount
  BY CountTypes
<1>2. FromConfig(r) \in Tracked
  BY <1>1 DEF FromConfig, Tracked, Row
<1>3. ClearPingState(e) \in Tracked
  BY <1>1 DEF ClearPingState, Tracked
<1>4. ApplySuccess(e, h, n) \in Tracked
  BY DEF ApplySuccess, Tracked
<1>5. UpdateConfig(e, r) \in Tracked
  BY <1>2 DEF UpdateConfig, Tracked, Row
<1>6. QED
  BY <1>2, <1>3, <1>4, <1>5

LEMMA RequestTypes == /\ IdleRequest \in Request
                      /\ DoneRequest \in Request
                      /\ DoneRequest.at = "done"
                      /\ IdleRequest.at = "idle"
BY CountTypes DEF IdleRequest, DoneRequest, Request, Ops, Stage, PauseArg

LEMMA PingTypes == NoPing \in PingState /\ NoCycle \in Cycle
BY CountTypes DEF NoPing, PingState, NoCycle, Cycle

\* The list loaded from a well-typed table is well typed.
LEMMA LoadedListType ==
    ASSUME row \in [Ids -> Row]
    PROVE  LoadedList \in [Ids -> Tracked]
<1>1. NoEntry \in Tracked
  BY CountTypes DEF NoEntry, FromConfig, Tracked, EmptyRow
<1>2. \A i \in Ids : FromConfig(row[i]) \in Tracked
  BY CountTypes DEF FromConfig, Tracked, Row
<1>3. QED
  BY <1>1, <1>2 DEF LoadedList

\* What the requests' records look like after a step.
LEMMA RequestUpdates ==
    ASSUME NEW q \in Request, NEW s \in Stage
    PROVE  /\ [q EXCEPT !.at = s] \in Request
           /\ [q EXCEPT !.at = s].id = q.id
           /\ [q EXCEPT !.at = s].at = s
           /\ \A i \in Ids, x \in Row :
                [q EXCEPT !.at = s, !.id = i, !.seen = x] \in Request
  BY DEF Request

LEMMA GotoStage ==
    ASSUME req \in [Requests -> Request], NEW r \in Requests, NEW s \in Stage,
           Goto(r, s)
    PROVE  req'[r].at = s /\ \A q \in Requests \ {r} : req'[q] = req[q]
  BY DEF Goto, Request

\* The history variables stay sets of ids.
LEMMA HistoryTypes ==
    ASSUME TypeInv, NEW r \in Requests
    PROVE  /\ \A i \in Ids : Crosses(i) => crossed' \in SUBSET Ids
           /\ \A i \in Ids : Meets(i) => garbled' \in SUBSET Ids
           /\ CutShort(r) => /\ crossed' \in SUBSET Ids
                             /\ garbled' \in SUBSET Ids
  BY DEF Crosses, Meets, CutShort, TypeInv, TypeOK

LEMMA RowPeak ==
    ASSUME NEW x \in Row, NEW n \in OptCount
    PROVE  [x EXCEPT !.peak = n] \in Row
  BY DEF Row

LEMMA InitTypeInv == Init => TypeInv
<1> SUFFICES ASSUME Init PROVE TypeInv
  OBVIOUS
<1> USE DEF Init, CatalogInit
<1>1. events \in [Ids -> Seq(EventType)]
  <2>1. <<"added">> \in Seq(EventType) /\ <<"added", "paused">> \in Seq(EventType)
    BY DEF EventType
  <2>2. << >> \in Seq(EventType)
    OBVIOUS
  <2>3. QED
    BY <2>1, <2>2
<1>2. mem \in [Ids -> Tracked]
  BY LoadedListType
<1>3. TypeOK
  BY <1>1, <1>2, RequestTypes, PingTypes DEF TypeOK
<1>4. IdsIssued
  BY RequestTypes DEF IdsIssued, NoCycle
<1>5. QED
  BY <1>3, <1>4 DEF TypeInv

\* The steps of one admin request.
LEMMA RequestTypeInv ==
    ASSUME TypeInv, NEW r \in Requests, RequestNext(r)
    PROVE  TypeInv'
<1> USE DEF TypeInv, TypeOK, IdsIssued
<1>1. ASSUME NEW q \in Request, Accept(r, q), garbled' \in SUBSET Ids,
             q.at \in {"idle", "insert", "done"} \/ q.id \in live
      PROVE  TypeInv'
  BY <1>1 DEF Accept
<1>2. CASE \E h \in Hosts : CreateAccept(r, h)
  <2> PICK h \in Hosts : CreateAccept(r, h)
    BY <1>2
  <2> DEFINE q == [IdleRequest EXCEPT !.op = "create", !.at = "insert",
                                      !.host = h]
  <2>1. q \in Request /\ q.at = "insert"
    BY RequestTypes DEF Request, Ops, Stage
  <2>2. Accept(r, q) /\ garbled' \in SUBSET Ids
    BY DEF CreateAccept
  <2> HIDE DEF q
  <2>3. QED
    BY <1>1, <2>1, <2>2
<1>3. CASE \E i \in Ids : CreateInsert(r, i)
  <2> PICK i \in Ids : CreateInsert(r, i)
    BY <1>3
  <2>1. [EmptyRow EXCEPT !.host = req[r].host] \in Row
    BY CountTypes DEF Row, Request
  <2>2. row' \in [Ids -> Row]
    BY <2>1 DEF CreateInsert
  <2> DEFINE q == [req[r] EXCEPT !.at = "reread", !.id = i]
  <2>3. q \in Request
    BY DEF Request, Stage
  <2>4. req' = [req EXCEPT ![r] = q]
    BY DEF CreateInsert
  <2>5. req' \in [Requests -> Request]
    BY <2>3, <2>4
  <2>6. IdsIssued'
    BY <2>5 DEF CreateInsert, Request
  <2>7. QED
    BY <2>2, <2>5, <2>6 DEF CreateInsert
<1>4. ASSUME Finish(r), UNCHANGED <<live, issued, row, events, pushing, cyc,
                                    ping, entries, crossed, garbled>>,
             tracked' \in SUBSET issued, mem' \in [Ids -> Tracked]
      PROVE  TypeInv'
  BY <1>4, RequestTypes DEF Finish
<1>5. CASE CreateConflict(r) \/ UpdateConflict(r) \/ UpdateNotFound(r)
  BY <1>4, <1>5 DEF CreateConflict, UpdateConflict, UpdateNotFound
<1>6. ASSUME NEW s \in {"event", "memory", "delete", "write", "reread"}, Goto(r, s),
             req[r].at \notin {"idle", "insert", "done"},
             UNCHANGED <<live, issued, tracked, mem, pushing, cyc, ping, entries>>,
             row' \in [Ids -> Row], events' \in [Ids -> Seq(EventType)],
             crossed' \in SUBSET Ids, garbled' \in SUBSET Ids
      PROVE  TypeInv'
  <2> DEFINE q == [req[r] EXCEPT !.at = s]
  <2>1. q \in Request /\ q.id = req[r].id /\ q.at = s
    <3>1. req[r] \in Request
      OBVIOUS
    <3>2. s \in Stage
      BY <1>6 DEF Stage
    <3>3. QED
      BY <3>1, <3>2, RequestUpdates
  <2>2. req' = [req EXCEPT ![r] = q]
    BY <1>6 DEF Goto
  <2> HIDE DEF q
  <2>3. req' \in [Requests -> Request]
    BY <2>1, <2>2
  <2>4. TypeOK'
    BY <1>6, <2>3
  <2>5. IdsIssued'
    BY <1>6, <2>1, <2>2
  <2>6. QED
    BY <2>4, <2>5
<1>7. ASSUME NEW i \in issued, NEW e \in EventType, Record(i, e)
      PROVE  events' \in [Ids -> Seq(EventType)] /\ garbled' \in SUBSET Ids
  <2>1. events[i] \in Seq(EventType)
    OBVIOUS
  <2>2. Append(events[i], e) \in Seq(EventType)
    BY <2>1, AppendProperties
  <2>3. QED
    BY <1>7, <2>2 DEF Record
<1>8. CASE CreateEvent(r)
  BY <1>6, <1>7, <1>8 DEF CreateEvent, EventType
<1>9. CASE CreateAppend(r)
  <2>1. req[r].id \in issued /\ req[r].seen \in Row
    BY <1>9 DEF CreateAppend, Request
  <2>2. FromConfig(req[r].seen) \in Tracked
    BY <2>1, CountTypes DEF FromConfig, Tracked, Row
  <2>3. QED
    BY <1>4, <1>9, <2>1, <2>2 DEF CreateAppend
<1>10. CASE \E i \in Ids, a \in PatchArgs : UpdateAccept(r, i, a[1], a[2])
  <2> PICK i \in Ids, a \in PatchArgs : UpdateAccept(r, i, a[1], a[2])
    BY <1>10
  <2> DEFINE q == [IdleRequest EXCEPT !.op = "update", !.at = "base", !.id = i,
                     !.host = a[1], !.pause = a[2], !.was = row[i].paused]
  <2>1. a[1] \in Hosts \cup {NoHost} /\ a[2] \in PauseArg
    BY DEF PatchArgs
  <2>2. row[i].paused \in BOOLEAN
    BY DEF Row
  <2>3. q \in Request /\ q.id = i
    BY <2>1, <2>2, RequestTypes DEF Request, Ops, Stage
  <2>4. i \in live /\ Accept(r, q) /\ Meets(i)
    BY DEF UpdateAccept
  <2> HIDE DEF q
  <2>5. QED
    BY <1>1, <2>3, <2>4, HistoryTypes
<1>11. CASE UpdateReadBase(r)
  <2> DEFINE q == [req[r] EXCEPT !.at = "write", !.seen = row[req[r].id]]
  <2>1. req[r].id \in live /\ row[req[r].id] \in Row
    BY <1>11 DEF UpdateReadBase
  <2>2. q \in Request /\ q.id \in live
    BY <2>1 DEF Request, Stage
  <2>3. req' = [req EXCEPT ![r] = q]
    BY <1>11 DEF UpdateReadBase
  <2> HIDE DEF q
  <2>4. QED
    BY <1>11, <2>2, <2>3 DEF UpdateReadBase
<1>12. CASE UpdateWrite(r)
  <2>1. NewHost(req[r]) \in Hosts \cup {NoHost} /\ NewPaused(req[r]) \in BOOLEAN
    BY DEF NewHost, NewPaused, Request, Row
  <2>2. row' \in [Ids -> Row]
    BY <1>12, <2>1 DEF UpdateWrite, Row
  <2>3. crossed' \in SUBSET Ids
    BY <1>12, HistoryTypes DEF UpdateWrite
  <2>4. QED
    BY <1>6, <1>12, <2>2, <2>3 DEF UpdateWrite
<1>13. CASE UpdateReread(r)
  BY <1>13 DEF UpdateReread, Request, Stage
<1>14. CASE UpdateEvent(r)
  BY <1>6, <1>7, <1>14 DEF UpdateEvent, EventType
<1>15. CASE UpdateApply(r)
  <2>1. req[r].seen \in Row
    BY DEF Request
  <2>2. \A i \in Ids : UpdateConfig(mem[i], req[r].seen) \in Tracked
    BY <2>1, EntryTypes, CountTypes
  <2>3. mem' \in [Ids -> Tracked]
    BY <1>15, <2>2 DEF UpdateApply
  <2>4. QED
    BY <1>4, <1>15, <2>3 DEF UpdateApply
<1>16. CASE \E i \in Ids : DeleteAccept(r, i)
  <2> PICK i \in Ids : DeleteAccept(r, i)
    BY <1>16
  <2> DEFINE q == [IdleRequest EXCEPT !.op = "delete", !.at = "event", !.id = i]
  <2>1. q \in Request /\ q.id = i
    BY RequestTypes DEF Request, Ops, Stage
  <2>2. i \in live /\ Accept(r, q) /\ Meets(i)
    BY DEF DeleteAccept
  <2> HIDE DEF q
  <2>3. QED
    BY <1>1, <2>1, <2>2, HistoryTypes
<1>17. CASE DeleteEvent(r)
  BY <1>6, <1>7, <1>17 DEF DeleteEvent, EventType
<1>18. CASE DeleteRow(r)
  <2>1. row' \in [Ids -> Row]
    BY <1>18, CountTypes DEF DeleteRow
  <2>2. CASE req[r].id \in live
    <3>1. Goto(r, "memory") /\ req[r].id \in issued
      BY <1>18, <2>2 DEF DeleteRow
    <3>2. req' \in [Requests -> Request]
      <4>1. [req[r] EXCEPT !.at = "memory"] \in Request
        BY DEF Request, Stage
      <4>2. QED
        BY <3>1, <4>1 DEF Goto
    <3>3. IdsIssued'
      BY <1>18, <3>1 DEF DeleteRow, Goto
    <3>4. crossed' \in SUBSET Ids
      BY <1>18, <2>2, HistoryTypes DEF DeleteRow
    <3>5. QED
      BY <1>18, <2>1, <3>2, <3>3, <3>4 DEF DeleteRow
  <2>3. CASE req[r].id \notin live
    <3>1. Finish(r)
      BY <1>18, <2>3 DEF DeleteRow
    <3>2. req' \in [Requests -> Request]
      BY <3>1, RequestTypes DEF Finish
    <3>3. IdsIssued'
      BY <1>18, <3>1, RequestTypes DEF DeleteRow, Finish
    <3>4. crossed' = crossed
      BY <1>18, <2>3 DEF DeleteRow
    <3>5. QED
      BY <1>18, <2>1, <3>2, <3>3, <3>4 DEF DeleteRow
  <2>4. QED
    BY <2>2, <2>3
<1>19. CASE DeleteForget(r)
  <2>1. NoEntry \in Tracked
    BY CountTypes, EntryTypes DEF NoEntry, FromConfig, Tracked, EmptyRow
  <2>2. QED
    BY <1>4, <1>19, <2>1 DEF DeleteForget
<1>20. CASE CreateReread(r)
  <2> DEFINE q == [req[r] EXCEPT !.at = "event", !.seen = row[req[r].id]]
  <2>1. req[r].id \in issued /\ row[req[r].id] \in Row
    BY <1>20 DEF CreateReread
  <2>2. q \in Request /\ q.id \in issued
    BY <2>1 DEF Request, Stage
  <2>3. req' = [req EXCEPT ![r] = q]
    BY <1>20 DEF CreateReread
  <2> HIDE DEF q
  <2>4. QED
    BY <1>20, <2>2, <2>3 DEF CreateReread
<1>21. QED
  BY <1>2, <1>3, <1>20, <1>5, <1>8, <1>9, <1>10, <1>11, <1>12, <1>13, <1>14, <1>15,
     <1>16, <1>17, <1>18, <1>19
  DEF RequestNext, CreateNext, UpdateNext, DeleteNext

\* The steps of the push cycle.
LEMMA CycleTypeInv ==
    ASSUME TypeInv, CycleNext
    PROVE  TypeInv'
<1> USE DEF TypeInv, TypeOK, IdsIssued
<1>1. CASE CycleStart
  <2>1. [NoPing EXCEPT !.st = "todo"] \in PingState
    BY PingTypes DEF PingState
  <2>2. ping' \in [Ids -> PingState]
    BY <1>1, <2>1, PingTypes DEF CycleStart
  <2>3. cyc' \in Cycle /\ cyc'.at = "ping"
    BY <1>1, PingTypes DEF CycleStart, Cycle
  <2>4. QED
    BY <1>1, <2>2, <2>3 DEF CycleStart
<1>2. ASSUME NEW i \in Ids, NEW p \in PingState,
             ping' = [ping EXCEPT ![i] = p],
             UNCHANGED <<live, issued, row, events, tracked, req, pushing,
                         entries, crossed, garbled>>,
             mem' \in [Ids -> Tracked], cyc' \in Cycle,
             cyc'.at = "persist" => cyc'.id \in Ids
      PROVE  TypeInv'
  BY <1>2
<1>3. ASSUME NEW i \in Ids, PingNext(i)
      PROVE  TypeInv'
  <2>1. ping[i] \in PingState /\ mem[i] \in Tracked
    OBVIOUS
  <2>2. [NoPing EXCEPT !.st = "err"] \in PingState
    BY PingTypes DEF PingState
  <2>3. CASE PingSend(i)
    <3>1. [NoPing EXCEPT !.st = "sent", !.host = mem[i].host] \in PingState
      BY <2>1, PingTypes DEF PingState, Tracked
    <3>2. QED
      BY <1>2, <2>2, <2>3, <3>1 DEF PingSend
  <2>4. ASSUME NEW n \in Counts, PingAnswer(i, n)
        PROVE  TypeInv'
    <3>1. [ping[i] EXCEPT !.st = "ok", !.players = n] \in PingState
      BY <2>1, CountTypes DEF PingState
    <3>2. ping' = [ping EXCEPT ![i] = [ping[i] EXCEPT !.st = "ok", !.players = n]]
      BY <2>4 DEF PingAnswer
    <3>3. QED
      BY <1>2, <2>4, <3>1, <3>2 DEF PingAnswer
  <2>5. CASE PingFail(i)
    BY <1>2, <2>2, <2>5 DEF PingFail
  <2>6. CASE ApplyPing(i)
    <3>1. ping[i].host \in Hosts \cup {NoHost} /\ ping[i].players \in OptCount
      BY <2>1 DEF PingState
    <3>2. ApplySuccess(mem[i], ping[i].host, ping[i].players) \in Tracked
      BY <2>1, <3>1 DEF ApplySuccess, Tracked
    <3>3. mem' \in [Ids -> Tracked]
      BY <2>6, <3>2 DEF ApplyPing
    <3>4. cyc' \in Cycle /\ (cyc'.at = "persist" => cyc'.id \in Ids)
      BY <2>6, <3>1 DEF ApplyPing, Cycle
    <3>5. ping' = [ping EXCEPT ![i] = NoPing]
          /\ UNCHANGED <<live, issued, row, events, tracked, req, pushing, entries,
                         crossed, garbled>>
      BY <2>6 DEF ApplyPing
    <3>6. QED
      BY <1>2, <3>3, <3>4, <3>5, PingTypes
  <2>7. CASE ApplyFailure(i)
    <3>1. ClearPingState(mem[i]) \in Tracked
      BY <2>1, CountTypes DEF ClearPingState, Tracked
    <3>2. mem' \in [Ids -> Tracked]
      BY <2>7, <3>1 DEF ApplyFailure
    <3>3. QED
      BY <1>2, <2>7, <3>2, PingTypes DEF ApplyFailure
  <2>8. QED
    BY <1>3, <2>3, <2>4, <2>5, <2>6, <2>7 DEF PingNext
<1>4. CASE PersistPeak
  <2>1. cyc.id \in Ids /\ cyc.players \in OptCount
    BY <1>4 DEF PersistPeak, Cycle
  <2>2. [row[cyc.id] EXCEPT !.peak = cyc.players] \in Row
    BY <2>1, RowPeak
  <2>3. row' \in [Ids -> Row]
    BY <1>4, <2>1, <2>2 DEF PersistPeak, UpdatePeakIfHigher
  <2>4. cyc' \in Cycle /\ cyc'.at = "ping"
    BY <1>4, PingTypes DEF PersistPeak, Cycle
  <2>5. QED
    BY <1>4, <2>3, <2>4 DEF PersistPeak
<1>5. CASE Collect
  <2>1. cyc' \in Cycle /\ cyc'.at = "push"
    BY <1>5, PingTypes DEF Collect, Cycle
  <2>2. entries' \in SUBSET Sample
    BY <1>5, CountTypes DEF Collect, Sample, Tracked
  <2>3. QED
    BY <1>5, <2>1, <2>2 DEF Collect
<1>6. CASE CycleEnd
  BY <1>6, PingTypes DEF CycleEnd, NoCycle
<1>7. QED
  BY <1>1, <1>3, <1>4, <1>5, <1>6 DEF CycleNext, CycleRuns

\* A disconnect, a failing statement and a restart.
LEMMA FaultTypeInv ==
    ASSUME TypeInv,
           (\E r \in Requests : Disconnect(r) \/ StatementFails(r)) \/ Restart
    PROVE  TypeInv'
<1> USE DEF TypeInv, TypeOK, IdsIssued
<1>1. ASSUME NEW r \in Requests, Disconnect(r) \/ StatementFails(r)
      PROVE  TypeInv'
  BY <1>1, RequestTypes, HistoryTypes DEF Disconnect, StatementFails, Finish
<1>2. CASE Restart
  <2>1. mem' \in [Ids -> Tracked]
    BY <1>2, LoadedListType DEF Restart
  <2>2. req' \in [Requests -> Request]
    BY <1>2, RequestTypes DEF Restart
  <2>3. \A r \in Requests : req'[r].at \in {"idle", "done"}
    BY <1>2, RequestTypes DEF Restart, InFlight
  <2>4. QED
    BY <1>2, <2>1, <2>2, <2>3, PingTypes DEF Restart, NoCycle
<1>3. QED
  BY <1>1, <1>2

LEMMA StepTypeInv == TypeInv /\ [Next]_vars => TypeInv'
<1> SUFFICES ASSUME TypeInv, [Next]_vars PROVE TypeInv'
  OBVIOUS
<1>1. CASE Next
  BY <1>1, RequestTypeInv, CycleTypeInv, FaultTypeInv DEF Next
<1>2. CASE UNCHANGED vars
  BY <1>2 DEF vars, TypeInv, TypeOK, IdsIssued
<1>3. QED
  BY <1>1, <1>2

\* Whatever requests, cycles, disconnects and crashes do to them, the tables,
\* the list, the handlers and the cycle keep their types.
THEOREM TypeCorrect == Spec => []TypeOK
<1>1. TypeInv => TypeOK
  BY DEF TypeInv
<1>2. QED
  BY InitTypeInv, StepTypeInv, <1>1, PTL DEF Spec

LEMMA TypeInvariant == Spec => []TypeInv
BY InitTypeInv, StepTypeInv, PTL DEF Spec

-----------------------------------------------------------------------------
(* The table keeps the promises of ServerCatalog.  A step of the catalogue   *)
(* names an address, so a handler must carry one when it reaches its write;   *)
(* and the place of a row that is gone is empty.                             *)

TableInv ==
    /\ \A i \in Ids : IF i \in live THEN row[i].host \in Hosts
                                    ELSE row[i] = EmptyRow
    /\ \A r \in Requests :
         /\ req[r].at = "insert" => req[r].host \in Hosts
         /\ req[r].at = "write" => req[r].seen.host \in Hosts

\* A step that leaves the table alone stutters in the catalogue; it preserves
\* TableInv when the handler it moves does not enter "insert" or "write".
LEMMA TableInvStep ==
    ASSUME TypeInv, TableInv, [Next]_vars
    PROVE  TableInv' /\ [CatalogNext]_catalogVars
<1> USE DEF TypeInv, TypeOK, TableInv, catalogVars
<1>1. ASSUME UNCHANGED catalogVars,
             \A r \in Requests : req'[r].at \in {"insert", "write"} => req'[r] = req[r]
      PROVE  TableInv' /\ [CatalogNext]_catalogVars
  BY <1>1
<1>2. ASSUME NEW r \in Requests, CreateNext(r)
      PROVE  TableInv' /\ [CatalogNext]_catalogVars
  <2>1. ASSUME NEW h \in Hosts, CreateAccept(r, h)
        PROVE  TableInv' /\ [CatalogNext]_catalogVars
    BY <2>1, RequestTypes DEF CreateAccept, Accept, IdleRequest
  <2>2. ASSUME NEW i \in Ids, CreateInsert(r, i)
        PROVE  TableInv' /\ [CatalogNext]_catalogVars
    <3>1. Add(i, req[r].host) /\ req[r].host \in Hosts
      BY <2>2 DEF CreateInsert, Add
    <3>2. CatalogNext
      BY <3>1 DEF CatalogNext
    <3>3. \A j \in Ids : IF j \in live' THEN row'[j].host \in Hosts
                                      ELSE row'[j] = EmptyRow
      BY <3>1 DEF Add, EmptyRow
    <3>4. \A s \in Requests : req'[s].at \in {"insert", "write"} => req'[s] = req[s]
      BY <2>2 DEF CreateInsert, Request
    <3>5. QED
      BY <3>2, <3>3, <3>4
  <2>3. CASE CreateConflict(r)
    BY <1>1, <2>3, RequestTypes DEF CreateConflict, Finish
  <2>7. CASE CreateReread(r)
    <3>1. req'[r].at = "event"
      BY <2>7 DEF CreateReread, Request
    <3>2. \A s \in Requests \ {r} : req'[s] = req[s]
      BY <2>7 DEF CreateReread
    <3>3. UNCHANGED catalogVars
      BY <2>7 DEF CreateReread
    <3>4. QED
      BY <1>1, <3>1, <3>2, <3>3
  <2>4. CASE CreateEvent(r)
    BY <1>1, <2>4 DEF CreateEvent, Goto
  <2>5. CASE CreateAppend(r)
    BY <1>1, <2>5, RequestTypes DEF CreateAppend, Finish
  <2>6. QED
    BY <1>2, <2>1, <2>2, <2>3, <2>7, <2>4, <2>5 DEF CreateNext
<1>3. ASSUME NEW r \in Requests, UpdateNext(r)
      PROVE  TableInv' /\ [CatalogNext]_catalogVars
  <2>1. ASSUME NEW i \in Ids, NEW a \in PatchArgs, UpdateAccept(r, i, a[1], a[2])
        PROVE  TableInv' /\ [CatalogNext]_catalogVars
    BY <1>1, <2>1, RequestTypes DEF UpdateAccept, Accept, IdleRequest
  <2>2. CASE UpdateReadBase(r)
    BY <2>2 DEF UpdateReadBase
  <2>3. CASE UpdateWrite(r)
    <3> DEFINE i == req[r].id
               h == NewHost(req[r])
               p == NewPaused(req[r])
    <3>1. i \in live /\ i \in Ids
      BY <2>3 DEF UpdateWrite
    <3>2. h \in Hosts /\ p \in BOOLEAN
      BY <2>3 DEF UpdateWrite, NewHost, NewPaused, Request, Row
    <3>3. h = row[i].host \/ Free(h)
      BY <2>3, <3>1 DEF UpdateWrite, TakenByOther, Free
    <3>4. Edit(i, h, p)
      BY <2>3, <3>1, <3>3 DEF UpdateWrite, Edit
    <3>5. CatalogNext
      BY <3>1, <3>2, <3>4 DEF CatalogNext
    <3>6. \A j \in Ids : IF j \in live' THEN row'[j].host \in Hosts
                        ELSE row'[j] = EmptyRow
      BY <3>1, <3>2, <3>4 DEF Edit
    <3>7. \A s \in Requests : req'[s].at \in {"insert", "write"} => req'[s] = req[s]
      BY <2>3 DEF UpdateWrite, Goto
    <3>8. QED
      BY <3>5, <3>6, <3>7
  <2>4. CASE UpdateConflict(r) \/ UpdateNotFound(r) \/ UpdateApply(r)
    BY <1>1, <2>4, RequestTypes
    DEF UpdateConflict, UpdateNotFound, UpdateApply, Finish
  <2>5. CASE UpdateReread(r) \/ UpdateEvent(r)
    <3>1. req'[r].at \in {"event", "memory"}
      BY <2>5 DEF UpdateReread, UpdateEvent, Goto, Request
    <3>2. \A s \in Requests \ {r} : req'[s] = req[s]
      BY <2>5 DEF UpdateReread, UpdateEvent, Goto
    <3>3. UNCHANGED catalogVars
      BY <2>5 DEF UpdateReread, UpdateEvent
    <3>4. QED
      BY <1>1, <3>1, <3>2, <3>3
  <2>6. QED
    BY <1>3, <2>1, <2>2, <2>3, <2>4, <2>5 DEF UpdateNext
<1>4. ASSUME NEW r \in Requests, DeleteNext(r)
      PROVE  TableInv' /\ [CatalogNext]_catalogVars
  <2>1. ASSUME NEW i \in Ids, DeleteAccept(r, i)
        PROVE  TableInv' /\ [CatalogNext]_catalogVars
    BY <1>1, <2>1, RequestTypes DEF DeleteAccept, Accept, IdleRequest
  <2>2. CASE DeleteEvent(r)
    BY <1>1, <2>2 DEF DeleteEvent, Goto
  <2>3. CASE DeleteRow(r)
    <3>1. \A s \in Requests : req'[s].at \in {"insert", "write"} => req'[s] = req[s]
      <4>1. Goto(r, "memory") \/ Finish(r)
        BY <2>3 DEF DeleteRow
      <4>2. QED
        <5>1. CASE Goto(r, "memory")
          BY <5>1 DEF Goto
        <5>2. CASE Finish(r)
          BY <5>2, RequestTypes DEF Finish
        <5>3. QED
          BY <4>1, <5>1, <5>2
    <3>2. CASE req[r].id \in live
      <4>1. Remove(req[r].id) /\ req[r].id \in Ids
        BY <2>3, <3>2 DEF DeleteRow, Remove
      <4>2. CatalogNext
        BY <4>1 DEF CatalogNext
      <4>3. \A j \in Ids : IF j \in live' THEN row'[j].host \in Hosts
                          ELSE row'[j] = EmptyRow
        BY <4>1 DEF Remove
      <4>4. QED
        BY <3>1, <4>2, <4>3
    <3>3. CASE req[r].id \notin live
      <4>1. live' = live /\ issued' = issued
        BY <2>3, <3>3 DEF DeleteRow
      <4>2. req[r].id \in Ids => row[req[r].id] = EmptyRow
        BY <3>3
      <4>3. QED
        BY <2>3, <3>1, <4>1, <4>2, <1>1 DEF DeleteRow
    <3>4. QED
      BY <3>2, <3>3
  <2>4. CASE DeleteForget(r)
    BY <1>1, <2>4, RequestTypes DEF DeleteForget, Finish
  <2>5. QED
    BY <1>4, <2>1, <2>2, <2>3, <2>4 DEF DeleteNext
<1>5. CASE CycleNext
  <2>1. req' = req
    BY <1>5 DEF CycleNext, CycleRuns, CycleStart, PingNext, PingSend, PingAnswer, PingFail,
                ApplyPing, ApplyFailure, PersistPeak, Collect, CycleEnd
  <2>2. CASE PersistPeak
    <3> DEFINE i == cyc.id
               n == cyc.players
    <3>1. i \in Ids /\ n \in OptCount
      BY <2>2 DEF PersistPeak, IdsIssued, Cycle
    <3>2. CASE i \in live /\ n > row[i].peak /\ row' # row
      <4>1. RaisePeak(i, n)
        BY <2>2, <3>2 DEF PersistPeak, UpdatePeakIfHigher, RaisePeak
      <4>2. n \in Counts
        <5>1. row[i].peak \in OptCount
          BY <3>1 DEF Row
        <5>2. n # NoCount
          BY <3>2, <5>1, MaxPlayersAssumption DEF NoCount, OptCount, Counts
        <5>3. QED
          BY <3>1, <5>2, CountTypes
      <4>3. CatalogNext
        BY <3>1, <4>1, <4>2 DEF CatalogNext
      <4>4. \A j \in Ids : IF j \in live' THEN row'[j].host \in Hosts
                          ELSE row'[j] = EmptyRow
        BY <4>1 DEF RaisePeak
      <4>5. QED
        BY <2>1, <4>3, <4>4
    <3>3. CASE ~(i \in live /\ n > row[i].peak /\ row' # row)
      <4>1. UNCHANGED catalogVars
        BY <2>2, <3>3 DEF PersistPeak, UpdatePeakIfHigher
      <4>2. QED
        BY <1>1, <2>1, <4>1
    <3>4. QED
      BY <3>2, <3>3
  <2>3. CASE ~PersistPeak
    <3>1. UNCHANGED catalogVars
      BY <1>5, <2>3 DEF CycleNext, CycleRuns, CycleStart, PingNext, PingSend, PingAnswer,
                        PingFail, ApplyPing, ApplyFailure, Collect, CycleEnd
    <3>2. QED
      BY <1>1, <2>1, <3>1
  <2>4. QED
    BY <2>2, <2>3
<1>6. CASE \E r \in Requests : Disconnect(r) \/ StatementFails(r)
  BY <1>1, <1>6, RequestTypes DEF Disconnect, StatementFails, Finish
<1>7. CASE Restart
  BY <1>1, <1>7, RequestTypes DEF Restart, InFlight
<1>8. CASE UNCHANGED vars
  BY <1>1, <1>8 DEF vars
<1>9. QED
  BY <1>2, <1>3, <1>4, <1>5, <1>6, <1>7, <1>8 DEF Next, RequestNext

LEMMA InitTableInv == Init => TableInv
BY DEF Init, CatalogInit, TableInv, IdleRequest

\* The tracker implements the catalogue: unique addresses, ids that never come
\* back and peaks that only rise, although two handlers and the push cycle
\* write to the same rows and any of them may stop half way.
THEOREM ImplementsCatalog == Spec => CatalogSpec
<1>1. Init => CatalogInit
  BY DEF Init
<1>2. TypeInv /\ TableInv /\ [Next]_vars => TableInv' /\ [CatalogNext]_catalogVars
  BY TableInvStep
<1>3. QED
  BY <1>1, <1>2, InitTableInv, TypeInvariant, PTL DEF Spec, CatalogSpec

LEMMA TableInvariant == Spec => []TableInv
BY InitTableInv, TableInvStep, TypeInvariant, PTL DEF Spec

-----------------------------------------------------------------------------
(* Peaks are durable.  PeakDurable is not inductive: a POST or PATCH puts    *)
(* the peak of the row it has read into the list, so that peak must be no    *)
(* larger than the one in the table, which only rises.                       *)

Holds(q) == q.op \in {"create", "update"} /\ q.at \in {"event", "memory"}

PeakInv ==
    /\ PeakDurable
    /\ \A r \in Requests :
         Holds(req[r]) /\ req[r].id \in live =>
           req[r].seen.peak <= row[req[r].id].peak
    /\ cyc.at # "off" => pushing

\* No step lowers the peak of a row, and a row that appears has a new id.
LEMMA PeaksRise ==
    ASSUME TypeInv, [CatalogNext]_catalogVars
    PROVE  /\ \A i \in live \cap live' : row[i].peak <= row'[i].peak
           /\ \A i \in live' \ live : i \notin issued
<1> USE DEF TypeInv, TypeOK, IdsIssued
<1>1. \A i \in Ids : row[i].peak \in Int
  BY CountTypes DEF Row
<1>2. CASE UNCHANGED catalogVars
  BY <1>1, <1>2 DEF catalogVars
<1>3. ASSUME NEW i \in Ids,
             \/ \E h \in Hosts : Add(i, h)
             \/ \E h \in Hosts, p \in BOOLEAN : Edit(i, h, p)
             \/ \E n \in Counts : RaisePeak(i, n)
             \/ Remove(i)
      PROVE  /\ \A j \in live \cap live' : row[j].peak <= row'[j].peak
             /\ \A j \in live' \ live : j \notin issued
  <2>1. CASE \E h \in Hosts : Add(i, h)
    BY <1>1, <2>1 DEF Add
  <2>2. CASE \E h \in Hosts, p \in BOOLEAN : Edit(i, h, p)
    BY <1>1, <2>2 DEF Edit, Row
  <2>3. CASE \E n \in Counts : RaisePeak(i, n)
    BY <1>1, <2>3 DEF RaisePeak, Row, Counts
  <2>4. CASE Remove(i)
    BY <1>1, <2>4 DEF Remove
  <2>5. QED
    BY <1>3, <2>1, <2>2, <2>3, <2>4
<1>4. QED
  BY <1>2, <1>3 DEF CatalogNext

LEMMA InitPeakInv == Init => PeakInv
<1> SUFFICES ASSUME Init PROVE PeakInv
  OBVIOUS
<1>1. \A i \in Ids : row[i].peak \in Int
  BY CountTypes DEF Init, CatalogInit, Row
<1>2. \A i \in live \cap tracked : mem[i].peak = row[i].peak
  BY DEF Init, CatalogInit, LoadedList, FromConfig
<1>3. QED
  BY <1>1, <1>2 DEF Init, CatalogInit, PeakInv, PeakDurable, IdleRequest, NoCycle, Holds

LEMMA StepPeakInv ==
    ASSUME DbFaults = FALSE, TypeInv, TypeInv', PeakInv, [Next]_vars,
           [CatalogNext]_catalogVars
    PROVE  PeakInv'
<1> USE DEF TypeInv, TypeOK, IdsIssued
<1>1. /\ \A i \in live \cap live' : row[i].peak <= row'[i].peak
      /\ \A i \in live' \ live : i \notin issued
  BY PeaksRise
<1>2. /\ \A i \in Ids : row[i].peak \in Int /\ row'[i].peak \in Int
      /\ \A i \in Ids : row'[i].peak >= NoCount
      /\ \A i \in Ids : mem[i].peak \in Int /\ mem'[i].peak \in Int
      /\ \A r \in Requests : req[r].seen.peak \in Int
  <2>1. \A n \in OptCount : n \in Int /\ n >= NoCount
    BY MaxPlayersAssumption DEF OptCount, Counts, NoCount
  <2>2. \A i \in Ids : row[i].peak \in OptCount /\ row'[i].peak \in OptCount
    <3>1. \A i \in Ids : row[i] \in Row /\ row'[i] \in Row
      OBVIOUS
    <3>2. QED
      BY <3>1 DEF Row
  <2>3. \A i \in Ids : mem[i].peak \in OptCount /\ mem'[i].peak \in OptCount
    <3>1. \A i \in Ids : mem[i] \in Tracked /\ mem'[i] \in Tracked
      OBVIOUS
    <3>2. QED
      BY <3>1 DEF Tracked
  <2>4. \A r \in Requests : req[r].seen.peak \in OptCount
    BY DEF Request, Row
  <2>5. QED
    BY <2>1, <2>2, <2>3, <2>4
\* The handlers' part, when a handler either stays, or stops carrying a row.
<1>3. ASSUME \A r \in Requests :
               Holds(req'[r]) => /\ Holds(req[r])
                                 /\ req[r].id = req'[r].id
                                 /\ req[r].seen = req'[r].seen
      PROVE  \A r \in Requests :
               Holds(req'[r]) /\ req'[r].id \in live' =>
                 req'[r].seen.peak <= row'[req'[r].id].peak
  <2> SUFFICES ASSUME NEW r \in Requests, Holds(req'[r]), req'[r].id \in live'
               PROVE  req'[r].seen.peak <= row'[req'[r].id].peak
    OBVIOUS
  <2>1. Holds(req[r]) /\ req[r].id = req'[r].id /\ req[r].seen = req'[r].seen
    BY <1>3
  <2>2. req[r].id \in issued
    BY <2>1 DEF Holds
  <2>3. req[r].id \in live /\ req[r].id \in Ids
    BY <1>1, <2>1, <2>2
  <2>4. req[r].seen.peak <= row[req[r].id].peak
    BY <2>1, <2>3 DEF PeakInv
  <2>5. QED
    BY <1>1, <1>2, <2>1, <2>3, <2>4
\* The list's part, when neither a peak in it nor the cycle changes.
<1>4. ASSUME tracked' \subseteq tracked, cyc' = cyc,
             \A i \in tracked' : mem'[i].peak = mem[i].peak
      PROVE  PeakDurable'
  <2> SUFFICES ASSUME NEW i \in live' \cap tracked'
               PROVE  \/ mem'[i].peak <= row'[i].peak
                      \/ /\ cyc'.at = "persist" /\ cyc'.id = i
                         /\ mem'[i].peak <= cyc'.players
    BY DEF PeakDurable
  <2>1. i \in live \cap tracked /\ i \in Ids
    BY <1>1, <1>4
  <2>2. row[i].peak <= row'[i].peak /\ mem'[i].peak = mem[i].peak
    BY <1>1, <1>4, <2>1
  <2>3. \/ mem[i].peak <= row[i].peak
        \/ cyc.at = "persist" /\ cyc.id = i /\ mem[i].peak <= cyc.players
    BY <2>1 DEF PeakDurable, PeakInv
  <2>4. QED
    BY <1>2, <1>4, <2>1, <2>2, <2>3
<1>5. ASSUME UNCHANGED <<mem, tracked, cyc, pushing>>,
             \A r \in Requests :
               Holds(req'[r]) => /\ Holds(req[r])
                                 /\ req[r].id = req'[r].id
                                 /\ req[r].seen = req'[r].seen
      PROVE  PeakInv'
  BY <1>3, <1>4, <1>5 DEF PeakInv
<1>6. ASSUME NEW r \in Requests, CreateNext(r)
      PROVE  PeakInv'
  <2>1. ASSUME NEW h \in Hosts, CreateAccept(r, h)
        PROVE  PeakInv'
    BY <1>5, <2>1, RequestTypes DEF CreateAccept, Accept, IdleRequest, Holds
  <2>2. ASSUME NEW i \in Ids, CreateInsert(r, i)
        PROVE  PeakInv'
    <3>1. ~Holds(req'[r]) /\ \A s \in Requests \ {r} : req'[s] = req[s]
      BY <2>2 DEF CreateInsert, Holds, Request
    <3>2. UNCHANGED <<mem, tracked, cyc, pushing>>
      BY <2>2 DEF CreateInsert
    <3>3. QED
      BY <1>5, <3>1, <3>2
  <2>7. CASE CreateReread(r)
    <3>1. PeakDurable'
      BY <1>4, <2>7 DEF CreateReread
    <3>2. req'[r].seen = row[req[r].id] /\ req'[r].id = req[r].id
      BY <2>7 DEF CreateReread, Request
    <3>3. row' = row /\ live' = live /\ \A s \in Requests \ {r} : req'[s] = req[s]
      BY <2>7 DEF CreateReread
    <3>4. req[r].id \in live => req[r].id \in Ids
      OBVIOUS
    <3>5. ASSUME NEW s \in Requests, Holds(req'[s]), req'[s].id \in live'
          PROVE  req'[s].seen.peak <= row'[req'[s].id].peak
      <4>1. CASE s = r
        BY <1>2, <3>2, <3>3, <3>4, <3>5, <4>1
      <4>2. CASE s # r
        BY <3>3, <3>5, <4>2 DEF PeakInv
      <4>3. QED
        BY <4>1, <4>2
    <3>6. cyc'.at # "off" => pushing'
      BY <2>7 DEF PeakInv, CreateReread
    <3>7. QED
      BY <3>1, <3>5, <3>6 DEF PeakInv
  <2>3. CASE CreateConflict(r)
    BY <1>5, <2>3, RequestTypes DEF CreateConflict, Finish, DoneRequest, Holds
  <2>4. CASE CreateEvent(r)
    BY <1>5, <2>4 DEF CreateEvent, Goto, Holds
  <2>5. CASE CreateAppend(r)
    <3> PICK k \in Ids : k = req[r].id
      BY <2>5 DEF CreateAppend
    <3>1. k \in live => req[r].seen.peak <= row[k].peak
      BY <2>5 DEF CreateAppend, PeakInv, Holds
    <3>2. mem'[k].peak = req[r].seen.peak
      BY <2>5 DEF CreateAppend, FromConfig
    <3>3. \A i \in tracked' \ {k} : i \in tracked /\ mem'[i] = mem[i]
      BY <2>5 DEF CreateAppend
    <3>4. PeakDurable'
      BY <2>5, <3>1, <3>2, <3>3 DEF CreateAppend, PeakDurable, PeakInv
    <3>5. QED
      BY <1>3, <2>5, <3>4, RequestTypes
      DEF CreateAppend, Finish, DoneRequest, PeakInv, Holds
  <2>6. QED
    BY <1>6, <2>1, <2>2, <2>3, <2>4, <2>5, <2>7 DEF CreateNext
<1>7. ASSUME NEW r \in Requests, UpdateNext(r)
      PROVE  PeakInv'
  <2>1. ASSUME NEW i \in Ids, NEW a \in PatchArgs, UpdateAccept(r, i, a[1], a[2])
        PROVE  PeakInv'
    BY <1>5, <2>1, RequestTypes DEF UpdateAccept, Accept, IdleRequest, Holds
  <2>2. CASE UpdateReadBase(r)
    BY <1>5, <2>2 DEF UpdateReadBase, Holds
  <2>3. CASE UpdateWrite(r)
    BY <1>5, <2>3 DEF UpdateWrite, Goto, Holds
  <2>4. CASE UpdateConflict(r) \/ UpdateNotFound(r)
    BY <1>5, <2>4, RequestTypes DEF UpdateConflict, UpdateNotFound, Finish, DoneRequest, Holds
  <2>5. CASE UpdateReread(r)
    <3>1. PeakDurable'
      BY <1>4, <2>5 DEF UpdateReread
    <3>2. req'[r].seen = row[req[r].id] /\ req'[r].op = "update" /\ req'[r].id = req[r].id
      <4> DEFINE at == IF PauseAsked(req[r]) THEN "event" ELSE "memory"
      <4>1. req[r] \in Request /\ row[req[r].id] \in Row
        BY <2>5 DEF UpdateReread
      <4>2. at \in Stage
        BY DEF Stage
      <4>3. req'[r] = [req[r] EXCEPT !.seen = row[req[r].id], !.at = at]
        BY <2>5 DEF UpdateReread
      <4>4. req[r].op = "update"
        BY <2>5 DEF UpdateReread
      <4> HIDE DEF at
      <4>5. /\ req'[r].seen = row[req[r].id]
            /\ req'[r].op = req[r].op
            /\ req'[r].id = req[r].id
        BY ONLY <4>1, <4>3 DEF Request
      <4>6. QED
        BY ONLY <4>4, <4>5
    <3>3. req[r].id \in live /\ row' = row /\ live' = live
      BY <2>5 DEF UpdateReread
    <3>4. \A s \in Requests \ {r} : req'[s] = req[s]
      BY <2>5 DEF UpdateReread
    <3>5. ASSUME NEW s \in Requests, Holds(req'[s]), req'[s].id \in live'
          PROVE  req'[s].seen.peak <= row'[req'[s].id].peak
      <4>1. CASE s = r
        BY <1>2, <3>2, <3>3, <4>1
      <4>2. CASE s # r
        BY <3>3, <3>4, <3>5, <4>2 DEF PeakInv
      <4>3. QED
        BY <4>1, <4>2
    <3>6. cyc'.at # "off" => pushing'
      BY <2>5 DEF PeakInv, UpdateReread
    <3>7. QED
      BY <3>1, <3>5, <3>6 DEF PeakInv
  <2>6. CASE UpdateEvent(r)
    BY <1>5, <2>6 DEF UpdateEvent, Goto, Holds
  <2>7. CASE UpdateApply(r)
    <3>1. req[r].id \in live => req[r].seen.peak <= row[req[r].id].peak
      BY <2>7 DEF UpdateApply, PeakInv, Holds
    <3>2. req[r].id \in tracked => mem'[req[r].id].peak = req[r].seen.peak
      BY <2>7 DEF UpdateApply, UpdateConfig, FromConfig, Tracked
    <3>3. \A i \in tracked \ {req[r].id} : mem'[i] = mem[i]
      BY <2>7 DEF UpdateApply
    <3>4. PeakDurable'
      BY <2>7, <3>1, <3>2, <3>3 DEF UpdateApply, PeakDurable, PeakInv
    <3>5. QED
      BY <1>3, <2>7, <3>4, RequestTypes DEF UpdateApply, Finish, DoneRequest, PeakInv, Holds
  <2>8. QED
    BY <1>7, <2>1, <2>2, <2>3, <2>4, <2>5, <2>6, <2>7 DEF UpdateNext
<1>8. ASSUME NEW r \in Requests, DeleteNext(r)
      PROVE  PeakInv'
  <2>1. ASSUME NEW i \in Ids, DeleteAccept(r, i)
        PROVE  PeakInv'
    BY <1>5, <2>1, RequestTypes DEF DeleteAccept, Accept, IdleRequest, Holds
  <2>2. CASE DeleteEvent(r)
    BY <1>5, <2>2 DEF DeleteEvent, Goto, Holds
  <2>3. CASE DeleteRow(r)
    <3>1. Goto(r, "memory") \/ Finish(r)
      BY <2>3 DEF DeleteRow
    <3>2. \A s \in Requests \ {r} : req'[s] = req[s]
      BY <3>1 DEF Goto, Finish
    <3>3. req'[r].op \notin {"create", "update"}
      <4>1. CASE Goto(r, "memory")
        BY <2>3, <4>1 DEF Goto, DeleteRow, Request
      <4>2. CASE Finish(r)
        BY <4>2 DEF Finish, DoneRequest, IdleRequest
      <4>3. QED
        BY <3>1, <4>1, <4>2
    <3>4. QED
      BY <1>5, <2>3, <3>2, <3>3 DEF DeleteRow, Holds
  <2>4. CASE DeleteForget(r)
    <3>1. PeakDurable'
      BY <1>4, <2>4 DEF DeleteForget
    <3>2. QED
      BY <1>3, <2>4, <3>1, RequestTypes DEF DeleteForget, Finish, DoneRequest, PeakInv,
      Holds
  <2>5. QED
    BY <1>8, <2>1, <2>2, <2>3, <2>4 DEF DeleteNext
<1>9. CASE CycleNext
  <2>1. req' = req
    BY <1>9 DEF CycleNext, CycleRuns, CycleStart, PingNext, PingSend, PingAnswer, PingFail,
                ApplyPing, ApplyFailure, PersistPeak, Collect, CycleEnd
  <2>2. ASSUME PeakDurable', cyc'.at # "off" => pushing'
        PROVE  PeakInv'
    BY <1>3, <2>1, <2>2 DEF PeakInv
  <2>3. ASSUME cyc.at # "persist", cyc'.at # "off" => pushing',
               UNCHANGED <<live, row, tracked>>,
               \A i \in Ids : mem'[i].peak = mem[i].peak
        PROVE  PeakInv'
    BY <2>2, <2>3 DEF PeakInv, PeakDurable
  <2>4. CASE CycleStart
    BY <2>3, <2>4 DEF CycleStart, NoCycle, PeakInv
  <2>5. ASSUME NEW i \in Ids, PingNext(i)
        PROVE  PeakInv'
    <3>1. CASE PingSend(i) \/ PingFail(i) \/ \E n \in Counts : PingAnswer(i, n)
      BY <1>5, <3>1 DEF PingSend, PingFail, PingAnswer
    <3>2. CASE ApplyFailure(i)
      <4>1. \A j \in Ids : mem'[j].peak = mem[j].peak
        BY <3>2 DEF ApplyFailure, ClearPingState, Tracked
      <4>2. cyc.at = "ping" /\ cyc' = cyc /\ pushing' = pushing
            /\ UNCHANGED <<live, row, tracked>>
        BY <3>2 DEF ApplyFailure
      <4>3. pushing
        BY <4>2 DEF PeakInv
      <4>4. QED
        BY <2>3, <4>1, <4>2, <4>3
    <3>3. CASE ApplyPing(i)
      <4> DEFINE n == ping[i].players
      <4>1. n \in Int
        BY CountTypes DEF PingState
      <4>2. \A j \in live \cap tracked : mem[j].peak <= row[j].peak
        BY <3>3 DEF ApplyPing, PeakInv, PeakDurable
      <4>3. \A j \in Ids \ {i} : mem'[j] = mem[j]
        BY <3>3 DEF ApplyPing
      <4>4. CASE i \in tracked /\ n > mem[i].peak
        <5>1. mem'[i].peak = n
          BY <3>3, <4>4 DEF ApplyPing, ApplySuccess, Tracked
        <5>2. cyc' = [at |-> "persist", id |-> i, players |-> n]
          BY <3>3, <4>4 DEF ApplyPing
        <5>3. PeakDurable'
          BY <3>3, <4>1, <4>2, <4>3, <5>1, <5>2 DEF ApplyPing, PeakDurable
        <5>4. pushing'
          <6>1. pushing' = pushing
            BY <3>3 DEF ApplyPing
          <6>2. pushing
            BY <3>3 DEF ApplyPing, PeakInv
          <6>3. QED
            BY <6>1, <6>2
        <5>5. QED
          BY <2>2, <5>3, <5>4
      <4>5. CASE ~(i \in tracked /\ n > mem[i].peak)
        <5>1. mem'[i].peak = mem[i].peak
          BY <1>2, <3>3, <4>1, <4>5 DEF ApplyPing, ApplySuccess, Tracked
        <5>2. cyc' = cyc
          BY <3>3, <4>5 DEF ApplyPing
        <5>3. cyc.at = "ping" /\ pushing' = pushing /\ UNCHANGED <<live, row, tracked>>
          BY <3>3 DEF ApplyPing
        <5>4. pushing
          BY <5>3 DEF PeakInv
        <5>5. \A j \in Ids : mem'[j].peak = mem[j].peak
          BY <4>3, <5>1
        <5>6. QED
          BY <2>3, <5>2, <5>3, <5>4, <5>5
      <4>6. QED
        BY <4>4, <4>5
    <3>4. QED
      BY <2>5, <3>1, <3>2, <3>3 DEF PingNext
  <2>6. CASE PersistPeak
    <3>1. cyc.id \in Ids /\ cyc.players \in Int
      BY <2>6, CountTypes DEF PersistPeak, Cycle
    <3>2. row' = IF cyc.id \in live /\ cyc.players > row[cyc.id].peak
                 THEN [row EXCEPT ![cyc.id].peak = cyc.players] ELSE row
      BY <2>6 DEF PersistPeak, UpdatePeakIfHigher
    <3>3. cyc.id \in live => cyc.players <= row'[cyc.id].peak
      <4>1. row[cyc.id] \in Row
        BY <3>1
      <4>2. QED
        BY <1>2, <3>1, <3>2, <4>1 DEF Row
    <3>4. cyc.at = "persist" /\ cyc'.at = "ping"
          /\ UNCHANGED <<live, mem, tracked, pushing>>
      BY <2>6 DEF PersistPeak, NoCycle
    <3>5. PeakDurable'
      <4> SUFFICES ASSUME NEW i \in live \cap tracked
                   PROVE  mem[i].peak <= row'[i].peak
        BY <3>4 DEF PeakDurable
      <4>1. row[i].peak <= row'[i].peak
        BY <1>1, <3>4
      <4>2. CASE mem[i].peak <= row[i].peak
        BY <1>2, <4>1, <4>2
      <4>3. CASE cyc.id = i /\ mem[i].peak <= cyc.players
        BY <1>2, <3>1, <3>3, <4>3
      <4>4. QED
        BY <4>2, <4>3 DEF PeakInv, PeakDurable
    <3>6. cyc'.at # "off" => pushing'
      BY <3>4 DEF PeakInv
    <3>7. QED
      BY <1>3, <2>1, <3>5, <3>6 DEF PeakInv
  <2>7. CASE Collect
    <3>1. cyc.at = "ping" /\ UNCHANGED <<live, row, tracked, mem, pushing>>
      BY <2>7 DEF Collect
    <3>2. pushing'
      BY <3>1 DEF PeakInv
    <3>3. QED
      BY <2>3, <3>1, <3>2
  <2>8. CASE CycleEnd
    BY <2>3, <2>8 DEF CycleEnd, NoCycle
  <2>9. QED
    BY <1>9, <2>4, <2>5, <2>6, <2>7, <2>8 DEF CycleNext, CycleRuns
<1>10. CASE \E r \in Requests : Disconnect(r)
  BY <1>5, <1>10, RequestTypes DEF Disconnect, Finish, DoneRequest, Holds
<1>11. CASE Restart
  <2>1. \A i \in live : mem'[i].peak = row'[i].peak
    BY <1>11 DEF Restart, LoadedList, FromConfig
  <2>2. PeakDurable'
    BY <1>2, <1>11, <2>1 DEF Restart, PeakDurable
  <2>3. \A r \in Requests : req'[r].at \notin {"event", "memory"}
    BY <1>11, RequestTypes DEF Restart, InFlight
  <2>4. QED
    BY <1>11, <2>2, <2>3 DEF Restart, PeakInv, NoCycle, Holds
<1>12. CASE UNCHANGED vars
  BY <1>5, <1>12 DEF vars
<1>13. QED
  BY <1>6, <1>7, <1>8, <1>9, <1>10, <1>11, <1>12
  DEF Next, RequestNext, StatementFails

\* While the UPDATE of a peak does not fail, the peaks of the list are in the
\* table or about to be written: a crash takes no peak back that was shown.
THEOREM PeaksAreDurable == ASSUME DbFaults = FALSE PROVE Spec => []PeakDurable
<1>1. TypeInv /\ TypeInv' /\ PeakInv /\ [Next]_vars /\ [CatalogNext]_catalogVars => PeakInv'
  BY StepPeakInv
<1>2. PeakInv => PeakDurable
  BY DEF PeakInv
<1>3. QED
  BY <1>1, <1>2, InitPeakInv, TypeInvariant, ImplementsCatalog, PTL
  DEF Spec, CatalogSpec

-----------------------------------------------------------------------------
(* Every removal is in the event log: the handler that is about to delete a  *)
(* row has logged it, and the log only grows.                                *)

HasRemoved(log) == \E k \in 1..Len(log) : log[k] = "removed"

RemovalInv ==
    /\ \A i \in issued \ live : HasRemoved(events[i])
    /\ \A r \in Requests :
         req[r].op = "delete" /\ req[r].at = "delete" => HasRemoved(events[req[r].id])

LEMMA AppendKeeps ==
    ASSUME NEW S, NEW s \in Seq(S), NEW e \in S, NEW x,
           \/ x = e
           \/ \E k \in 1..Len(s) : s[k] = x
    PROVE  \E k \in 1..Len(Append(s, e)) : Append(s, e)[k] = x
<1>1. /\ Len(s) \in Nat
      /\ Len(Append(s, e)) = Len(s) + 1
      /\ \A k \in 1..Len(s) : Append(s, e)[k] = s[k]
      /\ Append(s, e)[Len(s) + 1] = e
  BY AppendProperties, LenProperties
<1>2. QED
  BY <1>1

\* A log entry is appended to one log; no log forgets a removal.
LEMMA RecordKeepsRemovals ==
    ASSUME events \in [Ids -> Seq(EventType)], NEW i \in Ids, NEW e \in EventType,
           Record(i, e)
    PROVE  /\ \A j \in Ids : HasRemoved(events[j]) => HasRemoved(events'[j])
           /\ DbFaults = FALSE /\ e = "removed" => HasRemoved(events'[i])
<1>1. CASE events' = [events EXCEPT ![i] = Append(@, e)]
  <2>1. events[i] \in Seq(EventType) /\ events'[i] = Append(events[i], e)
    BY <1>1
  <2>2. HasRemoved(events[i]) \/ e = "removed" => HasRemoved(events'[i])
    BY <2>1, AppendKeeps DEF HasRemoved
  <2>3. \A j \in Ids \ {i} : events'[j] = events[j]
    BY <1>1
  <2>4. QED
    BY <2>2, <2>3 DEF HasRemoved
<1>2. CASE DbFaults /\ UNCHANGED events
  BY <1>2 DEF HasRemoved
<1>3. QED
  BY <1>1, <1>2 DEF Record

LEMMA InitRemovalInv == Init => RemovalInv
<1> SUFFICES ASSUME Init PROVE RemovalInv
  OBVIOUS
<1>1. issued \ live = {}
  BY DEF Init, CatalogInit
<1>2. \A r \in Requests : req[r].op = "none"
  BY DEF Init, IdleRequest
<1>3. QED
  BY <1>1, <1>2 DEF RemovalInv

LEMMA StepRemovalInv ==
    ASSUME DbFaults = FALSE, TypeInv, RemovalInv, [Next]_vars
    PROVE  RemovalInv'
<1> USE DEF TypeInv, TypeOK, IdsIssued
<1>2. ASSUME UNCHANGED <<live, issued, events>>,
             \A r \in Requests : req'[r].op = "delete" /\ req'[r].at = "delete"
               => req'[r] = req[r]
      PROVE  RemovalInv'
  BY <1>2 DEF RemovalInv, HasRemoved
<1>3. ASSUME NEW r \in Requests, CreateNext(r)
      PROVE  RemovalInv'
  <2>1. ASSUME NEW h \in Hosts, CreateAccept(r, h)
        PROVE  RemovalInv'
    BY <1>2, <2>1, RequestTypes DEF CreateAccept, Accept, IdleRequest
  <2>2. ASSUME NEW i \in Ids, CreateInsert(r, i)
        PROVE  RemovalInv'
    <3>1. issued' \ live' \subseteq issued \ live /\ events' = events
      BY <2>2 DEF CreateInsert
    <3>2. \A s \in Requests : req'[s].op = "delete" /\ req'[s].at = "delete"
            => req'[s] = req[s]
      BY <2>2 DEF CreateInsert, Request
    <3>3. QED
      BY <3>1, <3>2 DEF RemovalInv, HasRemoved
  <2>3. CASE CreateConflict(r) \/ CreateAppend(r)
    BY <1>2, <2>3, RequestTypes DEF CreateConflict, CreateAppend, Finish
  <2>4. CASE CreateEvent(r)
    <3>1. req[r].id \in Ids /\ "added" \in EventType /\ Record(req[r].id, "added")
      BY <2>4 DEF CreateEvent, EventType
    <3>2. \A i \in Ids : HasRemoved(events[i]) => HasRemoved(events'[i])
      BY <3>1, RecordKeepsRemovals
    <3>3. \A s \in Requests : req'[s].op = "delete" /\ req'[s].at = "delete"
            => req'[s] = req[s] /\ req[s].id \in Ids
      BY <2>4 DEF CreateEvent, Goto
    <3>4. QED
      BY <2>4, <3>2, <3>3 DEF CreateEvent, RemovalInv
  <2>5. CASE CreateReread(r)
    <3>1. req'[r].op = "create" /\ \A s \in Requests \ {r} : req'[s] = req[s]
      BY <2>5 DEF CreateReread, Request
    <3>2. QED
      BY <1>2, <2>5, <3>1 DEF CreateReread
  <2>6. QED
    BY <1>3, <2>1, <2>2, <2>3, <2>4, <2>5 DEF CreateNext
<1>4. ASSUME NEW r \in Requests, UpdateNext(r)
      PROVE  RemovalInv'
  <2>1. ASSUME NEW i \in Ids, NEW a \in PatchArgs, UpdateAccept(r, i, a[1], a[2])
        PROVE  RemovalInv'
    BY <1>2, <2>1, RequestTypes DEF UpdateAccept, Accept, IdleRequest
  <2>2. CASE UpdateConflict(r) \/ UpdateNotFound(r) \/ UpdateApply(r)
    BY <1>2, <2>2, RequestTypes
    DEF UpdateConflict, UpdateNotFound, UpdateApply, Finish
  <2>3. CASE UpdateReadBase(r) \/ UpdateReread(r) \/ UpdateWrite(r)
    <3>1. req'[r].op = "update" /\ \A s \in Requests \ {r} : req'[s] = req[s]
      BY <2>3 DEF UpdateReadBase, UpdateReread, UpdateWrite, Goto, Request
    <3>2. QED
      BY <1>2, <2>3, <3>1 DEF UpdateReadBase, UpdateReread, UpdateWrite
  <2>4. CASE UpdateEvent(r)
    <3> DEFINE e == IF req[r].pause = "pause" THEN "paused" ELSE "unpaused"
    <3>1. req[r].id \in Ids /\ e \in EventType /\ Record(req[r].id, e)
      BY <2>4 DEF UpdateEvent, EventType
    <3> HIDE DEF e
    <3>2. \A i \in Ids : HasRemoved(events[i]) => HasRemoved(events'[i])
      BY <3>1, RecordKeepsRemovals
    <3>3. \A s \in Requests : req'[s].op = "delete" /\ req'[s].at = "delete"
            => req'[s] = req[s] /\ req[s].id \in Ids
      <4>1. req'[r].op = "update" /\ \A s \in Requests \ {r} : req'[s] = req[s]
        BY <2>4 DEF UpdateEvent, Goto, Request
      <4>2. \A s \in Requests : req[s].at = "delete" => req[s].id \in Ids
        OBVIOUS
      <4>3. QED
        BY <4>1, <4>2
    <3>4. QED
      BY <2>4, <3>2, <3>3 DEF UpdateEvent, RemovalInv
  <2>5. QED
    BY <1>4, <2>1, <2>2, <2>3, <2>4 DEF UpdateNext
<1>5. ASSUME NEW r \in Requests, DeleteNext(r)
      PROVE  RemovalInv'
  <2>1. ASSUME NEW i \in Ids, DeleteAccept(r, i)
        PROVE  RemovalInv'
    BY <1>2, <2>1, RequestTypes DEF DeleteAccept, Accept, IdleRequest
  <2>2. CASE DeleteEvent(r)
    <3>1. req[r].id \in Ids /\ "removed" \in EventType /\ Record(req[r].id, "removed")
      BY <2>2 DEF DeleteEvent, EventType
    <3>2. /\ \A i \in Ids : HasRemoved(events[i]) => HasRemoved(events'[i])
          /\ HasRemoved(events'[req[r].id])
      BY <3>1, RecordKeepsRemovals
    <3>3. req'[r].id = req[r].id /\ \A s \in Requests \ {r} : req'[s] = req[s]
      BY <2>2 DEF DeleteEvent, Goto
    <3>4. \A s \in Requests \ {r} : req'[s].op = "delete" /\ req'[s].at = "delete"
            => HasRemoved(events'[req'[s].id])
      BY <3>2, <3>3 DEF RemovalInv
    <3>5. HasRemoved(events'[req'[r].id])
      BY <3>2, <3>3 DEF HasRemoved
    <3>6. QED
      BY <2>2, <3>2, <3>4, <3>5 DEF DeleteEvent, RemovalInv
  <2>3. CASE DeleteRow(r)
    <3>1. HasRemoved(events[req[r].id]) /\ events' = events /\ issued' = issued
          /\ live' = live \ {req[r].id}
      BY <2>3 DEF DeleteRow, RemovalInv
    <3>2. Goto(r, "memory") \/ Finish(r)
      BY <2>3 DEF DeleteRow
    <3>3. req'[r].at # "delete" /\ \A s \in Requests \ {r} : req'[s] = req[s]
      <4>1. CASE Goto(r, "memory")
        <5>1. "memory" \in Stage /\ req \in [Requests -> Request]
          BY DEF Stage
        <5>2. req'[r].at = "memory" /\ \A s \in Requests \ {r} : req'[s] = req[s]
          BY <4>1, <5>1, GotoStage
        <5>3. QED
          BY <5>2
      <4>2. CASE Finish(r)
        BY <4>2, RequestTypes DEF Finish
      <4>3. QED
        BY <3>2, <4>1, <4>2
    <3>4. ASSUME NEW i \in issued' \ live' PROVE HasRemoved(events'[i])
      <4>1. i = req[r].id \/ i \in issued \ live
        BY <3>1, <3>4
      <4>2. QED
        BY <3>1, <4>1 DEF RemovalInv
    <3>5. ASSUME NEW s \in Requests, req'[s].op = "delete", req'[s].at = "delete"
          PROVE  HasRemoved(events'[req'[s].id])
      <4>1. s # r /\ req'[s] = req[s]
        BY <3>3, <3>5
      <4>2. QED
        BY <3>1, <3>5, <4>1 DEF RemovalInv
    <3>6. QED
      BY <3>4, <3>5 DEF RemovalInv
  <2>4. CASE DeleteForget(r)
    BY <1>2, <2>4, RequestTypes DEF DeleteForget, Finish
  <2>5. QED
    BY <1>5, <2>1, <2>2, <2>3, <2>4 DEF DeleteNext
<1>6. CASE CycleNext
  <2>1. UNCHANGED <<live, issued, events, req>>
    BY <1>6 DEF CycleNext, CycleRuns, CycleStart, PingNext, PingSend, PingAnswer, PingFail,
                ApplyPing, ApplyFailure, PersistPeak, Collect, CycleEnd
  <2>2. QED
    BY <1>2, <2>1
<1>7. CASE \E r \in Requests : Disconnect(r) \/ StatementFails(r)
  BY <1>2, <1>7, RequestTypes DEF Disconnect, StatementFails, Finish
<1>8. CASE Restart
  BY <1>2, <1>8, RequestTypes DEF Restart, InFlight
<1>9. CASE UNCHANGED vars
  BY <1>2, <1>9 DEF vars
<1>10. QED
  BY <1>3, <1>4, <1>5, <1>6, <1>7, <1>8, <1>9 DEF Next, RequestNext

\* While event inserts do not fail, no row disappears without a trace in the
\* event log, wherever a handler or the process stops.
THEOREM RemovalsAreLogged == ASSUME DbFaults = FALSE PROVE Spec => []RemovalLogged
<1>1. TypeInv /\ RemovalInv /\ [Next]_vars => RemovalInv'
  BY StepRemovalInv
<1>2. RemovalInv => RemovalLogged
  BY DEF RemovalInv, RemovalLogged, HasRemoved
<1>3. QED
  BY <1>1, <1>2, InitRemovalInv, TypeInvariant, PTL DEF Spec

-----------------------------------------------------------------------------
(* One id.  A handler that has written its row and not yet told the list is  *)
(* pending; while no two of them cross, there is at most one, and it holds   *)
(* what the list is about to be told.                                        *)

Pends(r, i) ==
    /\ req[r].id = i
    /\ \/ req[r].op # "delete" /\ req[r].at \in {"reread", "event", "memory"}
       \/ req[r].op = "delete" /\ req[r].at = "memory"

\* What the list and the form of a PATCH say of a row, apart from its peak
Same(x, y) == x.host = y.host /\ x.paused = y.paused

Carried(r, i) ==
    /\ req[r].op \in {"create", "update", "delete"}
    /\ req[r].op # "delete" <=> i \in live
    /\ req[r].op = "update" => i \in tracked
    /\ req[r].op # "delete" /\ req[r].at \in {"event", "memory"} =>
         Same(req[r].seen, row[i])

ListOf(i) ==
    /\ \A r, s \in Requests : Pends(r, i) /\ Pends(s, i) => r = s
    /\ (\A r \in Requests : ~Pends(r, i)) => Mirrored(i)
    /\ \A r \in Requests : Pends(r, i) => Carried(r, i)

ListInv == \A i \in Ids \ crossed : ListOf(i)

\* The handlers at work on an id, from their first look at its row to the last
\* of the two writes, row and event, that belong together; at most one while
\* none has met another.

Tell(r, i) ==
    /\ req[r].id = i
    /\ req[r].at \in {"base", "write", "reread", "event", "delete"}

Half(r, i) ==
    /\ req[r].id = i
    /\ \/ req[r].op # "delete" /\ req[r].at \in {"reread", "event"}
       \/ req[r].op = "delete" /\ req[r].at = "delete"

\* The last event says of a row what it is.
Tells(log, alive, paused) ==
    /\ log # <<>>
    /\ log[Len(log)] \in IF ~alive THEN {"removed"}
                         ELSE IF paused THEN {"paused"} ELSE {"added", "unpaused"}

Varied(log) == \A k \in 1..Len(log)-1 : log[k] # log[k+1]

\* What a handler may rely on while it is alone with its id.
Follows(r, i) ==
    LET q == req[r] IN
    /\ i \in live
    /\ q.op \in {"create", "update", "delete"}
    /\ q.op = "create" => events[i] = <<>> /\ ~row[i].paused
    /\ q.op = "update" /\ q.at \in {"base", "write"} => q.was = row[i].paused
    /\ q.op = "update" /\ q.at = "write" => q.seen.paused = q.was
    /\ q.op = "update" /\ q.at \in {"reread", "event"} =>
         /\ Tells(events[i], TRUE, q.was)
         /\ row[i].paused = (q.pause = "pause" \/ (q.pause = "keep" /\ q.was))
    /\ q.op = "update" /\ q.at = "event" => PauseAsked(q)
    /\ q.op = "delete" /\ q.at = "delete" => Tells(events[i], FALSE, FALSE)

StoryOf(i) ==
    /\ \A r, s \in Requests : Tell(r, i) /\ Tell(s, i) => r = s
    /\ i \notin issued => events[i] = <<>>
    /\ Varied(events[i])
    /\ i \in issued /\ (\A r \in Requests : ~Half(r, i)) =>
         Tells(events[i], i \in live, row[i].paused)
    /\ \A r \in Requests : Tell(r, i) => Follows(r, i)

StoryInv == \A i \in Ids \ garbled : StoryOf(i)

-----------------------------------------------------------------------------
(* The list                                                                  *)

LEMMA PendingIs ==
    ASSUME NEW i \in Ids
    PROVE  \A r : r \in Pending(i) <=> r \in Requests /\ Pends(r, i)
BY DEF Pending, InFlight, Pends

\* Table and list are the same at an id, apart from peaks and ping state.
KeptAt(i) ==
    /\ i \in live' <=> i \in live
    /\ i \in tracked' <=> i \in tracked
    /\ Same(row'[i], row[i]) /\ Same(mem'[i], mem[i])

LEMMA KeptMirrored ==
    ASSUME NEW i, KeptAt(i), Mirrored(i)
    PROVE  Mirrored(i)'
BY DEF KeptAt, Mirrored, Same

\* Nothing happens to the id.
LEMMA ListStays ==
    ASSUME NEW i \in Ids, ListOf(i), KeptAt(i),
           NEW r \in Requests, \A s \in Requests \ {r} : req'[s] = req[s],
           Pends(r, i)' <=> Pends(r, i), Pends(r, i) => Carried(r, i)'
    PROVE  ListOf(i)'
<1>1. \A s \in Requests : Pends(s, i)' <=> Pends(s, i)
  BY DEF Pends
<1>2. ASSUME NEW s \in Requests, Pends(s, i)' PROVE Carried(s, i)'
  <2>1. CASE s = r
    BY <1>2, <2>1
  <2>2. CASE s # r
    <3>1. Carried(s, i) /\ req'[s] = req[s]
      BY <1>1, <1>2, <2>2 DEF ListOf
    <3>2. QED
      BY <3>1 DEF Carried, KeptAt, Same
  <2>3. QED
    BY <2>1, <2>2
<1>3. (\A s \in Requests : ~Pends(s, i)') => Mirrored(i)'
  BY <1>1, KeptMirrored DEF ListOf
<1>4. QED
  BY <1>1, <1>2, <1>3 DEF ListOf

\* The handler r writes the row of the id, and no other one is pending there.
LEMMA ListStarts ==
    ASSUME NEW i \in Ids, NEW r \in Requests,
           \A s \in Requests \ {r} : req'[s] = req[s] /\ ~Pends(s, i),
           Pends(r, i)', Carried(r, i)'
    PROVE  ListOf(i)'
BY DEF ListOf, Pends

\* The pending handler of the id is through with it.
LEMMA ListEnds ==
    ASSUME NEW i \in Ids, ListOf(i), NEW r \in Requests, Pends(r, i),
           \A s \in Requests \ {r} : req'[s] = req[s],
           ~Pends(r, i)', Mirrored(i)'
    PROVE  ListOf(i)'
<1>1. \A s \in Requests : ~Pends(s, i)'
  BY DEF ListOf, Pends
<1>2. QED
  BY <1>1 DEF ListOf

\* A request that is done is not pending.
LEMMA DoneIsOver ==
    ASSUME NEW r \in Requests, req' = [req EXCEPT ![r] = DoneRequest],
           req \in [Requests -> Request], NEW i \in Ids
    PROVE  /\ ~Pends(r, i)' /\ ~Tell(r, i)' /\ ~Half(r, i)'
           /\ \A s \in Requests \ {r} : req'[s] = req[s]
<1>1. req'[r].at = "done" /\ \A s \in Requests \ {r} : req'[s] = req[s]
  BY RequestTypes
<1>2. QED
  BY <1>1 DEF Pends, Tell, Half

LEMMA AcceptListInv ==
    ASSUME TypeInv, NEW r \in Requests, NEW q \in Request, Accept(r, q),
           \/ q.op = "create" /\ q.at = "insert"
           \/ q.op = "update" /\ q.at = "base"
           \/ q.op = "delete" /\ q.at = "event",
           NEW i \in Ids, ListOf(i)
    PROVE  ListOf(i)'
<1> USE DEF TypeInv, TypeOK
<1>1. /\ req[r].at = "idle" /\ req'[r] = q
      /\ \A s \in Requests \ {r} : req'[s] = req[s]
  BY DEF Accept
<1>2. ~Pends(r, i) /\ ~Pends(r, i)'
  BY <1>1 DEF Pends
<1>3. KeptAt(i)
  BY DEF Accept, KeptAt, Same
<1>4. QED
  BY <1>1, <1>2, <1>3, ListStays

LEMMA CreateListInv ==
    ASSUME TypeInv, ListInv, NEW r \in Requests, CreateNext(r),
           NEW i \in Ids \ crossed
    PROVE  ListOf(i)'
<1> USE DEF TypeInv, TypeOK
<1>0. ListOf(i)
  BY DEF ListInv
<1>1. ASSUME NEW h \in Hosts, CreateAccept(r, h) PROVE ListOf(i)'
  <2> DEFINE q == [IdleRequest EXCEPT !.op = "create", !.at = "insert", !.host = h]
  <2>1. q \in Request /\ q.op = "create" /\ q.at = "insert" /\ Accept(r, q)
    BY <1>1, RequestTypes DEF CreateAccept, Request, Ops, Stage
  <2> HIDE DEF q
  <2>2. QED
    BY <1>0, <2>1, AcceptListInv
<1>2. ASSUME NEW k \in Ids, CreateInsert(r, k) PROVE ListOf(i)'
  <2>1. /\ req[r].at = "insert" /\ k \notin issued
        /\ req'[r].op = "create" /\ req'[r].at = "reread" /\ req'[r].id = k
        /\ \A s \in Requests \ {r} : req'[s] = req[s]
    BY <1>2 DEF CreateInsert, Request
  <2>2. ~Pends(r, i)
    BY <2>1 DEF Pends
  <2>3. CASE i = k
    <3>1. \A s \in Requests \ {r} : ~Pends(s, i)
      BY <2>1, <2>3 DEF Pends, IdsIssued
    <3>2. Pends(r, i)'
      BY <2>1, <2>3 DEF Pends
    <3>3. i \in live'
      BY <1>2, <2>3 DEF CreateInsert
    <3>4. Carried(r, i)'
      BY <2>1, <3>3 DEF Carried
    <3>5. QED
      BY <2>1, <3>1, <3>2, <3>4, ListStarts
  <2>4. CASE i # k
    <3>1. KeptAt(i)
      BY <1>2, <2>4 DEF CreateInsert, KeptAt, Same
    <3>2. ~Pends(r, i)'
      BY <2>1, <2>4 DEF Pends
    <3>3. QED
      BY <1>0, <2>1, <2>2, <3>1, <3>2, ListStays
  <2>5. QED
    BY <2>3, <2>4
<1>3. CASE CreateReread(r)
  <2>1. /\ req[r].at = "reread" /\ req[r].op = "create"
        /\ req'[r].op = "create" /\ req'[r].at = "event" /\ req'[r].id = req[r].id
        /\ req'[r].seen = row[req[r].id]
        /\ \A s \in Requests \ {r} : req'[s] = req[s]
    BY <1>3 DEF CreateReread, Request
  <2>2. row' = row /\ live' = live /\ KeptAt(i)
    BY <1>3 DEF CreateReread, KeptAt, Same
  <2>3. Pends(r, i)' <=> Pends(r, i)
    BY <2>1 DEF Pends
  <2>4. ASSUME Pends(r, i) PROVE Carried(r, i)'
    <3>1. req[r].id = i /\ i \in live
      BY <1>0, <2>1, <2>4 DEF ListOf, Carried, Pends
    <3>2. QED
      BY <2>1, <2>2, <3>1 DEF Carried, Same
  <2>5. QED
    BY <1>0, <2>1, <2>2, <2>3, <2>4, ListStays
<1>4. CASE CreateConflict(r)
  <2>1. req[r].at = "insert" /\ KeptAt(i) /\ req' = [req EXCEPT ![r] = DoneRequest]
    BY <1>4 DEF CreateConflict, Finish, KeptAt, Same
  <2>2. ~Pends(r, i)
    BY <2>1 DEF Pends
  <2>3. QED
    BY <1>0, <2>1, <2>2, DoneIsOver, ListStays
<1>5. CASE CreateEvent(r)
  <2>1. /\ req[r].at = "event" /\ req[r].op = "create"
        /\ req'[r].op = "create" /\ req'[r].at = "memory" /\ req'[r].id = req[r].id
        /\ req'[r].seen = req[r].seen
        /\ \A s \in Requests \ {r} : req'[s] = req[s]
    BY <1>5 DEF CreateEvent, Goto, Request
  <2>2. row' = row /\ live' = live /\ KeptAt(i)
    BY <1>5 DEF CreateEvent, KeptAt, Same
  <2>3. Pends(r, i)' <=> Pends(r, i)
    BY <2>1 DEF Pends
  <2>4. Pends(r, i) => Carried(r, i)'
    BY <1>0, <2>1, <2>2 DEF ListOf, Carried
  <2>5. QED
    BY <1>0, <2>1, <2>2, <2>3, <2>4, ListStays
<1>6. CASE CreateAppend(r)
  <2>1. /\ req[r].at = "memory" /\ req[r].op = "create" /\ req[r].id \in Ids
        /\ req' = [req EXCEPT ![r] = DoneRequest]
    BY <1>6 DEF CreateAppend, Finish, IdsIssued
  <2>2. CASE Pends(r, i)
    <3>1. i \in live /\ Same(req[r].seen, row[i]) /\ req[r].id = i
      BY <1>0, <2>1, <2>2 DEF ListOf, Carried, Pends
    <3>2. mem'[i] = FromConfig(req[r].seen) /\ i \in tracked'
          /\ live' = live /\ row' = row
      BY <1>6, <3>1 DEF CreateAppend
    <3>3. Mirrored(i)'
      BY <3>1, <3>2 DEF Mirrored, Same, FromConfig
    <3>4. QED
      BY <1>0, <2>1, <2>2, <3>3, DoneIsOver, ListEnds
  <2>3. CASE ~Pends(r, i)
    <3>1. req[r].id # i
      BY <2>1, <2>3 DEF Pends
    <3>2. KeptAt(i)
      BY <1>6, <3>1 DEF CreateAppend, KeptAt, Same
    <3>3. QED
      BY <1>0, <2>1, <2>3, <3>2, DoneIsOver, ListStays
  <2>4. QED
    BY <2>2, <2>3
<1>7. QED
  BY <1>1, <1>2, <1>3, <1>4, <1>5, <1>6 DEF CreateNext

LEMMA UpdateListInv ==
    ASSUME TypeInv, ListInv, NEW r \in Requests, UpdateNext(r),
           NEW i \in Ids \ crossed, i \notin crossed'
    PROVE  ListOf(i)'
<1> USE DEF TypeInv, TypeOK
<1>0. ListOf(i)
  BY DEF ListInv
<1>1. ASSUME NEW k \in Ids, NEW a \in PatchArgs, UpdateAccept(r, k, a[1], a[2])
      PROVE  ListOf(i)'
  <2> DEFINE q == [IdleRequest EXCEPT !.op = "update", !.at = "base", !.id = k,
                                      !.host = a[1], !.pause = a[2],
                                      !.was = row[k].paused]
  <2>1. a[1] \in Hosts \cup {NoHost} /\ a[2] \in PauseArg
    BY DEF PatchArgs
  <2>2. row[k].paused \in BOOLEAN
    BY DEF Row
  <2>3. q \in Request /\ q.op = "update" /\ q.at = "base" /\ q.id = k
    BY <2>1, <2>2, RequestTypes DEF Request, Ops, Stage
  <2>4. Accept(r, q)
    BY <1>1 DEF UpdateAccept
  <2> HIDE DEF q
  <2>5. QED
    BY <1>0, <2>3, <2>4, AcceptListInv
<1>2. CASE UpdateReadBase(r)
  <2>1. /\ req[r].at = "base" /\ req'[r].op = "update" /\ req'[r].at = "write"
        /\ \A s \in Requests \ {r} : req'[s] = req[s]
    BY <1>2 DEF UpdateReadBase, Request
  <2>2. KeptAt(i) /\ ~Pends(r, i) /\ ~Pends(r, i)'
    BY <1>2, <2>1 DEF UpdateReadBase, KeptAt, Same, Pends
  <2>3. QED
    BY <1>0, <2>1, <2>2, ListStays
<1>3. CASE UpdateWrite(r)
  <2>1. /\ req[r].at = "write" /\ req[r].op = "update" /\ req[r].id \in live
        /\ req'[r].at = "reread" /\ req'[r].op = "update" /\ req'[r].id = req[r].id
        /\ \A s \in Requests \ {r} : req'[s] = req[s]
    BY <1>3 DEF UpdateWrite, Goto, Request
  <2>2. live' = live /\ tracked' = tracked /\ mem' = mem
    BY <1>3 DEF UpdateWrite
  <2>3. ~Pends(r, i)
    BY <2>1 DEF Pends
  <2>4. CASE req[r].id = i
    <3>1. Pending(i) = {}
      BY <1>3, <2>4 DEF UpdateWrite, Crosses
    <3>2. \A s \in Requests : ~Pends(s, i)
      BY <3>1, PendingIs
    <3>3. i \in tracked
      BY <1>0, <2>1, <2>4, <3>2 DEF ListOf, Mirrored
    <3>4. Pends(r, i)' /\ Carried(r, i)'
      BY <2>1, <2>2, <2>4, <3>3 DEF Pends, Carried
    <3>5. QED
      BY <2>1, <3>2, <3>4, ListStarts
  <2>5. CASE req[r].id # i
    <3>1. row'[i] = row[i]
      BY <1>3, <2>5 DEF UpdateWrite
    <3>2. KeptAt(i) /\ ~Pends(r, i)'
      BY <2>1, <2>2, <2>5, <3>1 DEF KeptAt, Same, Pends
    <3>3. QED
      BY <1>0, <2>1, <2>3, <3>2, ListStays
  <2>6. QED
    BY <2>4, <2>5
<1>4. CASE UpdateConflict(r)
  <2>1. req[r].at = "write" /\ KeptAt(i) /\ req' = [req EXCEPT ![r] = DoneRequest]
    BY <1>4 DEF UpdateConflict, Finish, KeptAt, Same
  <2>2. ~Pends(r, i)
    BY <2>1 DEF Pends
  <2>3. QED
    BY <1>0, <2>1, <2>2, DoneIsOver, ListStays
<1>5. CASE UpdateReread(r)
  <2>1. /\ req[r].at = "reread" /\ req[r].op = "update"
        /\ req'[r].at \in {"event", "memory"} /\ req'[r].op = "update"
        /\ req'[r].id = req[r].id /\ req'[r].seen = row[req[r].id]
        /\ \A s \in Requests \ {r} : req'[s] = req[s]
    BY <1>5 DEF UpdateReread, Request
  <2>2. row' = row /\ live' = live /\ tracked' = tracked /\ KeptAt(i)
    BY <1>5 DEF UpdateReread, KeptAt, Same
  <2>3. Pends(r, i)' <=> Pends(r, i)
    BY <2>1 DEF Pends
  <2>4. ASSUME Pends(r, i) PROVE Carried(r, i)'
    <3>1. req[r].id = i /\ i \in live /\ i \in tracked
      BY <1>0, <2>1, <2>4 DEF ListOf, Carried, Pends
    <3>2. QED
      BY <2>1, <2>2, <3>1 DEF Carried, Same
  <2>5. QED
    BY <1>0, <2>1, <2>2, <2>3, <2>4, ListStays
<1>6. CASE UpdateNotFound(r)
  \* The row of an id that nobody crossed is still there after its UPDATE.
  <2>1. /\ req[r].op = "update" /\ req[r].id \notin live
        /\ KeptAt(i) /\ req' = [req EXCEPT ![r] = DoneRequest]
    BY <1>6 DEF UpdateNotFound, Finish, KeptAt, Same
  <2>2. ~Pends(r, i)
    BY <1>0, <2>1 DEF ListOf, Carried, Pends
  <2>3. QED
    BY <1>0, <2>1, <2>2, DoneIsOver, ListStays
<1>7. CASE UpdateEvent(r)
  <2>1. /\ req[r].at = "event" /\ req[r].op = "update"
        /\ req'[r].at = "memory" /\ req'[r].op = "update"
        /\ req'[r].id = req[r].id /\ req'[r].seen = req[r].seen
        /\ \A s \in Requests \ {r} : req'[s] = req[s]
    BY <1>7 DEF UpdateEvent, Goto, Request
  <2>2. row' = row /\ live' = live /\ tracked' = tracked /\ KeptAt(i)
    BY <1>7 DEF UpdateEvent, KeptAt, Same
  <2>3. Pends(r, i)' <=> Pends(r, i)
    BY <2>1 DEF Pends
  <2>4. Pends(r, i) => Carried(r, i)'
    BY <1>0, <2>1, <2>2 DEF ListOf, Carried
  <2>5. QED
    BY <1>0, <2>1, <2>2, <2>3, <2>4, ListStays
<1>8. CASE UpdateApply(r)
  <2>1. /\ req[r].at = "memory" /\ req[r].op = "update" /\ req[r].id \in Ids
        /\ req' = [req EXCEPT ![r] = DoneRequest]
        /\ live' = live /\ row' = row /\ tracked' = tracked
    BY <1>8 DEF UpdateApply, Finish, IdsIssued
  <2>2. CASE Pends(r, i)
    <3>1. /\ i \in live /\ i \in tracked /\ Same(req[r].seen, row[i])
          /\ req[r].id = i
      BY <1>0, <2>1, <2>2 DEF ListOf, Carried, Pends
    <3>2. PICK x \in Row : x = req[r].seen
      BY DEF Request
    <3>3. mem' = [mem EXCEPT ![i] = UpdateConfig(mem[i], x)]
      BY <1>8, <3>1, <3>2 DEF UpdateApply
    <3>4. mem[i] \in Tracked
      OBVIOUS
    <3>5. Same(UpdateConfig(mem[i], x), row[i])
      BY <3>1, <3>2, <3>4 DEF UpdateConfig, FromConfig, Same, Tracked, Row
    <3>6. Same(mem'[i], row[i])
      BY <3>3, <3>5
    <3>7. Mirrored(i)'
      BY <2>1, <3>1, <3>6 DEF Mirrored, Same
    <3>8. QED
      BY <1>0, <2>1, <2>2, <3>7, DoneIsOver, ListEnds
  <2>3. CASE ~Pends(r, i)
    <3>1. req[r].id # i
      BY <2>1, <2>3 DEF Pends
    <3>2. mem'[i] = mem[i]
      BY <1>8, <3>1 DEF UpdateApply
    <3>3. KeptAt(i)
      BY <2>1, <3>2 DEF KeptAt, Same
    <3>4. QED
      BY <1>0, <2>1, <2>3, <3>3, DoneIsOver, ListStays
  <2>4. QED
    BY <2>2, <2>3
<1>9. QED
  BY <1>1, <1>2, <1>3, <1>4, <1>5, <1>6, <1>7, <1>8 DEF UpdateNext

LEMMA DeleteListInv ==
    ASSUME TypeInv, ListInv, NEW r \in Requests, DeleteNext(r),
           NEW i \in Ids \ crossed, i \notin crossed'
    PROVE  ListOf(i)'
<1> USE DEF TypeInv, TypeOK
<1>0. ListOf(i)
  BY DEF ListInv
<1>1. ASSUME NEW k \in Ids, DeleteAccept(r, k) PROVE ListOf(i)'
  <2> DEFINE q == [IdleRequest EXCEPT !.op = "delete", !.at = "event", !.id = k]
  <2>1. q \in Request /\ q.op = "delete" /\ q.at = "event"
    BY RequestTypes DEF Request, Ops, Stage
  <2>2. Accept(r, q)
    BY <1>1 DEF DeleteAccept
  <2> HIDE DEF q
  <2>3. QED
    BY <1>0, <2>1, <2>2, AcceptListInv
<1>2. CASE DeleteEvent(r)
  <2>1. /\ req[r].at = "event" /\ req[r].op = "delete"
        /\ req'[r].op = "delete" /\ req'[r].at = "delete"
        /\ \A s \in Requests \ {r} : req'[s] = req[s]
    BY <1>2 DEF DeleteEvent, Goto, Request
  <2>2. KeptAt(i) /\ ~Pends(r, i) /\ ~Pends(r, i)'
    BY <1>2, <2>1 DEF DeleteEvent, KeptAt, Same, Pends
  <2>3. QED
    BY <1>0, <2>1, <2>2, ListStays
<1>3. CASE DeleteRow(r)
  <2>1. /\ req[r].at = "delete" /\ req[r].op = "delete" /\ req[r].id \in Ids
        /\ live' = live \ {req[r].id} /\ tracked' = tracked /\ mem' = mem
    BY <1>3 DEF DeleteRow, IdsIssued
  <2>2. ~Pends(r, i)
    BY <2>1 DEF Pends
  <2>3. CASE req[r].id \notin live
    \* Nothing is deleted, and the row that is not there is cleared again.
    <3>1. req' = [req EXCEPT ![r] = DoneRequest] /\ live' = live
      BY <1>3, <2>1, <2>3 DEF DeleteRow, Finish
    <3>2. CASE req[r].id # i
      <4>1. row'[i] = row[i]
        BY <1>3, <3>2 DEF DeleteRow
      <4>2. KeptAt(i)
        BY <2>1, <3>1, <4>1 DEF KeptAt, Same
      <4>3. QED
        BY <1>0, <2>2, <3>1, <4>2, DoneIsOver, ListStays
    <3>3. CASE req[r].id = i
      <4>1. \A s \in Requests \ {r} : req'[s] = req[s]
        BY <3>1, DoneIsOver
      <4>2. \A s \in Requests : Pends(s, i)' <=> Pends(s, i)
        BY <2>2, <3>1, <4>1, DoneIsOver DEF Pends
      <4>3. Mirrored(i) => Mirrored(i)'
        BY <2>1, <2>3, <3>1, <3>3 DEF Mirrored
      <4>4. ASSUME NEW s \in Requests, Pends(s, i) PROVE Carried(s, i)'
        <5>1. Carried(s, i) /\ req'[s] = req[s]
          BY <1>0, <2>2, <4>1, <4>4 DEF ListOf
        <5>2. QED
          BY <2>1, <2>3, <3>1, <3>3, <5>1 DEF Carried
      <4>5. QED
        BY <1>0, <4>2, <4>3, <4>4 DEF ListOf
    <3>4. QED
      BY <3>2, <3>3
  <2>4. CASE req[r].id \in live
    <3>1. /\ req'[r].at = "memory" /\ req'[r].op = "delete"
          /\ req'[r].id = req[r].id
          /\ \A s \in Requests \ {r} : req'[s] = req[s]
      BY <1>3, <2>1, <2>4 DEF DeleteRow, Goto, Request
    <3>2. CASE req[r].id = i
      <4>1. Pending(i) = {}
        BY <1>3, <2>4, <3>2 DEF DeleteRow, Crosses
      <4>2. \A s \in Requests : ~Pends(s, i)
        BY <4>1, PendingIs
      <4>3. i \notin live'
        BY <2>1, <3>2
      <4>4. Pends(r, i)' /\ Carried(r, i)'
        BY <3>1, <3>2, <4>3 DEF Pends, Carried
      <4>5. QED
        BY <3>1, <4>2, <4>4, ListStarts
    <3>3. CASE req[r].id # i
      <4>1. row'[i] = row[i]
        BY <1>3, <3>3 DEF DeleteRow
      <4>2. KeptAt(i) /\ ~Pends(r, i)'
        BY <2>1, <3>1, <3>3, <4>1 DEF KeptAt, Same, Pends
      <4>3. QED
        BY <1>0, <2>2, <3>1, <4>2, ListStays
    <3>4. QED
      BY <3>2, <3>3
  <2>5. QED
    BY <2>3, <2>4
<1>4. CASE DeleteForget(r)
  <2>1. /\ req[r].at = "memory" /\ req[r].op = "delete" /\ req[r].id \in Ids
        /\ req' = [req EXCEPT ![r] = DoneRequest]
        /\ live' = live /\ row' = row /\ tracked' = tracked \ {req[r].id}
    BY <1>4 DEF DeleteForget, Finish, IdsIssued
  <2>2. CASE Pends(r, i)
    <3>1. i \notin live /\ req[r].id = i
      BY <1>0, <2>1, <2>2 DEF ListOf, Carried, Pends
    <3>2. Mirrored(i)'
      BY <2>1, <3>1 DEF Mirrored
    <3>3. QED
      BY <1>0, <2>1, <2>2, <3>2, DoneIsOver, ListEnds
  <2>3. CASE ~Pends(r, i)
    <3>1. req[r].id # i
      BY <2>1, <2>3 DEF Pends
    <3>2. mem'[i] = mem[i]
      BY <1>4, <3>1 DEF DeleteForget
    <3>3. KeptAt(i)
      BY <2>1, <3>1, <3>2 DEF KeptAt, Same
    <3>4. QED
      BY <1>0, <2>1, <2>3, <3>3, DoneIsOver, ListStays
  <2>4. QED
    BY <2>2, <2>3
<1>5. QED
  BY <1>1, <1>2, <1>3, <1>4 DEF DeleteNext

\* A handler that is cut short in the middle of an id takes it out of the claim.
LEMMA CutListInv ==
    ASSUME TypeInv, ListInv, NEW r \in Requests, Disconnect(r) \/ StatementFails(r),
           NEW i \in Ids \ crossed, i \notin crossed'
    PROVE  ListOf(i)'
<1>1. req' = [req EXCEPT ![r] = DoneRequest] /\ CutShort(r)
  BY DEF Disconnect, StatementFails, Finish
<1>2. ~Pends(r, i)
  BY <1>1, PendingIs DEF CutShort
<1>3. KeptAt(i)
  BY DEF Disconnect, StatementFails, KeptAt, Same
<1>4. req \in [Requests -> Request] /\ ListOf(i)
  BY DEF TypeInv, TypeOK, ListInv
<1>5. QED
  BY <1>1, <1>2, <1>3, <1>4, DoneIsOver, ListStays

\* The push cycle changes neither what is tracked nor what table and list say
\* of addresses and pause flags.
LEMMA CycleKeeps ==
    ASSUME TypeInv, CycleNext
    PROVE  /\ req' = req /\ crossed' = crossed /\ garbled' = garbled
           /\ live' = live /\ issued' = issued /\ events' = events
           /\ \A i \in Ids : KeptAt(i)
<1> USE DEF TypeInv, TypeOK
<1>1. /\ req' = req /\ crossed' = crossed /\ garbled' = garbled
      /\ live' = live /\ issued' = issued /\ events' = events /\ tracked' = tracked
  BY DEF CycleNext, CycleRuns, CycleStart, PingNext, PingSend, PingAnswer, PingFail,
         ApplyPing, ApplyFailure, PersistPeak, Collect, CycleEnd
<1>2. ASSUME NEW i \in Ids PROVE Same(mem'[i], mem[i])
  <2>1. mem[i] \in Tracked
    OBVIOUS
  <2>2. \A h, n : Same(ApplySuccess(mem[i], h, n), mem[i])
    BY <2>1 DEF ApplySuccess, Same, Tracked
  <2>3. Same(ClearPingState(mem[i]), mem[i]) /\ Same(mem[i], mem[i])
    BY <2>1 DEF ClearPingState, Same, Tracked
  <2>4. ASSUME NEW k \in Ids, ApplyPing(k) PROVE Same(mem'[i], mem[i])
    <3>1. mem'[i] = mem[i] \/ \E h, n : mem'[i] = ApplySuccess(mem[i], h, n)
      BY <2>4 DEF ApplyPing
    <3>2. QED
      BY <2>2, <2>3, <3>1
  <2>5. ASSUME NEW k \in Ids, ApplyFailure(k) PROVE Same(mem'[i], mem[i])
    <3>1. mem'[i] = mem[i] \/ mem'[i] = ClearPingState(mem[i])
      BY <2>5 DEF ApplyFailure
    <3>2. QED
      BY <2>3, <3>1
  <2>6. CASE mem' = mem
    BY <2>3, <2>6
  <2>7. mem' = mem \/ (\E k \in Ids : ApplyPing(k) \/ ApplyFailure(k))
    BY DEF CycleNext, CycleRuns, CycleStart, PingNext, PingSend, PingAnswer,
           PingFail, PersistPeak, Collect, CycleEnd
  <2>8. QED
    BY <2>4, <2>5, <2>6, <2>7
<1>3. ASSUME NEW i \in Ids PROVE Same(row'[i], row[i])
  <2>1. CASE PersistPeak
    <3>1. PICK k \in Ids, n \in OptCount : k = cyc.id /\ n = cyc.players
      BY <2>1 DEF PersistPeak, Cycle, IdsIssued
    <3>2. row[i] \in Row
      OBVIOUS
    <3>3. Same([row[i] EXCEPT !.peak = n], row[i])
      BY <3>2 DEF Same, Row
    <3>4. row'[i] = row[i] \/ row'[i] = [row[i] EXCEPT !.peak = n]
      BY <2>1, <3>1 DEF PersistPeak, UpdatePeakIfHigher
    <3>5. QED
      BY <3>3, <3>4 DEF Same
  <2>2. CASE ~PersistPeak
    <3>1. row' = row
      BY <2>2 DEF CycleNext, CycleRuns, CycleStart, PingNext, PingSend, PingAnswer,
                  PingFail, ApplyPing, ApplyFailure, Collect, CycleEnd
    <3>2. QED
      BY <3>1 DEF Same
  <2>3. QED
    BY <2>1, <2>2
<1>4. QED
  BY <1>1, <1>2, <1>3 DEF KeptAt

LEMMA QuietListInv ==
    ASSUME NEW i \in Ids, ListOf(i), KeptAt(i), req' = req
    PROVE  ListOf(i)'
<1>1. \A s \in Requests : Pends(s, i)' <=> Pends(s, i)
  BY DEF Pends
<1>2. \A s \in Requests : Carried(s, i) => Carried(s, i)'
  BY DEF Carried, KeptAt, Same
<1>3. Mirrored(i) => Mirrored(i)'
  BY KeptMirrored
<1>4. QED
  BY <1>1, <1>2, <1>3 DEF ListOf

\* After a restart nothing is in flight and the list has been loaded anew.
LEMMA RestartListInv ==
    ASSUME TypeInv, Restart
    PROVE  ListInv'
<1> USE DEF TypeInv, TypeOK
<1>1. \A r \in Requests : req'[r].at \in {"idle", "done"}
  BY RequestTypes DEF Restart, InFlight
<1>2. \A r \in Requests, i \in Ids : ~Pends(r, i)'
  BY <1>1 DEF Pends
<1>3. \A i \in Ids : Mirrored(i)'
  BY DEF Restart, Mirrored, LoadedList, FromConfig
<1>4. QED
  BY <1>2, <1>3 DEF ListInv, ListOf

LEMMA InitListInv == Init => ListInv
<1> SUFFICES ASSUME Init PROVE ListInv
  OBVIOUS
<1>1. \A r \in Requests : req[r].at = "idle"
  BY RequestTypes DEF Init
<1>2. \A r \in Requests, i \in Ids : ~Pends(r, i)
  BY <1>1 DEF Pends
<1>3. \A i \in Ids : Mirrored(i)
  BY DEF Init, Mirrored, LoadedList, FromConfig
<1>4. QED
  BY <1>2, <1>3 DEF ListInv, ListOf

LEMMA StepListInv ==
    ASSUME TypeInv, ListInv, [Next]_vars
    PROVE  ListInv'
<1>1. ASSUME NEW r \in Requests, RequestNext(r) PROVE ListInv'
  <2>1. crossed \subseteq crossed'
    BY <1>1 DEF RequestNext, CreateNext, UpdateNext, DeleteNext, CreateAccept,
       CreateInsert, CreateReread, CreateConflict, CreateEvent, CreateAppend,
       UpdateAccept, UpdateReadBase, UpdateWrite, UpdateConflict, UpdateReread,
       UpdateNotFound, UpdateEvent, UpdateApply, DeleteAccept, DeleteEvent,
       DeleteRow, DeleteForget, Accept, Crosses
  <2>2. ASSUME NEW i \in Ids \ crossed' PROVE ListOf(i)'
    <3>1. i \in Ids \ crossed
      BY <2>1
    <3>2. QED
      BY <1>1, <3>1, CreateListInv, UpdateListInv, DeleteListInv DEF RequestNext
  <2>3. QED
    BY <2>2 DEF ListInv
<1>2. ASSUME NEW r \in Requests, Disconnect(r) \/ StatementFails(r) PROVE ListInv'
  <2>1. crossed \subseteq crossed'
    BY <1>2 DEF Disconnect, StatementFails, CutShort
  <2>2. QED
    BY <1>2, <2>1, CutListInv DEF ListInv
<1>3. CASE CycleNext
  BY <1>3, CycleKeeps, QuietListInv DEF ListInv
<1>4. CASE UNCHANGED vars
  <2>1. \A i \in Ids : KeptAt(i)
    BY <1>4 DEF vars, KeptAt, Same
  <2>2. req' = req /\ crossed' = crossed
    BY <1>4 DEF vars
  <2>3. QED
    BY <2>1, <2>2, QuietListInv DEF ListInv
<1>5. QED
  BY <1>1, <1>2, <1>3, <1>4, RestartListInv DEF Next

LEMMA ListInvariant == Spec => []ListInv
BY InitListInv, StepListInv, TypeInvariant, PTL DEF Spec

\* The list mirrors the table, server by server and with any number of requests
\* in flight: a row that no handler has still to announce is tracked under its
\* own address and pause flag, and an id without a row is not tracked, unless
\* two handlers crossed there or one was cut short.  Nothing the push cycle
\* does, no failure at another server and no restart ever breaks it.
THEOREM ListMirrorsTable == Spec => []ListMatchesTable
<1>1. ListInv => ListMatchesTable
  BY PendingIs DEF ListInv, ListOf, ListMatchesTable
<1>2. QED
  BY <1>1, ListInvariant, PTL

\* What the push cycle collects of such a server is the sample of a row that is
\* in the table and not paused, although the ping may have been sent before the
\* row was paused or deleted.
THEOREM SamplesOfRows == Spec => SamplesOfTrackedRows
<1>1. ASSUME TypeInv, ListInv, Collect, NEW s \in entries',
             s.id \notin crossed, Pending(s.id) = {}
      PROVE  s.id \in live /\ ~row[s.id].paused
  <2>1. PICK i \in tracked : ~mem[i].paused /\ s.id = i
    BY <1>1 DEF Collect
  <2>2. i \in Ids \ crossed
    BY <1>1, <2>1 DEF TypeInv, TypeOK
  <2>3. \A r \in Requests : ~Pends(r, i)
    BY <1>1, <2>1, <2>2, PendingIs
  <2>4. Mirrored(i)
    BY <1>1, <2>2, <2>3 DEF ListInv, ListOf
  <2>5. QED
    BY <2>1, <2>4 DEF Mirrored
<1>2. TypeInv /\ ListInv /\ [Next]_vars =>
        [Collect =>
           \A s \in entries' : s.id \notin crossed /\ Pending(s.id) = {} =>
                                 s.id \in live /\ ~row[s.id].paused]_vars
  BY <1>1
<1>3. QED
  BY <1>2, ListInvariant, TypeInvariant, PTL DEF Spec, SamplesOfTrackedRows

-----------------------------------------------------------------------------
(* The event log                                                             *)

LEMMA HalfTells == \A r, i : Half(r, i) => Tell(r, i)
BY DEF Half, Tell

LEMMA TellingIs ==
    ASSUME NEW i \in Ids
    PROVE  /\ \A r : r \in Telling(i) <=> r \in Requests /\ Tell(r, i)
           /\ \A r : r \in HalfTold(i) <=> r \in Requests /\ Half(r, i)
<1>1. \A r : r \in Telling(i) <=> r \in Requests /\ Tell(r, i)
  BY DEF Telling, InFlight, Tell
<1>2. ASSUME NEW r PROVE r \in HalfTold(i) <=> r \in Requests /\ Half(r, i)
  <2>1. Half(r, i) /\ r \in Requests => r \in Telling(i)
    BY <1>1, HalfTells
  <2>2. r \in Telling(i) => r \in Requests /\ req[r].id = i
    BY <1>1 DEF Tell
  <2>3. QED
    BY <2>1, <2>2 DEF HalfTold, Half
<1>3. QED
  BY <1>1, <1>2

LEMMA AppendTells ==
    ASSUME NEW log \in Seq(EventType), NEW e \in EventType
    PROVE  /\ Append(log, e) # <<>>
           /\ Append(log, e)[Len(Append(log, e))] = e
OBVIOUS

LEMMA AppendVaried ==
    ASSUME NEW log \in Seq(EventType), NEW e \in EventType,
           Varied(log), log # <<>> => log[Len(log)] # e
    PROVE  Varied(Append(log, e))
<1>1. /\ Len(log) \in Nat /\ Len(Append(log, e)) = Len(log) + 1
      /\ Append(log, e)[Len(log) + 1] = e
      /\ \A k \in 1..Len(log) : Append(log, e)[k] = log[k]
  OBVIOUS
<1>2. Len(log) > 0 => log # <<>>
  OBVIOUS
<1>3. ASSUME NEW k \in 1..Len(log) PROVE Append(log, e)[k] # Append(log, e)[k+1]
  <2>1. CASE k = Len(log)
    BY <1>1, <1>2, <2>1
  <2>2. CASE k < Len(log)
    <3>1. k \in 1..Len(log)-1 /\ k+1 \in 1..Len(log)
      BY <1>1, <2>2
    <3>2. log[k] # log[k+1]
      BY <3>1 DEF Varied
    <3>3. QED
      BY <1>1, <3>1, <3>2
  <2>3. QED
    BY <1>1, <2>1, <2>2
<1>4. QED
  BY <1>1, <1>3 DEF Varied

\* An event is in the log, or the id is garbled.
LEMMA RecordAppends ==
    ASSUME TypeInv, NEW k \in Ids, NEW e \in EventType, Record(k, e)
    PROVE  /\ events[k] \in Seq(EventType)
           /\ events'[k] = Append(events[k], e) \/ k \in garbled'
           /\ \A i \in Ids \ {k} : events'[i] = events[i]
BY DEF Record, TypeInv, TypeOK

\* Table and log are the same at an id.
Unchanged(i) ==
    /\ i \in live' <=> i \in live
    /\ i \in issued' <=> i \in issued
    /\ row'[i].paused = row[i].paused
    /\ events'[i] = events[i]

\* Nobody but r moves, and nothing happens to the id: r may come to it, go on
\* with it or leave it, as long as it has not written one of the two.
LEMMA StoryStays ==
    ASSUME NEW i \in Ids, StoryOf(i), Unchanged(i),
           NEW r \in Requests, \A s \in Requests \ {r} : req'[s] = req[s],
           Tell(r, i)' => Tell(r, i) \/ \A s \in Requests : ~Tell(s, i),
           Half(r, i) => Half(r, i)',
           Tell(r, i)' => Follows(r, i)'
    PROVE  StoryOf(i)'
<1>1. \A s \in Requests \ {r} : /\ Tell(s, i)' <=> Tell(s, i)
                                /\ Half(s, i)' <=> Half(s, i)
  BY DEF Tell, Half
<1>2. \A s, t \in Requests : Tell(s, i)' /\ Tell(t, i)' => s = t
  BY <1>1 DEF StoryOf
<1>3. ASSUME NEW s \in Requests, Tell(s, i)' PROVE Follows(s, i)'
  <2>1. CASE s = r
    BY <1>3, <2>1
  <2>2. CASE s # r
    <3>1. Follows(s, i) /\ req'[s] = req[s]
      BY <1>1, <1>3, <2>2 DEF StoryOf
    <3>2. QED
      BY <3>1 DEF Follows, Unchanged, PauseAsked
  <2>3. QED
    BY <2>1, <2>2
<1>4. (\A s \in Requests : ~Half(s, i)') => \A s \in Requests : ~Half(s, i)
  BY <1>1
<1>5. /\ i \notin issued' => events'[i] = <<>>
      /\ Varied(events'[i])
      /\ i \in issued' /\ (\A s \in Requests : ~Half(s, i)') =>
           Tells(events'[i], i \in live', row'[i].paused)
  BY <1>4 DEF StoryOf, Unchanged
<1>6. QED
  BY <1>2, <1>3, <1>5 DEF StoryOf

\* The handler r, alone with the id, writes its row or its log.
LEMMA StoryMoves ==
    ASSUME NEW i \in Ids, NEW r \in Requests,
           \A s \in Requests \ {r} : req'[s] = req[s] /\ ~Tell(s, i),
           i \in issued', Varied(events'[i]),
           Half(r, i)' \/ Tells(events'[i], i \in live', row'[i].paused),
           Tell(r, i)' => Follows(r, i)'
    PROVE  StoryOf(i)'
<1>1. \A s \in Requests \ {r} : ~Tell(s, i)'
  BY DEF Tell
<1>2. QED
  BY <1>1 DEF StoryOf

\* A teller that is alone with its id.
LEMMA TellerAlone ==
    ASSUME NEW i, StoryOf(i), NEW r \in Requests, Tell(r, i)
    PROVE  /\ \A s \in Requests \ {r} : ~Tell(s, i)
           /\ Follows(r, i)
           /\ ~Half(r, i) /\ i \in issued => Tells(events[i], i \in live, row[i].paused)
BY HalfTells DEF StoryOf

LEMMA AcceptStoryInv ==
    ASSUME TypeInv, NEW r \in Requests, NEW q \in Request, Accept(r, q),
           \/ q.op = "create" /\ q.at = "insert"
           \/ /\ q.op = "update" /\ q.at = "base" /\ q.id \in live
              /\ q.was = row[q.id].paused /\ Meets(q.id)
           \/ q.op = "delete" /\ q.at = "event" /\ q.id \in live /\ Meets(q.id),
           NEW i \in Ids, StoryOf(i), i \notin garbled'
    PROVE  StoryOf(i)'
<1> USE DEF TypeInv, TypeOK
<1>1. /\ req[r].at = "idle" /\ req'[r] = q
      /\ \A s \in Requests \ {r} : req'[s] = req[s]
  BY DEF Accept
<1>2. ~Half(r, i)
  BY <1>1 DEF Half
<1>3. Unchanged(i) /\ live' = live /\ row' = row
  BY DEF Accept, Unchanged
<1>4. CASE q.id = i /\ q.at # "insert"
  <2>1. Telling(i) = {}
    BY <1>4 DEF Meets
  <2>2. \A s \in Requests : ~Tell(s, i)
    BY <2>1, TellingIs
  <2>3. Follows(r, i)'
    BY <1>1, <1>3, <1>4 DEF Follows
  <2>4. QED
    BY <1>1, <1>2, <1>3, <2>2, <2>3, StoryStays
<1>5. CASE q.id # i \/ q.at = "insert"
  <2>1. ~Tell(r, i)'
    BY <1>1, <1>5 DEF Tell
  <2>2. QED
    BY <1>1, <1>2, <1>3, <2>1, StoryStays
<1>6. QED
  BY <1>4, <1>5

\* A handler that ends without having written one of the two leaves no trace.
LEMMA DoneStoryInv ==
    ASSUME TypeInv, NEW r \in Requests, req' = [req EXCEPT ![r] = DoneRequest],
           NEW i \in Ids, StoryOf(i), Unchanged(i), ~Half(r, i)
    PROVE  StoryOf(i)'
BY DoneIsOver, StoryStays DEF TypeInv, TypeOK

\* A handler of another id.
LEMMA ElseStoryInv ==
    ASSUME NEW r \in Requests, \A s \in Requests \ {r} : req'[s] = req[s],
           NEW i \in Ids, StoryOf(i), Unchanged(i), req[r].id # i, req'[r].id # i
    PROVE  StoryOf(i)'
<1>1. ~Tell(r, i)' /\ ~Half(r, i)
  BY DEF Tell, Half
<1>2. QED
  BY <1>1, StoryStays

LEMMA CreateStoryInv ==
    ASSUME TypeInv, StoryInv, NEW r \in Requests, CreateNext(r),
           NEW i \in Ids \ garbled, i \notin garbled'
    PROVE  StoryOf(i)'
<1> USE DEF TypeInv, TypeOK
<1>0. StoryOf(i)
  BY DEF StoryInv
<1>1. ASSUME NEW h \in Hosts, CreateAccept(r, h) PROVE StoryOf(i)'
  <2> DEFINE q == [IdleRequest EXCEPT !.op = "create", !.at = "insert", !.host = h]
  <2>1. q \in Request /\ q.op = "create" /\ q.at = "insert" /\ Accept(r, q)
    BY <1>1, RequestTypes DEF CreateAccept, Request, Ops, Stage
  <2> HIDE DEF q
  <2>2. QED
    BY <1>0, <2>1, AcceptStoryInv
<1>2. ASSUME NEW k \in Ids, CreateInsert(r, k) PROVE StoryOf(i)'
  <2>1. /\ req[r].at = "insert" /\ k \notin issued
        /\ req'[r].op = "create" /\ req'[r].at = "reread" /\ req'[r].id = k
        /\ \A s \in Requests \ {r} : req'[s] = req[s]
    BY <1>2 DEF CreateInsert, Request
  <2>2. live' = live \cup {k} /\ issued' = issued \cup {k} /\ events' = events
    BY <1>2 DEF CreateInsert
  <2>3. CASE i = k
    <3>1. \A s \in Requests \ {r} : ~Tell(s, i)
      BY <2>1, <2>3 DEF Tell, IdsIssued
    <3>2. row'[i] = [EmptyRow EXCEPT !.host = req[r].host]
      BY <1>2, <2>3 DEF CreateInsert
    <3>3. events'[i] = <<>> /\ Varied(events'[i]) /\ row'[i].paused = FALSE
      BY <1>0, <2>1, <2>2, <2>3, <3>2 DEF StoryOf, EmptyRow
    <3>4. Half(r, i)'
      BY <2>1, <2>3 DEF Half
    <3>5. Follows(r, i)'
      BY <2>1, <2>2, <2>3, <3>3 DEF Follows
    <3>6. QED
      BY <2>1, <2>2, <2>3, <3>1, <3>3, <3>4, <3>5, StoryMoves
  <2>4. CASE i # k
    <3>1. Unchanged(i)
      BY <1>2, <2>4 DEF CreateInsert, Unchanged
    <3>2. ~Tell(r, i)' /\ ~Half(r, i)
      BY <2>1, <2>4 DEF Tell, Half
    <3>3. QED
      BY <1>0, <2>1, <3>1, <3>2, StoryStays
  <2>5. QED
    BY <2>3, <2>4
<1>3. CASE CreateReread(r)
  <2>1. /\ req[r].at = "reread" /\ req[r].op = "create"
        /\ req'[r].op = "create" /\ req'[r].at = "event" /\ req'[r].id = req[r].id
        /\ \A s \in Requests \ {r} : req'[s] = req[s]
    BY <1>3 DEF CreateReread, Request
  <2>2. row' = row /\ live' = live /\ events' = events /\ Unchanged(i)
    BY <1>3 DEF CreateReread, Unchanged
  <2>3. (Tell(r, i)' <=> Tell(r, i)) /\ (Half(r, i)' <=> Half(r, i))
    BY <2>1 DEF Tell, Half
  <2>4. Tell(r, i) => Follows(r, i)'
    BY <1>0, <2>1, <2>2 DEF StoryOf, Follows
  <2>5. QED
    BY <1>0, <2>1, <2>2, <2>3, <2>4, StoryStays
<1>4. CASE CreateConflict(r)
  <2>1. /\ req[r].at = "insert" /\ Unchanged(i)
        /\ req' = [req EXCEPT ![r] = DoneRequest]
    BY <1>4 DEF CreateConflict, Finish, Unchanged
  <2>2. ~Half(r, i)
    BY <2>1 DEF Half
  <2>3. QED
    BY <1>0, <2>1, <2>2, DoneStoryInv
<1>5. CASE CreateEvent(r)
  <2>1. /\ req[r].at = "event" /\ req[r].op = "create" /\ req[r].id \in issued
        /\ req'[r].op = "create" /\ req'[r].at = "memory" /\ req'[r].id = req[r].id
        /\ \A s \in Requests \ {r} : req'[s] = req[s]
    BY <1>5 DEF CreateEvent, Goto, Request, IdsIssued
  <2>2. live' = live /\ issued' = issued /\ row' = row
    BY <1>5 DEF CreateEvent
  <2>3. PICK k \in Ids : req[r].id = k
    BY <2>1
  <2>4. "added" \in EventType /\ Record(k, "added")
    BY <1>5, <2>3 DEF CreateEvent, EventType
  <2>5. /\ events[k] \in Seq(EventType)
        /\ events'[k] = Append(events[k], "added") \/ k \in garbled'
        /\ \A j \in Ids \ {k} : events'[j] = events[j]
    BY <2>4, RecordAppends
  <2>6. CASE i = k
    <3>1. Tell(r, i)
      BY <2>1, <2>3, <2>6 DEF Tell
    <3>2. /\ \A s \in Requests \ {r} : ~Tell(s, i)
          /\ Follows(r, i)
      BY <1>0, <3>1, TellerAlone
    <3>3. i \in live /\ events[i] = <<>> /\ row[i].paused = FALSE
      BY <2>1, <3>2 DEF Follows, Row
    <3>4. Varied(events'[i])
      BY <1>0, <2>4, <2>5, <2>6, <3>3, AppendVaried DEF StoryOf
    <3>5. events'[i] # <<>> /\ events'[i][Len(events'[i])] = "added"
      BY <2>4, <2>5, <2>6, AppendTells
    <3>6. Tells(events'[i], i \in live', row'[i].paused)
      BY <2>2, <3>3, <3>5 DEF Tells
    <3>7. ~Tell(r, i)'
      BY <2>1 DEF Tell
    <3>8. QED
      BY <2>1, <2>2, <2>3, <2>6, <3>2, <3>4, <3>6, <3>7, StoryMoves
  <2>7. CASE i # k
    <3>1. Unchanged(i)
      BY <2>2, <2>5, <2>7 DEF Unchanged
    <3>2. QED
      BY <1>0, <2>1, <2>3, <2>7, <3>1, ElseStoryInv
  <2>8. QED
    BY <2>6, <2>7
<1>6. CASE CreateAppend(r)
  <2>1. /\ req[r].at = "memory" /\ Unchanged(i)
        /\ req' = [req EXCEPT ![r] = DoneRequest]
    BY <1>6 DEF CreateAppend, Finish, Unchanged
  <2>2. ~Half(r, i)
    BY <2>1 DEF Half
  <2>3. QED
    BY <1>0, <2>1, <2>2, DoneStoryInv
<1>7. QED
  BY <1>1, <1>2, <1>3, <1>4, <1>5, <1>6 DEF CreateNext

LEMMA UpdateStoryInv ==
    ASSUME TypeInv, StoryInv, NEW r \in Requests, UpdateNext(r),
           NEW i \in Ids \ garbled, i \notin garbled'
    PROVE  StoryOf(i)'
<1> USE DEF TypeInv, TypeOK
<1>0. StoryOf(i)
  BY DEF StoryInv
<1>1. ASSUME NEW k \in Ids, NEW a \in PatchArgs, UpdateAccept(r, k, a[1], a[2])
      PROVE  StoryOf(i)'
  <2> DEFINE q == [IdleRequest EXCEPT !.op = "update", !.at = "base", !.id = k,
                                      !.host = a[1], !.pause = a[2],
                                      !.was = row[k].paused]
  <2>1. a[1] \in Hosts \cup {NoHost} /\ a[2] \in PauseArg
    BY DEF PatchArgs
  <2>2. row[k].paused \in BOOLEAN
    BY DEF Row
  <2>3. q \in Request
    BY <2>1, <2>2, RequestTypes DEF Request, Ops, Stage
  <2>4. q.op = "update" /\ q.at = "base" /\ q.id = k /\ q.was = row[k].paused
    BY RequestTypes DEF Request
  <2>5. Accept(r, q) /\ k \in live /\ Meets(k)
    BY <1>1 DEF UpdateAccept
  <2> HIDE DEF q
  <2>6. QED
    BY <1>0, <2>3, <2>4, <2>5, AcceptStoryInv
<1>2. ASSUME req[r].op = "update", req[r].at \in {"base", "write", "reread", "event"}
      PROVE  /\ req[r].id \in issued
             /\ req[r].id = i =>
                  /\ Tell(r, i) /\ Follows(r, i) /\ i \in live
                  /\ \A s \in Requests \ {r} : ~Tell(s, i)
  <2>1. req[r].id = i => Tell(r, i)
    BY <1>2 DEF Tell
  <2>2. req[r].id \in issued
    BY <1>2 DEF IdsIssued
  <2>3. QED
    BY <1>0, <2>1, <2>2, TellerAlone DEF Follows
<1>3. CASE UpdateReadBase(r)
  <2>1. /\ req[r].at = "base" /\ req[r].op = "update"
        /\ req'[r].at = "write" /\ req'[r].op = "update" /\ req'[r].id = req[r].id
        /\ req'[r].was = req[r].was /\ req'[r].seen = row[req[r].id]
        /\ \A s \in Requests \ {r} : req'[s] = req[s]
    BY <1>3 DEF UpdateReadBase, Request
  <2>2. live' = live /\ row' = row /\ Unchanged(i)
    BY <1>3 DEF UpdateReadBase, Unchanged
  <2>3. (Tell(r, i)' <=> Tell(r, i)) /\ ~Half(r, i)
    BY <2>1 DEF Tell, Half
  <2>4. ASSUME Tell(r, i) PROVE Follows(r, i)'
    <3>1. req[r].id = i
      BY <2>4 DEF Tell
    <3>2. i \in live /\ req[r].was = row[i].paused
      BY <1>2, <2>1, <3>1 DEF Follows
    <3>3. QED
      BY <2>1, <2>2, <3>1, <3>2 DEF Follows
  <2>5. QED
    BY <1>0, <2>1, <2>2, <2>3, <2>4, StoryStays
<1>4. CASE UpdateWrite(r)
  <2>1. /\ req[r].at = "write" /\ req[r].op = "update" /\ req[r].id \in issued
        /\ req'[r].at = "reread" /\ req'[r].op = "update" /\ req'[r].id = req[r].id
        /\ req'[r].was = req[r].was /\ req'[r].pause = req[r].pause
        /\ \A s \in Requests \ {r} : req'[s] = req[s]
    BY <1>2, <1>4 DEF UpdateWrite, Goto, Request
  <2>2. live' = live /\ issued' = issued /\ events' = events
    BY <1>4 DEF UpdateWrite
  <2>3. CASE req[r].id = i
    <3>1. /\ Tell(r, i) /\ Follows(r, i) /\ i \in live
          /\ \A s \in Requests \ {r} : ~Tell(s, i)
      BY <1>2, <2>1, <2>3
    <3>2. req[r].was = row[i].paused /\ req[r].seen.paused = req[r].was
      BY <2>1, <3>1 DEF Follows
    <3>3. ~Half(r, i)
      BY <2>1 DEF Half
    <3>4. Tells(events[i], TRUE, req[r].was)
      <4>1. Tells(events[i], i \in live, row[i].paused)
        BY <1>0, <2>1, <2>3, <3>1, <3>3, TellerAlone
      <4>2. QED
        BY <3>1, <3>2, <4>1 DEF Tells
    <3>5. row'[i].paused = NewPaused(req[r])
      BY <1>4, <2>3 DEF UpdateWrite, Row
    <3>6. row'[i].paused = (req[r].pause = "pause"
                            \/ (req[r].pause = "keep" /\ req[r].was))
      BY <3>2, <3>5 DEF NewPaused
    <3>7. Follows(r, i)'
      BY <2>1, <2>2, <3>1, <3>4, <3>6 DEF Follows
    <3>8. Half(r, i)'
      BY <2>1, <2>3 DEF Half
    <3>9. i \in issued' /\ Varied(events'[i])
      BY <1>0, <2>1, <2>2, <2>3 DEF StoryOf
    <3>10. QED
      BY <2>1, <3>1, <3>7, <3>8, <3>9, StoryMoves
  <2>4. CASE req[r].id # i
    <3>1. row'[i] = row[i]
      BY <1>4, <2>4 DEF UpdateWrite
    <3>2. Unchanged(i)
      BY <2>2, <3>1 DEF Unchanged
    <3>3. QED
      BY <1>0, <2>1, <2>4, <3>2, ElseStoryInv
  <2>5. QED
    BY <2>3, <2>4
<1>5. CASE UpdateConflict(r)
  <2>1. /\ req[r].at = "write" /\ Unchanged(i)
        /\ req' = [req EXCEPT ![r] = DoneRequest]
    BY <1>5 DEF UpdateConflict, Finish, Unchanged
  <2>2. ~Half(r, i)
    BY <1>5, <2>1 DEF Half
  <2>3. QED
    BY <1>0, <2>1, <2>2, DoneStoryInv
<1>6. CASE UpdateReread(r)
  <2>1. /\ req[r].at = "reread" /\ req[r].op = "update" /\ req[r].id \in issued
        /\ req'[r].op = "update" /\ req'[r].id = req[r].id
        /\ req'[r].at = (IF PauseAsked(req[r]) THEN "event" ELSE "memory")
        /\ req'[r].was = req[r].was /\ req'[r].pause = req[r].pause
        /\ \A s \in Requests \ {r} : req'[s] = req[s]
    BY <1>2, <1>6 DEF UpdateReread, Request
  <2>2. /\ live' = live /\ issued' = issued /\ row' = row /\ events' = events
        /\ Unchanged(i)
    BY <1>6 DEF UpdateReread, Unchanged
  <2>3. CASE req[r].id # i
    BY <1>0, <2>1, <2>2, <2>3, ElseStoryInv
  <2>4. CASE req[r].id = i
    <3>1. /\ Tell(r, i) /\ Follows(r, i) /\ i \in live
          /\ \A s \in Requests \ {r} : ~Tell(s, i)
      BY <1>2, <2>1, <2>4
    <3>2. /\ Tells(events[i], TRUE, req[r].was)
          /\ row[i].paused = (req[r].pause = "pause"
                              \/ (req[r].pause = "keep" /\ req[r].was))
      BY <2>1, <3>1 DEF Follows
    <3>3. i \in issued' /\ Varied(events'[i])
      BY <1>0, <2>1, <2>2, <2>4 DEF StoryOf
    <3>4. CASE PauseAsked(req[r])
      <4>1. req'[r].at = "event" /\ PauseAsked(req'[r])
        BY <2>1, <3>4 DEF PauseAsked
      <4>2. Half(r, i)'
        BY <2>1, <2>4, <4>1 DEF Half
      <4>3. Follows(r, i)'
        BY <2>1, <2>2, <3>1, <3>2, <4>1 DEF Follows
      <4>4. QED
        BY <2>1, <3>1, <3>3, <4>2, <4>3, StoryMoves
    <3>5. CASE ~PauseAsked(req[r])
      <4>1. row[i].paused = req[r].was
        BY <3>2, <3>5 DEF PauseAsked, Request, PauseArg
      <4>2. Tells(events'[i], i \in live', row'[i].paused)
        BY <2>2, <3>1, <3>2, <4>1 DEF Tells
      <4>3. ~Tell(r, i)'
        BY <2>1, <3>5 DEF Tell
      <4>4. QED
        BY <2>1, <3>1, <3>3, <4>2, <4>3, StoryMoves
    <3>6. QED
      BY <3>4, <3>5
  <2>5. QED
    BY <2>3, <2>4
<1>7. CASE UpdateNotFound(r)
  \* Nobody else deletes the row of an id where no two handlers met.
  <2>1. /\ req[r].op = "update" /\ req[r].at \in {"base", "write", "reread"}
        /\ req[r].id \notin live
        /\ Unchanged(i) /\ req' = [req EXCEPT ![r] = DoneRequest]
    BY <1>7 DEF UpdateNotFound, Finish, Unchanged
  <2>2. ~Half(r, i)
    BY <1>2, <2>1 DEF Half
  <2>3. QED
    BY <1>0, <2>1, <2>2, DoneStoryInv
<1>8. CASE UpdateEvent(r)
  <2> DEFINE e == IF req[r].pause = "pause" THEN "paused" ELSE "unpaused"
  <2>1. /\ req[r].at = "event" /\ req[r].op = "update" /\ req[r].id \in issued
        /\ req'[r].at = "memory" /\ req'[r].op = "update" /\ req'[r].id = req[r].id
        /\ \A s \in Requests \ {r} : req'[s] = req[s]
    BY <1>2, <1>8 DEF UpdateEvent, Goto, Request
  <2>2. live' = live /\ issued' = issued /\ row' = row
    BY <1>8 DEF UpdateEvent
  <2>3. PICK k \in Ids : req[r].id = k
    BY <2>1
  <2>4. e \in EventType /\ Record(k, e)
    BY <1>8, <2>3 DEF UpdateEvent, EventType
  <2>5. e = "paused" <=> req[r].pause = "pause"
    OBVIOUS
  <2>10. e \in {"paused", "unpaused"}
    OBVIOUS
  <2> HIDE DEF e
  <2>6. /\ events[k] \in Seq(EventType)
        /\ events'[k] = Append(events[k], e) \/ k \in garbled'
        /\ \A j \in Ids \ {k} : events'[j] = events[j]
    BY <2>4, RecordAppends
  <2>7. CASE i = k
    <3>1. /\ Tell(r, i) /\ Follows(r, i) /\ i \in live
          /\ \A s \in Requests \ {r} : ~Tell(s, i)
      BY <1>2, <2>1, <2>3, <2>7
    <3>2. /\ Tells(events[i], TRUE, req[r].was) /\ PauseAsked(req[r])
          /\ row[i].paused = (req[r].pause = "pause"
                              \/ (req[r].pause = "keep" /\ req[r].was))
      BY <2>1, <3>1 DEF Follows
    <3>3. events[i][Len(events[i])] # e
      BY <2>5, <2>10, <3>2 DEF Tells, PauseAsked
    <3>4. row[i].paused <=> e = "paused"
      BY <2>5, <3>2 DEF PauseAsked
    <3>5. Varied(events'[i])
      BY <1>0, <2>4, <2>6, <2>7, <3>3, AppendVaried DEF StoryOf
    <3>6. events'[i] # <<>> /\ events'[i][Len(events'[i])] = e
      BY <2>4, <2>6, <2>7, AppendTells
    <3>7. Tells(events'[i], i \in live', row'[i].paused)
      BY <2>2, <2>10, <3>1, <3>4, <3>6 DEF Tells
    <3>8. ~Tell(r, i)'
      BY <2>1 DEF Tell
    <3>9. QED
      BY <2>1, <2>2, <2>3, <2>7, <3>1, <3>5, <3>7, <3>8, StoryMoves
  <2>8. CASE i # k
    <3>1. Unchanged(i)
      BY <2>2, <2>6, <2>8 DEF Unchanged
    <3>2. QED
      BY <1>0, <2>1, <2>3, <2>8, <3>1, ElseStoryInv
  <2>9. QED
    BY <2>7, <2>8
<1>9. CASE UpdateApply(r)
  <2>1. /\ req[r].at = "memory" /\ Unchanged(i)
        /\ req' = [req EXCEPT ![r] = DoneRequest]
    BY <1>9 DEF UpdateApply, Finish, Unchanged
  <2>2. ~Half(r, i)
    BY <2>1 DEF Half
  <2>3. QED
    BY <1>0, <2>1, <2>2, DoneStoryInv
<1>10. QED
  BY <1>1, <1>3, <1>4, <1>5, <1>6, <1>7, <1>8, <1>9 DEF UpdateNext

LEMMA DeleteStoryInv ==
    ASSUME TypeInv, StoryInv, NEW r \in Requests, DeleteNext(r),
           NEW i \in Ids \ garbled, i \notin garbled'
    PROVE  StoryOf(i)'
<1> USE DEF TypeInv, TypeOK
<1>0. StoryOf(i)
  BY DEF StoryInv
<1>1. ASSUME NEW k \in Ids, DeleteAccept(r, k) PROVE StoryOf(i)'
  <2> DEFINE q == [IdleRequest EXCEPT !.op = "delete", !.at = "event", !.id = k]
  <2>1. q \in Request /\ q.op = "delete" /\ q.at = "event" /\ q.id = k
    BY RequestTypes DEF Request, Ops, Stage
  <2>2. Accept(r, q) /\ k \in live /\ Meets(k)
    BY <1>1 DEF DeleteAccept
  <2> HIDE DEF q
  <2>3. QED
    BY <1>0, <2>1, <2>2, AcceptStoryInv
<1>2. ASSUME req[r].op = "delete", req[r].at \in {"event", "delete"}
      PROVE  /\ req[r].id \in issued
             /\ req[r].id = i =>
                  /\ Tell(r, i) /\ Follows(r, i) /\ i \in live
                  /\ \A s \in Requests \ {r} : ~Tell(s, i)
  <2>1. req[r].id = i => Tell(r, i)
    BY <1>2 DEF Tell
  <2>2. req[r].id \in issued
    BY <1>2 DEF IdsIssued
  <2>3. QED
    BY <1>0, <2>1, <2>2, TellerAlone DEF Follows
<1>3. CASE DeleteEvent(r)
  <2>1. /\ req[r].at = "event" /\ req[r].op = "delete" /\ req[r].id \in issued
        /\ req'[r].at = "delete" /\ req'[r].op = "delete" /\ req'[r].id = req[r].id
        /\ \A s \in Requests \ {r} : req'[s] = req[s]
    BY <1>2, <1>3 DEF DeleteEvent, Goto, Request
  <2>2. live' = live /\ issued' = issued /\ row' = row
    BY <1>3 DEF DeleteEvent
  <2>3. PICK k \in Ids : req[r].id = k
    BY <2>1
  <2>4. "removed" \in EventType /\ Record(k, "removed")
    BY <1>3, <2>3 DEF DeleteEvent, EventType
  <2>5. /\ events[k] \in Seq(EventType)
        /\ events'[k] = Append(events[k], "removed") \/ k \in garbled'
        /\ \A j \in Ids \ {k} : events'[j] = events[j]
    BY <2>4, RecordAppends
  <2>6. CASE i = k
    <3>1. /\ Tell(r, i) /\ Follows(r, i) /\ i \in live
          /\ \A s \in Requests \ {r} : ~Tell(s, i)
      BY <1>2, <2>1, <2>3, <2>6
    <3>2. ~Half(r, i)
      BY <2>1 DEF Half
    <3>3. Tells(events[i], i \in live, row[i].paused)
      BY <1>0, <2>1, <2>3, <2>6, <3>1, <3>2, TellerAlone
    <3>4. events[i][Len(events[i])] # "removed"
      BY <3>1, <3>3 DEF Tells
    <3>5. Varied(events'[i])
      BY <1>0, <2>4, <2>5, <2>6, <3>4, AppendVaried DEF StoryOf
    <3>6. events'[i] # <<>> /\ events'[i][Len(events'[i])] = "removed"
      BY <2>4, <2>5, <2>6, AppendTells
    <3>7. Tells(events'[i], FALSE, FALSE)
      BY <3>6 DEF Tells
    <3>8. Follows(r, i)' /\ Half(r, i)'
      BY <2>1, <2>2, <2>3, <2>6, <3>1, <3>7 DEF Follows, Half
    <3>9. QED
      BY <2>1, <2>2, <2>3, <2>6, <3>1, <3>5, <3>8, StoryMoves
  <2>7. CASE i # k
    <3>1. Unchanged(i)
      BY <2>2, <2>5, <2>7 DEF Unchanged
    <3>2. QED
      BY <1>0, <2>1, <2>3, <2>7, <3>1, ElseStoryInv
  <2>8. QED
    BY <2>6, <2>7
<1>4. CASE DeleteRow(r)
  <2>1. /\ req[r].at = "delete" /\ req[r].op = "delete" /\ req[r].id \in issued
        /\ live' = live \ {req[r].id} /\ issued' = issued /\ events' = events
    BY <1>2, <1>4 DEF DeleteRow
  <2>2. /\ \A s \in Requests \ {r} : req'[s] = req[s]
        /\ ~Tell(r, i)'
    <3>1. CASE req[r].id \in live
      <4>1. req'[r].at = "memory" /\ \A s \in Requests \ {r} : req'[s] = req[s]
        BY <1>4, <3>1 DEF DeleteRow, Goto, Request
      <4>2. QED
        BY <4>1 DEF Tell
    <3>2. CASE req[r].id \notin live
      <4>1. req' = [req EXCEPT ![r] = DoneRequest]
        BY <1>4, <3>2 DEF DeleteRow, Finish
      <4>2. QED
        BY <4>1, DoneIsOver
    <3>3. QED
      BY <3>1, <3>2
  <2>3. CASE req[r].id = i
    <3>1. /\ Tell(r, i) /\ Follows(r, i) /\ i \in live
          /\ \A s \in Requests \ {r} : ~Tell(s, i)
      BY <1>2, <2>1, <2>3
    <3>2. Tells(events[i], FALSE, FALSE)
      BY <2>1, <3>1 DEF Follows
    <3>3. i \notin live' /\ events'[i] = events[i] /\ i \in issued'
      BY <2>1, <2>3
    <3>4. Tells(events'[i], i \in live', row'[i].paused)
      BY <3>2, <3>3 DEF Tells
    <3>5. Varied(events'[i])
      BY <1>0, <3>3 DEF StoryOf
    <3>6. QED
      BY <2>2, <3>1, <3>3, <3>4, <3>5, StoryMoves
  <2>4. CASE req[r].id # i
    <3>1. row'[i] = row[i]
      BY <1>4, <2>4 DEF DeleteRow
    <3>2. Unchanged(i)
      BY <2>1, <2>4, <3>1 DEF Unchanged
    <3>3. ~Half(r, i)
      BY <2>4 DEF Half
    <3>4. QED
      BY <1>0, <2>2, <3>2, <3>3, StoryStays
  <2>5. QED
    BY <2>3, <2>4
<1>5. CASE DeleteForget(r)
  <2>1. /\ req[r].at = "memory" /\ req[r].op = "delete" /\ Unchanged(i)
        /\ req' = [req EXCEPT ![r] = DoneRequest]
    BY <1>5 DEF DeleteForget, Finish, Unchanged
  <2>2. ~Half(r, i)
    BY <2>1 DEF Half
  <2>3. QED
    BY <1>0, <2>1, <2>2, DoneStoryInv
<1>6. QED
  BY <1>1, <1>3, <1>4, <1>5 DEF DeleteNext

\* A handler that is cut short between the two writes garbles its id.
LEMMA CutStoryInv ==
    ASSUME TypeInv, StoryInv, NEW r \in Requests, Disconnect(r) \/ StatementFails(r),
           NEW i \in Ids \ garbled, i \notin garbled'
    PROVE  StoryOf(i)'
<1>1. req' = [req EXCEPT ![r] = DoneRequest] /\ CutShort(r)
  BY DEF Disconnect, StatementFails, Finish
<1>2. r \notin HalfTold(i)
  BY <1>1 DEF CutShort
<1>3. ~Half(r, i)
  BY <1>2, TellingIs
<1>4. Unchanged(i)
  BY DEF Disconnect, StatementFails, Unchanged
<1>5. QED
  BY <1>1, <1>3, <1>4, DoneStoryInv DEF StoryInv

LEMMA QuietStoryInv ==
    ASSUME NEW i \in Ids, StoryOf(i), Unchanged(i), req' = req
    PROVE  StoryOf(i)'
<1>1. \A s \in Requests : (Tell(s, i)' <=> Tell(s, i)) /\ (Half(s, i)' <=> Half(s, i))
  BY DEF Tell, Half
<1>2. \A s \in Requests : Follows(s, i) => Follows(s, i)'
  BY DEF Follows, Unchanged, PauseAsked
<1>3. /\ i \notin issued' => events'[i] = <<>>
      /\ Varied(events'[i])
      /\ i \in issued' /\ (\A s \in Requests : ~Half(s, i)') =>
           Tells(events'[i], i \in live', row'[i].paused)
  BY <1>1 DEF StoryOf, Unchanged
<1>4. QED
  BY <1>1, <1>2, <1>3 DEF StoryOf

\* A crash is the end of every handler at once.
LEMMA RestartStoryInv ==
    ASSUME TypeInv, StoryInv, Restart
    PROVE  StoryInv'
<1> USE DEF TypeInv, TypeOK
<1>1. \A r \in Requests : req'[r].at \in {"idle", "done"}
  BY RequestTypes DEF Restart, InFlight
<1>2. ASSUME NEW i \in Ids \ garbled' PROVE StoryOf(i)'
  <2>1. StoryOf(i) /\ HalfTold(i) = {}
    BY <1>2 DEF Restart, StoryInv
  <2>2. \A r \in Requests : ~Half(r, i)
    BY <2>1, TellingIs
  <2>3. \A r \in Requests : ~Tell(r, i)'
    BY <1>1 DEF Tell
  <2>4. Unchanged(i)
    BY DEF Restart, Unchanged
  <2>5. QED
    BY <2>1, <2>2, <2>3, <2>4 DEF StoryOf, Unchanged
<1>3. QED
  BY <1>2 DEF StoryInv

LEMMA InitStoryInv == Init => StoryInv
<1> SUFFICES ASSUME Init PROVE StoryInv
  OBVIOUS
<1>1. \A r \in Requests : \A i : ~Tell(r, i)
  BY RequestTypes DEF Init, Tell
<1>2. issued = live
  BY DEF Init, CatalogInit
<1>3. ASSUME NEW i \in Ids
      PROVE  /\ i \notin live => events[i] = <<>>
             /\ Varied(events[i])
             /\ i \in live => Tells(events[i], TRUE, row[i].paused)
  BY DEF Init, Varied, Tells
<1>4. ASSUME NEW i \in Ids, i \in issued
      PROVE  Tells(events[i], i \in live, row[i].paused)
  BY <1>2, <1>3, <1>4 DEF Tells
<1>5. QED
  BY <1>1, <1>2, <1>3, <1>4 DEF StoryInv, StoryOf

LEMMA StepStoryInv ==
    ASSUME TypeInv, StoryInv, [Next]_vars
    PROVE  StoryInv'
<1>1. ASSUME NEW r \in Requests, RequestNext(r) PROVE StoryInv'
  <2>1. garbled \subseteq garbled'
    BY <1>1 DEF RequestNext, CreateNext, UpdateNext, DeleteNext, CreateAccept,
       CreateInsert, CreateReread, CreateConflict, CreateEvent, CreateAppend,
       UpdateAccept, UpdateReadBase, UpdateWrite, UpdateConflict, UpdateReread,
       UpdateNotFound, UpdateEvent, UpdateApply, DeleteAccept, DeleteEvent,
       DeleteRow, DeleteForget, Accept, Meets, Record
  <2>2. ASSUME NEW i \in Ids \ garbled' PROVE StoryOf(i)'
    <3>1. i \in Ids \ garbled
      BY <2>1
    <3>2. QED
      BY <1>1, <3>1, CreateStoryInv, UpdateStoryInv, DeleteStoryInv DEF RequestNext
  <2>3. QED
    BY <2>2 DEF StoryInv
<1>2. ASSUME NEW r \in Requests, Disconnect(r) \/ StatementFails(r) PROVE StoryInv'
  <2>1. garbled \subseteq garbled'
    BY <1>2 DEF Disconnect, StatementFails, CutShort
  <2>2. QED
    BY <1>2, <2>1, CutStoryInv DEF StoryInv
<1>3. CASE CycleNext
  <2>1. \A i \in Ids : Unchanged(i)
    BY <1>3, CycleKeeps DEF KeptAt, Same, Unchanged
  <2>2. QED
    BY <1>3, <2>1, CycleKeeps, QuietStoryInv DEF StoryInv
<1>4. CASE UNCHANGED vars
  <2>1. \A i \in Ids : Unchanged(i)
    BY <1>4 DEF vars, Unchanged
  <2>2. req' = req /\ garbled' = garbled
    BY <1>4 DEF vars
  <2>3. QED
    BY <2>1, <2>2, QuietStoryInv DEF StoryInv
<1>5. QED
  BY <1>1, <1>2, <1>3, <1>4, RestartStoryInv DEF Next

\* The event log tells, server by server and with any number of requests in
\* flight, what became of its row: added, paused, resumed or removed, each
\* once; unless two of its handlers met, or one was cut short between the two
\* writes, or its event insert failed.
THEOREM EventsTell == Spec => []EventsTellTheStory
<1>1. TypeInv /\ StoryInv => EventsTellTheStory
  <2> SUFFICES ASSUME TypeInv, StoryInv, NEW i \in issued \ garbled, Telling(i) = {}
               PROVE  Told(i)
    BY DEF EventsTellTheStory
  <2>1. i \in Ids /\ StoryOf(i)
    BY DEF TypeInv, TypeOK, StoryInv
  <2>2. \A r \in Requests : ~Half(r, i)
    BY <2>1, TellingIs, HalfTells
  <2>3. QED
    BY <2>1, <2>2 DEF StoryOf, Told, Tells, Varied
<1>2. Spec => []StoryInv
  BY InitStoryInv, StepStoryInv, TypeInvariant, PTL DEF Spec
<1>3. QED
  BY <1>1, <1>2, TypeInvariant, PTL
=============================================================================
