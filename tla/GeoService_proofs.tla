------------------------- MODULE GeoService_proofs -------------------------
(***************************************************************************)
(* No lookup puts an answer of a replaced database into the cache, for any  *)
(* number of lookups, addresses and releases.  A lookup in its critical     *)
(* section has read the database in memory, because the swap waits for it;  *)
(* so what it inserts is current, and nothing is inserted between the swap  *)
(* and the clear.                                                           *)
(***************************************************************************)
EXTENDS GeoService, TLAPS

GeoInv ==
    /\ TypeOK
    /\ CacheCurrent
    /\ refresh = "clear" => \A t \in Tasks : lookup[t].at # "read"
    /\ \A t \in Tasks : lookup[t].at = "read" => lookup[t].got = db

LEMMA ReleaseRange == OptRelease = 0..MaxRelease /\ Broken \notin OptRelease
BY MaxReleaseAssumption DEF OptRelease, Releases, None, Broken

LEMMA GeoInit == Init => GeoInv
<1> SUFFICES ASSUME Init PROVE GeoInv
  OBVIOUS
<1>1. released \in Releases /\ file \in OptRelease
  BY ReleaseRange, MaxReleaseAssumption DEF Init, Releases
<1>2. None \in OptRelease
  BY DEF OptRelease
<1>3. \A t \in Tasks : lookup[t] \in Lookup /\ lookup[t].at = "idle"
  BY <1>2 DEF Init, Lookup
<1>4. TypeOK
  BY <1>1, <1>2, <1>3, GeoFaultsAssumption
  DEF Init, TypeOK, EmptyCache, RefreshStage, Lookup
<1>5. QED
  BY <1>3, <1>4 DEF Init, GeoInv, CacheCurrent, EmptyCache

\* The steps of the refresh up to the swap leave memory alone.
DiskStep ==
    \/ Release \/ Age
    \/ Begin \/ Check
    \/ FetchFails \/ FetchAnswers \/ FetchHangs \/ FetchBreaks \/ WriteBreaks
    \/ Extract \/ ExtractFails
    \/ Clean
    \/ Open \/ OpenFails

LEMMA DiskStepType == TypeOK /\ DiskStep => TypeOK'
<1> SUFFICES ASSUME TypeOK, DiskStep PROVE TypeOK'
  OBVIOUS
<1> USE ReleaseRange DEF TypeOK, RefreshStage
<1>1. CASE Release
  BY <1>1, MaxReleaseAssumption DEF Release, Releases
<1>2. CASE Age
  BY <1>2 DEF Age
<1>3. CASE Begin
  BY <1>3 DEF Begin
<1>4. CASE Check
  BY <1>4 DEF Check, KeepExisting
<1>5. CASE FetchFails \/ FetchHangs
  BY <1>5 DEF FetchFails, FetchHangs, KeepExisting
<1>6. CASE FetchAnswers
  BY <1>6 DEF FetchAnswers, OptRelease
<1>7. CASE FetchBreaks \/ WriteBreaks
  BY <1>7 DEF FetchBreaks, WriteBreaks, KeepExisting
<1>8. CASE Extract
  BY <1>8 DEF Extract
<1>9. CASE ExtractFails
  BY <1>9 DEF ExtractFails, KeepExisting
<1>10. CASE Clean
  BY <1>10 DEF Clean, OptRelease
<1>11. CASE Open
  BY <1>11 DEF Open
<1>12. CASE OpenFails
  BY <1>12 DEF OpenFails
<1>13. QED
  BY <1>1, <1>2, <1>3, <1>4, <1>5, <1>6, <1>7, <1>8, <1>9, <1>10, <1>11,
     <1>12 DEF DiskStep

\* None of them leaves or enters the critical section either, but for the
\* release or the ageing of a file that happens meanwhile.
LEMMA DiskStepMemory ==
    DiskStep => /\ UNCHANGED <<db, cache, lookup>>
                /\ refresh' = "clear" <=> refresh = "clear"
<1> SUFFICES ASSUME DiskStep
             PROVE  /\ UNCHANGED <<db, cache, lookup>>
                    /\ refresh' = "clear" <=> refresh = "clear"
  OBVIOUS
<1>1. CASE Release \/ Age
  BY <1>1 DEF Release, Age
<1>2. CASE Begin \/ Check
  BY <1>2 DEF Begin, Check, KeepExisting
<1>3. CASE \/ FetchFails \/ FetchAnswers \/ FetchHangs
           \/ FetchBreaks \/ WriteBreaks
  BY <1>3 DEF FetchFails, FetchAnswers, FetchHangs, FetchBreaks, WriteBreaks,
              KeepExisting
<1>4. CASE Extract \/ ExtractFails \/ Clean
  BY <1>4 DEF Extract, ExtractFails, Clean, KeepExisting
<1>5. CASE Open \/ OpenFails
  BY <1>5 DEF Open, OpenFails
<1>6. QED
  BY <1>1, <1>2, <1>3, <1>4, <1>5 DEF DiskStep

LEMMA GeoStep == GeoInv /\ [Next]_vars => GeoInv'
<1> SUFFICES ASSUME GeoInv, [Next]_vars PROVE GeoInv'
  OBVIOUS
<1>0. TypeOK /\ None \in OptRelease /\ db \in OptRelease
      /\ cache \in [Ips -> OptRelease] /\ lookup \in [Tasks -> Lookup]
  BY DEF GeoInv, TypeOK, OptRelease
<1>1. CASE DiskStep
  BY <1>1, DiskStepType, DiskStepMemory DEF GeoInv, CacheCurrent
<1>2. CASE Swap
  <2>1. TypeOK'
    BY <1>0, <1>2 DEF Swap, TypeOK, RefreshStage
  <2>2. QED
    BY <1>2, <2>1 DEF Swap, GeoInv, CacheCurrent
<1>3. CASE Clear
  <2>1. TypeOK'
    BY <1>0, <1>3 DEF Clear, TypeOK, RefreshStage, EmptyCache
  <2>2. QED
    BY <1>3, <2>1 DEF Clear, GeoInv, CacheCurrent, EmptyCache
<1>4. CASE Crash
  <2>1. \A t \in Tasks : lookup'[t] \in Lookup /\ lookup'[t].at = "idle"
    BY <1>0, <1>4 DEF Crash, Idle, Lookup
  <2>2. lookup' \in [Tasks -> Lookup]
    BY <1>4, <2>1 DEF Crash
  <2>3. crashes' \in 0..MaxCrashes
    BY <1>0, <1>4, GeoFaultsAssumption DEF Crash, TypeOK
  <2>4. TypeOK'
    BY <1>0, <1>4, <2>2, <2>3 DEF Crash, TypeOK, RefreshStage, EmptyCache
  <2>5. QED
    BY <1>4, <2>1, <2>4 DEF Crash, GeoInv, CacheCurrent, EmptyCache
<1>5. ASSUME NEW t \in Tasks, NEW ip \in Ips, LookupMiss(t, ip)
      PROVE  GeoInv'
  <2>1. lookup' = [lookup EXCEPT ![t] = [at |-> "miss", ip |-> ip, got |-> None]]
        /\ UNCHANGED <<released, archive, file, stale, refresh, opened, db,
                       cache, crashes>>
    BY <1>5 DEF LookupMiss
  <2>2. lookup' \in [Tasks -> Lookup]
    BY <1>0, <2>1 DEF Lookup
  <2>3. \A u \in Tasks : lookup'[u].at = "read" => lookup'[u] = lookup[u]
    BY <1>0, <2>1
  <2>4. QED
    BY <2>1, <2>2, <2>3 DEF GeoInv, TypeOK, CacheCurrent
<1>6. ASSUME NEW t \in Tasks, LookupRead(t)
      PROVE  GeoInv'
  <2>1. lookup' = [lookup EXCEPT ![t].at = "read", ![t].got = db]
        /\ refresh # "clear"
        /\ UNCHANGED <<released, archive, file, stale, refresh, opened, db,
                       cache, crashes>>
    BY <1>6 DEF LookupRead
  <2>2. lookup' \in [Tasks -> Lookup]
    BY <1>0, <2>1 DEF Lookup
  <2>3. \A u \in Tasks : lookup'[u].at = "read" => u = t \/ lookup'[u] = lookup[u]
    BY <1>0, <2>1
  <2>4. lookup'[t].got = db
    BY <1>0, <2>1 DEF Lookup
  <2>5. QED
    BY <2>1, <2>2, <2>3, <2>4 DEF GeoInv, TypeOK, CacheCurrent
<1>7. ASSUME NEW t \in Tasks, LookupInsert(t) \/ LookupFails(t)
      PROVE  GeoInv'
  <2>1. lookup' = [lookup EXCEPT ![t] = Idle(@)] /\ lookup[t].at = "read"
        /\ UNCHANGED <<released, archive, file, stale, refresh, opened, db,
                       crashes>>
    BY <1>7 DEF LookupInsert, LookupFails
  <2>2. lookup' \in [Tasks -> Lookup]
    BY <1>0, <2>1 DEF Lookup, Idle
  <2>3. \A u \in Tasks : lookup'[u].at = "read" => lookup'[u] = lookup[u]
    BY <1>0, <2>1 DEF Idle, Lookup
  <2>4. cache' \in [Ips -> OptRelease]
        /\ \A ip \in Ips : cache'[ip] \in {cache[ip], db}
    <3>1. lookup[t].got = db /\ lookup[t].ip \in Ips
      BY <1>0, <2>1 DEF GeoInv, Lookup
    <3>2. QED
      BY <1>0, <1>7, <3>1 DEF LookupInsert, LookupFails
  <2>5. refresh # "clear"
    BY <2>1 DEF GeoInv
  <2>6. QED
    BY <2>1, <2>2, <2>3, <2>4, <2>5 DEF GeoInv, TypeOK, CacheCurrent
<1>8. CASE UNCHANGED vars
  BY <1>8 DEF vars, GeoInv, TypeOK, CacheCurrent
<1>9. QED
  BY <1>1, <1>2, <1>3, <1>4, <1>5, <1>6, <1>7, <1>8
  DEF Next, RefreshNext, LookupNext, DiskStep

LEMMA GeoInvariant == Spec => []GeoInv
BY GeoInit, GeoStep, PTL DEF Spec

\* A cached ASN is that of the database in memory whenever reload_database is
\* not between the swap and the clear, for any number of racing lookups.
THEOREM CacheStaysCurrent == Spec => []CacheCurrent
<1>1. GeoInv => CacheCurrent
  BY DEF GeoInv
<1>2. QED
  BY <1>1, GeoInvariant, PTL

\* The state keeps its types over any sequence of downloads and crashes; in
\* particular a broken archive never becomes the database file.
THEOREM GeoTypeCorrect == Spec => []TypeOK
<1>1. GeoInv => TypeOK
  BY DEF GeoInv
<1>2. QED
  BY <1>1, GeoInvariant, PTL
=============================================================================
