----------------------------- MODULE GeoService -----------------------------
(***************************************************************************)
(* mc-geo: the ASN database on disk, its copy in memory, and the cache of   *)
(* lookups in front of it.                                                  *)
(*                                                                          *)
(* The refresh (at the start of the process, then once a day) downloads an  *)
(* archive next to the database when the file is missing or older than      *)
(* three days, unpacks it over the file, removes the archive, opens the     *)
(* file and swaps it in under the write lock.  Lookups run meanwhile on     *)
(* other threads: the cache has a lock of its own, and an answer is put     *)
(* into it under the read lock of the database it comes from.               *)
(*                                                                          *)
(* A database is the MaxMind release it was built from.                     *)
(***************************************************************************)
EXTENDS Integers

CONSTANTS Ips,          \* addresses looked up
          Tasks,        \* lookups in progress at the same time
          MaxRelease,   \* bound: releases MaxMind publishes
          MaxCrashes,   \* bound: crashes of the process
          Hangs,        \* may a download neither end nor fail?
          BadArchives,  \* may an archive on disk be unusable?
          IoFaults      \* may reading or writing a local file fail?

ASSUME MaxReleaseAssumption == MaxRelease \in Nat \ {0}
ASSUME GeoFaultsAssumption ==
    MaxCrashes \in Nat /\ {Hangs, BadArchives, IoFaults} \subseteq BOOLEAN

VARIABLES released,  \* the latest release of MaxMind
          archive,   \* GeoLite2-ASN.tar.gz
          file,      \* GeoLite2-ASN.mmdb
          stale,     \* the file is older than STALE_AFTER
          refresh,   \* where the refresh is, "down" without a process
          opened,    \* the database reload_database has opened
          db,        \* GeoService.database
          cache,     \* LookupCache: the release each cached answer is from
          lookup,    \* the lookups: where they are and what they read
          crashes

diskVars == <<archive, file, stale>>
vars == <<released, archive, file, stale, refresh, opened, db, cache, lookup,
          crashes>>

None == 0
Broken == -1
Releases == 1..MaxRelease
OptRelease == Releases \cup {None}

RefreshStage == {"down", "sleep", "check", "fetch", "hung", "extract", "clean",
                 "open", "swap", "clear"}

Lookup == [at : {"idle", "miss", "read"}, ip : Ips, got : OptRelease]

TypeOK ==
    /\ released \in Releases
    /\ archive \in OptRelease \cup {Broken}
    /\ file \in OptRelease
    /\ stale \in BOOLEAN
    /\ refresh \in RefreshStage
    /\ opened \in OptRelease
    /\ db \in OptRelease
    /\ cache \in [Ips -> OptRelease]
    /\ lookup \in [Tasks -> Lookup]
    /\ crashes \in 0..MaxCrashes

EmptyCache == [ip \in Ips |-> None]

Idle(t) == [t EXCEPT !.at = "idle", !.got = None]

\* The process is about to start over any usable disk, or an empty one.
Init ==
    /\ released \in Releases
    /\ archive = None
    /\ file \in 0..released
    /\ stale \in BOOLEAN
    /\ refresh = "down"
    /\ opened = None
    /\ db = None
    /\ cache = EmptyCache
    /\ lookup \in [Tasks -> [at : {"idle"}, ip : Ips, got : {None}]]
    /\ crashes = 0

-----------------------------------------------------------------------------
(* Outside the process *)

Release ==
    /\ released < MaxRelease
    /\ released' = released + 1
    /\ UNCHANGED <<archive, file, stale, refresh, opened, db, cache, lookup,
                   crashes>>

Age ==
    /\ file # None /\ ~stale
    /\ stale' = TRUE
    /\ UNCHANGED <<released, archive, file, refresh, opened, db, cache, lookup,
                   crashes>>

-----------------------------------------------------------------------------
(* The refresh *)

\* initialize has not returned yet: nothing serves lookups.
Starting == db = None

\* main starts, or the cron schedule ticks.
Begin ==
    /\ refresh \in {"down", "sleep"}
    /\ refresh' = "check"
    /\ UNCHANGED <<released, archive, file, stale, opened, db, cache, lookup,
                   crashes>>

\* ensure_database fails, or has nothing to do: an existing file is good
\* enough, initialize opens it; without one main exits.
KeepExisting ==
    refresh' = IF ~Starting THEN "sleep"
               ELSE IF file # None THEN "open" ELSE "down"

\* Mutant: the age of the file is never looked at.
CheckExistenceOnly ==
    /\ refresh = "check"
    /\ IF file # None THEN KeepExisting
       ELSE refresh' = IF archive # None THEN "extract" ELSE "fetch"
    /\ UNCHANGED <<released, archive, file, stale, opened, db, cache, lookup,
                   crashes>>

\* An archive that is there is not downloaded again.
Check ==
    /\ refresh = "check"
    /\ IF file # None /\ ~stale THEN KeepExisting
       ELSE refresh' = IF archive # None THEN "extract" ELSE "fetch"
    /\ UNCHANGED <<released, archive, file, stale, opened, db, cache, lookup,
                   crashes>>

FetchFails ==
    /\ refresh = "fetch"
    /\ KeepExisting
    /\ UNCHANGED <<released, archive, file, stale, opened, db, cache, lookup,
                   crashes>>

FetchAnswers ==
    /\ refresh = "fetch"
    /\ archive' = released
    /\ refresh' = "extract"
    /\ UNCHANGED <<released, file, stale, opened, db, cache, lookup, crashes>>

\* The request or its body never ends: the client has no timeout, and the loop
\* of the scheduler waits for it.
FetchHangs ==
    /\ Hangs
    /\ refresh = "fetch"
    /\ refresh' = "hung"
    /\ UNCHANGED <<released, archive, file, stale, opened, db, cache, lookup,
                   crashes>>

\* fs::write fails half way: its error is returned, the file stays.
WriteBreaks ==
    /\ BadArchives
    /\ refresh = "fetch"
    /\ archive' = Broken
    /\ KeepExisting
    /\ UNCHANGED <<released, file, stale, opened, db, cache, lookup, crashes>>

\* A body that is no archive.
FetchBreaks ==
    /\ BadArchives
    /\ refresh = "fetch"
    /\ archive' = Broken
    /\ refresh' = "extract"
    /\ UNCHANGED <<released, file, stale, opened, db, cache, lookup, crashes>>

\* Unpacked beside the file and renamed over it.  The file keeps the time
\* stamp of the release, which may be older than three days already.
Extract ==
    /\ refresh = "extract"
    /\ archive # Broken
    /\ file' = archive
    /\ stale' \in BOOLEAN
    /\ refresh' = "clean"
    /\ UNCHANGED <<released, archive, opened, db, cache, lookup, crashes>>

\* The archive stays where it is.
ExtractFails ==
    /\ refresh = "extract"
    /\ archive = Broken \/ IoFaults
    /\ KeepExisting
    /\ UNCHANGED <<released, archive, file, stale, opened, db, cache, lookup,
                   crashes>>

\* Mutant: the new file is not loaded.
CleanOnly ==
    /\ refresh = "clean"
    /\ archive' = None
    /\ refresh' = IF Starting THEN "open" ELSE "sleep"
    /\ UNCHANGED <<released, file, stale, opened, db, cache, lookup, crashes>>

\* The archive is removed; reload_database follows.
Clean ==
    /\ refresh = "clean"
    /\ archive' = None
    /\ refresh' = "open"
    /\ UNCHANGED <<released, file, stale, opened, db, cache, lookup, crashes>>

Open ==
    /\ refresh = "open"
    /\ opened' = file
    /\ refresh' = "swap"
    /\ UNCHANGED <<released, archive, file, stale, db, cache, lookup, crashes>>

\* The error ends initialize, and main with it; a scheduled refresh logs it.
OpenFails ==
    /\ IoFaults
    /\ refresh = "open"
    /\ refresh' = IF Starting THEN "down" ELSE "sleep"
    /\ UNCHANGED <<released, archive, file, stale, opened, db, cache, lookup,
                   crashes>>

\* Mutant: the database is swapped without waiting for the lock.
SwapUnlocked ==
    /\ refresh = "swap"
    /\ db' = opened
    /\ opened' = None
    /\ refresh' = "clear"
    /\ UNCHANGED <<released, archive, file, stale, cache, lookup, crashes>>

\* The write lock is taken: no lookup is reading.
Swap ==
    /\ refresh = "swap"
    /\ \A t \in Tasks : lookup[t].at # "read"
    /\ db' = opened
    /\ opened' = None
    /\ refresh' = "clear"
    /\ UNCHANGED <<released, archive, file, stale, cache, lookup, crashes>>

\* Still under the write lock, which is released here.
Clear ==
    /\ refresh = "clear"
    /\ cache' = EmptyCache
    /\ refresh' = "sleep"
    /\ UNCHANGED <<released, archive, file, stale, opened, db, lookup, crashes>>

\* Only the disk survives.
Crash ==
    /\ crashes < MaxCrashes
    /\ refresh # "down"
    /\ crashes' = crashes + 1
    /\ refresh' = "down"
    /\ opened' = None
    /\ db' = None
    /\ cache' = EmptyCache
    /\ lookup' = [t \in Tasks |-> Idle(lookup[t])]
    /\ UNCHANGED <<released, archive, file, stale>>

-----------------------------------------------------------------------------
(* lookup_asn *)

\* A hit answers from the cache and changes nothing.
LookupMiss(t, ip) ==
    /\ ~Starting
    /\ lookup[t].at = "idle"
    /\ cache[ip] = None
    /\ lookup' = [lookup EXCEPT ![t] = [at |-> "miss", ip |-> ip, got |-> None]]
    /\ UNCHANGED <<released, archive, file, stale, refresh, opened, db, cache,
                   crashes>>

\* The read lock is not given out past a writer that waits or writes.
LookupRead(t) ==
    /\ lookup[t].at = "miss"
    /\ refresh \notin {"swap", "clear"}
    /\ lookup' = [lookup EXCEPT ![t].at = "read", ![t].got = db]
    /\ UNCHANGED <<released, archive, file, stale, refresh, opened, db, cache,
                   crashes>>

\* The answer is cached, then the read lock released.
LookupInsert(t) ==
    /\ lookup[t].at = "read"
    /\ cache' = [cache EXCEPT ![lookup[t].ip] = lookup[t].got]
    /\ lookup' = [lookup EXCEPT ![t] = Idle(@)]
    /\ UNCHANGED <<released, archive, file, stale, refresh, opened, db, crashes>>

\* The text is no address, or the record does not decode.
LookupFails(t) ==
    /\ lookup[t].at = "read"
    /\ lookup' = [lookup EXCEPT ![t] = Idle(@)]
    /\ UNCHANGED <<released, archive, file, stale, refresh, opened, db, cache,
                   crashes>>

-----------------------------------------------------------------------------

RefreshNext ==
    \/ Begin
    \/ Check
    \/ FetchFails \/ FetchAnswers \/ FetchBreaks \/ WriteBreaks
    \/ Extract \/ ExtractFails
    \/ Clean
    \/ Open \/ OpenFails
    \/ Swap \/ Clear

LookupNext(t) == LookupRead(t) \/ LookupInsert(t) \/ LookupFails(t)

Next ==
    \/ Release
    \/ Age
    \/ RefreshNext
    \/ FetchHangs
    \/ Crash
    \/ \E t \in Tasks : LookupNext(t) \/ \E ip \in Ips : LookupMiss(t, ip)

Spec == Init /\ [][Next]_vars

\* Files grow old, the schedule ticks and a stopped process is started again;
\* a refresh goes on at each of its steps unless its download hangs; MaxMind
\* answers, and a good archive unpacks and the file opens, now and then;
\* lookups end.
Fairness ==
    /\ WF_vars(Age)
    /\ WF_vars(RefreshNext)
    /\ SF_vars(FetchAnswers)
    /\ SF_vars(Extract)
    /\ SF_vars(Open)
    /\ \A t \in Tasks : WF_vars(LookupNext(t))

FairSpec == Spec /\ Fairness

-----------------------------------------------------------------------------
(* Properties *)

\* Outside reload_database's critical section every cached answer comes from
\* the database in memory, although lookups that read the old one were in
\* progress when it was swapped.
CacheCurrent ==
    refresh # "clear" => \A ip \in Ips : cache[ip] \in {None, db}

\* A download that never ends is the end of all refreshes, until the process
\* is restarted.
HungForGood == <>[](refresh = "hung")

\* The database in memory catches up with the file after every refresh and
\* every restart, unless a broken archive keeps reload_database from running
\* or a download hangs for good.
MemoryFollowsFile == []<>(db = file \/ archive = Broken) \/ HungForGood

\* Releases reach the disk as long as MaxMind answers now and then, unless an
\* archive that cannot be unpacked is in the way (download_database_from_url
\* neither removes nor replaces it) or a download hangs for good (it sets no
\* timeout).
ReleasesArriveOrBreak ==
    []<>(file = released \/ archive = Broken) \/ HungForGood

\* "Daily ASN database refresh": releases reach the disk as long as MaxMind
\* answers now and then, whatever an earlier download left behind.
ReleasesArrive == []<>(file = released)
=============================================================================
