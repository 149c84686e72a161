--------------------------- MODULE ServerCatalog ---------------------------
(***************************************************************************)
(* What the table of monitored servers promises, whoever writes to it and   *)
(* in whatever order: an id is given out once and never comes back after a  *)
(* delete, two servers never share an address, and the all-time player peak *)
(* of a server only rises.                                                  *)
(*                                                                          *)
(* An address stands for the triple (host, port, platform) that the unique  *)
(* index servers_host_port_platform_idx covers.                                *)
(***************************************************************************)
EXTENDS Integers

CONSTANTS Ids,        \* server ids (UUID v4 in the code: never drawn twice)
          Hosts,      \* addresses a server may have
          NoHost,     \* the address of an id that has no row
          MaxPlayers  \* largest player count a ping reports in this instance

ASSUME NoHostAssumption == NoHost \notin Hosts
ASSUME MaxPlayersAssumption == MaxPlayers \in Nat

VARIABLES live,    \* ids that have a row
          issued,  \* ids that ever had a row
          row      \* the rows: address, pause flag, all-time peak

catalogVars == <<live, issued, row>>

\* None of Option<u32>: smaller than every count, as record_peak_if_higher
\* and the SQL filter "peak_players IS NULL OR peak_players < n" treat it.
NoCount == -1
Counts == 0..MaxPlayers
OptCount == Counts \cup {NoCount}

Row == [host : Hosts \cup {NoHost}, paused : BOOLEAN, peak : OptCount]

EmptyRow == [host |-> NoHost, paused |-> FALSE, peak |-> NoCount]

Free(h) == \A i \in live : row[i].host # h

CatalogInit ==
    /\ live \in SUBSET Ids
    /\ issued = live
    /\ row \in [Ids -> Row]
    /\ \A i \in Ids : IF i \in live THEN row[i].host \in Hosts
                                    ELSE row[i] = EmptyRow
    /\ \A i, j \in live : row[i].host = row[j].host => i = j

Add(i, h) ==
    /\ i \notin issued
    /\ Free(h)
    /\ live' = live \cup {i}
    /\ issued' = issued \cup {i}
    /\ row' = [row EXCEPT ![i] = [EmptyRow EXCEPT !.host = h]]

Edit(i, h, p) ==
    /\ i \in live
    /\ h = row[i].host \/ Free(h)
    /\ row' = [row EXCEPT ![i].host = h, ![i].paused = p]
    /\ UNCHANGED <<live, issued>>

RaisePeak(i, n) ==
    /\ i \in live
    /\ n > row[i].peak
    /\ row' = [row EXCEPT ![i].peak = n]
    /\ UNCHANGED <<live, issued>>

Remove(i) ==
    /\ i \in live
    /\ live' = live \ {i}
    /\ row' = [row EXCEPT ![i] = EmptyRow]
    /\ UNCHANGED issued

CatalogNext ==
    \E i \in Ids :
        \/ \E h \in Hosts : Add(i, h)
        \/ \E h \in Hosts, p \in BOOLEAN : Edit(i, h, p)
        \/ \E n \in Counts : RaisePeak(i, n)
        \/ Remove(i)

CatalogSpec == CatalogInit /\ [][CatalogNext]_catalogVars
=============================================================================
