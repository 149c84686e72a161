-------------------------------- MODULE Pins --------------------------------
(***************************************************************************)
(* The servers a user has pinned: rows with a position in the database, the *)
(* list the browser's query cache holds of them, and the order a drag shows *)
(* before the server has accepted it.  Pinning, unpinning and reordering    *)
(* are requests that may overlap; on the server each is several statements. *)
(***************************************************************************)
EXTENDS Naturals, SequencesExt, FiniteSetsExt

CONSTANTS Pinnable,     \* servers that are known
          None,
          MaxRequests,  \* bound: clicks and drags of the user
          Pausable,     \* servers that an admin may pause
          MaxPauses     \* bound: how often

VARIABLES
  position,         \* pinned_servers: the position of each pinned server
  tracked,          \* servers that are not paused
  pauses,
  requests,         \* in the order they were sent
  cached,           \* the query cache: the list
  fetch,            \* its fetch: has the server answered, and what?
  optimisticItems   \* the order dragged, or None

pinVars == <<position, tracked, pauses, requests, cached, fetch, optimisticItems>>

\* A list names a server at most once.
List == UNION {SetToSeqs(S) : S \in SUBSET Pinnable}

Place == {"row", "list"}   \* a pinned server has a button in its row and one in the list
Request == [kind : {"pin", "unpin", "reorder"}, place : Place \cup {None},
            server : Pinnable \cup {None}, order : List,
            at : {"sent", "checked", "deleted", "compacting", "built", "answered",
                  "failed", "over"},
            next : Nat, rest : List, answer : List]

TypeOK ==
    /\ DOMAIN position \subseteq Pinnable /\ Range(position) \subseteq Nat
    /\ tracked \subseteq Pinnable /\ pauses \in 0 .. MaxPauses
    /\ requests \in Seq(Request)
    /\ cached \in List
    /\ fetch \in [answered : BOOLEAN, answer : List]
    /\ optimisticItems \in List \cup {None}

Index(l, s) == (CHOOSE i \in DOMAIN l : l[i] = s) - 1

\* Pins of an earlier visit: none, or all, in any order
Earlier == {<<>>} \cup {p \in [Pinnable -> 0 .. Cardinality(Pinnable) - 1] : IsInjective(p)}

Init ==
    /\ position \in Earlier
    /\ tracked = Pinnable /\ pauses = 0
    /\ requests = <<>>
    /\ cached = <<>> /\ optimisticItems = None
    /\ fetch = [answered |-> FALSE, answer |-> <<>>]

-----------------------------------------------------------------------------
\* repos/pinned_servers.rs

pinned == DOMAIN position

\* By position, equal positions in any order
ByPosition(servers) ==
    {l \in SetToSeqs(servers) :
        \A i, j \in DOMAIN l : i < j => position[l[i]] <= position[l[j]]}

list_by_user == ByPosition(pinned)

next_position == IF pinned = {} THEN 0 ELSE Max(Range(position)) + 1

\* The rows of a list are numbered in its order; one that is gone is not updated.
Placed(l, first) ==
    [s \in pinned |-> IF s \in ToSet(l) THEN first + Index(l, s) ELSE position[s]]

\* Of that list, the servers that are not paused
build_pinned_response == ByPosition(pinned \cap tracked)

\* What the grid and the account page show
Items == IF optimisticItems # None THEN optimisticItems ELSE cached

-----------------------------------------------------------------------------
NewRequest(kind, place, server, order, stage) ==
    [kind |-> kind, place |-> place, server |-> server, order |-> order, at |-> stage,
     next |-> 0, rest |-> <<>>, answer |-> <<>>]

Ask(kind, place, server, order) ==
    /\ Len(requests) < MaxRequests
    /\ requests' = Append(requests, NewRequest(kind, place, server, order, "sent"))

Pending(r) == requests[r].at # "over"

\* The grid of the dashboard is there while the cache holds a pin, the list of
\* the account page while there is something to show.
PinnedServersGrid == IF cached = <<>> THEN <<>> ELSE Items
AccountPinnedServersSection == Items

\* The row of a pinned server: what it offers does not look at the cache.
PinnedRow(s) == [there |-> s \in ToSet(Items), isPinned |-> TRUE]
ListEntry(s) == [there |-> TRUE, isPinned |-> s \in ToSet(cached)]

\* ServerPinButton: disabled while a request of its own is pending
PinButton(place, s) ==
    LET holder == IF place = "row" THEN PinnedRow(s) ELSE ListEntry(s)
    IN [there |-> holder.there, pressed |-> holder.isPinned,
        disabled |-> \E r \in DOMAIN requests :
                        Pending(r) /\ requests[r].server = s /\ requests[r].place = place]

ClickPin(place, s) ==
    /\ PinButton(place, s).there /\ ~PinButton(place, s).disabled
    /\ Ask(IF PinButton(place, s).pressed THEN "unpin" ELSE "pin", place, s, <<>>)
    /\ UNCHANGED <<position, tracked, pauses, cached, fetch, optimisticItems>>

arrayMove(l, i, j) == InsertAt(RemoveAt(l, i), j, l[i])

handleDragEnd ==
    /\ \E items \in {PinnedServersGrid, AccountPinnedServersSection} :
       \E i, j \in DOMAIN items :
          /\ i # j
          /\ optimisticItems' = arrayMove(items, i, j)
          /\ Ask("reorder", None, None, optimisticItems')
    /\ UNCHANGED <<position, tracked, pauses, cached, fetch>>

-----------------------------------------------------------------------------
\* The handlers, statement by statement

At(r, kind, stage) ==
    r \in DOMAIN requests /\ requests[r].kind = kind /\ requests[r].at = stage

\* A request moves on, keeping of its data what it will still read.
Becomes(r, stage) ==
    NewRequest(requests[r].kind, requests[r].place, requests[r].server, <<>>, stage)

Fails(r) == requests' = [requests EXCEPT ![r] = Becomes(r, "failed")]

Builds(r) == requests' = [requests EXCEPT ![r] = Becomes(r, "built")]

To(r, stage) == requests' = [requests EXCEPT ![r].at = stage]

\* Only a server that is tracked may be pinned; the next position is read.
PinReads(r) ==
    /\ At(r, "pin", "sent")
    /\ IF requests[r].server \in tracked
       THEN requests' = [requests EXCEPT ![r].at = "checked", ![r].next = next_position]
       ELSE Fails(r)
    /\ UNCHANGED <<position, tracked, pauses, cached, fetch, optimisticItems>>

PinInserts(r) ==
    /\ At(r, "pin", "checked")
    /\ IF requests[r].server \in pinned
       THEN Fails(r) /\ UNCHANGED position
       ELSE /\ position' = [s \in pinned \cup {requests[r].server} |->
                               IF s \in pinned THEN position[s] ELSE requests[r].next]
            /\ Builds(r)
    /\ UNCHANGED <<tracked, pauses, cached, fetch, optimisticItems>>

UnpinDeletes(r) ==
    /\ At(r, "unpin", "sent")
    /\ IF requests[r].server \notin pinned
       THEN Fails(r) /\ UNCHANGED position
       ELSE /\ position' = [s \in pinned \ {requests[r].server} |-> position[s]]
            /\ To(r, "deleted")
    /\ UNCHANGED <<tracked, pauses, cached, fetch, optimisticItems>>

\* compact_positions: the rows are read, then numbered one by one.
CompactReads(r) ==
    /\ At(r, "unpin", "deleted")
    /\ \E l \in list_by_user :
          requests' = [requests EXCEPT ![r].at = "compacting", ![r].rest = l, ![r].next = 0]
    /\ UNCHANGED <<position, tracked, pauses, cached, fetch, optimisticItems>>

CompactUpdates(r) ==
    /\ At(r, "unpin", "compacting")
    /\ IF requests[r].rest = <<>>
       THEN Builds(r) /\ UNCHANGED position
       ELSE /\ position' = Placed(<<Head(requests[r].rest)>>, requests[r].next)
            /\ requests' = [requests EXCEPT ![r].rest = Tail(@), ![r].next = @ + 1]
    /\ UNCHANGED <<tracked, pauses, cached, fetch, optimisticItems>>

\* The transaction of reorder: every pinned server is named, and no other.
ReorderChecks(r) ==
    /\ At(r, "reorder", "sent")
    /\ LET order == requests[r].order
       IN IF Len(order) = Cardinality(pinned) /\ ToSet(order) \subseteq pinned
          THEN To(r, "checked") ELSE Fails(r)
    /\ UNCHANGED <<position, tracked, pauses, cached, fetch, optimisticItems>>

ReorderCommits(r) ==
    /\ At(r, "reorder", "checked")
    /\ position' = Placed(requests[r].order, 0)
    /\ Builds(r)
    /\ UNCHANGED <<tracked, pauses, cached, fetch, optimisticItems>>

Responds(r) ==
    /\ r \in DOMAIN requests /\ requests[r].at = "built"
    /\ \E l \in build_pinned_response :
          requests' = [requests EXCEPT ![r].at = "answered", ![r].answer = l]
    /\ UNCHANGED <<position, tracked, pauses, cached, fetch, optimisticItems>>

\* The network or the database fails; what was committed stays.
RequestFails(r) ==
    /\ r \in DOMAIN requests /\ requests[r].at \notin {"failed", "over"}
    /\ Fails(r)
    /\ UNCHANGED <<position, tracked, pauses, cached, fetch, optimisticItems>>

-----------------------------------------------------------------------------
\* onSuccess and onError of the two mutations

\* Mutant: the order shown is given up only when it was refused.
SettlesOnError(r) ==
    optimisticItems' = IF requests[r].kind = "reorder" /\ requests[r].at = "failed"
                       THEN None ELSE optimisticItems

Settles(r) == optimisticItems' = IF requests[r].kind = "reorder" THEN None ELSE optimisticItems

\* Nobody reads a request again that is over.
Ends(r) == requests' = [requests EXCEPT ![r] = NewRequest("pin", None, None, <<>>, "over")]

OnSuccess(r) ==
    /\ r \in DOMAIN requests /\ requests[r].at = "answered"
    /\ cached' = requests[r].answer
    /\ Settles(r)
    /\ Ends(r)
    /\ UNCHANGED <<position, tracked, pauses, fetch>>

OnError(r) ==
    /\ r \in DOMAIN requests /\ requests[r].at = "failed"
    /\ Settles(r)
    /\ Ends(r)
    /\ UNCHANGED <<position, tracked, pauses, cached, fetch>>

\* The query: asked again with every refresh of the dashboard
FetchAnswers ==
    /\ ~fetch.answered
    /\ \E l \in build_pinned_response : fetch' = [answered |-> TRUE, answer |-> l]
    /\ UNCHANGED <<position, tracked, pauses, requests, cached, optimisticItems>>

FetchArrives ==
    /\ fetch.answered
    /\ cached' = fetch.answer
    /\ fetch' = [answered |-> FALSE, answer |-> <<>>]
    /\ UNCHANGED <<position, tracked, pauses, requests, optimisticItems>>

\* Bound: before the first request
Pauses(s) ==
    /\ pauses < MaxPauses /\ requests = <<>>
    /\ pauses' = pauses + 1
    /\ tracked' = IF s \in tracked THEN tracked \ {s} ELSE tracked \cup {s}
    /\ UNCHANGED <<position, requests, cached, fetch, optimisticItems>>

Handler(r) ==
    \/ PinReads(r) \/ PinInserts(r) \/ UnpinDeletes(r) \/ CompactReads(r) \/ CompactUpdates(r)
    \/ ReorderChecks(r) \/ ReorderCommits(r) \/ Responds(r)
    \/ OnSuccess(r) \/ OnError(r)

Fetches == FetchAnswers \/ FetchArrives

Next ==
    \/ \E s \in Pinnable, place \in Place : ClickPin(place, s)
    \/ \E s \in Pausable : Pauses(s)
    \/ handleDragEnd \/ Fetches
    \/ \E r \in 1 .. MaxRequests : Handler(r) \/ RequestFails(r)

\* Requests end; the dashboard refreshes itself.
Fairness ==
    /\ WF_pinVars(\E r \in 1 .. MaxRequests : Handler(r))
    /\ WF_pinVars(Fetches)

Spec == Init /\ [][Next]_pinVars /\ Fairness

-----------------------------------------------------------------------------
\* Whatever overlapped, failed or was answered out of order, the browser ends
\* up showing the pins the server has, in an order of theirs: an order that was
\* dragged and refused, or an answer that was overtaken, does not stay
\* (pinned-servers-grid.tsx:152, pin-button.tsx:30, pinned_servers.rs:151).
PinsConverge == <>[](Items \in build_pinned_response)
=============================================================================
