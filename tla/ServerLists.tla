----------------------------- MODULE ServerLists -----------------------------
(***************************************************************************)
(* The lists of the dashboard: the servers as cards and as a table, the     *)
(* networks, and the servers of one network.  How a list is sorted is kept  *)
(* in three places: the URL, which leaves defaults out; the browser's       *)
(* storage, which the cards of two pages share; and the state a page read   *)
(* from it when it was mounted.  The address changes at once, but a page    *)
(* reads the new one only when its loader has what it asks for, and is      *)
(* replaced by an error where it fails.                                     *)
(***************************************************************************)
EXTENDS Integers, Sequences

CONSTANTS AllItems,  \* the rows of the lists: a sequence of [name, type, players, trend]
          Network,   \* places of those of the network whose page is opened
          TableFields, \* bound: columns of the table that are clicked
          Platforms, \* bound: platforms that are filtered by
          Elsewhere, \* bound: sorts chosen in another tab, or in a link that was copied
          None

VARIABLES
  url,         \* the address: [page, sort, order, platform, view, tableSort, tableOrder]
  link,        \* the address the page reads (Route.useSearch); None: no page, or an error
  loading,     \* does a loader still ask for what the address needs?
  stored,      \* localStorage
  storedSort,  \* the state of usePersistedServerSort, where it is mounted
  loaded,      \* query cache: the lists the server has sent
  rendered,    \* the sort of the list last rendered (keepPreviousData)
  chosen       \* the sorts chosen last; the list's is None once another tab chose

listVars == <<url, link, loading, stored, storedSort, loaded, rendered, chosen>>

Orders == {"asc", "desc"}
Sort(f, o) == [field |-> f, order |-> o]
ServerSorts == [field : {"players", "name"}, order : Orders]
AsnSorts == [field : {"players", "servers", "name"}, order : Orders]
DEFAULT_SERVER_SORT == Sort("name", "asc")
DEFAULT_ASN_SORT == Sort("players", "desc")
DEFAULT_TABLE_SORT == Sort("name", "asc")

Links == [page : {"servers", "asn", "asns"},
          sort : {"players", "servers", "name", None}, order : Orders \cup {None},
          platform : Platforms \cup {None}, view : {"table", None},
          tableSort : TableFields \cup {None}, tableOrder : Orders \cup {None}]

\* The keys of the queries: the servers in each order, the networks, one network
Networks == Sort("networks", None)
Queries == ServerSorts \cup {Networks}

TypeOK ==
    /\ url \in Links /\ link \in Links \cup {None} /\ loading \in BOOLEAN
    /\ {stored, storedSort, rendered} \subseteq ServerSorts \cup {None}
    /\ loaded \subseteq Queries
    /\ chosen \in [list : ServerSorts \cup AsnSorts \cup {None},
                   table : [field : TableFields \cup {"name"}, order : Orders]]

-----------------------------------------------------------------------------
\* server-sort.ts, asn-sort.ts: what the URL says, and what it leaves out

defaultOrder(field) == IF field = "name" THEN "asc" ELSE "desc"

resolve(l, default) ==
    LET field == IF l.sort = None THEN default.field ELSE l.sort
    IN Sort(field, IF l.order = None THEN defaultOrder(field) ELSE l.order)

\* Mutant: an order is left out when it is the default list's.
OmitsDefaultListsOrder(l, sort, default) ==
    [l EXCEPT !.sort  = IF sort.field = default.field THEN None ELSE sort.field,
              !.order = IF sort.order = default.order THEN None ELSE sort.order]

SortToSearchParams(l, sort, default) ==
    [l EXCEPT !.sort  = IF sort.field = default.field THEN None ELSE sort.field,
              !.order = IF sort.order = defaultOrder(sort.field) THEN None ELSE sort.order]

\* use-persisted-server-sort.ts
hasUrlSort == link.sort # None \/ link.order # None

serverSort == IF hasUrlSort THEN resolve(link, DEFAULT_SERVER_SORT) ELSE storedSort

asnSort == resolve(link, DEFAULT_ASN_SORT)

\* What a navigation within the page starts from: the latest address
previous == [url EXCEPT !.page = link.page]

asnSortToSearchParams(sort) == SortToSearchParams(previous, sort, DEFAULT_ASN_SORT)

\* ServersPage
tableSort ==
    LET field == IF link.tableSort = None THEN "name" ELSE link.tableSort
    IN Sort(field, IF link.tableOrder = None THEN defaultOrder(field) ELSE link.tableOrder)

-----------------------------------------------------------------------------
\* The lists: rows, by their place in AllItems, and which is above which

EmptyList == [rows |-> {}, above |-> {}]

\* As the server lists them
Listed(rows) == [rows |-> rows, above |-> {p \in rows \X rows : p[1] < p[2]}]

\* Array.sort by a number: rows that are equal stay as they are.
Sorted(l, number, order) ==
    [l EXCEPT !.above =
        {p \in l.rows \X l.rows :
            IF number[p[1]] = number[p[2]] THEN p \in l.above
            ELSE (order = "asc") = (number[p[1]] < number[p[2]])}]

Or(value, none) == IF value = None THEN none ELSE value

\* Names are numbers in their order; who was never seen online comes below all.
ServerValue(field) ==
    [i \in DOMAIN AllItems |->
        IF field = "name" THEN AllItems[i].name ELSE Or(AllItems[i].players, -1)]

sortServersBy(l, sort) == Sorted(l, ServerValue(sort.field), sort.order)

\* Trends that are not known count as none; peaks are like players.
TableValue(field) ==
    [i \in DOMAIN AllItems |->
        CASE field = "name" -> AllItems[i].name
          [] field \in {"trend24h", "trend7d", "trend30d"} -> Or(AllItems[i].trend, 0)
          [] OTHER -> Or(AllItems[i].players, -1)]

sortServersList(l, sort) == Sorted(l, TableValue(sort.field), sort.order)

filterServersByPlatform(l) ==
    LET rows == {i \in l.rows : link.platform \in {None, AllItems[i].type}}
    IN [rows |-> rows, above |-> l.above \cap (rows \X rows)]

\* The servers the query holds: sorted by the server, for the sort shown or,
\* until they are there, the one before.
DataSort == IF serverSort \in loaded THEN serverSort ELSE rendered

AllListed == Listed(DOMAIN AllItems)

ServersData == IF DataSort = None THEN EmptyList ELSE sortServersBy(AllListed, DataSort)

EntityMetricsGrid(items, tracked) ==
    [items |-> items,
     empty |-> IF tracked.rows = {} THEN "tracked"
               ELSE IF items.rows = {} THEN "filtered" ELSE "no"]

\* The cards are hidden, not removed, where the table is shown.
ServerMetricsGrid(items, tracked, hidden) ==
    [EntityMetricsGrid(items, tracked) EXCEPT !.items = IF hidden THEN EmptyList ELSE @]

ServersTable(items) == sortServersList(items, tableSort)

ServersPage ==
    LET items == filterServersByPlatform(ServersData)
        inTable == link.view = "table"
    IN [loading |-> DataSort = None,
        cards |-> ServerMetricsGrid(items, ServersData, inTable),
        table |-> IF inTable THEN ServersTable(items) ELSE EmptyList]

AsnDetailPage ==
    ServerMetricsGrid(sortServersBy(filterServersByPlatform(Listed(Network)), serverSort),
                      Listed(Network), FALSE)

\* A network is a row of the same numbers; all of them are counted.
AsnValue(field) ==
    [i \in DOMAIN AllItems |->
        IF field = "name" THEN AllItems[i].name ELSE Or(AllItems[i].players, 0)]

sortAsnsBy(l, sort) == Sorted(l, AsnValue(sort.field), sort.order)

AsnsPage == EntityMetricsGrid(sortAsnsBy(AllListed, asnSort), AllListed)

\* The toggles are in the grid's header; a grid with nothing in it has none.
Toolbar ==
    CASE link.page = "servers" -> DataSort # None /\ filterServersByPlatform(AllListed).rows # {}
      [] link.page = "asn" -> filterServersByPlatform(Listed(Network)).rows # {}
      [] link.page = "asns" -> AllListed.rows # {}

-----------------------------------------------------------------------------
Bare(page) == [page |-> page, sort |-> None, order |-> None, platform |-> None,
               view |-> None, tableSort |-> None, tableOrder |-> None]

Remembered == IF stored = None THEN DEFAULT_SERVER_SORT ELSE stored

\* What the loader of a page waits for (ensureQueryData)
Needs(l) ==
    CASE l.page = "servers" -> {resolve(l, DEFAULT_SERVER_SORT)}
      [] l.page = "asns" -> {DEFAULT_SERVER_SORT, Networks}
      [] l.page = "asn" -> {Networks}

\* The list on the screen stays until there is another one.
Renders ==
    rendered' = IF link' = None \/ link'.page # "servers" THEN None
                ELSE IF serverSort' \in loaded' THEN serverSort' ELSE rendered

\* A page reads the address, or goes on with the one it has.
Shows(l, data) ==
    IF Needs(l) \subseteq data THEN link' = l /\ loading' = FALSE
                             ELSE UNCHANGED link /\ loading' = TRUE

\* A page is mounted; an address that names no sort is given the remembered one.
Mount(l, data) ==
    LET bare == l.sort = None /\ l.order = None /\ l.page # "asns"
    IN /\ storedSort' = IF l.page = "asns" THEN None ELSE Remembered
       /\ url' = IF bare THEN SortToSearchParams(l, Remembered, DEFAULT_SERVER_SORT) ELSE l
       /\ loading' = ~(Needs(url') \subseteq data)
       /\ link' = IF loading' THEN l ELSE url'

IsMounted(page) == link # None /\ link.page = page

\* The loader has what it waits for, or it fails and takes the page away.
LoaderAnswers ==
    /\ loading
    /\ loaded' = loaded \cup Needs(url)
    /\ IF IsMounted(url.page) THEN Shows(url, loaded') /\ UNCHANGED <<url, storedSort>>
                              ELSE Mount(url, loaded')
    /\ Renders /\ UNCHANGED <<stored, chosen>>

LoaderFails ==
    /\ loading
    /\ link' = None /\ loading' = FALSE /\ storedSort' = None /\ rendered' = None
    /\ UNCHANGED <<url, stored, loaded, chosen>>

\* What a list promises whose address names no sort
Promised(page) ==
    IF page = "asns" THEN DEFAULT_ASN_SORT
    ELSE IF IsMounted(page) /\ storedSort # Remembered THEN None ELSE Remembered

\* The document is loaded: nothing is cached.
Document(l) ==
    /\ url' = l /\ link' = None /\ loading' = TRUE
    /\ storedSort' = None /\ loaded' = {} /\ rendered' = None
    /\ UNCHANGED stored

Init ==
    /\ stored \in ServerSorts \cup {None}
    /\ url = Bare("servers") /\ link = None /\ loading = TRUE
    /\ storedSort = None /\ loaded = {} /\ rendered = None
    /\ chosen = [list |-> Remembered, table |-> DEFAULT_TABLE_SORT]

\* A link of the site: to the page that is shown it only changes the address.
FollowLink(page) ==
    /\ IF IsMounted(page) \/ ~(Needs(Bare(page)) \subseteq loaded)
       THEN url' = Bare(page) /\ Shows(url', loaded) /\ UNCHANGED storedSort
       ELSE Mount(Bare(page), loaded)
    /\ chosen' = [list |-> Promised(page), table |-> DEFAULT_TABLE_SORT]
    /\ UNCHANGED <<stored, loaded>> /\ Renders

\* The pointer over a link is enough for its loader to run.
Preload(page) ==
    /\ ~(Needs(Bare(page)) \subseteq loaded)
    /\ loaded' = loaded \cup Needs(Bare(page))
    /\ UNCHANGED <<url, link, loading, stored, storedSort, chosen>>
    /\ Renders

\* A link another user copied: what it leaves out is what this browser remembers.
OpenCopied(sort) ==
    /\ Document(SortToSearchParams(Bare("servers"), sort, DEFAULT_SERVER_SORT))
    /\ chosen' = [list |-> IF sort = DEFAULT_SERVER_SORT THEN Remembered ELSE sort,
                  table |-> DEFAULT_TABLE_SORT]

Reload == Document(url) /\ UNCHANGED chosen

navigate(l) ==
    /\ url' = l /\ Shows(l, loaded)
    /\ UNCHANGED loaded /\ Renders

setServerSort(sort) ==
    /\ link.page # "asns" /\ Toolbar
    /\ storedSort' = sort /\ stored' = sort
    /\ chosen' = [list |-> sort,
                  table |-> IF url.page = link.page THEN chosen.table ELSE DEFAULT_TABLE_SORT]
    /\ navigate(SortToSearchParams(previous, sort, DEFAULT_SERVER_SORT))

setAsnSort(sort) ==
    /\ link.page = "asns" /\ Toolbar
    /\ chosen' = [chosen EXCEPT !.list = sort] /\ UNCHANGED <<stored, storedSort>>
    /\ navigate(asnSortToSearchParams(sort))

\* A click on the field that is on turns the order, on another one takes its
\* default.
Toggled(current, field) ==
    Sort(field, IF field # current.field THEN defaultOrder(field)
                ELSE IF current.order = "asc" THEN "desc" ELSE "asc")

ServerSortToggle(field) == link # None /\ setServerSort(Toggled(serverSort, field))

AsnSortToggle(field) == link # None /\ setAsnSort(Toggled(asnSort, field))

\* The list's sort stays chosen, unless its page was being left.
KeepsSort(table) ==
    /\ chosen' = [list |-> IF url.page = link.page THEN chosen.list ELSE Promised(link.page),
                  table |-> table]
    /\ UNCHANGED <<stored, storedSort>>

\* Name, ascending, is left out of the URL.
handleTableSort(field) ==
    /\ IsMounted("servers") /\ link.view = "table"
    /\ LET new == Toggled(tableSort, field)
           isDefault == new = DEFAULT_TABLE_SORT
       IN /\ KeepsSort(new)
          /\ navigate([previous EXCEPT !.tableSort = IF isDefault THEN None ELSE field,
                                       !.tableOrder = IF isDefault THEN None ELSE new.order])

\* useSearchParamNavigation
SetParam ==
    /\ link # None /\ Toolbar
    /\ KeepsSort(IF url.page = link.page THEN chosen.table ELSE DEFAULT_TABLE_SORT)
    /\ \/ /\ link.page # "asns"
          /\ \E p \in Platforms \cup {None} : navigate([previous EXCEPT !.platform = p])
       \/ /\ link.page = "servers"
          /\ \E v \in {"table", None} : navigate([previous EXCEPT !.view = v])

\* The page's own query
ListLoads ==
    /\ IsMounted("servers")
    /\ loaded' = loaded \cup {serverSort}
    /\ UNCHANGED <<url, link, loading, stored, storedSort, chosen>>
    /\ Renders

\* The user's other tab chooses a sort: storage is shared, state is not.
OtherTab ==
    /\ stored' \in Elsewhere
    /\ chosen' = IF url.page = "asns" THEN chosen ELSE [chosen EXCEPT !.list = None]
    /\ UNCHANGED <<url, link, loading, storedSort, loaded, rendered>>

Next ==
    \/ \E page \in {"servers", "asns", "asn"} : FollowLink(page) \/ Preload(page)
    \/ \E sort \in Elsewhere : OpenCopied(sort)
    \/ Reload \/ LoaderAnswers \/ LoaderFails \/ SetParam \/ ListLoads \/ OtherTab
    \/ \E field \in {"players", "name"} : ServerSortToggle(field)
    \/ \E field \in {"players", "servers", "name"} : AsnSortToggle(field)
    \/ \E field \in TableFields : handleTableSort(field)

Spec == Init /\ [][Next]_listVars

-----------------------------------------------------------------------------
ListSort == IF link.page = "asns" THEN asnSort ELSE serverSort

\* Once the loader has answered, a list is sorted as was chosen last, although the
\* address leaves out whatever is a default and each list has defaults of its own:
\* after clicks while it was loading, an error, a reload, and for the servers a
\* visit to another page, unless another tab chose meanwhile.  A link that names no
\* sort shows what the browser remembers (use-persisted-server-sort.ts:36,
\* server-sort.ts:95, asn-sort.ts:76, servers/index.tsx:92, 191).
ChosenIsShown ==
    link # None /\ ~loading =>
        /\ chosen.list \in {None, ListSort}
        /\ link.page = "servers" => chosen.table = tableSort

\* Where the order turns, so do the rows that stay, all but those that are equal.
Turns(old, new, before, now, number) ==
    old.field = new.field /\ old.order # new.order =>
        \A p \in before.above \cap (now.rows \X now.rows) :
            number[p[1]] = number[p[2]] \/ <<p[2], p[1]>> \in now.above

\* The rows turn with the order, and nothing a reader does takes the list away that
\* is on the page while the next one loads (servers.queries.ts:31).
ListTurns ==
    link # None /\ link' # None /\ link.page = link'.page =>
        /\ link.page = "asn" => Turns(serverSort, serverSort', AsnDetailPage.items,
                                      AsnDetailPage'.items, ServerValue(serverSort.field))
        /\ link.page = "asns" => Turns(asnSort, asnSort', AsnsPage.items, AsnsPage'.items,
                                       AsnValue(asnSort.field))
        /\ link.page = "servers" =>
              /\ Turns(tableSort, tableSort', ServersPage.table, ServersPage'.table,
                       TableValue(tableSort.field))
              /\ DataSort # None => DataSort' # None
=============================================================================
