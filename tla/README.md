# mc-tracker in TLA+

Models of [mc-tracker](../src/README.md), the service that pings Minecraft
servers, keeps their player counts and serves them to a web page. The modules
are model-checked with TLC and the main results are proved with TLAPS.

Contents: 1 the system, 2 the modules, 3 the runs, 4 the proofs, 5 what the
runs found, 6 what is not modelled, 7 the plan.

## 1. The system

One Rust process (`crates/mc-tracker`) and a React page (`www`). The process
keeps its durable state in PostgreSQL, pushes samples to VictoriaMetrics and
reads them back, asks DNS, the Minecraft servers, MaxMind and a language model.
Everything runs as tokio tasks: a handler is an `async fn` which any other task
may overtake at every `.await`, and which is *dropped* there when its client
closes the connection. Almost nothing runs in a transaction.

| Component | State | Operations | Talks to | What makes it correct |
|---|---|---|---|---|
| Server registry (`admin.rs`, `manager.rs`, `repos/servers.rs`) | table `servers`, table `monitored_server_events`, list `ServerManager.servers` behind an `RwLock` | create, patch (also pause and resume), delete; load at the start | push cycle (shared list), suggestions (approve creates) | list = table when nobody is writing; ids never reused; one row per address; every removal logged |
| Push cycle (`manager/push.rs`, `ping.rs`, `tracked.rs`) | flag `pushing`, results of the pings, samples | start, ping all, apply each result, persist a new peak, push samples | registry (same list and table), DNS, mc-geo, VictoriaMetrics | cycles end; shown peaks survive a crash; samples are of tracked servers; a result belongs to the entry it is applied to |
| Connection pool (`mc-db`) | deadpool semaphore and its queue | get, drop | every repository function | nobody waits for a connection for ever |
| ASN database (`mc-geo`) | archive and file on disk, database in memory, lookup cache | download, unpack, reload, look up | MaxMind, push cycle, API | cached answers come from the current database; releases arrive; a crash at any step is survived |
| Suggestions (`server_suggestions.rs`, `admin.rs`) | table `server_suggestions` | submit, approve, deny, delete | registry (approve inserts a server) | one open suggestion per address; approved ones have a server; decisions are final |
| Chat endpoint (`chat.rs`, `chat_quota.rs`) | `chat_sessions`, `chat_turns`, `chat_messages`, rate limiter | ask, list, show and delete sessions | agent loop through a bounded channel | weekly quota; turns numbered without gaps in question and answer pairs; nothing recorded for an answer that was not given |
| Agent loop (`mc-chat`) | round, messages, token counts | stream a completion, run tools, recover, finish | language model, tools | bounded rounds; one end of every answer; ends after a cancellation or a timeout |
| Accounts (`auth/*`, `repos/users.rs`) | `users`, revoked tokens, login attempts | register, log in, log out, change, delete | everything through the session cookie | an admin remains; a token stays revoked; no more than ten attempts in five minutes |
| Pinned servers (`pinned_servers.rs`, `pinned-servers-grid.tsx`) | table `pinned_servers`; the page's list and the order being dragged | pin, unpin, reorder; pause of a server | registry, query cache | the page ends up with the server's list |
| Settings (`mc-settings`, `settings.tsx`) | table `settings`, cache; form | preload, update with side effects; edit and save | push cycle, pinger, chat, insights | form = cache = table; two settings valid against each other |
| Insights (`mc-insights`) | clients, TTL cache | cached queries, replacing the clients | VictoriaMetrics | no answer of an old client after its replacement |
| DNS, ping protocols (`mc-dns`, `mc-ping`) | TTL cache | resolve, ping with retries | the network | cached records expire; the number of attempts is bounded |
| Chat widget (`use-chat-session.ts`, `components/chat`) | messages, stream and its controller, quota shown, history dialog | send, stop, retry, new chat, select, delete, close | chat endpoint | one stream at a time, which can be stopped and writes only into its own draft; what was read stays |
| Chart cards (`use-chart-hydration.ts`, `chart-hydration-queue.ts`, `use-intersection-visible.ts`, `use-timeseries-dirty-refresh.ts`) | queue of charts to draw, visibility, cached query of each | mount, scroll, frames, refetch | browser, API | each chart near the screen is drawn, once; what is seen is fresh |
| Time range (`time-window.ts`, `time-range-picker.tsx`, `chart-zoom.ts`) | link, accepted range, clock anchor, draft | preset, custom range, zoom, refresh | chart cards | an accepted range is the one shown; no reversed axis |
| Chart (`metric-chart.tsx`, `chart-series-visibility.ts`, `chart-tooltip.ts`) | drawn instance, hidden series, axis | refresh, toggle, hover | chart cards, browser storage | legend, plot and tooltip tell the same |
| Event annotations (`chart-event-annotations.ts`) | hovered label, series tooltip | move, leave, toggle | chart | one label at a time, which lists a whole run |
| Server and ASN lists (`server-sort.ts`, `asn-sort.ts`, `use-persisted-server-sort.ts`, routes) | link, storage, list shown | sort, filter, follow a link, reload | browser storage, API | the sort chosen is the sort shown |
| Admin pages (`routes/_admin/admin`) | lists, dialogs, forms, mutations | add after a lookup, edit, pause, delete, approve, deny, set flags | registry, suggestions, accounts | added servers were reached; lists end up as the tables |

What is hard about it: statements of several requests interleave between
awaits; rows read before an await are used after it; the table and the list are
written one after the other; requests and the process stop between any two
statements; long-lived tasks (cycle, refresh, agent loop) must end however
their environment behaves. In the browser one thread runs one task at a time,
but clicks, answers, timers, animation frames and reports of observers come in
any order, and what a closure captured may be old when it is used.
`PROJECT.json` lists these hazards at their lines.

## 2. The modules

| Module | Models | Used by |
|---|---|---|
| `ServerCatalog` | abstract specification of the servers table | `ServerTracker` |
| `ServerTracker` | registry and push cycle, statement by statement | `MCServerTracker`, `ServerTracker_proofs` |
| `MCServerTracker` | the initial states and symmetry used by the runs | |
| `ConnectionPool` | repository functions against deadpool | `ConnectionPool_proofs` |
| `GeoService` | mc-geo | `GeoService_proofs` |
| `Suggestions` | server suggestions over both tables | `Suggestions_proofs` |
| `AnswerStream` | abstract specification of what a client of `POST /chat` sees | `AgentLoop` |
| `AgentLoop` | one answer: agent loop, forwarding task, channels, client | `AgentLoop_proofs` |
| `Chat` | many answers: quota, sessions, stored turns | `Chat_proofs` |
| `ChatWidget` | the chat assistant in the browser | `Web` |
| `ChartHydration` | which charts are drawn, in which frame | `Web` |
| `LazyChart` | one card: visibility, query, refresh | `Web` |
| `TimeWindow` | the time range in link, picker and axis | `Web` |
| `MetricChart` | one chart: legend, plot, tooltip, axis | `Web` |
| `ChartEvents` | event labels against the series tooltip | `Web` |
| `Pins` | pinned servers, in the database and in the page | `Web` |
| `ServerLists` | four sorted and filtered lists | `Web` |
| `SettingsPage` | the form over the settings store | `Web` |
| `AdminPages` | servers, suggestions and users of the admin | `Web` |
| `Web` | all of these side by side | `MCWeb`, `WebWidgets_proofs`, `Web_proofs` |
| `MCWeb` | the values of the constants used by the run | |
| `WebWidgets_proofs` | theorems about `Web`: chat assistant, charts and their queue, labels, legend, plot and tooltip | `Web_proofs` |
| `Web_proofs` | theorems about `Web`: time range, settings, admin pages, lists, pins, and the types of all parts | |
| `*_proofs` | theorems about the module they are named after | |

### ServerCatalog and ServerTracker

`ServerCatalog` says what anybody may rely on: a row is added under an id that
was never used and an address that is free, edited, removed, and its peak only
rises. An address (`Hosts`) stands for host, port and platform, which the
unique index covers together.

`ServerTracker` has one action for each stretch of code between two awaits on
shared state: a statement of the database or a critical section of the lock
around the list.

* `live`, `issued`, `row`, `events` are the two tables; `tracked`, `mem` the
  list; `req` the admin requests in progress with what they read (`seen`,
  `was`) and where they are (`at`); `pushing`, `cyc`, `ping`, `entries` the
  cycle.
* `CreateAccept, CreateInsert | CreateConflict, CreateReread, CreateEvent,
  CreateAppend` is `create_server`, whose `servers::insert` is an INSERT and a
  SELECT. `UpdateAccept` (the handler's own read), `UpdateReadBase, UpdateWrite
  | UpdateConflict, UpdateReread` (the three statements of `servers::update`),
  `UpdateEvent, UpdateApply` is `update_server`, and `UpdateNotFound` its 404s.
  `DeleteAccept, DeleteEvent, DeleteRow, DeleteForget` is `delete_server`.
  `Disconnect` drops a handler where it is, `StatementFails` answers 500 where
  a statement of it failed, with what it wrote before left as it is.
* `CycleStart, PingSend, PingAnswer | PingFail, ApplyPing | ApplyFailure,
  PersistPeak, Collect, CycleEnd` is `run_push_cycle`. The lock is held only
  inside an action, so requests may come between any two.
* `Restart` is a crash followed by the loading of the list in `main`.
* `crossed` and `garbled` are history, without which the properties could not
  be said: ids whose list entry has missed a change of their row (another
  handler wrote the row between a handler's write and its update of the list,
  or a handler was cut short there), and ids whose log has (two handlers met
  before both had written row and event, one was cut short between the two, or
  the event insert failed). A restart loads the list anew, and so clears
  `crossed`.

Names, ports, time stamps and the bodies of answers are left out: no property
depends on them. The ASN of an entry is the address it was looked up for, which
is what the properties need to know of it. The first half of approving a
suggestion is a create.

### ConnectionPool

The repository functions have two shapes. Most take a connection and return it.
`servers::insert`, `servers::update`, `server_suggestions::insert`, `::update`,
`users::create` and `::update_profile` call a `get` that takes a second one
while they hold the first. `queue` is the fair queue of the semaphore, `free`
its permits. A call of the model is one call of a repository function; the
SELECT with which `servers::update` starts is a call of the first kind that
returns before. Reads and writes come in any mix: nothing in the code bounds
how many of either there are. deadpool and tokio are outside `src/` and
modelled from their use: permits are given in order, a dropped waiter leaves
the queue.

### GeoService

A database *is* the MaxMind release it was made from. `Begin`, `Check`,
`Fetch…`, `Extract`, `Clean` are `ensure_database` and
`download_database_from_url`; `Open`, `Swap`, `Clear` are `reload_database`,
the last two under the write lock; the first start takes the same path.
`FetchHangs` is a transfer that neither ends nor fails: `reqwest::get` sets no
timeout. Lookups: `LookupMiss`, `LookupRead` (read lock taken), `LookupInsert`
or `LookupFails` (released). `Crash` may come anywhere and leaves the disk as
it is.

### Suggestions

`SubmitAccept, SubmitFind, SubmitInsert | SubmitConflict`; `ApproveAccept,
ApproveTrack | ApproveConflict, ApproveRead, ApproveWrite`; `DenyAccept,
DenyRead, DenyWrite`; `DeleteAccept, DeleteRow`. Of the servers table only the
set of addresses is kept, with what other requests do to it (`TrackServer,
UntrackServer, MoveServer`). Two history variables make the properties sayable:
`made`, which servers were created by approving what, and `disturbed`, the
suggestions of which two decisions overlapped or one was cut off.

### AnswerStream and AgentLoop

`AnswerStream` is the promise to the client: pieces of an answer, then one end,
`done` or an error, and `done` only if there was something to read.

`AgentLoop` is `run_unified_agent`, the task `post_chat` spawns and the client,
with the two bounded channels between them. `at` is the place in the loop:
`Top` (round limit, token, clock), `Request, Answered | NotAnswered`, `Listen`
for every chunk, `StreamEnds | StreamBreaks`, then `CallTools`, `EmitDone`,
`Recover` or `GiveUp` by what the completion contained, and `ToolsAnswer |
ToolsRefused`. What a step sends is put in `out`, and the agent does not go on
before `Send` has emptied it, so a full channel blocks it where it blocks the
code. A completion is the set of kinds of content it had. `PumpNext, PumpSave,
PumpSend | PumpRefused` is the forwarding task; what it saves is the subject of
`Chat`. `ClientLeaves` and `ClientFinished` both drop `CancelOnDrop` and set
the token. A panic of the agent's task, which would close its channel without
an end event, is not modelled.

### Chat

One record of `ask` is one `POST /chat`: first the handler (`Accept,
CheckQuota, InsertSession, CheckOwner, ListTurns, GetUsage`, a statement each),
then, while the agent answers, the task it spawned (`AnswerDone | AnswerOver`),
then what that task stores: `Lock` and `InsertPair` are the transaction of
`append_turn_pair` up to and after its `SELECT ... FOR UPDATE`, `AddTokens` and
`Record` the statements that follow. The row lock is the set of requests
between the two halves (`Locked`); `AddTokens` and `DeleteSession`, which write
the same row, wait for it, an insert that finds the row does not. `found` is
the last turn number a request has read. Each statement may fail (`LockFails,
PairFails, AddTokensFails, RecordFails`), `PairFails` with its COMMIT made or
not. `used` counts the rows of this week, so `WeekTurns` sets it to 0. An
answer counts as one token. `saved`, `counted`, `cut` and `fault` are history.
Users are not deleted here, and the flag that lifts the limit does not change.

### The browser

One action is one task of the browser's event loop: a click, an answer, a
frame, a timer. The query cache, React and uPlot are outside `src/` and
modelled from their use. The parts share no state but the server's, so `Web`
puts them side by side: `page` names the part a behaviour is about, and all
others rest in an initial state. A state of the whole is thus a state of one
part, the run checks all interleavings of each, and no product of them.

* `ChatWidget`: `turn` holds the calls of `runAssistantTurn`; an abort puts its
  turn into `unwinding`, whose `catch` and `finally` are the microtasks that
  run before the next task. A message is the sequence of its parts, and a part
  remembers in `by` which turns wrote it, which the code does not know.
  `history` is the dialog with its requests on the way.
* `ChartHydration`: `entries` are crossings of the viewport the observer has
  not reported, `queue` and `flushScheduled` the module's own variables,
  `storeChangedKeys` what the next frame tells the components.
* `LazyChart`: `query` is the entry of the query cache with its age;
  `refetchIn` and `checkIn` are the two intervals; `seen` what the card
  rendered last, which may lag behind the store (`item`) by a frame.
* `TimeWindow`: the clock `now` and the anchor `epochAnchor` the charts use;
  `search` is the link, read again when it changes.
* `MetricChart`: the three indexes of a series (in the answer, in the legend,
  in the plot) and its label; `override` are the toggles made for one list of
  labels, `uplot` the live instance, updated in place or replaced. Its `scale`
  follows the data effect and then the visibility effect, whose `setSeries`
  ranges it anew by the option the instance was created with (`range`).
* `ChartEvents`: the handler of React (`annotationHover`) and the hook of uPlot
  (`seriesTip`) for the same mouse, each with its threshold.
* `Pins`: pinning, unpinning and reordering, on the server statement by
  statement (the check that a server is tracked and the read of the last
  position are one step), and in the page the optimistic order, the answers in
  any order and the refetches.
* `ServerLists`: `url` is the address, which a navigation changes at once;
  `link` what the page reads, which follows when the loader has what it needs
  (`LoaderAnswers`) or is taken away when it fails (`LoaderFails`). Links leave
  defaults out; `stored` is shared by two pages and by tabs, `storedSort` the
  copy a page mounted with; `rendered` is the list kept on screen while the
  next one loads; `chosen` is history, the sort the visitor asked for last.
* `SettingsPage`: a save is one request per setting (`patch`), each checked
  against the cache, written, read back and cached; requests which a failed
  save left behind are `orphans`. Two dependent numbers, a list and a secret
  stand for the twenty-three settings.
* `AdminPages`: `Handler…` are the requests: for the suggestions and the users
  a read and a write, for the servers also the read back and the update of the
  list in memory (`inMemory`), from which the page's list is answered
  (`list_servers`) while `stock` is the table. `Refreshed` are the
  invalidations a success waits for; `Merged` is what the server makes of an
  edit without port. `overtaken` and `unheard` are history: two changes of a
  server passed each other between table and list, and a change was made of
  which the page was told nothing, or an error.

## 3. The runs

| Run | Question | Shows |
|---|---|---|
| `tracker_overlaps` | overlapping handlers, disconnects, failing statements, restarts | `ListMatchesTable`, `EventsTellTheStory`, `SamplesOfTrackedRows` |
| `tracker_concurrent` | overlapping requests, disconnects, crashes | `PeakDurable`, `RemovalLogged`, the refinement `CatalogSpec` |
| `tracker_fair` | what may keep a cycle or a request from ending? | `CyclesEnd`, `RequestsEnd` |
| `tracker_two_admins` | do overlapping requests keep list and table together? | no: `EntriesMatchRows` is violated |
| `tracker_stale_ping` | is a result applied only to the address that was pinged? | no: `MeasuredAtOwnAddress` is violated |
| `pool_shared` | when does the pool stall? | `NoStall`, `Answered` |
| `geo_refresh` | refreshes, lookups, faults, a crash | `CacheCurrent`, `MemoryFollowsFile`, `ReleasesArriveOrBreak` |
| `geo_broken_archive` | does a bad download repair itself? | no: `ReleasesArrive` is violated |
| `suggestions` | overlapping decisions and submissions | `OpenUnique`, `ApprovedWasTracked`, `ApprovalsMatchServers`, `ApprovalsStand` |
| `agent_loop` | does an answer end, once, and what does it cost? | `CompletionsBounded`, `LateBounded`, `ToldTheEnd`, the refinement `AnswerSpec`, `TasksEnd` |
| `chat` | what do several answers at a time store and count? | `TurnsPaired`, `TurnsOfOwner`, `NumbersFree`, `QuotaBounded`, `CountedWereSaved`, `TokensAddUp` |
| `web` | does each part of the page do what it shows? | `ChatOneStream`, `AnswerNotLost`, `ChartsFresh`, `ChartsKeepUp`, `RangeHolds`, `ChartTellsData`, `TooltipsYield`, `PinsConverge`, `SortSurvives`, `SettingsHold`, `AdminListsTrue`, and the types of all parts |

The types of the other modules are proved (section 4), and the runs do not
repeat them.

**Bounds.** Two ids and two addresses let addresses collide, move and be taken
over by the other row. Player counts 0 and 1 distinguish no peak, a lower, an
equal and a higher one. Two or three requests in a run (`Requests`, each served
once) are two that overlap, or a create, a patch and a delete in a row;
`MaxInFlight` is two wherever requests may overlap and one in
`tracker_stale_ping`, where they need not. Ids run out where UUIDs do not:
`IdLeft` refuses a create that would find none. The pool has two connections
and four calls of either kind: enough for two writers to hold both and wait,
with a queue behind them. Geo has two releases, two lookups of two addresses
and one crash: an old database, a new one, and one restart over every
intermediate disk, a hung download among them. Suggestions: two of them, two
addresses, two requests at once. The agent has three rounds, so that one may
recover and another may not, and two places in each channel, few enough to be
full. The chat has two requests at a time on one session id which both users
want, one of them exempt, a limit of one, and a user asks no more after
`MaxSaved` = 2 answers (three if two were under way), which is past the limit.
The bounds of `web` are in `web.cfg` and `MCWeb.tla`: two conversations and two
questions of one part each, under a limit of one a week; two charts of which a
frame draws one; a card with a refresh of two ticks, a stale time of three and
two crossings reported together; a clock of five ticks over ranges of four to
eight; three series of which a tooltip shows two, among them one without data,
one that starts late and one that ends early; a plot four units wide with
events on it; two servers to pin and two requests, which may overtake one
another; three rows with equal and missing numbers, a network with servers of
one platform, and of the choices on the lists those that matter: one column of
the table, one platform, one sort chosen elsewhere; two edits and two saves, so
that one may fail and leave its requests behind; one row on each page of the
admin and two changes. The safety runs of the tracker use symmetry in ids,
addresses and requests; no liveness run does. The requests of the tracker are
served once each, the two tasks of an answer end, and the users of the chat are
done after `MaxSaved` answers, and the clicks of a visitor in `web` are
bounded, so these runs may stop (`CHECK_DEADLOCK FALSE`), as may `geo_refresh`
once the first download hangs; the others have deadlock checking on.

**Fairness.** tokio polls every task that is ready, so a request in progress
and the cycle make progress (`WF`), and the push loop starts a cycle at each
tick. PostgreSQL answers every statement, with an error if need be, and pings
have timeouts; the push to VictoriaMetrics has none (`VmPushClient` is a plain
`reqwest::Client`, `metric/push/client.rs:29`), so no fairness is stated for
`CycleEnd`, and `CyclesEnd` says what is left: every cycle ends but one that
stays in its push for ever. As long as it does, `pushing` keeps every other
cycle out, and the drain at shutdown waits for it; no fairness makes a client
send, disconnect, or the process crash. The tracker's requests are assumed to
get their connections, which is the subject of `ConnectionPool`: there a free
permit is handed out and PostgreSQL answers (`WF`), but that a call gets a
permit is not assumed: `Answered` excepts the deadlock that `NoStall`
describes, for good. In `GeoService` files grow old, the schedule ticks and
lookups end (`WF`); downloads, unpacking and opening succeed *now and then*
when they are tried again and again (`SF`). A download that has begun need not
end: its client has no timeout (`download.rs:91`), `FetchHangs` takes it out of
the reach of fairness, and `ReleasesArriveOrBreak` and `MemoryFollowsFile`
except exactly that. In `AgentLoop` the language model and the tools answer or
fail (`reqwest` gives the whole response of the model a timeout), time passes,
and a client that stays reads what it was sent. The last is an assumption on
the client: one that keeps its connection and does not read holds both tasks in
`send`, where nothing looks at the clock. That a completion ever ends is not
assumed. In the browser animation frames, reports of observers and timers come
(`WF`), requests that pins depend on and their refetches are answered (`WF`),
and a chart's query that is tried again and again is answered now and then
(`SF`); nobody has to click, type or move the mouse.

**Preconditions worth knowing.** `QuotaBounded` states what the code gives:
with k requests in progress together the weekly limit may be exceeded by k - 1,
because it is read before the answer and counted after it. `TokensAddUp` leaves
out sessions deleted between the two statements and everything after a fault.
`ListMatchesTable`, `EventsTellTheStory` and `SamplesOfTrackedRows` hold
however requests overlap, fail, are cut off or the process restarts, of every
id that is not in the history variable named there; `tracker_two_admins` shows
what happens to one that is. `NoStall` describes the one way the pool gets
stuck: as many insert and update calls as it has connections hold them all
while each waits for one more. No code prevents it, and the pool has no
timeout. `ApprovalsMatchServers` and `ApprovalsStand` speak of suggestions
whose decisions did not overlap: approve, deny and delete check the status only
at their start, so two overlapping ones both go through and, for instance, a
denial can follow an approval. `ChartsReady` and `CardDrawn` (together
`ChartsKeepUp`) speak of charts and cards that stay near the screen,
`CardDrawn` also of observers which report one crossing at a time. `OneTooltip`
is about a display whose canvas pixels are CSS pixels. `AxisUpright` relies on
the automatic refresh, without which the anchor lags without limit. `PairHolds`
leaves out saves that send both numbers, requests of failed saves, and a cache
that missed a write; `FormShowsStored` and `ListTellsTable` ask that nothing is
under way, the second also that no change went unheard or was overtaken.
`ChosenIsShown` (in `SortSurvives`) is about moments when no loader runs, and
knows no choice once another tab made one. Section 5 says what happens outside
of these. Every property has a mutant of the code in the modules (the
definitions commented "Mutant") that TLC finds it violated by.

## 4. The proofs

For all values of the constants:

| Theorem | Says |
|---|---|
| `ServerTracker_proofs!TypeCorrect` | `Spec => []TypeOK` |
| `ServerTracker_proofs!ImplementsCatalog` | `Spec => CatalogSpec`: the statements of all handlers and cycles, crashes and faults included, implement the abstract table |
| `ServerTracker_proofs!PeaksAreDurable` | `Spec => []PeakDurable` if peak updates do not fail |
| `ServerTracker_proofs!RemovalsAreLogged` | `Spec => []RemovalLogged` if event inserts do not fail |
| `ServerTracker_proofs!ListMirrorsTable`, `!EventsTell`, `!SamplesOfRows` | `Spec => []ListMatchesTable`, `Spec => []EventsTellTheStory` and `Spec => SamplesOfTrackedRows`: for any number of requests at a time, with every fault |
| `ConnectionPool_proofs!PoolNeverStalls`, `!PoolTypeCorrect` | `Spec => []NoStall`, `Spec => []TypeOK`, for a pool of any size and any calls |
| `GeoService_proofs!CacheStaysCurrent`, `!GeoTypeCorrect` | `Spec => []CacheCurrent`, `Spec => []TypeOK` |
| `AgentLoop_proofs!CompletionsAreBounded`, `!LateIsBounded` | `Spec => []CompletionsBounded`, `Spec => []LateBounded`, for any number of rounds |
| `AgentLoop_proofs!TheEndIsTold`, `!ImplementsAnswer` | `Spec => []ToldTheEnd`, `Spec => AnswerSpec`, for channels of any capacity |
| `AgentLoop_proofs!TypeCorrect` | `Spec => []TypeOK` |
| `Chat_proofs!ConversationsInPairs`, `!ConversationsAreOwn`, `!NumbersNeverCollide` | the properties of the stored turns, for any number of requests and sessions |
| `Chat_proofs!QuotaIsBounded`, `!OnlySavedAnswersCount`, `!TokensAreComplete`, `!TypeCorrect` | the properties of the counts; `Spec => []TypeOK` |
| `Suggestions_proofs!OpenSuggestionsDiffer`, `!ApprovedSuggestionsWereTracked`, `!ApprovalsAndServersAgree`, `!ApprovalsAreFinal`, `!SuggestionTypeCorrect` | the four properties of the run; `Spec => []TypeOK` |
| `WebWidgets_proofs!ChatAlwaysOneStream`, `!AnswerNeverLost` | `Spec => []ChatOneStream`, `Spec => AnswerNotLost`: for any sessions, questions and lengths of answers, and any order of clicks, chunks, errors and requests of the dialog |
| `WebWidgets_proofs!ChartsAlwaysFresh` | `Spec => []ChartsFresh`: for any number of charts, any number drawn by a frame, any refresh interval and stale time |
| `WebWidgets_proofs!TooltipsAlwaysYield` | `Spec => TooltipsYield`: for a plot of any width, any number of events and any three thresholds of which the one of the hover is not above the one that suppresses the values |
| `WebWidgets_proofs!ChartAlwaysTellsData` | `Spec => []ChartTellsData`: for any series of any length, with gaps anywhere, and a tooltip of any number of rows |
| `Web_proofs!RangeAlwaysHolds` | `Spec => []RangeHolds`, for any presets, clock and limits in which no preset is longer than the longest range and the automatic refresh comes within the shortest (`WindowAssumption`; in the code the slowest refresh and the shortest range are both five minutes) |
| `Web_proofs!SettingsAlwaysHold` | `Spec => SettingsHold`: for any numbers and lists that can be typed |
| `Web_proofs!AdminListsAlwaysTrue` | `Spec => AdminListsTrue`: for any rows, bodies, lookups and refetches, and a list served from memory |
| `Web_proofs!SortAlwaysSurvives` | `Spec => SortSurvives`: for any rows, columns and platforms, and loaders that answer late or fail |
| `Web_proofs!PagesAlwaysTyped` | `Spec => []TypeOK`, the types of all ten parts; among them that no list of pins ever names a server twice, on which the length check of `reorder_pinned_servers` rests, and that every row an admin's handler writes is a row of its page, with a status its lists know |

Few of the properties are inductive. What had to be added, and why:

* `TypeInv` = `TypeOK` and: ids in use, in the list or in requests were issued.
  `TableInv` adds that rows without an id are empty and what requests are about
  to write has an address.
* `PeakInv` extends `PeakDurable` to the copies of rows that requests carry:
  `append_server` and `update_server_config` put a peak read earlier into the
  list, which is harmless because peaks of the table never fall.
* `RemovalInv`: a request about to delete a row has logged the removal; rows
  and events of other requests do not disturb that because the log only grows.
* `ListInv` of `ServerTracker_proofs` speaks of every id that is not in
  `crossed` by itself: at most one handler has written its row and not yet told
  the list, without one the list mirrors the row (`Mirrored`), and what such a
  one carries is still the row (`Carried`), since a second write would have put
  the id into `crossed`. Handlers of other ids and the push cycle, which
  touches peaks and players only, disturb nothing.
* `StoryInv` is the same for the log of every id not in `garbled`: what its log
  says, unless a handler has written one of row and event and not the other,
  and what that handler may rely on meanwhile (`Follows`: the flag it compared
  is the flag it changed, because it is alone with its id since its first
  look).
* `WindowInv`: what is shown is what the URL says, and has passed the check for
  its length once (`Shows`); that this check passes again whenever the URL is
  read later, and that no zoom leaves the limits, is what keeps it.
* `ChatInv` of `WebWidgets_proofs`: `Control` ties the flag, the controller and
  the two tasks of a turn together (a turn that is read owns the controller;
  one that was aborted has still its `catch` and `finally` to run, before
  anything else), and `Writing` says in which messages a turn may have written
  and that a draft of it is the last one with its id. A finished or stopped
  turn leaves its draft as a message, so that nothing seen is lost.
* `HydrationInv` adds to `OnceInQueue` that a chart which is not in the page
  has no crossings to report; the queue keeps its order when one leaves it.
* `CardInv`: the age of what a visible card shows plus the ticks left to its
  next refetch stays below the bound, unless a fetch is under way, the page is
  not in front or the last fetch failed. Whatever brings a card into that state
  (an answer, the frame in which it appears, the focus) finds it younger than
  the stale time or fetches.
* `EventsInv` only places events in the plot; the work is in `Tooltips`. That a
  label lists a whole run is an argument about a closure: the label adds the
  neighbours of what it has until nothing is new, each round adds at least one
  event, so it ends within as many rounds as there are events, and what it has
  then is closed under being near and was reached by steps of being near.
* `PlotInv`: a live instance of uPlot has the series of the configuration it
  was made of and hides what is resolved to be hidden, and the legend leaves at
  least one series pressed. What the tooltip says of the time under the cursor
  follows from how its rows are sorted and cut off (`BodyTells`).
* `ListInv` of `Web_proofs`: a page reads the address unless a loader runs, and
  where the address is another page's, nothing was chosen there yet (`Placed`);
  what is loaded was rendered (`Drew`), so a list stays on the screen until the
  next one is there; and the sort chosen last is what the address says or,
  where it names none, what the browser remembers (`Promises`). `RoundTrip`
  says that a sort read back from the link it was put into is that sort.
* `PinInv`: every list on its way names a server at most once, though two of
  them may have the same position: the handlers list a set of servers in some
  order (`ServersList`), and what the page drags about is a permutation of what
  it was given (`MovedList`). A pin that passed its check has its server.
* `FormInv`: what was fetched, or is being fetched, for a form without edits
  and without requests of an earlier save is what the cache holds (`Fresh`).
  `CheckHolds` follows a save of one number from the check to the write: nobody
  has changed the other number in between.
* `AdminInv`: a body about to be confirmed or added was looked up as it is, and
  a list tells what the server lists, what it is fetching does too, or a
  mutation that has been applied has yet to invalidate it (`Behind`). For the
  servers `ListServed` adds that memory agrees with the table about every row
  no handler is writing (`Pends`), unless two of them passed each other
  (`overtaken`). `AdminTypes` follows the data of a request to the table: until
  its handler has written, a request carries a body of its page (`Carries`),
  and what the handler read before it writes the row whole was a row of the
  table then (`WrittenTyped`).
* `PoolInv` counts: free permits plus held ones are `PoolSize`; the queue has
  no duplicates; a call waits for a first connection or, if it writes, for a
  second. If no permit is free and everybody who holds one waits, nobody holds
  two, so the holders are as many as the pool has connections: `Deadlocked`.
* `GeoInv`: a lookup that is reading has read the database still in memory (the
  write lock waits for it), and nobody reads between `Swap` and `Clear`.
* `SuggestionInv`: `Stages` ties what a request carries to where it is;
  `Marking` says that an approval which is past its insert has its server in
  `made`; `Decided`, `UnderWay` and `Settled` follow an undisturbed suggestion
  from open to decided.
* `ChatInv` of `Chat_proofs` says what the row lock is for: who is between
  `Lock` and `InsertPair` is alone there for its session, its owner has not
  changed, and what it read is still the last number. So the pair it inserts is
  free and continues the conversation. `QuotaInv` adds the requests the limit
  has let through to those already counted: whoever passes leaves room for all
  that may be in progress. The counts themselves are inductive given `ChatInv`.
* `IInv` of `AgentLoop_proofs`: `RoundsInv` and `LateInv` count completions by
  the place in the loop; `Flow` names the one place where the end event is (not
  sent, in `out`, in a channel, held by the task, read) or says that the client
  has left; `Shown` says that something to read is ahead of a `done` at each of
  these places. The lemmas about `Append` and `Tail` carry these facts from one
  channel to the next.

The assumptions are the named `ASSUME`s of the modules, which every run
evaluates: `NoHost` is no address, `NoUser` no user, bounds are numbers,
`Calls`, `Asks` and the servers to pin are finite, `None` is no value, the
limits of the time range are ordered and it starts before it ends, what the
settings hold at first can be typed, series have a number or none at the same
times, the thresholds of the labels are ordered as in the code, rows have their
numbers, only known servers can be paused, the tables of the admin start with
rows of their page, and details without a port that get the port of a row are
details.

Recursion in the proved modules is a recursive function or a fold, never an
operator. What has to be shown by induction over a sequence or a set is shown
without the induction theorems of the library, which take an operator as a
parameter: a least counterexample of a set of numbers (`NatLessThanWellFounded`
and the lemmas `Least`, `Every` and `Reached`) serves instead. Sorted lists are
described in the model by what sorting gives (an order of the rows, a list that
is `InOrder`), not by how it gets there.

Model-checked only: the liveness properties `CyclesEnd`, `RequestsEnd`,
`Answered`, `MemoryFollowsFile`, `ReleasesArriveOrBreak`, `TasksEnd`,
`ChartsKeepUp` and `PinsConverge` (fairness and `ENABLED` are out of the
prover's reach). Every invariant and every action property of the passing runs
is a theorem.

## 5. What the runs found

1. `tracker_two_admins`: of two overlapping PATCHes the one that writes the
   table last may refresh the list first; the list keeps the older row until
   the next PATCH or restart.
2. `tracker_stale_ping`: a ping of the old address that answers after a PATCH
   is applied to the entry with the new address; players and ASN of the old one
   are shown and pushed under it until the next cycle.
3. `geo_broken_archive`: an archive that cannot be unpacked is never removed,
   and because it exists nothing is downloaded again: no release reaches the
   disk any more.

These came up as well. No run is kept for them: they are
the reasons for the preconditions of section 3, or lie outside of what is
stated.

* Timeouts: neither the push to VictoriaMetrics (`metric/push/client.rs:29`)
  nor the download of the ASN database (`download.rs:91`) has one. A server
  that accepts the request and falls silent stops all further pushes and the
  drain at shutdown, or all further refreshes, until the process is killed.
* Pool: `servers::insert` and `servers::update` read the row back on a second
  connection while they hold the first (`servers.rs:177`, `:213`). As many of
  them at once as the pool has connections wait for one another for ever
  (`Deadlocked` in `ConnectionPool`), and everybody else behind them.
* Registry: a create whose read back fails is answered 500 with the row in the
  table and neither an event nor an entry in the list; so is a PATCH whose read
  back fails, with the old entry left in the list (`servers.rs:177`, `:213`).
* Chart: the visibility effect runs right after the data effect and ranges the
  y axis by the option fixed at creation (`metric-chart.tsx:209`, `:363`,
  `uplot-theme.ts:137`), so that data which has grown since may run out of the
  axis the data effect has just set.
* Chat: `deferred.tsx:37` says that the widget "Stays mounted after the first
  open so the chat session survives close.", `:20` unmounts it when it is
  closed. `use-chat-session.ts:264` adds the weekly total an answer carries to
  the count already shown. A refusal that is still being read when the turn is
  aborted puts its error into whatever conversation is shown then (`:292`). A
  conversation selected in the history dialog opens also when it was deleted,
  or a new chat begun, before the answer came (`history-sheet.tsx:105`).
* Cards: `use-intersection-visible.ts:103` takes the first of the entries it is
  given, the older one when there are two. `lazy-metric-chart-state.ts:25`
  means a chart to stay mounted once it was loaded; a background refetch that
  fails replaces it by an error.
* Time range: an automatic refresh resets what is being typed
  (`time-range-picker.tsx:100`). Without it the anchor stands still, and a
  range that lies after it has its axis reversed (`chart-zoom.ts:52`).
* Events: `chart-event-annotations.ts:57` subtracts canvas pixels from CSS
  pixels, so on a display where they differ label and tooltip may both be open;
  the handlers are removed with the last event of the window, and its label
  stays (`metric-chart.tsx:379`). Toggling a series forgets hidden labels of
  series that are not there (`chart-series-visibility.ts:15`).
* Pins: a pinned server that an admin pauses is filtered from the list
  (`manager.rs:301`), but its row remains, so that every reordering is refused
  for its length (`pinned_servers.rs:149`); two pins at once may get the same
  position.
* Lists: a link with the default sort, which is left out, shows the recipient's
  own sort (`Remembered` in `OpenCopied`). `entity-metrics-grid.tsx:236` leaves
  out the toolbar with an empty grid, although `asns/$asn.tsx:169` says there
  "Switch to All, Java, or Bedrock.".
* Settings: one save sends both numbers of a pair at once and may store an
  order neither request alone would have passed. A row that is written and
  cannot be read back leaves the cache as it was until the next start
  (`store.rs:179`). What is typed while a save is under way is discarded
  (`settings.tsx:52`).
* Admin: a port cannot be removed from a server, since `null` means unchanged
  (`admin.rs:180`, `:329`). A dialog closed while its change is under way and
  opened for another row is closed by the answer (`servers.tsx:145`,
  `suggestions.tsx:132`, `users.tsx:63`); approving does not refresh the list
  of servers (`suggestions.tsx:134`). The list of servers is answered from
  memory (`admin.rs:86`), so two PATCHes of a server that pass each other
  (finding 1) leave the page with the older row, however often it refetches.

## 6. What is not modelled

* **Pure translation**: the ping protocols, the VictoriaMetrics client and
  PromQL, the language model's client and the tools of the chat, the ranking of
  search results, API types; in the page formatting, the ticks of axes, themes,
  metadata, the API client, the UI kit and generated routes. They keep no state
  and appear as answers that come or fail.
* **Accounts** (`auth/*`, account pages): registering, logging in, revocation
  and the last-admin check. A model of them was tried: the page's view of the
  user, cookies, tokens by second and the table make a state space in which
  every property worth stating needed several exceptions, so it was not kept.
  Two hazards of them are listed without a property: the last admin is
  protected by a count before the DELETE (`handlers.rs:315`), and revoked
  tokens are kept in memory only (`session.rs:87`).
* **Caches** (`mc-insights`, `mc-dns`): a map with a time to live. The one
  interleaving that matters is listed as a hazard (`insights.rs:117`).
* **Rate limiters** of chat and login: lists of times behind a mutex, which
  only refuse requests.
* **Settings**: the preload at the start and the side effects of a change,
  which replace clients and intervals of other components.
* **Smaller parts of the page**: search box, compare page, suggest dialog. Each
  is one query and one draft.
* **Stored text**: turns, events and messages are counted and ordered; what
  they say is not kept.
* The graceful drain at shutdown; a stop is `Restart` or `Crash`.

## 7. The plan

Done: the core (`ServerTracker`, `ConnectionPool`, `GeoService`,
`Suggestions`), the chat (`AgentLoop` over `AnswerStream`, `Chat`), pins,
settings, the stateful parts of the page, and the proofs of every safety
property of the process and of the page. Left, in this order:

1. Of what `PinsConverge` promises, the part that is safety: that the list
   shown is the server's whenever nothing is under way.
2. Accounts, split into the table with the last-admin check and the session
   with its tokens, so that each stays small.
3. The result caches against the replacement of their clients.
