----------------------------- MODULE AdminPages -----------------------------
(***************************************************************************)
(* The admin's pages of servers, of suggestions and of users: lists of rows *)
(* in the query cache, a form that adds a server after it was looked up, and *)
(* dialogs that change a row.  Every change is a mutation of its own kind:  *)
(* its button rests while one of the kind is under way, but its dialog may  *)
(* be closed and opened for another row meanwhile.  A success closes what is *)
(* open of the kind, and the lists are asked for again one after the other. *)
(***************************************************************************)
EXTENDS Naturals, Sequences

CONSTANTS None,
          StoredRows,  \* rows stored at first, for each page
          Bodies,      \* connection details that may be typed
          USER_FLAGS,
          MaxSteps     \* bound: buttons that change something, and a server typed in

VARIABLES
  route,          \* the page: "servers", "suggestions", "users"
  stock,          \* the tables: rows by id
  inMemory,       \* manager.servers: the rows the servers page is answered from
  shown,          \* the query cache: rows, are they invalid?
  refetches,      \* its fetches, and the mutations that wait for them
  createForm,     \* ui.form
  checkedBody,    \* details being looked up (isCheckingServer), or None
  lookupState,    \* ui.lookupState
  dialog,         \* the dialog of a row: kind, id, what its form holds
  mutations,      \* in the order they were sent
  reached,        \* details of servers that answered a lookup
  unheard,        \* was a change made that the page was not told of?
  overtaken       \* did a row reach inMemory that its table no longer had?

adminVars == <<route, stock, inMemory, shown, refetches, createForm, checkedBody,
               lookupState, dialog, mutations, reached, unheard, overtaken>>
formVars == <<createForm, checkedBody, lookupState, reached>>
serverVars == <<stock, inMemory, unheard, overtaken>>

-----------------------------------------------------------------------------
Server == {"active", "paused"}

\* A query lists the rows of some statuses.
Query == [servers |-> Server, pending |-> {"pending"}, denied |-> {"denied"},
          users |-> {"user"}]

Lists == IF route = "suggestions" THEN {"pending", "denied"} ELSE {route}

\* What the dialogs of a page edit, and its rows
FormsOf(p) == IF p = "users" THEN SUBSET USER_FLAGS ELSE Bodies

Forms == FormsOf(route)

Status == {"approved"} \cup UNION {Query[l] : l \in DOMAIN Query}

RowsOf(p) == [body : FormsOf(p), status : Status]

IsTable(t) == DOMAIN t \subseteq Nat /\ \A i \in DOMAIN t : t[i] \in RowsOf(route)

NoDialog == [kind |-> None, id |-> None, opened |-> None, form |-> None]

TypeOK ==
    /\ route \in {"servers", "suggestions", "users"}
    /\ IsTable(stock) /\ IsTable(inMemory)
    /\ DOMAIN shown = Lists /\ DOMAIN refetches = Lists
    /\ \A l \in Lists :
          /\ IsTable(shown[l].rows) /\ shown[l].invalid \in BOOLEAN
          /\ refetches[l].at \in {"none", "asked", "answered"} /\ IsTable(refetches[l].rows)
          /\ refetches[l].waits \subseteq DOMAIN mutations
    /\ {createForm, checkedBody} \subseteq Bodies \cup {None}
    /\ lookupState = None \/ (lookupState.kind = "error" /\ lookupState.body = None)
                          \/ (lookupState.kind = "confirm" /\ lookupState.body \in Bodies)
    /\ dialog = NoDialog \/ (dialog.id \in Nat /\ {dialog.opened, dialog.form}
                                                     \subseteq Forms \cup {None})
    /\ Len(mutations) <= MaxSteps
    /\ reached \subseteq Bodies /\ {unheard, overtaken} \subseteq BOOLEAN

Of(table, l) ==
    [i \in {j \in DOMAIN table : table[j].status \in Query[l]} |-> table[i]]

Listed(l) == Of(stock, l)

\* What a query is answered with
Answer(l) == Of(IF l = "servers" THEN inMemory ELSE stock, l)

NoFetch == [at |-> "none", rows |-> <<>>, waits |-> {}]

\* The page is opened on what the cache holds; what is stale is asked for again.
Init ==
    /\ route \in DOMAIN StoredRows
    /\ stock = StoredRows[route]
    /\ inMemory = IF route = "servers" THEN stock ELSE <<>>
    /\ shown = [l \in Lists |-> [rows |-> Listed(l), invalid |-> FALSE]]
    /\ \E visit \in {"none", "asked"} :
          refetches = [l \in Lists |-> [NoFetch EXCEPT !.at = visit]]
    /\ createForm = None /\ checkedBody = None /\ lookupState = None
    /\ dialog = NoDialog /\ mutations = <<>>
    /\ reached = {} /\ unheard = FALSE /\ overtaken = FALSE

-----------------------------------------------------------------------------
\* useMutation

isPending(kind) ==
    \E r \in DOMAIN mutations : mutations[r].kind = kind /\ mutations[r].at # "over"

Over == [kind |-> None, id |-> None, body |-> None, at |-> "over", seen |-> None,
         lists |-> <<>>]

\* A request moves on and keeps of its data what is still read.
Becomes(r, stage) ==
    mutations' = [mutations EXCEPT ![r] =
                     [Over EXCEPT !.kind = mutations[r].kind, !.at = stage]]

\* At the bound nothing more is opened or typed either.
MayStep ==
    Len(mutations) + (IF createForm = None /\ reached = {} THEN 0 ELSE 1) < MaxSteps

mutate(kind, id, body) ==
    /\ MayStep
    /\ mutations' = Append(mutations, [kind |-> kind, id |-> id, body |-> body, at |-> "sent",
                                       seen |-> None, lists |-> <<>>])

\* A dialog is modal: nothing behind it can be pressed.
Modal == dialog # NoDialog \/ lookupState # None

OnTop(kind) == dialog.kind = kind /\ lookupState = None

-----------------------------------------------------------------------------
\* The form that adds a server

FormFields(body) ==
    /\ route = "servers" /\ ~Modal /\ MayStep
    /\ createForm' = body
    /\ UNCHANGED <<route, serverVars, shown, refetches, checkedBody, lookupState,
                   dialog, mutations, reached>>

CreateButton == [disabled |-> checkedBody # None \/ isPending("create")]

\* The form stays open to the admin while its server is looked up.
handleCreate ==
    /\ route = "servers" /\ ~Modal
    /\ createForm # None /\ ~CreateButton.disabled
    /\ MayStep /\ reached = {}
    /\ checkedBody' = createForm
    /\ UNCHANGED <<route, serverVars, shown, refetches, createForm, lookupState, dialog,
                   mutations, reached>>

\* lookupMcutilsServer (an external service) answers, fails or finds nothing;
\* the dialog appears over one that was opened meanwhile.
LookupAnswers ==
    /\ checkedBody # None
    /\ \/ /\ lookupState' = [kind |-> "confirm", body |-> checkedBody]
          /\ reached' = reached \cup {checkedBody}
       \/ lookupState' = [kind |-> "error", body |-> None] /\ UNCHANGED reached
    /\ checkedBody' = None
    /\ UNCHANGED <<route, serverVars, shown, refetches, createForm, dialog, mutations>>

\* AddServerLookupDialog: cannot be left while the server is being added
CloseLookup ==
    /\ lookupState # None
    /\ lookupState.kind = "confirm" => ~isPending("create")
    /\ lookupState' = None
    /\ UNCHANGED <<route, serverVars, shown, refetches, createForm, checkedBody, dialog,
                   mutations, reached>>

\* Mutant: what the form holds now is added.
AsTyped == createForm

Confirmed == lookupState.body

handleConfirmCreate ==
    /\ lookupState # None /\ lookupState.kind = "confirm" /\ ~isPending("create")
    /\ mutate("create", None, Confirmed)
    /\ UNCHANGED <<route, serverVars, shown, refetches, formVars, dialog>>

-----------------------------------------------------------------------------
\* The tables and what their rows offer

WithForm == {"update", "approve", "flags"}

Opens(kind, l) ==
    /\ l \in Lists /\ ~Modal /\ MayStep
    /\ \E i \in DOMAIN shown[l].rows :
          LET body == shown[l].rows[i].body
          IN dialog' = [kind |-> kind, id |-> i,
                        opened |-> IF kind = "flags" THEN body ELSE None,
                        form |-> IF kind \in WithForm THEN body ELSE None]
    /\ UNCHANGED <<route, serverVars, shown, refetches, formVars, mutations>>

ServerActions == Opens("update", "servers") \/ Opens("delete", "servers")
PendingActions == Opens("approve", "pending") \/ Opens("deny", "pending")
DeniedActions == Opens("remove", "denied")
UserActions == Opens("flags", "users")

\* Not a dialog: the button of a row that is being paused can be pressed again.
onPauseChange ==
    /\ route = "servers" /\ ~Modal
    /\ \E i \in DOMAIN shown["servers"].rows :
          mutate("pause", i,
                 IF shown["servers"].rows[i].status = "paused" THEN "active" ELSE "paused")
    /\ UNCHANGED <<route, serverVars, shown, refetches, formVars, dialog>>

-----------------------------------------------------------------------------
\* The dialogs.  Each can be closed while its mutation is under way, by its
\* cross or the keyboard at least, and the mutation goes on.

Closes(kind) ==
    /\ OnTop(kind)
    /\ dialog' = NoDialog
    /\ UNCHANGED <<route, serverVars, shown, refetches, formVars, mutations>>

Types(kind, body) ==
    /\ OnTop(kind) /\ MayStep
    /\ dialog' = [dialog EXCEPT !.form = body]
    /\ UNCHANGED <<route, serverVars, shown, refetches, formVars, mutations>>

Sends(kind) ==
    /\ OnTop(kind) /\ ~isPending(kind)
    /\ mutate(kind, dialog.id, dialog.form)
    /\ UNCHANGED <<route, serverVars, shown, refetches, formVars, dialog>>

EditServer == Closes("update") \/ Sends("update") \/ \E b \in Bodies : Types("update", b)
DeleteServer == Closes("delete") \/ Sends("delete")
Approve == Closes("approve") \/ Sends("approve") \/ \E b \in Bodies : Types("approve", b)
Deny == Closes("deny") \/ Sends("deny")
Remove == Closes("remove") \/ Sends("remove")

setFlag(flags, flag, enabled) == IF enabled THEN flags \cup {flag} ELSE flags \ {flag}

\* EditFlagsDialog: the switches rest while a save is under way, and there is
\* nothing to save unless a flag differs.
EditFlags ==
    \/ Closes("flags")
    \/ /\ ~isPending("flags")
       /\ \E flag \in USER_FLAGS, enabled \in BOOLEAN :
             Types("flags", setFlag(dialog.form, flag, enabled))
    \/ dialog.form # dialog.opened /\ Sends("flags")

-----------------------------------------------------------------------------
\* The handlers: a row is read, and then written whole.

\* serde: no port and "leave the port" are the same, so a port cannot be cleared.
Merged(body, old) == IF body.port = None THEN [body EXCEPT !.port = old.port] ELSE body

\* servers_host_port_platform_idx
Free(id, body) ==
    \A i \in DOMAIN stock \ {id} : stock[i].status \in Server => stock[i].body # body

NewId(r) == Len(StoredRows[route]) + r

AddRow(table, r, body) ==
    [i \in DOMAIN table \cup {NewId(r)} |->
        IF i \in DOMAIN table THEN table[i] ELSE [body |-> body, status |-> "active"]]

Now(r) == stock[mutations[r].id]

Handles(r, stage) == r \in DOMAIN mutations /\ mutations[r].at = stage

\* 404 and 409: gone, or no longer in a state that can be changed this way
Refuses(r) ==
    /\ mutations[r].kind # "create"
    /\ \/ mutations[r].id \notin DOMAIN stock
       \/ mutations[r].kind \in {"approve", "deny"} /\ Now(r).status # "pending"
       \/ mutations[r].kind = "remove" /\ Now(r).status = "approved"

HandlerReads(r) ==
    /\ Handles(r, "sent")
    /\ IF Refuses(r) THEN Becomes(r, "refused")
       ELSE mutations' = [mutations EXCEPT ![r].at = "read",
                             ![r].seen = IF mutations[r].kind = "create" THEN None ELSE Now(r)]
    /\ UNCHANGED <<route, serverVars, shown, refetches, formVars, dialog>>

\* The tables after the write, or None where the database refuses it
Written(r) ==
    LET m    == mutations[r]
        full == Merged(m.body, m.seen.body)
        Puts(row) == [stock EXCEPT ![m.id] = row]
    IN IF m.kind = "create"
       THEN IF Free(None, m.body) THEN AddRow(stock, r, m.body) ELSE None
       ELSE IF m.id \notin DOMAIN stock THEN None
       ELSE CASE m.kind = "update" ->
                    IF Free(m.id, full)
                    THEN Puts([body |-> full, status |-> m.seen.status]) ELSE None
              [] m.kind = "pause" ->
                    IF Free(m.id, m.seen.body)
                    THEN Puts([body |-> m.seen.body, status |-> m.body]) ELSE None
              [] m.kind = "approve" ->
                    IF Free(None, full)
                    THEN AddRow(Puts([body |-> full, status |-> "approved"]), r, full) ELSE None
              [] m.kind = "deny" -> Puts([m.seen EXCEPT !.status = "denied"])
              [] m.kind = "flags" -> Puts([m.seen EXCEPT !.body = m.body])
              [] m.kind \in {"delete", "remove"} -> [i \in DOMAIN stock \ {m.id} |-> stock[i]]

\* Of a server the list in memory has yet to hear.
HandlerWrites(r) ==
    /\ Handles(r, "read")
    /\ IF Written(r) = None THEN Becomes(r, "refused") /\ UNCHANGED stock
       ELSE /\ stock' = Written(r)
            /\ IF route # "servers" THEN Becomes(r, "applied")
               ELSE mutations' = [mutations EXCEPT ![r].at = "written", ![r].seen = None,
                        ![r].id = IF mutations[r].kind = "create" THEN NewId(r) ELSE @]
    /\ UNCHANGED <<route, inMemory, shown, refetches, formVars, dialog, unheard, overtaken>>

Mislays(r) == Becomes(r, "refused") /\ unheard' = TRUE

\* The row is read back, unless it is gone by now.
HandlerRereads(r) ==
    /\ Handles(r, "written") /\ mutations[r].kind # "delete"
    /\ IF mutations[r].id \notin DOMAIN stock THEN Mislays(r)
       ELSE /\ mutations' = [mutations EXCEPT ![r].at = "reread", ![r].seen = Now(r)]
            /\ UNCHANGED unheard
    /\ UNCHANGED <<route, stock, inMemory, shown, refetches, formVars, dialog, overtaken>>

\* append_server, remove_server and update_server_config, which may miss the row:
\* "server missing from memory"
HandlerLists(r) ==
    LET m == mutations[r]
    IN /\ Handles(r, "reread") \/ (Handles(r, "written") /\ m.kind = "delete")
       /\ IF m.kind \in {"update", "pause"} /\ m.id \notin DOMAIN inMemory
          THEN Mislays(r) /\ UNCHANGED <<inMemory, overtaken>>
          ELSE /\ inMemory' = IF m.kind = "delete"
                              THEN [i \in DOMAIN inMemory \ {m.id} |-> inMemory[i]]
                              ELSE [i \in DOMAIN inMemory \cup {m.id} |->
                                       IF i = m.id THEN m.seen ELSE inMemory[i]]
               /\ overtaken' = (overtaken \/ IF m.kind = "delete" THEN m.id \in DOMAIN stock
                                             ELSE m.id \notin DOMAIN stock \/ stock[m.id] # m.seen)
               /\ Becomes(r, "applied") /\ UNCHANGED unheard
       /\ UNCHANGED <<route, stock, shown, refetches, formVars, dialog>>

\* The database fails, or the answer to what was done is lost.
HandlerFails(r) ==
    /\ \E stage \in {"read", "written", "reread", "applied"} : Handles(r, stage)
    /\ unheard' = IF Handles(r, "read") THEN unheard ELSE TRUE
    /\ Becomes(r, "refused")
    /\ UNCHANGED <<route, stock, inMemory, shown, refetches, formVars, dialog, overtaken>>

-----------------------------------------------------------------------------
\* Mutant: a fetch that is under way is joined.
JoinsFetch(l, r) ==
    /\ shown' = [shown EXCEPT ![l].invalid = TRUE]
    /\ refetches' = [refetches EXCEPT ![l] =
          IF @.at = "none" THEN [@ EXCEPT !.at = "asked", !.waits = {r}]
                           ELSE [@ EXCEPT !.waits = @ \cup {r}]]

\* invalidateQueries: a list that is shown is asked for again, from anew if a
\* fetch is under way, whose waiters wait no longer.
Invalidates(l, r) ==
    /\ shown' = [shown EXCEPT ![l].invalid = TRUE]
    /\ refetches' = [refetches EXCEPT ![l] = [at |-> "asked", rows |-> <<>>, waits |-> {r}]]

\* onSuccess: the mutation is pending until its lists have been asked again.
Succeeds(r, kind, lists) ==
    /\ Handles(r, "applied") /\ mutations[r].kind = kind
    /\ mutations' = [mutations EXCEPT ![r] =
                        [Over EXCEPT !.kind = kind, !.at = "refreshing", !.lists = lists]]
    /\ Invalidates(Head(lists), r)
    /\ UNCHANGED <<route, serverVars>>

\* What is open of the kind is closed, though it may have been opened since.
ClosesOpen(kind) ==
    /\ dialog' = IF dialog.kind = kind THEN NoDialog ELSE dialog
    /\ UNCHANGED formVars

ServerAdded(r) ==
    /\ Succeeds(r, "create", <<"servers">>)
    /\ createForm' = None /\ lookupState' = None
    /\ UNCHANGED <<checkedBody, reached, dialog>>

ServerUpdated(r) == Succeeds(r, "update", <<"servers">>) /\ ClosesOpen("update")
ServerPaused(r) == Succeeds(r, "pause", <<"servers">>) /\ UNCHANGED <<formVars, dialog>>
ServerRemoved(r) == Succeeds(r, "delete", <<"servers">>) /\ ClosesOpen("delete")

invalidate == <<"pending", "denied">>

SuggestionApproved(r) == Succeeds(r, "approve", invalidate) /\ ClosesOpen("approve")
SuggestionDenied(r) == Succeeds(r, "deny", invalidate) /\ ClosesOpen("deny")
SuggestionRemoved(r) == Succeeds(r, "remove", invalidate) /\ ClosesOpen("remove")
FlagsSaved(r) == Succeeds(r, "flags", <<"users">>) /\ ClosesOpen("flags")

\* onError: a message; the dialog stays.
OnError(r) ==
    /\ Handles(r, "refused")
    /\ mutations' = [mutations EXCEPT ![r] = Over]
    /\ UNCHANGED <<route, serverVars, shown, refetches, formVars, dialog>>

\* The list has arrived, or its fetch was replaced or failed: the next one.
Refreshed(r) ==
    /\ Handles(r, "refreshing")
    /\ r \notin refetches[Head(mutations[r].lists)].waits
    /\ IF Len(mutations[r].lists) = 1
       THEN mutations' = [mutations EXCEPT ![r] = Over] /\ UNCHANGED <<shown, refetches>>
       ELSE /\ mutations' = [mutations EXCEPT ![r].lists = Tail(@)]
            /\ Invalidates(Head(mutations'[r].lists), r)
    /\ UNCHANGED <<route, serverVars, formVars, dialog>>

\* The query: asked again when the window gets the focus and the rows are known
\* to be stale (they do not grow old: 30 s outlast what is looked at here), the
\* server reads, and the rows arrive.
Focus(l) ==
    /\ refetches[l].at = "none" /\ shown[l].invalid
    /\ refetches' = [refetches EXCEPT ![l].at = "asked"]
    /\ UNCHANGED <<route, serverVars, shown, formVars, dialog, mutations>>

FetchAnswers(l) ==
    /\ refetches[l].at = "asked"
    /\ refetches' = [refetches EXCEPT ![l].at = "answered", ![l].rows = Answer(l)]
    /\ UNCHANGED <<route, serverVars, shown, formVars, dialog, mutations>>

FetchArrives(l) ==
    /\ refetches[l].at = "answered"
    /\ shown' = [shown EXCEPT ![l] = [rows |-> refetches[l].rows, invalid |-> FALSE]]
    /\ refetches' = [refetches EXCEPT ![l] = NoFetch]
    /\ UNCHANGED <<route, serverVars, formVars, dialog, mutations>>

FetchFails(l) ==
    /\ refetches[l].at # "none"
    /\ refetches' = [refetches EXCEPT ![l] = NoFetch]
    /\ UNCHANGED <<route, serverVars, shown, formVars, dialog, mutations>>

Next ==
    \/ \E b \in Bodies : FormFields(b)
    \/ handleCreate \/ LookupAnswers \/ CloseLookup \/ handleConfirmCreate
    \/ ServerActions \/ PendingActions \/ DeniedActions \/ UserActions \/ onPauseChange
    \/ EditServer \/ DeleteServer \/ Approve \/ Deny \/ Remove \/ EditFlags
    \/ \E r \in 1 .. MaxSteps :
          \/ HandlerReads(r) \/ HandlerWrites(r) \/ HandlerRereads(r) \/ HandlerLists(r)
          \/ HandlerFails(r)
          \/ ServerAdded(r) \/ ServerUpdated(r) \/ ServerPaused(r) \/ ServerRemoved(r)
          \/ SuggestionApproved(r) \/ SuggestionDenied(r) \/ SuggestionRemoved(r)
          \/ FlagsSaved(r) \/ OnError(r) \/ Refreshed(r)
    \/ \E l \in Lists : Focus(l) \/ FetchAnswers(l) \/ FetchArrives(l) \/ FetchFails(l)

Spec == Init /\ [][Next]_adminVars

-----------------------------------------------------------------------------
\* A server that is added is one a lookup reached with these very details,
\* though the form stayed open while it was looked up (servers.tsx:203, 222).
AddedWasReached ==
    route = "servers" =>
        \A i \in DOMAIN stock' \ DOMAIN stock : stock'[i].body \in reached

\* When nothing is under way, the lists show the tables or know that they do not,
\* whatever overlapped on the page and in the cache (servers.tsx:130,
\* suggestions.tsx:113, users.tsx:64).  A change the page was not told of leaves
\* them behind, and so do two changes of a server that pass each other between the
\* table and the list in memory (admin.rs:174, 204).
ListTellsTable ==
    ((\A r \in DOMAIN mutations : mutations[r].at = "over") /\ ~unheard /\ ~overtaken) =>
        \A l \in Lists : shown[l].invalid \/ shown[l].rows = Listed(l)
=============================================================================
