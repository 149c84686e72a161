---------------------------- MODULE Suggestions ----------------------------
(***************************************************************************)
(* Server suggestions: users ask for servers to be tracked, admins approve, *)
(* deny or remove what they asked for.                                      *)
(*                                                                          *)
(* Approving writes two tables, without a transaction: the server is        *)
(* inserted first, then the suggestion is marked.  Every handler checks the *)
(* status at its start and never again, so two decisions on the same        *)
(* suggestion may both go through; the handlers of the admin page are told  *)
(* apart here by what they do between their first and their last statement. *)
(*                                                                          *)
(* A host stands for the triple (host, port, platform) that both unique     *)
(* indexes cover; of the servers table only the hosts are kept (the rest of *)
(* create_server, update_server and delete_server is ServerTracker's).      *)
(***************************************************************************)
EXTENDS Integers, FiniteSets

CONSTANTS Sids,      \* ids of suggestions (UUIDs: never drawn twice)
          Hosts,     \* addresses that may be suggested or tracked
          NoHost,    \* the host of an id without a row
          NoSid,     \* the suggestion of a request that has none
          Requests   \* requests served at the same time

ASSUME NoHostAssumption == NoHost \notin Hosts
ASSUME NoSidAssumption == NoSid \notin Sids

VARIABLES sugg,      \* server_suggestions
          servers,   \* hosts of the rows of servers
          req,       \* the requests in progress
          made,      \* history: the servers created by approving, and for what
          disturbed  \* history: suggestions with two decisions at once, or one
                     \* that was cut off

vars == <<sugg, servers, req, made, disturbed>>

\* An id has no row before its suggestion is submitted and after it is deleted.
Status == {"none", "pending", "approved", "denied", "deleted"}

HasRow(s) == sugg[s].status \notin {"none", "deleted"}

Suggestion ==
    [status : {"none", "deleted"}, host : {NoHost}]
    \cup [status : {"pending", "approved", "denied"}, host : Hosts]

Deleted == [status |-> "deleted", host |-> NoHost]

Request == [op : {"none", "submit", "approve", "deny", "delete"},
            at : {"idle", "find", "insert", "track", "read", "write", "delete"},
            id : Sids \cup {NoSid}, host : Hosts \cup {NoHost}]

IdleRequest == [op |-> "none", at |-> "idle", id |-> NoSid, host |-> NoHost]

TypeOK ==
    /\ sugg \in [Sids -> Suggestion]
    /\ servers \in SUBSET Hosts
    /\ req \in [Requests -> Request]
    /\ made \in SUBSET (Sids \X Hosts)
    /\ disturbed \in SUBSET Sids

Init ==
    /\ sugg = [s \in Sids |-> [status |-> "none", host |-> NoHost]]
    /\ servers \in SUBSET Hosts
    /\ req = [r \in Requests |-> IdleRequest]
    /\ made = {}
    /\ disturbed = {}

\* Mutant: the partial unique index does not cover denied suggestions.
OpenPendingOnly(s) == sugg[s].status = "pending"

\* server_suggestions_active_identity_idx: WHERE status IN (pending, denied).
Open(s) == sugg[s].status \in {"pending", "denied"}

Suggested(h, other) == \E s \in Sids \ {other} : Open(s) /\ sugg[s].host = h

Goto(r, stage) == req' = [req EXCEPT ![r].at = stage]
Finish(r) == req' = [req EXCEPT ![r] = IdleRequest]

-----------------------------------------------------------------------------
(* POST /server-suggestions *)

SubmitAccept(r, h) ==
    /\ req[r].at = "idle"
    /\ req' = [req EXCEPT ![r] = [op |-> "submit", at |-> "find",
                                  id |-> NoSid, host |-> h]]
    /\ UNCHANGED <<sugg, servers, made, disturbed>>

\* find_by_host_port_platform: a tracked server is a conflict.
SubmitFind(r) ==
    /\ req[r].at = "find"
    /\ IF req[r].host \in servers THEN Finish(r) ELSE Goto(r, "insert")
    /\ UNCHANGED <<sugg, servers, made, disturbed>>

SubmitInsert(r, s) ==
    /\ req[r].at = "insert"
    /\ sugg[s].status = "none"
    /\ ~Suggested(req[r].host, s)
    /\ sugg' = [sugg EXCEPT ![s] = [status |-> "pending", host |-> req[r].host]]
    /\ Finish(r)
    /\ UNCHANGED <<servers, made, disturbed>>

\* Conflict; also the bound: no id is left.
SubmitConflict(r) ==
    /\ req[r].at = "insert"
    /\ \A s \in Sids : sugg[s].status = "none" => Suggested(req[r].host, s)
    /\ Finish(r)
    /\ UNCHANGED <<sugg, servers, made, disturbed>>

-----------------------------------------------------------------------------
(* The admin page *)

Deciding(s) == {r \in Requests : req[r].id = s}

\* The handler's first read, which checks the status; later it is not
\* looked at again.
Decide(r, s, q) ==
    /\ req[r].at = "idle"
    /\ req' = [req EXCEPT ![r] = q]
    /\ disturbed' = IF Deciding(s) = {} THEN disturbed ELSE disturbed \cup {s}
    /\ UNCHANGED <<sugg, servers, made>>

\* The admin may name another host than the user did.
Target(s, h) == IF h = NoHost THEN sugg[s].host ELSE h

(* POST /admin/server-suggestions/{id}/approve *)

ApproveAccept(r, s, h) ==
    /\ sugg[s].status = "pending"
    /\ Decide(r, s, [op |-> "approve", at |-> "track", id |-> s,
                     host |-> Target(s, h)])

\* servers::insert, whose SELECT finds the row: nobody else has seen its id.
\* The event and append_server follow.
ApproveTrack(r) ==
    /\ req[r].at = "track"
    /\ req[r].host \notin servers
    /\ servers' = servers \cup {req[r].host}
    /\ made' = made \cup {<<req[r].id, req[r].host>>}
    /\ Goto(r, "read")
    /\ UNCHANGED <<sugg, disturbed>>

\* Mutant: a server that is there already is as good as a new one.
ApproveAnyway(r) ==
    /\ req[r].at = "track"
    /\ req[r].host \in servers
    /\ Goto(r, "read")
    /\ UNCHANGED <<sugg, servers, made, disturbed>>

ApproveConflict(r) ==
    /\ req[r].at = "track"
    /\ req[r].host \in servers
    /\ Finish(r)
    /\ UNCHANGED <<sugg, servers, made, disturbed>>

\* server_suggestions::update: approving gives every column a value of its
\* own, so the row read first only has to exist.
ApproveRead(r) ==
    /\ req[r].op = "approve" /\ req[r].at = "read"
    /\ IF HasRow(req[r].id) THEN Goto(r, "write") ELSE Finish(r)
    /\ UNCHANGED <<sugg, servers, made, disturbed>>

\* Mutant: the suggestion keeps the host the user gave.
ApproveKeepingHost(r) ==
    /\ req[r].op = "approve" /\ req[r].at = "write"
    /\ sugg' = IF HasRow(req[r].id)
               THEN [sugg EXCEPT ![req[r].id].status = "approved"]
               ELSE sugg
    /\ Finish(r)
    /\ UNCHANGED <<servers, made, disturbed>>

\* UPDATE of no row is not an error, the SELECT after it is.
ApproveWrite(r) ==
    LET q == req[r] IN
    /\ q.op = "approve" /\ q.at = "write"
    /\ sugg' = IF HasRow(q.id)
               THEN [sugg EXCEPT ![q.id] = [status |-> "approved", host |-> q.host]]
               ELSE sugg
    /\ Finish(r)
    /\ UNCHANGED <<servers, made, disturbed>>

(* POST /admin/server-suggestions/{id}/deny *)

\* Mutant: the status is not checked.
DenyAcceptAny(r, s) ==
    /\ HasRow(s)
    /\ Decide(r, s, [op |-> "deny", at |-> "read", id |-> s, host |-> NoHost])

DenyAccept(r, s) ==
    /\ sugg[s].status = "pending"
    /\ Decide(r, s, [op |-> "deny", at |-> "read", id |-> s, host |-> NoHost])

\* server_suggestions::update reads the columns it is not given.
DenyRead(r) ==
    LET q == req[r] IN
    /\ q.op = "deny" /\ q.at = "read"
    /\ IF HasRow(q.id)
       THEN req' = [req EXCEPT ![r].at = "write", ![r].host = sugg[q.id].host]
       ELSE Finish(r)
    /\ UNCHANGED <<sugg, servers, made, disturbed>>

\* A conflict with another open suggestion, and a row that went away, leave
\* the table alone.
DenyWrite(r) ==
    LET q == req[r] IN
    /\ q.op = "deny" /\ q.at = "write"
    /\ sugg' = IF HasRow(q.id) /\ ~Suggested(q.host, q.id)
               THEN [sugg EXCEPT ![q.id] = [status |-> "denied", host |-> q.host]]
               ELSE sugg
    /\ Finish(r)
    /\ UNCHANGED <<servers, made, disturbed>>

(* DELETE /admin/server-suggestions/{id} *)

DeleteAccept(r, s) ==
    /\ Open(s)
    /\ Decide(r, s, [op |-> "delete", at |-> "delete", id |-> s, host |-> NoHost])

DeleteRow(r) ==
    LET q == req[r] IN
    /\ q.at = "delete"
    /\ sugg' = IF HasRow(q.id) THEN [sugg EXCEPT ![q.id] = Deleted] ELSE sugg
    /\ Finish(r)
    /\ UNCHANGED <<servers, made, disturbed>>

\* The handler's future is dropped with its connection.
Disconnect(r) ==
    /\ req[r].at # "idle"
    /\ Finish(r)
    /\ disturbed' = IF req[r].id = NoSid THEN disturbed
                                         ELSE disturbed \cup {req[r].id}
    /\ UNCHANGED <<sugg, servers, made>>

-----------------------------------------------------------------------------
(* What others do to the tables meanwhile *)

\* create_server, delete_server, and update_server with another host.
TrackServer(h) ==
    /\ h \notin servers
    /\ servers' = servers \cup {h}
    /\ UNCHANGED <<sugg, req, made, disturbed>>

UntrackServer(h) ==
    /\ h \in servers
    /\ servers' = servers \ {h}
    /\ UNCHANGED <<sugg, req, made, disturbed>>

MoveServer(g, h) ==
    /\ g \in servers /\ h \notin servers
    /\ servers' = (servers \ {g}) \cup {h}
    /\ UNCHANGED <<sugg, req, made, disturbed>>

\* The user's account is deleted: ON DELETE CASCADE.
OwnerDeleted(s) ==
    /\ HasRow(s)
    /\ sugg' = [sugg EXCEPT ![s] = Deleted]
    /\ UNCHANGED <<servers, req, made, disturbed>>

-----------------------------------------------------------------------------

SubmitNext(r) ==
    \/ \E h \in Hosts : SubmitAccept(r, h)
    \/ SubmitFind(r)
    \/ \E s \in Sids : SubmitInsert(r, s)
    \/ SubmitConflict(r)

ApproveNext(r) ==
    \/ \E s \in Sids, h \in Hosts \cup {NoHost} : ApproveAccept(r, s, h)
    \/ ApproveTrack(r) \/ ApproveConflict(r)
    \/ ApproveRead(r) \/ ApproveWrite(r)

DenyNext(r) ==
    \/ \E s \in Sids : DenyAccept(r, s)
    \/ DenyRead(r) \/ DenyWrite(r)

DeleteNext(r) ==
    \/ \E s \in Sids : DeleteAccept(r, s)
    \/ DeleteRow(r)

Elsewhere ==
    \/ \E h \in Hosts : TrackServer(h) \/ UntrackServer(h)
    \/ \E g, h \in Hosts : MoveServer(g, h)
    \/ \E s \in Sids : OwnerDeleted(s)

Next ==
    \/ \E r \in Requests : \/ SubmitNext(r)
                           \/ ApproveNext(r) \/ DenyNext(r) \/ DeleteNext(r)
                           \/ Disconnect(r)
    \/ Elsewhere

Spec == Init /\ [][Next]_vars

-----------------------------------------------------------------------------
(* Properties *)

\* Nobody has to look at the same address twice: two suggestions that are
\* pending or denied never share one (server_suggestions_active_identity_idx,
\* under submit and deny, whose UPDATE writes back an old host).
OpenUnique ==
    \A s, t \in Sids :
        /\ {sugg[s].status, sugg[t].status} \subseteq {"pending", "denied"}
        /\ sugg[s].host = sugg[t].host
        => s = t

\* An approved suggestion shows an address a server was created at for this
\* very suggestion, however many requests overlap and wherever they are cut
\* off (approve_server_suggestion inserts first and marks afterwards).
ApprovedWasTracked ==
    \A s \in Sids : sugg[s].status = "approved" => <<s, sugg[s].host>> \in made

\* Without overlapping or interrupted decisions, a suggestion led to one
\* server when it was approved and to none when it was not.
ApprovalsMatchServers ==
    \A s \in Sids \ disturbed :
        Deciding(s) = {} =>
            LET hosts == {h \in Hosts : <<s, h>> \in made} IN
            CASE sugg[s].status = "approved" -> Cardinality(hosts) = 1
              [] Open(s) -> hosts = {}
              [] OTHER -> TRUE

\* An approval is final: without overlapping or interrupted decisions only the
\* end of its author's account takes it back ("approved suggestions cannot be
\* removed", "suggestion is no longer pending").
ApprovalsStand ==
    [][\A s \in Sids \ disturbed' :
         sugg[s].status = "approved" =>
             sugg'[s].status = "approved" \/ OwnerDeleted(s)]_vars
=============================================================================
