-------------------------------- MODULE Chat --------------------------------
(***************************************************************************)
(* Many answers of the chat assistant: what post_chat looks at before it    *)
(* hands a question to the agent, and what the task it spawns stores when   *)
(* the answer is complete.  How one answer comes about is the subject of    *)
(* AgentLoop; here it is complete at some time, or never.                   *)
(*                                                                          *)
(* One action is one statement of the database, or the part of a            *)
(* transaction before or after the row lock.  The handler runs up to the    *)
(* start of the answer and is dropped when its client disconnects; the task *)
(* stores a complete answer whatever the client does.                       *)
(***************************************************************************)
EXTENDS Integers, FiniteSetsExt

CONSTANTS Users,
          Sessions,   \* the ids clients choose for their conversations
          Asks,       \* requests that can be in progress at one time
          NoUser,     \* the owner of a session that does not exist
          Limit,      \* WEEKLY_MESSAGE_LIMIT
          Exempt,     \* users whose flags lift the limit
          MaxSaved    \* bound: a user with that many answers asks no more

ASSUME NoUserAssumption == NoUser \notin Users
ASSUME AsksAssumption == IsFiniteSet(Asks)
ASSUME LimitAssumption == Limit \in Nat \ {0}
ASSUME ExemptAssumption == Exempt \subseteq Users
ASSUME MaxSavedAssumption == MaxSaved \in Nat

VARIABLES
  owner,    \* chat_sessions: whose session it is
  tokens,   \* chat_sessions.tokens_used; an answer counts as one token
  turns,    \* chat_turns of each session
  used,     \* rows of chat_messages since Monday, by user
  ask,      \* the requests in progress
  saved,    \* history: answers stored, by user
  counted,  \* history: rows of chat_messages ever inserted, by user
  cut,      \* history: sessions deleted before an answer's tokens were added
  fault     \* history: has a statement failed, or the process stopped?

tables == <<owner, tokens, turns, used>>
histories == <<saved, counted, cut, fault>>
vars == <<tables, ask, histories>>

Turn == [seq : Nat \ {0}, role : {"user", "assistant"}, by : Users]

Idle == [at |-> "idle"]

\* A request, and the last number of a turn it found when it last looked.
Stages == {"quota", "insert", "owner", "turns", "usage",   \* post_chat
           "answer", "lock", "pair", "tokens", "record"}   \* its task

Ask == [at : Stages, user : Users, session : Sessions, found : Nat]

TypeOK ==
    /\ owner \in [Sessions -> Users \cup {NoUser}]
    /\ tokens \in [Sessions -> Nat]
    /\ turns \in [Sessions -> SUBSET Turn]
    /\ used \in [Users -> Nat]
    /\ ask \in [Asks -> Ask \cup {Idle}]
    /\ saved \in [Users -> Nat]
    /\ counted \in [Users -> Nat]
    /\ cut \in SUBSET Sessions
    /\ fault \in BOOLEAN

\* The tables of a new deployment.
Init ==
    /\ owner = [s \in Sessions |-> NoUser]
    /\ tokens = [s \in Sessions |-> 0]
    /\ turns = [s \in Sessions |-> {}]
    /\ used = [u \in Users |-> 0]
    /\ ask = [a \in Asks |-> Idle]
    /\ saved = [u \in Users |-> 0]
    /\ counted = [u \in Users |-> 0]
    /\ cut = {}
    /\ fault = FALSE

At(a, stage) == ask[a].at = stage

Goto(a, stage) == ask' = [ask EXCEPT ![a].at = stage]

\* The request is over.
End(a) == ask' = [ask EXCEPT ![a] = Idle]

\* Requests of a user, and of a session, that are at one of these places.
UsersAt(u, stages) == {a \in Asks : ask[a].at \in stages /\ ask[a].user = u}

SessionsAt(s, stages) ==
    {a \in Asks : ask[a].at \in stages /\ ask[a].session = s}

-----------------------------------------------------------------------------
(* post_chat up to the answer *)

\* Past the switches, the configuration and the rate limiter, which only
\* refuse.
Accept(a, u, s) ==
    /\ At(a, "idle")
    /\ saved[u] < MaxSaved
    /\ ask' = [ask EXCEPT ![a] =
                 [at |-> IF u \in Exempt THEN "insert" ELSE "quota",
                  user |-> u, session |-> s, found |-> 0]]
    /\ UNCHANGED <<tables, histories>>

\* Mutant: the limit itself is let through.
WithinLimitOrAt(n) == n <= Limit

WithinLimit(n) == n < Limit

\* count_since.
CheckQuota(a) ==
    /\ At(a, "quota")
    /\ IF WithinLimit(used[ask[a].user]) THEN Goto(a, "insert") ELSE End(a)
    /\ UNCHANGED <<tables, histories>>

\* get_or_create_for_user: INSERT ... ON CONFLICT DO NOTHING, then SELECT.
InsertSession(a) ==
    /\ At(a, "insert")
    /\ LET s == ask[a].session IN
         owner' = [owner EXCEPT ![s] = IF @ = NoUser THEN ask[a].user ELSE @]
    /\ Goto(a, "owner")
    /\ UNCHANGED <<tokens, turns, used, histories>>

CheckOwner(a) ==
    /\ At(a, "owner")
    /\ IF owner[ask[a].session] = ask[a].user THEN Goto(a, "turns") ELSE End(a)
    /\ UNCHANGED <<tables, histories>>

LastSeq(s) == Max({t.seq : t \in turns[s]} \cup {0})

ListTurns(a) ==
    /\ At(a, "turns")
    /\ ask' = [ask EXCEPT ![a].at = "usage",
                          ![a].found = LastSeq(ask[a].session)]
    /\ UNCHANGED <<tables, histories>>

\* get_usage finds no row if the session is gone.
GetUsage(a) ==
    /\ At(a, "usage")
    /\ IF owner[ask[a].session] = NoUser THEN End(a) ELSE Goto(a, "answer")
    /\ UNCHANGED <<tables, histories>>

\* The handler is dropped with its client, or one of its statements fails.
Disconnect(a) ==
    /\ ask[a].at \in {"quota", "insert", "owner", "turns", "usage"}
    /\ End(a)
    /\ UNCHANGED <<tables, histories>>

-----------------------------------------------------------------------------
(* The task *)

\* Done arrives and the client is still there.
AnswerDone(a) ==
    /\ At(a, "answer")
    /\ Goto(a, "lock")
    /\ UNCHANGED <<tables, histories>>

\* An error, or the client has left.
AnswerOver(a) ==
    /\ At(a, "answer")
    /\ End(a)
    /\ UNCHANGED <<tables, histories>>

\* append_turn_pair holds the row of its session from its SELECT ... FOR
\* UPDATE to its end.
Locked(s) == SessionsAt(s, {"pair"}) # {}

\* Mutant: the turns the answer was made from are taken for the last ones.
LockFoundBefore(a) ==
    LET s == ask[a].session IN
    /\ At(a, "lock")
    /\ ~Locked(s)
    /\ IF owner[s] = ask[a].user THEN Goto(a, "pair") ELSE End(a)
    /\ UNCHANGED <<tables, histories>>

\* Mutant: the SELECT does not lock.
LockNothing(a) ==
    LET s == ask[a].session IN
    /\ At(a, "lock")
    /\ IF owner[s] = ask[a].user
       THEN ask' = [ask EXCEPT ![a].at = "pair", ![a].found = LastSeq(s)]
       ELSE End(a)
    /\ UNCHANGED <<tables, histories>>

\* Mutant: nobody looks whose session it is.
LockAnyone(a) ==
    LET s == ask[a].session IN
    /\ At(a, "lock")
    /\ ~Locked(s)
    /\ IF owner[s] # NoUser
       THEN ask' = [ask EXCEPT ![a].at = "pair", ![a].found = LastSeq(s)]
       ELSE End(a)
    /\ UNCHANGED <<tables, histories>>

\* The owner is checked again: the session may be gone, or somebody else's.
Lock(a) ==
    LET s == ask[a].session IN
    /\ At(a, "lock")
    /\ ~Locked(s)
    /\ IF owner[s] = ask[a].user
       THEN ask' = [ask EXCEPT ![a].at = "pair", ![a].found = LastSeq(s)]
       ELSE End(a)
    /\ UNCHANGED <<tables, histories>>

LockFails(a) ==
    /\ At(a, "lock")
    /\ End(a)
    /\ UNCHANGED <<tables, histories>>

Pair(a) ==
    {[seq |-> ask[a].found + 1, role |-> "user", by |-> ask[a].user],
     [seq |-> ask[a].found + 2, role |-> "assistant", by |-> ask[a].user]}

\* UNIQUE (session_id, seq)
Taken(a) ==
    \E t \in turns[ask[a].session], p \in Pair(a) : t.seq = p.seq

Store(a) ==
    /\ turns' = [turns EXCEPT ![ask[a].session] = @ \cup Pair(a)]
    /\ saved' = [saved EXCEPT ![ask[a].user] = @ + 1]
    /\ UNCHANGED <<owner, tokens, used, counted, cut>>

\* Both inserts and the COMMIT; a violation of the index rolls back.
InsertPair(a) ==
    /\ At(a, "pair")
    /\ IF Taken(a)
       THEN End(a) /\ UNCHANGED <<tables, saved, counted, cut>>
       ELSE Goto(a, "tokens") /\ Store(a)
    /\ UNCHANGED fault

\* Mutant: the inserts are not one transaction.
PairFailsHalfway(a) ==
    /\ At(a, "pair")
    /\ End(a)
    /\ \E half \in SUBSET Pair(a) :
         turns' = [turns EXCEPT ![ask[a].session] = @ \cup half]
    /\ fault' = TRUE
    /\ UNCHANGED <<owner, tokens, used, saved, counted, cut>>

\* Mutant: the error is logged and the answer is counted.
PairFailsCounted(a) ==
    /\ At(a, "pair")
    /\ Goto(a, "tokens")
    /\ fault' = TRUE
    /\ UNCHANGED <<tables, saved, counted, cut>>

\* The transaction fails, or its COMMIT does not answer and it may have been
\* made: the error is logged and nothing is counted.
PairFails(a) ==
    /\ At(a, "pair")
    /\ End(a)
    /\ \/ UNCHANGED <<tables, saved, counted, cut>>
       \/ ~Taken(a) /\ Store(a)
    /\ fault' = TRUE

\* Mutant: the new sum is written, from what the transaction has seen.
AddTokensToFound(a) ==
    LET s == ask[a].session IN
    /\ At(a, "tokens")
    /\ ~Locked(s)
    /\ tokens' = [tokens EXCEPT ![s] = IF owner[s] = NoUser THEN @
                                       ELSE ask[a].found \div 2 + 1]
    /\ Goto(a, "record")
    /\ UNCHANGED <<owner, turns, used, histories>>

\* add_turn_tokens: one UPDATE, which finds no row if the session is gone,
\* and does not look whose it is.
AddTokens(a) ==
    LET s == ask[a].session IN
    /\ At(a, "tokens")
    /\ ~Locked(s)
    /\ tokens' = [tokens EXCEPT ![s] = IF owner[s] = NoUser THEN @ ELSE @ + 1]
    /\ Goto(a, "record")
    /\ UNCHANGED <<owner, turns, used, histories>>

AddTokensFails(a) ==
    /\ At(a, "tokens")
    /\ Goto(a, "record")
    /\ fault' = TRUE
    /\ UNCHANGED <<tables, saved, counted, cut>>

\* chat_messages::record; what follows only tells the client.
Record(a) ==
    /\ At(a, "record")
    /\ LET u == ask[a].user IN
         IF u \in Exempt
         THEN UNCHANGED <<used, counted>>
         ELSE /\ used' = [used EXCEPT ![u] = @ + 1]
              /\ counted' = [counted EXCEPT ![u] = @ + 1]
    /\ End(a)
    /\ UNCHANGED <<owner, tokens, turns, saved, cut, fault>>

RecordFails(a) ==
    /\ At(a, "record")
    /\ End(a)
    /\ fault' = TRUE
    /\ UNCHANGED <<tables, saved, counted, cut>>

-----------------------------------------------------------------------------
(* Other requests, time and crashes *)

\* delete_session; the turns go with the session.  DELETE waits for the lock.
DeleteSession(u, s) ==
    /\ owner[s] = u
    /\ ~Locked(s)
    /\ owner' = [owner EXCEPT ![s] = NoUser]
    /\ tokens' = [tokens EXCEPT ![s] = 0]
    /\ turns' = [turns EXCEPT ![s] = {}]
    /\ cut' = IF SessionsAt(s, {"tokens"}) = {} THEN cut ELSE cut \cup {s}
    /\ UNCHANGED <<used, ask, saved, counted, fault>>

\* Monday, 0:00 UTC.
WeekTurns ==
    /\ \E u \in Users : used[u] # 0
    /\ used' = [u \in Users |-> 0]
    /\ UNCHANGED <<owner, tokens, turns, ask, histories>>

Crash ==
    /\ \E a \in Asks : ~At(a, "idle")
    /\ ask' = [a \in Asks |-> Idle]
    /\ fault' = TRUE
    /\ UNCHANGED <<tables, saved, counted, cut>>

HandlerNext(a) ==
    \/ CheckQuota(a) \/ InsertSession(a) \/ CheckOwner(a)
    \/ ListTurns(a) \/ GetUsage(a)

TaskNext(a) ==
    \/ AnswerDone(a) \/ AnswerOver(a)
    \/ Lock(a) \/ InsertPair(a) \/ AddTokens(a) \/ Record(a)

FaultNext(a) ==
    \/ Disconnect(a) \/ LockFails(a) \/ PairFails(a)
    \/ AddTokensFails(a) \/ RecordFails(a)

Next ==
    \/ \E a \in Asks :
         \/ \E u \in Users, s \in Sessions : Accept(a, u, s)
         \/ HandlerNext(a) \/ TaskNext(a) \/ FaultNext(a)
    \/ \E u \in Users, s \in Sessions : DeleteSession(u, s)
    \/ WeekTurns \/ Crash

Spec == Init /\ [][Next]_vars

-----------------------------------------------------------------------------
(* Properties *)

\* A conversation is numbered without gaps, questions odd and answers even,
\* however many of its answers are stored at one time and whatever fails
\* (append_turn_pair).
TurnsPaired ==
    \A s \in Sessions : \E n \in 0..Cardinality(turns[s]) :
      /\ {t.seq : t \in turns[s]} = 1..2*n
      /\ Cardinality(turns[s]) = 2*n
      /\ \A t \in turns[s] : t.role = "user" <=> t.seq % 2 = 1

\* All turns of a session are its owner's, also of a session that was deleted
\* and begun again under the same id by somebody else.
TurnsOfOwner == \A s \in Sessions : \A t \in turns[s] : t.by = owner[s]

\* append_turn_pair is never refused by the unique index: the row lock lets
\* nobody use the numbers another one has read.
NumbersFree ==
    \A a \in Asks : At(a, "pair") => ~Taken(a)

\* The limit is exceeded by no more answers than could be in progress when
\* the last one was let through; one at a time, not at all (post_chat).
QuotaBounded ==
    \A u \in Users \ Exempt : used[u] < Limit + Cardinality(Asks)

\* Only stored answers count, once each; without faults all of them do.
CountedWereSaved ==
    \A u \in Users \ Exempt :
      LET n == counted[u] + Cardinality(UsersAt(u, {"tokens", "record"})) IN
      n <= saved[u] /\ (~fault => n = saved[u])

\* The tokens of a session are those of its answers, once they are added.
TokensAddUp ==
    \A s \in Sessions :
      ~fault /\ s \notin cut =>
        2 * (tokens[s] + Cardinality(SessionsAt(s, {"tokens"})))
          = Cardinality(turns[s])
=============================================================================
