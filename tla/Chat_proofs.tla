---------------------------- MODULE Chat_proofs ----------------------------
(***************************************************************************)
(* For any number of users, sessions and requests in progress:              *)
(* conversations are numbered in pairs because the row lock keeps what a     *)
(* transaction has read true until it commits, and the quota is exceeded by *)
(* no more than the requests that were let through and have not been        *)
(* counted yet.                                                             *)
(***************************************************************************)
EXTENDS Chat, FiniteSetTheorems, TLAPS

\* A conversation of n questions and n answers.
Conversation(s, n) ==
    /\ IsFiniteSet(turns[s])
    /\ Cardinality(turns[s]) = 2*n
    /\ {t.seq : t \in turns[s]} = 1..2*n
    /\ \A t \in turns[s] : t.role = "user" <=> t.seq % 2 = 1

Conversations == \A s \in Sessions : \E n \in Nat : Conversation(s, n)

\* What the transaction of append_turn_pair has read is still so.
Holds(a, s) == At(a, "pair") /\ ask[a].session = s

LockHeld ==
    \A a \in Asks, s \in Sessions : Holds(a, s) =>
      /\ ask[a].found = LastSeq(s)
      /\ owner[s] = ask[a].user
      /\ \A b \in Asks : Holds(b, s) => b = a

ChatInv == TypeOK /\ TurnsOfOwner /\ Conversations /\ LockHeld

USE NoUserAssumption

-----------------------------------------------------------------------------
(* Numbers *)

LEMMA LastOfConversation ==
    ASSUME NEW s \in Sessions, NEW n \in Nat, Conversation(s, n)
    PROVE  LastSeq(s) = 2*n
<1>1. {t.seq : t \in turns[s]} \cup {0} = 0..2*n
  BY DEF Conversation
<1>2. 2*n \in 0..2*n /\ \A y \in 0..2*n : 2*n >= y
  OBVIOUS
<1>3. \A x \in 0..2*n : (\A y \in 0..2*n : x >= y) => x = 2*n
  <2> SUFFICES ASSUME NEW x \in 0..2*n, \A y \in 0..2*n : x >= y
               PROVE  x = 2*n
    OBVIOUS
  <2>1. x >= 2*n
    BY <1>2
  <2>2. QED
    BY <2>1
<1>4. Max(0..2*n) = 2*n
  BY <1>2, <1>3 DEF Max
<1>5. QED
  BY <1>1, <1>4 DEF LastSeq

LEMMA LastIsNumber ==
    ASSUME Conversations, NEW s \in Sessions
    PROVE  LastSeq(s) \in Nat
<1>1. PICK n \in Nat : Conversation(s, n)
  BY DEF Conversations
<1>2. LastSeq(s) = 2*n
  BY <1>1, LastOfConversation
<1>3. QED
  BY <1>2

\* The row lock leaves the numbers of a pair to the one who holds it
\* (append_turn_pair): the argument for the invariant NumbersFree.
LEMMA PairIsFree ==
    ASSUME ChatInv, NEW a \in Asks, At(a, "pair")
    PROVE  ~Taken(a)
<1> DEFINE s == ask[a].session
<1>1. ask[a] \in Ask /\ s \in Sessions
  BY DEF ChatInv, TypeOK, At, Ask, Idle
<1>2. PICK n \in Nat : Conversation(s, n)
  BY <1>1 DEF ChatInv, Conversations
<1>3. ask[a].found = 2*n
  BY <1>1, <1>2, LastOfConversation DEF ChatInv, LockHeld, Holds
<1>4. \A t \in turns[s] : t.seq \in 1..2*n
  BY <1>2 DEF Conversation
<1>5. \A p \in Pair(a) : p.seq \in {2*n + 1, 2*n + 2}
  BY <1>3 DEF Pair
<1>6. QED
  BY <1>4, <1>5 DEF Taken

\* A pair continues a conversation.
LEMMA PairContinues ==
    ASSUME ChatInv, NEW a \in Asks, At(a, "pair"), Store(a),
           NEW s \in Sessions, s = ask[a].session,
           NEW n \in Nat, Conversation(s, n)
    PROVE  Conversation(s, n + 1)'
<1> DEFINE q == [seq |-> ask[a].found + 1, role |-> "user",
                 by |-> ask[a].user]
           r == [seq |-> ask[a].found + 2, role |-> "assistant",
                 by |-> ask[a].user]
           T == turns[s]
           N == T \cup {q} \cup {r}
<1>1. ask[a] \in Ask /\ s \in Sessions
  BY DEF ChatInv, TypeOK, At, Ask, Idle
<1>2. ask[a].found = 2*n
  BY <1>1, LastOfConversation DEF ChatInv, LockHeld, Holds
<1>3. \A t \in T : t.seq \in 1..2*n
  BY DEF Conversation
<1>4. turns'[s] = N
  BY <1>1 DEF Store, Pair, ChatInv, TypeOK
<1>5. q.seq = 2*n + 1 /\ r.seq = 2*n + 2
  BY <1>2
<1>6. q \notin T /\ r \notin T \cup {q}
  BY <1>3, <1>5
<1>7. IsFiniteSet(N) /\ Cardinality(N) = 2*(n + 1)
  <2>1. IsFiniteSet(T) /\ Cardinality(T) = 2*n
    BY DEF Conversation
  <2>2. IsFiniteSet(T \cup {q}) /\ Cardinality(T \cup {q}) = 2*n + 1
    BY <1>6, <2>1, FS_AddElement
  <2>3. IsFiniteSet(N) /\ Cardinality(N) = 2*n + 1 + 1
    BY <1>6, <2>2, FS_AddElement
  <2>4. QED
    BY <2>3
<1>8. {t.seq : t \in N} = 1..2*(n + 1)
  <2>1. {t.seq : t \in N} = {t.seq : t \in T} \cup {2*n + 1, 2*n + 2}
    BY <1>5
  <2>2. {t.seq : t \in T} = 1..2*n
    BY DEF Conversation
  <2>3. 1..2*(n + 1) = 1..2*n \cup {2*n + 1, 2*n + 2}
    OBVIOUS
  <2>4. QED
    BY <2>1, <2>2, <2>3
<1>9. \A t \in N : t.role = "user" <=> t.seq % 2 = 1
  <2>1. \A t \in T : t.role = "user" <=> t.seq % 2 = 1
    BY DEF Conversation
  <2>2. (2*n + 1) % 2 = 1 /\ (2*n + 2) % 2 # 1
    OBVIOUS
  <2>3. q.role = "user" /\ r.role # "user"
    OBVIOUS
  <2>4. QED
    BY <1>5, <2>1, <2>2, <2>3
<1> HIDE DEF N
<1>10. QED
  BY <1>4, <1>7, <1>8, <1>9 DEF Conversation

-----------------------------------------------------------------------------
(* The invariant of the sessions *)

\* Steps that store nothing and lock nothing.
Plain(a) ==
    \/ \E u \in Users, s \in Sessions : Accept(a, u, s)
    \/ CheckQuota(a) \/ CheckOwner(a) \/ ListTurns(a) \/ GetUsage(a)
    \/ Disconnect(a) \/ AnswerDone(a) \/ AnswerOver(a) \/ LockFails(a)
    \/ AddTokensFails(a) \/ RecordFails(a)

LEMMA PlainEffect ==
    ASSUME ChatInv, NEW a \in Asks, Plain(a)
    PROVE  /\ UNCHANGED <<tables, saved, counted, cut>>
           /\ fault' \in BOOLEAN
           /\ \E k \in Ask \cup {Idle} :
                k.at # "pair" /\ ask' = [ask EXCEPT ![a] = k]
<1> DEFINE Moves(k) == k.at # "pair" /\ ask' = [ask EXCEPT ![a] = k]
<1> USE DEF ChatInv, TypeOK, Ask, Stages, Idle, At, tables, histories
<1>1. ASSUME NEW u \in Users, NEW s \in Sessions, Accept(a, u, s)
      PROVE  \E k \in Ask \cup {Idle} : Moves(k)
  <2> DEFINE k == [at |-> IF u \in Exempt THEN "insert" ELSE "quota",
                   user |-> u, session |-> s, found |-> 0]
  <2>1. k \in Ask /\ Moves(k)
    BY <1>1 DEF Accept
  <2>2. QED
    BY <2>1
<1>2. ASSUME NEW st \in Stages \ {"pair"}, ask[a] \in Ask, Goto(a, st)
      PROVE  \E k \in Ask \cup {Idle} : Moves(k)
  <2> DEFINE k == [ask[a] EXCEPT !.at = st]
  <2>1. k \in Ask /\ Moves(k)
    BY <1>2 DEF Goto
  <2>2. QED
    BY <2>1
<1>3. ASSUME End(a)
      PROVE  \E k \in Ask \cup {Idle} : Moves(k)
  BY <1>3 DEF End
<1>4. ~At(a, "idle") => ask[a] \in Ask
  OBVIOUS
<1>5. ASSUME ListTurns(a)
      PROVE  \E k \in Ask \cup {Idle} : Moves(k)
  <2> DEFINE k == [ask[a] EXCEPT !.at = "usage",
                                 !.found = LastSeq(ask[a].session)]
  <2>1. ask[a] \in Ask
    BY <1>5 DEF ListTurns
  <2>2. LastSeq(ask[a].session) \in Nat
    BY <2>1, LastIsNumber
  <2>3. k \in Ask /\ Moves(k)
    BY <1>5, <2>1, <2>2 DEF ListTurns
  <2>4. QED
    BY <2>3
<1>6. \E k \in Ask \cup {Idle} : Moves(k)
  BY <1>1, <1>2, <1>3, <1>4, <1>5
     DEF Plain, CheckQuota, CheckOwner, GetUsage, Disconnect, AnswerDone,
         AnswerOver, LockFails, AddTokensFails, RecordFails
<1>7. UNCHANGED <<tables, saved, counted, cut>> /\ fault' \in BOOLEAN
  BY DEF Plain, Accept, CheckQuota, CheckOwner, ListTurns, GetUsage,
         Disconnect, AnswerDone, AnswerOver, LockFails, AddTokensFails,
         RecordFails
<1>8. QED
  BY <1>6, <1>7

\* Steps that leave sessions and turns alone, and lock nothing.
LEMMA SameSessions ==
    ASSUME ChatInv, TypeOK', UNCHANGED <<owner, turns>>,
           \A b \in Asks : At(b, "pair")' => ask'[b] = ask[b]
    PROVE  ChatInv'
<1>1. TurnsOfOwner'
  BY DEF ChatInv, TurnsOfOwner
<1>2. Conversations'
  BY DEF ChatInv, Conversations, Conversation
<1>3. \A s \in Sessions : LastSeq(s)' = LastSeq(s)
  BY DEF LastSeq
<1>4. \A b \in Asks, s \in Sessions :
        Holds(b, s)' => Holds(b, s) /\ ask'[b] = ask[b]
  BY DEF Holds, At
<1>5. LockHeld'
  BY <1>3, <1>4 DEF ChatInv, LockHeld
<1>6. QED
  BY <1>1, <1>2, <1>5 DEF ChatInv

LEMMA StoreKeeps ==
    ASSUME ChatInv, TypeOK', NEW a \in Asks, At(a, "pair"), Store(a),
           \A b \in Asks : At(b, "pair")' => b # a /\ ask'[b] = ask[b]
    PROVE  ChatInv'
<1> DEFINE s == ask[a].session
<1>1. ask[a] \in Ask /\ s \in Sessions
  BY DEF ChatInv, TypeOK, At, Ask, Idle
<1>2. /\ owner' = owner
      /\ turns'[s] = turns[s] \cup Pair(a)
      /\ \A z \in Sessions \ {s} : turns'[z] = turns[z]
  BY <1>1 DEF Store, ChatInv, TypeOK
<1>3. owner[s] = ask[a].user
  BY <1>1 DEF ChatInv, LockHeld, Holds
<1>4. TurnsOfOwner'
  <2> SUFFICES ASSUME NEW z \in Sessions, NEW t \in turns'[z]
               PROVE  t.by = owner'[z]
    BY DEF TurnsOfOwner
  <2>1. CASE z = s /\ t \in Pair(a)
    BY <1>2, <1>3, <2>1 DEF Pair
  <2>2. CASE t \in turns[z]
    BY <1>2, <2>2 DEF ChatInv, TurnsOfOwner
  <2>3. QED
    BY <1>2, <2>1, <2>2
<1>5. Conversations'
  <2> SUFFICES ASSUME NEW z \in Sessions
               PROVE  \E n \in Nat : Conversation(z, n)'
    BY DEF Conversations
  <2>1. PICK n \in Nat : Conversation(z, n)
    BY DEF ChatInv, Conversations
  <2>2. CASE z = s
    <3>1. Conversation(z, n + 1)'
      BY <2>1, <2>2, PairContinues
    <3>2. n + 1 \in Nat
      OBVIOUS
    <3>3. QED
      BY <3>1, <3>2
  <2>3. CASE z # s
    BY <1>2, <2>1, <2>3 DEF Conversation
  <2>4. QED
    BY <2>2, <2>3
<1>6. \A b \in Asks, z \in Sessions :
        Holds(b, z)' => z # s /\ Holds(b, z) /\ ask'[b] = ask[b]
  BY <1>1 DEF ChatInv, LockHeld, Holds, At
<1>7. \A z \in Sessions \ {s} : LastSeq(z)' = LastSeq(z)
  BY <1>2 DEF LastSeq
<1>8. LockHeld'
  BY <1>2, <1>6, <1>7 DEF ChatInv, LockHeld
<1>9. QED
  BY <1>4, <1>5, <1>8 DEF ChatInv

\* An owner is entered only where there was none, and so no turns.
LEMMA InsertSessionKeeps ==
    ASSUME ChatInv, TypeOK', NEW a \in Asks, InsertSession(a)
    PROVE  ChatInv'
<1> DEFINE s == ask[a].session
<1>1. ask[a] \in Ask /\ s \in Sessions /\ ask[a].user \in Users
  BY DEF ChatInv, TypeOK, At, Ask, Idle, InsertSession
<1>2. /\ turns' = turns
      /\ \A z \in Sessions : owner[z] # NoUser => owner'[z] = owner[z]
  BY <1>1 DEF InsertSession, ChatInv, TypeOK
<1>3. \A z \in Sessions : turns[z] # {} => owner[z] \in Users
  BY DEF ChatInv, TypeOK, TurnsOfOwner, Turn
<1>4. TurnsOfOwner'
  <2> SUFFICES ASSUME NEW z \in Sessions, NEW t \in turns'[z]
               PROVE  t.by = owner'[z]
    BY DEF TurnsOfOwner
  <2>1. owner[z] # NoUser
    BY <1>2, <1>3
  <2>2. QED
    BY <1>2, <2>1 DEF ChatInv, TurnsOfOwner
<1>5. Conversations'
  BY <1>2 DEF ChatInv, Conversations, Conversation
<1>6. \A b \in Asks, z \in Sessions :
        Holds(b, z)' => Holds(b, z) /\ ask'[b] = ask[b]
  BY DEF InsertSession, Goto, ChatInv, TypeOK, At, Holds
<1>7. \A z \in Sessions : LastSeq(z)' = LastSeq(z)
  BY <1>2 DEF LastSeq
<1>8. \A b \in Asks, z \in Sessions : Holds(b, z) => owner[z] # NoUser
  BY DEF ChatInv, TypeOK, LockHeld, At, Holds, Ask, Idle
<1>9. LockHeld'
  BY <1>2, <1>6, <1>7, <1>8 DEF ChatInv, LockHeld
<1>10. QED
  BY <1>4, <1>5, <1>9 DEF ChatInv

\* The lock is taken only where nobody holds it, and by the owner.
LEMMA LockKeeps ==
    ASSUME ChatInv, TypeOK', NEW a \in Asks, Lock(a)
    PROVE  ChatInv'
<1> DEFINE s == ask[a].session
<1>1. ask[a] \in Ask /\ s \in Sessions
  BY DEF ChatInv, TypeOK, At, Ask, Idle, Lock
<1>2. UNCHANGED <<owner, turns>>
  BY DEF Lock, tables
<1>3. CASE owner[s] = ask[a].user
  <2>1. ask' = [ask EXCEPT ![a].at = "pair", ![a].found = LastSeq(s)]
    BY <1>3 DEF Lock
  <2>2. /\ ask'[a].at = "pair"
        /\ ask'[a].found = LastSeq(s)
        /\ ask'[a].session = s
        /\ ask'[a].user = ask[a].user
        /\ \A b \in Asks \ {a} : ask'[b] = ask[b]
    BY <1>1, <2>1 DEF ChatInv, TypeOK, Ask
  <2>3. TurnsOfOwner' /\ Conversations'
    BY <1>2 DEF ChatInv, TurnsOfOwner, Conversations, Conversation
  <2>4. \A z \in Sessions : LastSeq(z)' = LastSeq(z)
    BY <1>2 DEF LastSeq
  <2>5. \A b \in Asks : ~Holds(b, s)
    BY DEF Lock, Locked, SessionsAt, At, Holds
  <2>6. LockHeld'
    <3>1. \A z \in Sessions : Holds(a, z)' => z = s
      BY <2>2 DEF Holds
    <3>2. \A b \in Asks \ {a}, z \in Sessions :
            Holds(b, z)' => z # s /\ Holds(b, z)
      BY <2>2, <2>5 DEF Holds, At
    <3>3. QED
      BY <1>2, <1>3, <2>2, <2>4, <3>1, <3>2 DEF ChatInv, LockHeld
  <2>7. QED
    BY <2>3, <2>6 DEF ChatInv
<1>4. CASE owner[s] # ask[a].user
  <2>1. \A b \in Asks : At(b, "pair")' => ask'[b] = ask[b]
    BY <1>4 DEF Lock, End, Idle, At, ChatInv, TypeOK
  <2>2. QED
    BY <1>2, <2>1, SameSessions
<1>5. QED
  BY <1>3, <1>4

\* A session is deleted with its turns, and not while it is locked.
LEMMA DeleteSessionKeeps ==
    ASSUME ChatInv, TypeOK',
           NEW u \in Users, NEW s \in Sessions, DeleteSession(u, s)
    PROVE  ChatInv'
<1>1. /\ ask' = ask
      /\ turns'[s] = {}
      /\ \A z \in Sessions \ {s} :
           turns'[z] = turns[z] /\ owner'[z] = owner[z]
  BY DEF DeleteSession, ChatInv, TypeOK
<1>2. TurnsOfOwner'
  BY <1>1 DEF ChatInv, TurnsOfOwner
<1>3. Conversations'
  <2> SUFFICES ASSUME NEW z \in Sessions
               PROVE  \E n \in Nat : Conversation(z, n)'
    BY DEF Conversations
  <2>1. CASE z = s
    <3>1. Conversation(z, 0)'
      BY <1>1, <2>1, FS_EmptySet DEF Conversation
    <3>2. QED
      BY <3>1
  <2>2. CASE z # s
    BY <1>1, <2>2 DEF ChatInv, Conversations, Conversation
  <2>3. QED
    BY <2>1, <2>2
<1>4. \A b \in Asks, z \in Sessions :
        Holds(b, z)' => z # s /\ Holds(b, z)
  BY <1>1 DEF DeleteSession, Locked, SessionsAt, At, Holds
<1>5. \A z \in Sessions \ {s} : LastSeq(z)' = LastSeq(z)
  BY <1>1 DEF LastSeq
<1>6. LockHeld'
  BY <1>1, <1>4, <1>5 DEF ChatInv, LockHeld
<1>7. QED
  BY <1>2, <1>3, <1>6 DEF ChatInv

\* Steps that change the tables, with the request they move.
Effects(a) ==
    InsertSession(a) \/ Lock(a) \/ InsertPair(a) \/ PairFails(a)
      \/ AddTokens(a) \/ Record(a)

LEMMA NextIs ==
    ASSUME Next
    PROVE  \/ \E a \in Asks : Plain(a) \/ Effects(a)
           \/ \E u \in Users, s \in Sessions : DeleteSession(u, s)
           \/ WeekTurns
           \/ Crash
BY DEF Next, HandlerNext, TaskNext, FaultNext, Plain, Effects

LEMMA TypeStep ==
    ASSUME ChatInv, [Next]_vars
    PROVE  TypeOK'
<1> USE DEF ChatInv, TypeOK, Ask, Stages, Idle, At, tables, histories
<1>1. CASE UNCHANGED vars
  BY <1>1 DEF vars
<1>2. ASSUME NEW a \in Asks, Plain(a)
      PROVE  TypeOK'
  BY <1>2, PlainEffect
<1>3. ASSUME NEW a \in Asks, Effects(a)
      PROVE  TypeOK'
  <2> DEFINE s == ask[a].session
  <2>1. ask[a] \in Ask /\ s \in Sessions /\ ask[a].user \in Users
    BY <1>3 DEF Effects, InsertSession, Lock, InsertPair, PairFails,
                AddTokens, Record
  <2>2. CASE InsertSession(a)
    BY <2>1, <2>2 DEF InsertSession, Goto
  <2>3. CASE Lock(a)
    <3>1. LastSeq(s) \in Nat
      BY <2>1, LastIsNumber
    <3>2. QED
      BY <2>1, <2>3, <3>1 DEF Lock, End
  <2>4. CASE InsertPair(a) \/ PairFails(a)
    <3>1. Pair(a) \subseteq Turn
      BY <2>1 DEF Pair, Turn
    <3>2. ask' \in [Asks -> Ask \cup {Idle}]
      BY <2>1, <2>4 DEF InsertPair, PairFails, Goto, End
    <3>3. CASE Store(a)
      <4>1. turns' \in [Sessions -> SUBSET Turn]
        BY <2>1, <3>1, <3>3 DEF Store
      <4>2. /\ UNCHANGED <<owner, tokens, used, counted, cut>>
            /\ saved' \in [Users -> Nat]
        BY <2>1, <3>3 DEF Store
      <4>3. fault' \in BOOLEAN
        BY <2>4 DEF InsertPair, PairFails
      <4>4. QED
        BY <3>2, <4>1, <4>2, <4>3
    <3>4. CASE UNCHANGED <<tables, saved, counted, cut>>
      BY <2>4, <3>2, <3>4 DEF InsertPair, PairFails
    <3>5. QED
      BY <2>4, <3>3, <3>4 DEF InsertPair, PairFails
  <2>5. CASE AddTokens(a)
    BY <2>1, <2>5 DEF AddTokens, Goto
  <2>6. CASE Record(a)
    BY <2>1, <2>6 DEF Record, End
  <2>7. QED
    BY <1>3, <2>2, <2>3, <2>4, <2>5, <2>6 DEF Effects
<1>4. ASSUME NEW u \in Users, NEW s \in Sessions, DeleteSession(u, s)
      PROVE  TypeOK'
  BY <1>4 DEF DeleteSession
<1>5. CASE WeekTurns
  BY <1>5 DEF WeekTurns
<1>6. CASE Crash
  BY <1>6 DEF Crash
<1>7. QED
  BY <1>1, <1>2, <1>3, <1>4, <1>5, <1>6, NextIs

LEMMA ChatStep ==
    ASSUME ChatInv, [Next]_vars
    PROVE  ChatInv'
<1>1. TypeOK'
  BY TypeStep
<1>2. CASE UNCHANGED vars
  BY <1>1, <1>2, SameSessions DEF vars, tables
<1>3. ASSUME NEW a \in Asks, Plain(a)
      PROVE  ChatInv'
  <2>1. PICK k \in Ask \cup {Idle} :
          k.at # "pair" /\ ask' = [ask EXCEPT ![a] = k]
    BY <1>3, PlainEffect
  <2>2. \A b \in Asks : At(b, "pair")' => ask'[b] = ask[b]
    BY <2>1 DEF At, ChatInv, TypeOK
  <2>3. UNCHANGED <<owner, turns>>
    BY <1>3, PlainEffect DEF tables
  <2>4. QED
    BY <1>1, <2>2, <2>3, SameSessions
<1>4. ASSUME NEW a \in Asks, InsertPair(a) \/ PairFails(a)
      PROVE  ChatInv'
  <2>1. At(a, "pair")
    BY <1>4 DEF InsertPair, PairFails
  <2>2. \A b \in Asks : At(b, "pair")' => b # a /\ ask'[b] = ask[b]
    BY <1>4, <2>1 DEF InsertPair, PairFails, Goto, End, At, Idle, ChatInv,
                      TypeOK, Ask
  <2>3. CASE Store(a)
    BY <1>1, <2>1, <2>2, <2>3, StoreKeeps
  <2>4. CASE UNCHANGED tables
    BY <1>1, <2>2, <2>4, SameSessions DEF tables
  <2>5. QED
    BY <1>4, <2>3, <2>4 DEF InsertPair, PairFails
<1>5. ASSUME NEW a \in Asks, AddTokens(a) \/ Record(a)
      PROVE  ChatInv'
  <2>1. \A b \in Asks : At(b, "pair")' => ask'[b] = ask[b]
    BY <1>5 DEF AddTokens, Record, Goto, End, At, Idle, ChatInv, TypeOK, Ask
  <2>2. UNCHANGED <<owner, turns>>
    BY <1>5 DEF AddTokens, Record
  <2>3. QED
    BY <1>1, <2>1, <2>2, SameSessions
<1>6. ASSUME NEW a \in Asks, Effects(a)
      PROVE  ChatInv'
  BY <1>1, <1>4, <1>5, <1>6, InsertSessionKeeps, LockKeeps DEF Effects
<1>7. CASE WeekTurns
  BY <1>1, <1>7, SameSessions DEF WeekTurns
<1>8. CASE Crash
  BY <1>1, <1>8, SameSessions DEF Crash, tables, At, Idle
<1>9. QED
  BY <1>1, <1>2, <1>3, <1>6, <1>7, <1>8, NextIs, DeleteSessionKeeps

LEMMA ChatInit ==
    ASSUME Init
    PROVE  ChatInv
<1>1. TypeOK
  BY DEF Init, TypeOK
<1>2. TurnsOfOwner
  BY DEF Init, TurnsOfOwner
<1>3. \A s \in Sessions : Conversation(s, 0)
  BY FS_EmptySet DEF Init, Conversation
<1>4. Conversations
  BY <1>3 DEF Conversations
<1>5. LockHeld
  BY DEF Init, LockHeld, Holds, At, Idle
<1>6. QED
  BY <1>1, <1>2, <1>4, <1>5 DEF ChatInv

LEMMA ChatInvariant == Spec => []ChatInv
<1>1. Init => ChatInv
  BY ChatInit
<1>2. ChatInv /\ [Next]_vars => ChatInv'
  BY ChatStep
<1>3. QED
  BY <1>1, <1>2, PTL DEF Spec

\* All values keep their types, for every set of users, sessions and requests.
THEOREM TypeCorrect == Spec => []TypeOK
<1>1. ChatInv => TypeOK
  BY DEF ChatInv
<1>2. QED
  BY <1>1, ChatInvariant, PTL

\* However many answers are stored at one time, and whatever fails on the
\* way, a conversation is numbered in pairs without gaps (append_turn_pair).
THEOREM ConversationsInPairs == Spec => []TurnsPaired
<1>1. ChatInv => TurnsPaired
  <2> SUFFICES ASSUME ChatInv, NEW s \in Sessions
               PROVE  \E n \in 0..Cardinality(turns[s]) :
                        /\ {t.seq : t \in turns[s]} = 1..2*n
                        /\ Cardinality(turns[s]) = 2*n
                        /\ \A t \in turns[s] :
                             t.role = "user" <=> t.seq % 2 = 1
    BY DEF TurnsPaired
  <2>1. PICK n \in Nat : Conversation(s, n)
    BY DEF ChatInv, Conversations
  <2>2. n \in 0..Cardinality(turns[s])
    BY <2>1 DEF Conversation
  <2>3. QED
    BY <2>1, <2>2 DEF Conversation
<1>2. QED
  BY <1>1, ChatInvariant, PTL

\* A session deleted and begun again by somebody else never receives the turns
\* of an answer that was under way (append_turn_pair).
THEOREM ConversationsAreOwn == Spec => []TurnsOfOwner
<1>1. ChatInv => TurnsOfOwner
  BY DEF ChatInv
<1>2. QED
  BY <1>1, ChatInvariant, PTL

\* The unique index never refuses a pair, so no complete answer is lost to
\* another one of the same session.
THEOREM NumbersNeverCollide == Spec => []NumbersFree
<1>1. ChatInv => NumbersFree
  BY PairIsFree DEF NumbersFree
<1>2. QED
  BY <1>1, ChatInvariant, PTL

-----------------------------------------------------------------------------
(* The quota *)

\* Requests that have passed CheckQuota, or need not.
Admitted == Stages \ {"quota"}

\* Nobody passes who would not leave room for all that may be in progress.
QuotaInv ==
    \A u \in Users \ Exempt :
      used[u] + Cardinality(UsersAt(u, Admitted)) < Limit + Cardinality(Asks)

LEMMA FiniteAt ==
    ASSUME NEW u, NEW P
    PROVE  /\ IsFiniteSet(UsersAt(u, P)) /\ IsFiniteSet(SessionsAt(u, P))
           /\ Cardinality(UsersAt(u, P)) \in Nat
           /\ Cardinality(SessionsAt(u, P)) \in Nat
           /\ Cardinality(Asks) \in Nat
           /\ Cardinality(UsersAt(u, P)) <= Cardinality(Asks)
<1>1. UsersAt(u, P) \subseteq Asks /\ SessionsAt(u, P) \subseteq Asks
  BY DEF UsersAt, SessionsAt
<1>2. QED
  BY <1>1, AsksAssumption, FS_Subset, FS_CardinalityType

\* Only CheckQuota admits a user the limit holds for.
LEMMA OnlyCheckQuotaAdmits ==
    ASSUME ChatInv, [Next]_vars, \A a \in Asks : ~CheckQuota(a),
           NEW u \in Users \ Exempt
    PROVE  UsersAt(u, Admitted)' \subseteq UsersAt(u, Admitted)
<1> SUFFICES ASSUME NEW b \in Asks, ask'[b].at \in Admitted,
                    ask'[b].user = u
             PROVE  ask[b].at \in Admitted /\ ask[b].user = u
  BY DEF UsersAt
<1> USE DEF Admitted, Stages, Idle, At, End, Goto
<1>1. ask \in [Asks -> Ask \cup {Idle}]
  BY DEF ChatInv, TypeOK
<1>2. CASE ask' = ask
  BY <1>2
<1>3. ASSUME NEW a \in Asks, Plain(a)
      PROVE  ask[b].at \in Admitted /\ ask[b].user = u
  BY <1>1, <1>3
     DEF Plain, Accept, CheckOwner, ListTurns, GetUsage, Disconnect,
         AnswerDone, AnswerOver, LockFails, AddTokensFails, RecordFails, Ask
<1>4. ASSUME NEW a \in Asks, Effects(a)
      PROVE  ask[b].at \in Admitted /\ ask[b].user = u
  BY <1>1, <1>4
     DEF Effects, InsertSession, Lock, InsertPair, PairFails, AddTokens,
         Record, Ask
<1>5. CASE Crash
  BY <1>5 DEF Crash
<1>6. QED
  BY <1>2, <1>3, <1>4, <1>5, NextIs DEF vars, DeleteSession, WeekTurns

LEMMA OnlyRecordCounts ==
    ASSUME ChatInv, [Next]_vars, \A a \in Asks : ~Record(a), ~WeekTurns
    PROVE  used' = used
<1>1. ASSUME NEW a \in Asks, Plain(a)
      PROVE  used' = used
  BY <1>1, PlainEffect DEF tables
<1>2. ASSUME NEW a \in Asks, Effects(a)
      PROVE  used' = used
  BY <1>2 DEF Effects, InsertSession, Lock, InsertPair, PairFails, AddTokens,
              Store, tables
<1>3. QED
  BY <1>1, <1>2, NextIs DEF vars, tables, DeleteSession, Crash

LEMMA QuotaStep ==
    ASSUME ChatInv, QuotaInv, [Next]_vars
    PROVE  QuotaInv'
<1> DEFINE n(u) == Cardinality(UsersAt(u, Admitted))
           all == Cardinality(Asks)
<1> SUFFICES ASSUME NEW u \in Users \ Exempt
             PROVE  used'[u] + n(u)' < Limit + all
  BY DEF QuotaInv
<1>1. n(u) \in Nat /\ n(u)' \in Nat /\ all \in Nat /\ n(u)' <= all
  <2>1. \A S \in SUBSET Asks : Cardinality(S) \in Nat
                                /\ Cardinality(S) <= all
    BY AsksAssumption, FS_Subset, FS_CardinalityType
  <2>2. UsersAt(u, Admitted)' \subseteq Asks
    BY DEF UsersAt
  <2>3. QED
    BY <2>1, <2>2, FiniteAt
<1>2. used[u] \in Nat /\ used[u] + n(u) < Limit + all
  BY DEF ChatInv, TypeOK, QuotaInv
<1>3. Limit \in Nat \ {0}
  BY LimitAssumption
<1>4. ASSUME UsersAt(u, Admitted)' \subseteq UsersAt(u, Admitted)
      PROVE  n(u)' <= n(u)
  BY <1>4, FiniteAt, FS_Subset
<1>5. ASSUME NEW a \in Asks, CheckQuota(a)
      PROVE  used'[u] + n(u)' < Limit + all
  <2>1. used' = used
    BY <1>5 DEF CheckQuota, tables
  <2>2. CASE used[u] < Limit
    BY <1>1, <1>2, <1>3, <2>1, <2>2
  <2>3. CASE ~(used[u] < Limit)
    <3>1. UsersAt(u, Admitted)' \subseteq UsersAt(u, Admitted)
      BY <1>5, <2>3
         DEF UsersAt, CheckQuota, WithinLimit, Admitted, Stages, Goto, End,
             Idle, At, ChatInv, TypeOK, Ask
    <3>2. QED
      BY <1>1, <1>2, <1>3, <1>4, <2>1, <3>1
  <2>4. QED
    BY <2>2, <2>3
<1>6. ASSUME NEW a \in Asks, Record(a)
      PROVE  used'[u] + n(u)' < Limit + all
  <2>1. UsersAt(u, Admitted)' \subseteq UsersAt(u, Admitted)
    BY <1>6 DEF UsersAt, Record, End, Idle, Admitted, Stages, ChatInv, TypeOK
  <2>2. CASE ask[a].user # u
    <3>1. used'[u] = used[u]
      BY <1>6, <2>2 DEF Record, ChatInv, TypeOK
    <3>2. QED
      BY <1>1, <1>2, <1>3, <1>4, <2>1, <3>1
  <2>3. CASE ask[a].user = u
    <3>1. used'[u] = used[u] + 1
      BY <1>6, <2>3 DEF Record, ChatInv, TypeOK
    <3>2. a \in UsersAt(u, Admitted)
      BY <1>6, <2>3 DEF UsersAt, Record, At, Admitted, Stages
    <3>3. a \notin UsersAt(u, Admitted)'
      BY <1>6 DEF UsersAt, Record, End, Idle, Admitted, Stages, ChatInv, TypeOK
    <3>4. UsersAt(u, Admitted)' \subseteq UsersAt(u, Admitted) \ {a}
      BY <2>1, <3>3
    <3>5. /\ IsFiniteSet(UsersAt(u, Admitted) \ {a})
          /\ Cardinality(UsersAt(u, Admitted) \ {a}) = n(u) - 1
      BY <3>2, FiniteAt, FS_RemoveElement
    <3>6. n(u)' <= n(u) - 1
      BY <3>4, <3>5, FS_Subset
    <3>7. QED
      BY <1>1, <1>2, <1>3, <3>1, <3>6
  <2>4. QED
    BY <2>2, <2>3
<1>7. CASE WeekTurns
  BY <1>1, <1>3, <1>7 DEF WeekTurns
<1>8. ASSUME \A a \in Asks : ~CheckQuota(a) /\ ~Record(a), ~WeekTurns
      PROVE  used'[u] + n(u)' < Limit + all
  BY <1>1, <1>2, <1>3, <1>4, <1>8, OnlyCheckQuotaAdmits, OnlyRecordCounts
<1>9. QED
  BY <1>5, <1>6, <1>7, <1>8

\* The weekly limit is exceeded by no more answers than there were requests in
\* progress besides the last one the limit let through (post_chat).
THEOREM QuotaIsBounded == Spec => []QuotaBounded
<1>1. Init => QuotaInv
  <2> SUFFICES ASSUME Init, NEW u \in Users \ Exempt
               PROVE  used[u] + Cardinality(UsersAt(u, Admitted))
                        < Limit + Cardinality(Asks)
    BY DEF QuotaInv
  <2>1. used[u] = 0
    BY DEF Init
  <2>2. QED
    BY <2>1, FiniteAt, LimitAssumption
<1>2. ChatInv /\ QuotaInv /\ [Next]_vars => QuotaInv'
  BY QuotaStep
<1>3. ChatInv /\ QuotaInv => QuotaBounded
  <2> SUFFICES ASSUME ChatInv, QuotaInv, NEW u \in Users \ Exempt
               PROVE  used[u] < Limit + Cardinality(Asks)
    BY DEF QuotaBounded
  <2>1. used[u] \in Nat
    BY DEF ChatInv, TypeOK
  <2>2. used[u] + Cardinality(UsersAt(u, Admitted))
          < Limit + Cardinality(Asks)
    BY DEF QuotaInv
  <2>3. QED
    BY <2>1, <2>2, FiniteAt, LimitAssumption
<1>4. QED
  BY <1>1, <1>2, <1>3, ChatInvariant, PTL DEF Spec

-----------------------------------------------------------------------------
(* What is counted and added up *)

Pending == {"tokens", "record"}

LEMMA FaultRemains ==
    ASSUME ChatInv, [Next]_vars, ~fault'
    PROVE  /\ ~fault
           /\ \A a \in Asks : ~PairFails(a) /\ ~AddTokensFails(a)
                                /\ ~RecordFails(a)
           /\ ~Crash
<1>1. ASSUME NEW a \in Asks, Plain(a)
      PROVE  ~fault
  BY <1>1 DEF Plain, Accept, CheckQuota, CheckOwner, ListTurns, GetUsage,
              Disconnect, AnswerDone, AnswerOver, LockFails, AddTokensFails,
              RecordFails, histories
<1>2. ASSUME NEW a \in Asks, Effects(a)
      PROVE  ~fault
  BY <1>2 DEF Effects, InsertSession, Lock, InsertPair, PairFails, AddTokens,
              Record, histories
<1>3. ~fault
  BY <1>1, <1>2, NextIs
     DEF vars, histories, DeleteSession, WeekTurns, Crash
<1>4. QED
  BY <1>3 DEF PairFails, AddTokensFails, RecordFails, Crash

\* Where a plain step leaves the answers that are stored and not yet counted.
LEMMA PlainPending ==
    ASSUME ChatInv, NEW a \in Asks, Plain(a) \/ InsertSession(a) \/ Lock(a),
           NEW u, NEW s
    PROVE  /\ ~RecordFails(a)
                => UsersAt(u, Pending)' = UsersAt(u, Pending)
           /\ ~AddTokensFails(a)
                => SessionsAt(s, {"tokens"})' = SessionsAt(s, {"tokens"})
<1> USE DEF Pending, At, End, Goto, Idle
<1>1. ask \in [Asks -> Ask \cup {Idle}]
  BY DEF ChatInv, TypeOK
<1>2. \A b \in Asks \ {a} : ask'[b] = ask[b]
  BY <1>1 DEF Plain, Accept, CheckQuota, CheckOwner, ListTurns, GetUsage,
              Disconnect, AnswerDone, AnswerOver, LockFails, AddTokensFails,
              RecordFails, InsertSession, Lock
<1>3. ASSUME ~RecordFails(a)
      PROVE  /\ ask'[a].at \in Pending <=> ask[a].at \in Pending
             /\ ask'[a].at \in Pending => ask'[a].user = ask[a].user
  BY <1>1, <1>3
     DEF Plain, Accept, CheckQuota, CheckOwner, ListTurns, GetUsage,
         Disconnect, AnswerDone, AnswerOver, LockFails, AddTokensFails,
         InsertSession, Lock, Ask
<1>4. ASSUME ~AddTokensFails(a)
      PROVE  ask'[a].at # "tokens" /\ ask[a].at # "tokens"
  BY <1>1, <1>4
     DEF Plain, Accept, CheckQuota, CheckOwner, ListTurns, GetUsage,
         Disconnect, AnswerDone, AnswerOver, LockFails, RecordFails,
         InsertSession, Lock, Ask
<1>5. QED
  BY <1>2, <1>3, <1>4 DEF UsersAt, SessionsAt

LEMMA CountedStep ==
    ASSUME ChatInv, CountedWereSaved, [Next]_vars
    PROVE  CountedWereSaved'
<1> DEFINE P(u) == UsersAt(u, Pending)
           n(u) == Cardinality(P(u))
<1> SUFFICES ASSUME NEW u \in Users \ Exempt
             PROVE  /\ counted'[u] + n(u)' <= saved'[u]
                    /\ ~fault' => counted'[u] + n(u)' = saved'[u]
  BY DEF CountedWereSaved, Pending
<1>1. /\ counted[u] \in Nat /\ saved[u] \in Nat /\ n(u) \in Nat
      /\ counted[u] + n(u) <= saved[u]
      /\ ~fault => counted[u] + n(u) = saved[u]
  BY FiniteAt DEF ChatInv, TypeOK, CountedWereSaved, Pending
<1>2. ~fault' => ~fault
  BY FaultRemains
<1>3. ASSUME P(u)' = P(u), counted' = counted,
             saved' = saved
      PROVE  /\ counted'[u] + n(u)' <= saved'[u]
             /\ ~fault' => counted'[u] + n(u)' = saved'[u]
  BY <1>1, <1>2, <1>3
<1>4. \A a : a \in P(u) => IsFiniteSet(P(u) \ {a})
                         /\ Cardinality(P(u) \ {a}) = n(u) - 1
  BY FiniteAt, FS_RemoveElement
<1>5. ASSUME NEW a \in Asks, Plain(a)
      PROVE  /\ counted'[u] + n(u)' <= saved'[u]
             /\ ~fault' => counted'[u] + n(u)' = saved'[u]
  <2>1. counted' = counted /\ saved' = saved
    BY <1>5, PlainEffect
  <2>2. CASE ~RecordFails(a)
    BY <1>3, <1>5, <2>1, <2>2, PlainPending
  <2>3. CASE RecordFails(a)
    <3>1. fault'
      BY <2>3 DEF RecordFails
    <3>2. P(u)' = P(u) \ {a}
      BY <2>3 DEF RecordFails, End, Idle, UsersAt, Pending, ChatInv, TypeOK
    <3>3. n(u)' <= n(u)
      BY <3>2, FiniteAt, FS_Subset
    <3>4. n(u)' \in Nat
      BY <3>2, FiniteAt, FS_Subset, FS_CardinalityType
    <3>5. QED
      BY <1>1, <2>1, <3>1, <3>3, <3>4
  <2>4. QED
    BY <2>2, <2>3
<1>6. ASSUME NEW a \in Asks, InsertSession(a) \/ Lock(a)
      PROVE  /\ counted'[u] + n(u)' <= saved'[u]
             /\ ~fault' => counted'[u] + n(u)' = saved'[u]
  <2>1. counted' = counted /\ saved' = saved
    BY <1>6 DEF InsertSession, Lock, histories
  <2>2. P(u)' = P(u)
    BY <1>6, PlainPending DEF RecordFails, InsertSession, Lock, At
  <2>3. QED
    BY <1>3, <2>1, <2>2
<1>7. ASSUME NEW a \in Asks, InsertPair(a)
      PROVE  /\ counted'[u] + n(u)' <= saved'[u]
             /\ ~fault' => counted'[u] + n(u)' = saved'[u]
  <2>1. ~Taken(a) /\ At(a, "pair") /\ ask[a] \in Ask
    BY <1>7, PairIsFree DEF InsertPair, At, ChatInv, TypeOK, Idle
  <2>2. Goto(a, "tokens") /\ Store(a)
    BY <1>7, <2>1 DEF InsertPair
  <2>3. CASE ask[a].user # u
    <3>1. P(u)' = P(u)
      BY <2>1, <2>2, <2>3 DEF Goto, UsersAt, Pending, At, Ask, ChatInv, TypeOK
    <3>2. counted'[u] = counted[u] /\ saved'[u] = saved[u]
      BY <2>1, <2>2, <2>3 DEF Store, Ask, ChatInv, TypeOK
    <3>3. QED
      BY <1>1, <1>2, <3>1, <3>2
  <2>4. CASE ask[a].user = u
    <3>1. P(u)' = P(u) \cup {a} /\ a \notin P(u)
      BY <2>1, <2>2, <2>4 DEF Goto, UsersAt, Pending, At, Ask, ChatInv, TypeOK
    <3>2. n(u)' = n(u) + 1
      BY <3>1, FiniteAt, FS_AddElement
    <3>3. counted'[u] = counted[u] /\ saved'[u] = saved[u] + 1
      BY <2>1, <2>2, <2>4 DEF Store, Ask, ChatInv, TypeOK
    <3>4. QED
      BY <1>1, <1>2, <3>2, <3>3
  <2>5. QED
    BY <2>3, <2>4
<1>8. ASSUME NEW a \in Asks, PairFails(a)
      PROVE  /\ counted'[u] + n(u)' <= saved'[u]
             /\ ~fault' => counted'[u] + n(u)' = saved'[u]
  <2>1. P(u)' = P(u)
    BY <1>8 DEF PairFails, End, Idle, UsersAt, Pending, At, ChatInv, TypeOK
  <2>2. fault' /\ counted' = counted
    BY <1>8 DEF PairFails, Store
  <2>3. saved'[u] \in {saved[u], saved[u] + 1}
    BY <1>8 DEF PairFails, Store, ChatInv, TypeOK
  <2>4. QED
    BY <1>1, <2>1, <2>2, <2>3
<1>9. ASSUME NEW a \in Asks, AddTokens(a)
      PROVE  /\ counted'[u] + n(u)' <= saved'[u]
             /\ ~fault' => counted'[u] + n(u)' = saved'[u]
  <2>1. ask[a] \in Ask
    BY <1>9 DEF AddTokens, At, ChatInv, TypeOK, Idle
  <2>2. P(u)' = P(u)
    BY <1>9, <2>1
       DEF AddTokens, Goto, UsersAt, Pending, At, Ask, ChatInv, TypeOK
  <2>3. QED
    BY <1>3, <1>9, <2>2 DEF AddTokens, histories
<1>10. ASSUME NEW a \in Asks, Record(a)
       PROVE  /\ counted'[u] + n(u)' <= saved'[u]
              /\ ~fault' => counted'[u] + n(u)' = saved'[u]
  <2>1. P(u)' = P(u) \ {a}
    BY <1>10 DEF Record, End, Idle, UsersAt, Pending, ChatInv, TypeOK
  <2>2. CASE ask[a].user # u
    <3>1. P(u)' = P(u)
      BY <2>1, <2>2 DEF UsersAt
    <3>2. counted'[u] = counted[u] /\ saved' = saved
      BY <1>10, <2>2 DEF Record, ChatInv, TypeOK
    <3>3. QED
      BY <1>1, <1>2, <3>1, <3>2
  <2>3. CASE ask[a].user = u
    <3>1. a \in P(u)
      BY <1>10, <2>3 DEF Record, UsersAt, Pending, At
    <3>2. n(u)' = n(u) - 1
      BY <1>4, <2>1, <3>1
    <3>3. counted'[u] = counted[u] + 1 /\ saved' = saved
      BY <1>10, <2>3 DEF Record, ChatInv, TypeOK
    <3>4. QED
      BY <1>1, <1>2, <3>2, <3>3
  <2>4. QED
    BY <2>2, <2>3
<1>11. ASSUME Crash
       PROVE  /\ counted'[u] + n(u)' <= saved'[u]
              /\ ~fault' => counted'[u] + n(u)' = saved'[u]
  <2>1. P(u)' = {}
    BY <1>11 DEF Crash, UsersAt, Pending, Idle
  <2>2. n(u)' = 0
    BY <2>1, FS_EmptySet
  <2>3. QED
    BY <1>1, <1>11, <2>2 DEF Crash
<1>12. ASSUME UNCHANGED vars \/ WeekTurns
                \/ \E v \in Users, s \in Sessions : DeleteSession(v, s)
       PROVE  /\ counted'[u] + n(u)' <= saved'[u]
              /\ ~fault' => counted'[u] + n(u)' = saved'[u]
  <2>1. ask' = ask /\ counted' = counted /\ saved' = saved
    BY <1>12 DEF vars, WeekTurns, DeleteSession, histories
  <2>2. P(u)' = P(u)
    BY <2>1 DEF UsersAt
  <2>3. QED
    BY <1>3, <2>1, <2>2
<1>13. QED
  BY <1>5, <1>6, <1>7, <1>8, <1>9, <1>10, <1>11, <1>12, NextIs DEF Effects

\* Nothing counts against the limit but an answer that was stored, and each
\* one once (the else branch after append_turn_pair).
THEOREM OnlySavedAnswersCount == Spec => []CountedWereSaved
<1>1. Init => CountedWereSaved
  <2> SUFFICES ASSUME Init, NEW u \in Users \ Exempt
               PROVE  LET n == counted[u] + Cardinality(UsersAt(u, Pending))
                      IN  n <= saved[u] /\ (~fault => n = saved[u])
    BY DEF CountedWereSaved, Pending
  <2>1. UsersAt(u, Pending) = {}
    BY DEF Init, UsersAt, Pending, Idle
  <2>2. Cardinality(UsersAt(u, Pending)) = 0
    BY <2>1, FS_EmptySet
  <2>3. counted[u] = 0 /\ saved[u] = 0
    BY DEF Init
  <2>4. QED
    BY <2>2, <2>3
<1>2. ChatInv /\ CountedWereSaved /\ [Next]_vars => CountedWereSaved'
  BY CountedStep
<1>3. QED
  BY <1>1, <1>2, ChatInvariant, PTL DEF Spec

LEMMA TokensStep ==
    ASSUME ChatInv, TokensAddUp, [Next]_vars
    PROVE  TokensAddUp'
<1> DEFINE P(s) == SessionsAt(s, {"tokens"})
           n(s) == Cardinality(P(s))
<1> SUFFICES ASSUME NEW s \in Sessions, ~fault', s \notin cut'
             PROVE  2 * (tokens'[s] + n(s)') = Cardinality(turns'[s])
  BY DEF TokensAddUp
<1>1. /\ ~fault /\ ~Crash
      /\ \A a \in Asks : ~PairFails(a) /\ ~AddTokensFails(a)
  BY FaultRemains
<1>2. tokens[s] \in Nat /\ n(s) \in Nat
  BY FiniteAt DEF ChatInv, TypeOK
<1>3. ASSUME s \notin cut
      PROVE  2 * (tokens[s] + n(s)) = Cardinality(turns[s])
  BY <1>1, <1>3 DEF TokensAddUp
<1>4. ASSUME P(s)' = P(s), tokens'[s] = tokens[s], turns'[s] = turns[s],
             cut' = cut
      PROVE  2 * (tokens'[s] + n(s)') = Cardinality(turns'[s])
  BY <1>3, <1>4
<1>5. ASSUME NEW a \in Asks, Plain(a) \/ InsertSession(a) \/ Lock(a)
      PROVE  2 * (tokens'[s] + n(s)') = Cardinality(turns'[s])
  <2>1. P(s)' = P(s)
    BY <1>1, <1>5, PlainPending
  <2>2. tokens' = tokens /\ turns' = turns /\ cut' = cut
    BY <1>5, PlainEffect DEF InsertSession, Lock, tables, histories
  <2>3. QED
    BY <1>4, <2>1, <2>2
<1>6. ASSUME NEW a \in Asks, InsertPair(a)
      PROVE  2 * (tokens'[s] + n(s)') = Cardinality(turns'[s])
  <2>1. ~Taken(a) /\ At(a, "pair") /\ ask[a] \in Ask
    BY <1>6, PairIsFree DEF InsertPair, At, ChatInv, TypeOK, Idle
  <2>2. Goto(a, "tokens") /\ Store(a)
    BY <1>6, <2>1 DEF InsertPair
  <2>3. CASE ask[a].session # s
    <3>1. P(s)' = P(s)
      BY <2>1, <2>2, <2>3 DEF Goto, SessionsAt, At, Ask, ChatInv, TypeOK
    <3>2. tokens' = tokens /\ turns'[s] = turns[s] /\ cut' = cut
      BY <2>1, <2>2, <2>3 DEF Store, Ask, ChatInv, TypeOK
    <3>3. QED
      BY <1>4, <3>1, <3>2
  <2>4. CASE ask[a].session = s
    <3>1. P(s)' = P(s) \cup {a} /\ a \notin P(s)
      BY <2>1, <2>2, <2>4 DEF Goto, SessionsAt, At, Ask, ChatInv, TypeOK
    <3>2. n(s)' = n(s) + 1
      BY <3>1, FiniteAt, FS_AddElement
    <3>3. PICK k \in Nat : Conversation(s, k)
      BY DEF ChatInv, Conversations
    <3>4. Conversation(s, k + 1)'
      BY <2>1, <2>2, <2>4, <3>3, PairContinues
    <3>5. /\ Cardinality(turns[s]) = 2*k
          /\ Cardinality(turns'[s]) = 2*(k + 1)
      BY <3>3, <3>4 DEF Conversation
    <3>6. tokens' = tokens /\ cut' = cut
      BY <2>2 DEF Store
    <3>7. QED
      BY <1>2, <1>3, <3>2, <3>5, <3>6
  <2>5. QED
    BY <2>3, <2>4
<1>7. ASSUME NEW a \in Asks, AddTokens(a)
      PROVE  2 * (tokens'[s] + n(s)') = Cardinality(turns'[s])
  <2>1. At(a, "tokens") /\ Goto(a, "record") /\ ask[a] \in Ask
    BY <1>7 DEF AddTokens, At, ChatInv, TypeOK, Idle
  <2>2. turns' = turns /\ cut' = cut
    BY <1>7 DEF AddTokens, histories
  <2>3. CASE ask[a].session # s
    <3>1. P(s)' = P(s)
      BY <2>1, <2>3 DEF Goto, SessionsAt, At, Ask, ChatInv, TypeOK
    <3>2. tokens'[s] = tokens[s]
      BY <1>7, <2>3 DEF AddTokens, ChatInv, TypeOK
    <3>3. QED
      BY <1>4, <2>2, <3>1, <3>2
  <2>4. CASE ask[a].session = s
    <3>1. P(s)' = P(s) \ {a} /\ a \in P(s)
      BY <2>1, <2>4 DEF Goto, SessionsAt, At, Ask, ChatInv, TypeOK
    <3>2. n(s)' = n(s) - 1
      BY <3>1, FiniteAt, FS_RemoveElement
    <3>3. n(s) # 0
      BY <3>1, FiniteAt, FS_EmptySet
    <3>4. Cardinality(turns[s]) # 0
      BY <1>2, <1>3, <2>2, <3>3
    <3>5. PICK t \in turns[s] : TRUE
      BY <3>4, FS_EmptySet
    <3>6. owner[s] # NoUser
      BY <3>5 DEF ChatInv, TypeOK, TurnsOfOwner, Turn
    <3>7. tokens'[s] = tokens[s] + 1
      BY <1>7, <2>4, <3>6 DEF AddTokens, ChatInv, TypeOK
    <3>8. QED
      BY <1>2, <1>3, <2>2, <3>2, <3>7
  <2>5. QED
    BY <2>3, <2>4
<1>8. ASSUME NEW a \in Asks, Record(a)
      PROVE  2 * (tokens'[s] + n(s)') = Cardinality(turns'[s])
  <2>1. P(s)' = P(s)
    BY <1>8 DEF Record, End, Idle, SessionsAt, At, ChatInv, TypeOK
  <2>2. QED
    BY <1>4, <1>8, <2>1 DEF Record
<1>9. ASSUME NEW u \in Users, NEW z \in Sessions, DeleteSession(u, z)
      PROVE  2 * (tokens'[s] + n(s)') = Cardinality(turns'[s])
  <2>1. P(s)' = P(s)
    BY <1>9 DEF DeleteSession, SessionsAt
  <2>2. CASE z # s
    <3>1. s \notin cut
      BY <1>9 DEF DeleteSession
    <3>2. tokens'[s] = tokens[s] /\ turns'[s] = turns[s]
      BY <1>9, <2>2 DEF DeleteSession, ChatInv, TypeOK
    <3>3. QED
      BY <1>3, <2>1, <3>1, <3>2
  <2>3. CASE z = s
    <3>1. P(s) = {}
      BY <1>9, <2>3 DEF DeleteSession
    <3>2. tokens'[s] = 0 /\ turns'[s] = {}
      BY <1>9, <2>3 DEF DeleteSession, ChatInv, TypeOK
    <3>3. n(s)' = 0 /\ Cardinality(turns'[s]) = 0
      BY <2>1, <3>1, <3>2, FS_EmptySet
    <3>4. QED
      BY <3>2, <3>3
  <2>4. QED
    BY <2>2, <2>3
<1>10. ASSUME UNCHANGED vars \/ WeekTurns
       PROVE  2 * (tokens'[s] + n(s)') = Cardinality(turns'[s])
  <2>1. ask' = ask /\ tokens' = tokens /\ turns' = turns /\ cut' = cut
    BY <1>10 DEF vars, WeekTurns, tables, histories
  <2>2. P(s)' = P(s)
    BY <2>1 DEF SessionsAt
  <2>3. QED
    BY <1>4, <2>1, <2>2
<1>11. QED
  BY <1>1, <1>5, <1>6, <1>7, <1>8, <1>9, <1>10, NextIs DEF Effects

\* The sum of a session's tokens loses and doubles no answer, however many are
\* added at one time (add_turn_tokens).
THEOREM TokensAreComplete == Spec => []TokensAddUp
<1>1. Init => TokensAddUp
  <2> SUFFICES ASSUME Init, NEW s \in Sessions
               PROVE  2 * (tokens[s] + Cardinality(SessionsAt(s, {"tokens"})))
                        = Cardinality(turns[s])
    BY DEF TokensAddUp
  <2>1. SessionsAt(s, {"tokens"}) = {} /\ turns[s] = {} /\ tokens[s] = 0
    BY DEF Init, SessionsAt, Idle
  <2>2. QED
    BY <2>1, FS_EmptySet
<1>2. ChatInv /\ TokensAddUp /\ [Next]_vars => TokensAddUp'
  BY TokensStep
<1>3. QED
  BY <1>1, <1>2, ChatInvariant, PTL DEF Spec
=============================================================================
