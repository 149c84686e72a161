--------------------------- MODULE ConnectionPool ---------------------------
(***************************************************************************)
(* The pool of PostgreSQL connections behind every repository function.     *)
(*                                                                          *)
(* A call takes a connection and keeps it until it returns.  The functions  *)
(* that write a row and answer with it (servers::insert and ::update,       *)
(* server_suggestions::insert and ::update, users::create and               *)
(* ::update_profile) call the SELECT that takes a connection of its own     *)
(* while they still hold theirs: they hold one and wait for another.  The   *)
(* pool is built without any timeout.                                       *)
(*                                                                          *)
(* A call of this module is one call of a repository function.              *)
(***************************************************************************)
EXTENDS Integers, Sequences, FiniteSets

CONSTANTS Calls,      \* calls that may be in progress at the same time
          PoolSize    \* --db-pool-size

ASSUME CallsAssumption == IsFiniteSet(Calls)
ASSUME PoolSizeAssumption == PoolSize \in Nat \ {0}

VARIABLES kind,    \* what each call is, "none" when it is not in progress
          first,   \* the calls that hold a connection
          second,  \* the calls that hold another one as well
          free,    \* permits of the pool's semaphore
          queue    \* the calls that wait for a permit, in order

vars == <<kind, first, second, free, queue>>

Elements(s) == {s[k] : k \in 1..Len(s)}

Waiting == Elements(queue)

TypeOK ==
    /\ kind \in [Calls -> {"none", "read", "write"}]
    /\ first \in SUBSET Calls
    /\ second \in SUBSET first
    /\ free \in 0..PoolSize
    /\ queue \in Seq(Calls)

Init ==
    /\ kind = [c \in Calls |-> "none"]
    /\ first = {}
    /\ second = {}
    /\ free = PoolSize
    /\ queue = <<>>

\* Pool::get, first half: queue up behind the calls that wait already.
Begin(c, k) ==
    /\ kind[c] = "none"
    /\ kind' = [kind EXCEPT ![c] = k]
    /\ queue' = Append(queue, c)
    /\ UNCHANGED <<first, second, free>>

\* Mutant: a permit goes to the call that asked last.
GrantNewest ==
    /\ free > 0
    /\ queue # <<>>
    /\ LET c == queue[Len(queue)] IN
         /\ first' = first \cup {c}
         /\ second' = IF c \in first THEN second \cup {c} ELSE second
    /\ free' = free - 1
    /\ queue' = SubSeq(queue, 1, Len(queue) - 1)
    /\ UNCHANGED kind

\* Pool::get, second half: the semaphore hands its permits out in order.
Grant ==
    /\ free > 0
    /\ queue # <<>>
    /\ LET c == Head(queue) IN
         /\ first' = first \cup {c}
         /\ second' = IF c \in first THEN second \cup {c} ELSE second
    /\ free' = free - 1
    /\ queue' = Tail(queue)
    /\ UNCHANGED kind

Held(c) == (IF c \in first THEN 1 ELSE 0) + (IF c \in second THEN 1 ELSE 0)

\* Mutant: only one connection comes back.
ReturnKeepingOne(c) ==
    /\ kind' = [kind EXCEPT ![c] = "none"]
    /\ first' = first \ {c}
    /\ second' = second \ {c}
    /\ free' = IF c \in first THEN free + 1 ELSE free

\* The function returns: its connections are dropped.
Return(c) ==
    /\ kind' = [kind EXCEPT ![c] = "none"]
    /\ first' = first \ {c}
    /\ second' = second \ {c}
    /\ free' = free + Held(c)

Runs(c) == c \in first /\ c \notin Waiting

\* A function of one connection answers, or its statement fails.
ReadDone(c) ==
    /\ kind[c] = "read" /\ Runs(c)
    /\ Return(c)
    /\ UNCHANGED queue

\* INSERT or UPDATE went through: get(pool, id) asks for a connection.
Reread(c) ==
    /\ kind[c] = "write" /\ Runs(c) /\ c \notin second
    /\ queue' = Append(queue, c)
    /\ UNCHANGED <<kind, first, second, free>>

\* INSERT or UPDATE failed: the error is returned at once.
WriteFailed(c) ==
    /\ kind[c] = "write" /\ Runs(c) /\ c \notin second
    /\ Return(c)
    /\ UNCHANGED queue

WriteDone(c) ==
    /\ kind[c] = "write" /\ Runs(c) /\ c \in second
    /\ Return(c)
    /\ UNCHANGED queue

Without(s, i) == [k \in 1..Len(s)-1 |-> IF k < i THEN s[k] ELSE s[k + 1]]

\* The request's future is dropped, wherever the call is.
Drop(c) ==
    /\ kind[c] # "none"
    /\ Return(c)
    /\ IF c \in Waiting
       THEN \E i \in 1..Len(queue) :
              queue[i] = c /\ queue' = Without(queue, i)
       ELSE UNCHANGED queue

Step(c) == ReadDone(c) \/ Reread(c) \/ WriteFailed(c) \/ WriteDone(c)

Next ==
    \/ \E c \in Calls, k \in {"read", "write"} : Begin(c, k)
    \/ Grant
    \/ \E c \in Calls : Step(c) \/ Drop(c)

Spec == Init /\ [][Next]_vars

\* PostgreSQL answers every statement; a free permit is handed out.
Fairness ==
    /\ WF_vars(Grant)
    /\ \A c \in Calls : WF_vars(Step(c))

FairSpec == Spec /\ Fairness

-----------------------------------------------------------------------------
(* Properties *)

\* Every connection belongs to a write that waits for a second one
\* (servers::insert calling servers::get): until one of them is dropped, none
\* of them goes on, and no timeout ends it.
WaitsForSecond(c) == kind[c] = "write" /\ c \in first /\ c \in Waiting

Deadlocked == Cardinality({c \in Calls : WaitsForSecond(c)}) = PoolSize

\* That deadlock is the only way to be stuck: while a call waits, a connection
\* is free or some call that holds one can go on.
NoStall ==
    \/ queue = <<>>
    \/ free > 0
    \/ \E c \in first : Runs(c)
    \/ Deadlocked

\* Every call of a repository function returns, however many other calls come
\* after it, unless the pool ends up in that deadlock for good.
Answered ==
    \/ \A c \in Calls : kind[c] # "none" ~> kind[c] = "none"
    \/ <>[]Deadlocked
=============================================================================
