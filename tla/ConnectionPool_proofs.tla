----------------------- MODULE ConnectionPool_proofs -----------------------
(***************************************************************************)
(* Only writes that wait for a second connection ever stall the pool, and   *)
(* only as many as it has connections, whatever its size and however many   *)
(* calls there are.  The argument counts: every permit is free or held, so  *)
(* a pool where no holder goes on is held by PoolSize such writes.          *)
(***************************************************************************)
EXTENDS ConnectionPool, FiniteSetTheorems, SequenceTheorems, TLAPS

Distinct(s) == \A i, j \in 1..Len(s) : s[i] = s[j] => i = j

PoolInv ==
    /\ TypeOK
    /\ Distinct(queue)
    /\ free + Cardinality(first) + Cardinality(second) = PoolSize
    /\ \A c \in first \cup Waiting : kind[c] # "none"
    /\ \A c \in second : kind[c] = "write"
    /\ \A c \in first \cap Waiting : kind[c] = "write" /\ c \notin second

-----------------------------------------------------------------------------
(* The queue *)

LEMMA JoinQueue ==
    ASSUME NEW S, NEW s \in Seq(S), NEW c \in S
    PROVE  /\ Append(s, c) \in Seq(S)
           /\ Elements(Append(s, c)) = Elements(s) \cup {c}
           /\ Distinct(s) /\ c \notin Elements(s) => Distinct(Append(s, c))
<1>1. /\ Len(s) \in Nat
      /\ Append(s, c) \in Seq(S)
      /\ Len(Append(s, c)) = Len(s) + 1
      /\ \A k \in 1..Len(s) : Append(s, c)[k] = s[k]
      /\ Append(s, c)[Len(s) + 1] = c
  BY AppendProperties, LenProperties
<1>2. Elements(Append(s, c)) = Elements(s) \cup {c}
  <2>1. Elements(Append(s, c)) \subseteq Elements(s) \cup {c}
    BY <1>1 DEF Elements
  <2>2. Elements(s) \subseteq Elements(Append(s, c))
    <3> SUFFICES ASSUME NEW k \in 1..Len(s)
                 PROVE  s[k] \in Elements(Append(s, c))
      BY DEF Elements
    <3>1. k \in 1..Len(Append(s, c)) /\ Append(s, c)[k] = s[k]
      BY <1>1
    <3>2. QED
      BY <3>1 DEF Elements
  <2>3. c \in Elements(Append(s, c))
    <3>1. Len(s) + 1 \in 1..Len(Append(s, c))
      BY <1>1
    <3>2. QED
      BY <1>1, <3>1 DEF Elements
  <2>4. QED
    BY <2>1, <2>2, <2>3
<1>3. ASSUME Distinct(s), c \notin Elements(s)
      PROVE  Distinct(Append(s, c))
  BY <1>1, <1>3 DEF Distinct, Elements
<1>4. QED
  BY <1>1, <1>2, <1>3

LEMMA LeaveQueue ==
    ASSUME NEW S, NEW s \in Seq(S), NEW i \in 1..Len(s)
    PROVE  /\ Without(s, i) \in Seq(S)
           /\ Elements(Without(s, i)) \subseteq Elements(s)
           /\ Distinct(s) => /\ Distinct(Without(s, i))
                             /\ s[i] \notin Elements(Without(s, i))
<1> DEFINE w == Without(s, i)
<1>1. Len(s) \in Nat /\ \A k \in 1..Len(s) : s[k] \in S
  BY LenProperties, ElementOfSeq
<1>2. /\ Len(s) - 1 \in Nat
      /\ w = [k \in 1..Len(s)-1 |-> IF k < i THEN s[k] ELSE s[k + 1]]
  BY <1>1 DEF Without
<1>3. \A k \in 1..Len(s)-1 : k \in 1..Len(s) /\ k + 1 \in 1..Len(s)
  BY <1>1
<1>4. w \in Seq(S)
  <2>1. w \in [1..Len(s)-1 -> S]
    BY <1>1, <1>2, <1>3
  <2>2. QED
    BY <1>2, <2>1, SeqDef
<1>5. Len(w) = Len(s) - 1
  <2>1. DOMAIN w = 1..Len(s)-1
    BY <1>2
  <2>2. QED
    BY <1>2, <1>4, <2>1, LenProperties
<1>6. \A k \in 1..Len(w) : w[k] = IF k < i THEN s[k] ELSE s[k + 1]
  BY <1>2, <1>5
<1> HIDE DEF w
<1>7. Elements(w) \subseteq Elements(s)
  BY <1>3, <1>5, <1>6 DEF Elements
<1>8. ASSUME Distinct(s)
      PROVE  Distinct(w) /\ s[i] \notin Elements(w)
  <2>1. ASSUME NEW j \in 1..Len(w), NEW k \in 1..Len(w), w[j] = w[k]
        PROVE  j = k
    <3> DEFINE j1 == IF j < i THEN j ELSE j + 1
               k1 == IF k < i THEN k ELSE k + 1
    <3>1. j1 \in 1..Len(s) /\ k1 \in 1..Len(s) /\ w[j] = s[j1] /\ w[k] = s[k1]
      BY <1>3, <1>5, <1>6
    <3>2. j1 = k1
      BY <1>8, <2>1, <3>1 DEF Distinct
    <3>3. QED
      BY <1>1, <1>5, <3>2
  <2>2. ASSUME NEW k \in 1..Len(w), w[k] = s[i]
        PROVE  FALSE
    <3> DEFINE k1 == IF k < i THEN k ELSE k + 1
    <3>1. k1 \in 1..Len(s) /\ w[k] = s[k1] /\ k1 # i
      BY <1>1, <1>3, <1>5, <1>6
    <3>2. QED
      BY <1>8, <2>2, <3>1 DEF Distinct
  <2>3. QED
    BY <2>1, <2>2 DEF Distinct, Elements
<1>9. QED
  BY <1>4, <1>7, <1>8 DEF w

LEMMA HeadOfQueue ==
    ASSUME NEW S, NEW s \in Seq(S), s # <<>>
    PROVE  /\ Head(s) \in Elements(s) /\ Head(s) \in S
           /\ Tail(s) \in Seq(S)
           /\ Elements(Tail(s)) \subseteq Elements(s)
           /\ Distinct(s) => Distinct(Tail(s)) /\ Head(s) \notin Elements(Tail(s))
<1>1. /\ Len(s) \in Nat \ {0}
      /\ Head(s) = s[1] /\ Head(s) \in S
      /\ Tail(s) \in Seq(S)
      /\ Len(Tail(s)) = Len(s) - 1
      /\ \A k \in 1..Len(Tail(s)) : Tail(s)[k] = s[k + 1]
  BY HeadTailProperties, EmptySeq, LenProperties
<1>2. \A k \in 1..Len(Tail(s)) : k + 1 \in 1..Len(s) /\ k + 1 # 1
  BY <1>1
<1>3. 1 \in 1..Len(s)
  BY <1>1
<1>4. QED
  BY <1>1, <1>2, <1>3 DEF Elements, Distinct

-----------------------------------------------------------------------------
(* The holders *)

LEMMA Counting ==
    ASSUME TypeOK
    PROVE  /\ IsFiniteSet(first) /\ Cardinality(first) \in Nat
           /\ IsFiniteSet(second) /\ Cardinality(second) \in Nat
<1>1. first \in SUBSET Calls /\ second \in SUBSET Calls
  BY DEF TypeOK
<1>2. QED
  BY <1>1, CallsAssumption, FS_Subset, FS_CardinalityType

\* A returning call leaves the rest of the invariant alone once its own place
\* in the queue is gone.
LEMMA ReturnKeepsInv ==
    ASSUME PoolInv, NEW c \in Calls, Return(c),
           queue' \in Seq(Calls), Distinct(queue'),
           Elements(queue') \subseteq Elements(queue) \ {c}
    PROVE  PoolInv'
<1> USE DEF PoolInv
<1>1. /\ kind' = [kind EXCEPT ![c] = "none"]
      /\ first' = first \ {c} /\ second' = second \ {c}
      /\ free' = free + Held(c)
  BY DEF Return
<1>2. kind \in [Calls -> {"none", "read", "write"}] /\ second \subseteq first
      /\ first \subseteq Calls /\ free \in 0..PoolSize
  BY DEF TypeOK
<1>3. /\ IsFiniteSet(first) /\ Cardinality(first) \in Nat
      /\ IsFiniteSet(second) /\ Cardinality(second) \in Nat
  BY Counting
<1>4. /\ Cardinality(first') = IF c \in first THEN Cardinality(first) - 1
                                              ELSE Cardinality(first)
      /\ Cardinality(second') = IF c \in second THEN Cardinality(second) - 1
                                                ELSE Cardinality(second)
      /\ IsFiniteSet(first') /\ IsFiniteSet(second')
  BY <1>1, <1>3, FS_RemoveElement
<1>5. Cardinality(first') \in Nat /\ Cardinality(second') \in Nat
  BY <1>4, FS_CardinalityType
<1>6. free' + Cardinality(first') + Cardinality(second') = PoolSize
  BY <1>1, <1>2, <1>3, <1>4, PoolSizeAssumption DEF Held
<1>7. free' \in 0..PoolSize
  BY <1>1, <1>2, <1>5, <1>6, PoolSizeAssumption DEF Held
<1>8. TypeOK'
  BY <1>1, <1>2, <1>7 DEF TypeOK
<1>9. \A d \in Calls \ {c} : kind'[d] = kind[d]
  BY <1>1, <1>2
<1>10. \A d \in first' \cup Elements(queue') : d # c /\ d \in first \cup Elements(queue)
  BY <1>1
<1>11. Elements(queue') \subseteq Calls
  BY ElementOfSeq, LenProperties DEF Elements
<1>12. QED
  BY <1>1, <1>2, <1>6, <1>8, <1>9, <1>10, <1>11 DEF Waiting

-----------------------------------------------------------------------------

LEMMA InitPoolInv == Init => PoolInv
<1> SUFFICES ASSUME Init PROVE PoolInv
  OBVIOUS
<1>1. queue = <<>> /\ first = {} /\ second = {} /\ free = PoolSize
      /\ kind = [c \in Calls |-> "none"]
  BY DEF Init
<1>2. queue \in Seq(Calls) /\ Len(queue) = 0
  BY <1>1, EmptySeq
<1>3. Waiting = {} /\ Distinct(queue)
  BY <1>2 DEF Waiting, Elements, Distinct
<1>4. Cardinality({}) = 0
  BY FS_EmptySet
<1>5. QED
  BY <1>1, <1>2, <1>3, <1>4, PoolSizeAssumption
  DEF PoolInv, TypeOK

LEMMA StepPoolInv == PoolInv /\ [Next]_vars => PoolInv'
<1> SUFFICES ASSUME PoolInv, [Next]_vars PROVE PoolInv'
  OBVIOUS
<1>1. /\ kind \in [Calls -> {"none", "read", "write"}]
      /\ first \subseteq Calls /\ second \subseteq first
      /\ free \in 0..PoolSize /\ queue \in Seq(Calls)
      /\ Elements(queue) \subseteq Calls
  BY ElementOfSeq, LenProperties DEF PoolInv, TypeOK, Elements
<1>2. /\ IsFiniteSet(first) /\ Cardinality(first) \in Nat
      /\ IsFiniteSet(second) /\ Cardinality(second) \in Nat
  BY Counting DEF PoolInv
<1>3. ASSUME NEW c \in Calls, NEW k \in {"read", "write"}, Begin(c, k)
      PROVE  PoolInv'
  <2>1. /\ kind[c] = "none" /\ kind' = [kind EXCEPT ![c] = k]
        /\ queue' = Append(queue, c) /\ UNCHANGED <<first, second, free>>
    BY <1>3 DEF Begin
  <2>2. c \notin first /\ c \notin Elements(queue)
    BY <2>1 DEF PoolInv, Waiting
  <2>3. /\ queue' \in Seq(Calls) /\ Distinct(queue')
        /\ Elements(queue') = Elements(queue) \cup {c}
    BY <1>1, <2>1, <2>2, JoinQueue DEF PoolInv
  <2>4. \A d \in Calls \ {c} : kind'[d] = kind[d]
    BY <1>1, <2>1
  <2>5. kind'[c] = k
    BY <1>1, <2>1
  <2>6. TypeOK'
    BY <1>1, <2>1, <2>3 DEF TypeOK
  <2>7. QED
    BY <1>1, <2>1, <2>2, <2>3, <2>4, <2>5, <2>6 DEF PoolInv, Waiting
<1>4. CASE Grant
  <2> DEFINE c == Head(queue)
  <2>1. /\ free > 0 /\ queue # <<>>
        /\ first' = first \cup {c}
        /\ second' = IF c \in first THEN second \cup {c} ELSE second
        /\ free' = free - 1 /\ queue' = Tail(queue) /\ kind' = kind
    BY <1>4 DEF Grant
  <2>2. /\ c \in Elements(queue) /\ c \in Calls
        /\ queue' \in Seq(Calls) /\ Distinct(queue')
        /\ Elements(queue') \subseteq Elements(queue)
        /\ c \notin Elements(queue')
    BY <1>1, <2>1, HeadOfQueue DEF PoolInv
  <2> HIDE DEF c
  <2>3. kind[c] # "none" /\ (c \in first => kind[c] = "write" /\ c \notin second)
    BY <2>2 DEF PoolInv, Waiting
  <2>4. free' + Cardinality(first') + Cardinality(second') = PoolSize
    <3>1. CASE c \in first
      <4>1. first' = first /\ second' = second \cup {c}
        BY <2>1, <3>1
      <4>2. Cardinality(second') = Cardinality(second) + 1
        BY <1>2, <2>3, <3>1, <4>1, FS_AddElement
      <4>3. free + Cardinality(first) + Cardinality(second) = PoolSize
        BY DEF PoolInv
      <4>4. free \in Int /\ PoolSize \in Int
        BY <1>1, PoolSizeAssumption
      <4>5. free' = free - 1 /\ Cardinality(first') = Cardinality(first)
        BY <2>1, <4>1
      <4>6. QED
        BY <1>2, <4>2, <4>3, <4>4, <4>5
    <3>2. CASE c \notin first
      <4>1. second' = second
        BY <2>1, <3>2
      <4>2. Cardinality(first') = Cardinality(first) + 1
        BY <1>2, <2>1, <3>2, FS_AddElement
      <4>3. free + Cardinality(first) + Cardinality(second) = PoolSize
        BY DEF PoolInv
      <4>4. free \in Int /\ PoolSize \in Int
        BY <1>1, PoolSizeAssumption
      <4>5. free' = free - 1 /\ Cardinality(second') = Cardinality(second)
        BY <2>1, <4>1
      <4>6. QED
        BY <1>2, <4>2, <4>3, <4>4, <4>5
    <3>3. QED
      BY <3>1, <3>2
  <2>5. TypeOK'
    <3>1. free' \in 0..PoolSize
      BY <1>1, <2>1, PoolSizeAssumption
    <3>2. QED
      BY <1>1, <2>1, <2>2, <3>1 DEF TypeOK
  <2>6. QED
    BY <1>1, <2>1, <2>2, <2>3, <2>4, <2>5 DEF PoolInv, Waiting
<1>5. ASSUME NEW c \in Calls, ReadDone(c) \/ WriteFailed(c) \/ WriteDone(c)
      PROVE  PoolInv'
  <2>1. Return(c) /\ queue' = queue /\ c \notin Waiting
    BY <1>5 DEF ReadDone, WriteFailed, WriteDone, Runs
  <2>2. QED
    BY <1>1, <2>1, ReturnKeepsInv DEF PoolInv, Waiting
<1>6. ASSUME NEW c \in Calls, Reread(c)
      PROVE  PoolInv'
  <2>1. /\ kind[c] = "write" /\ c \in first /\ c \notin Elements(queue)
        /\ c \notin second
        /\ queue' = Append(queue, c) /\ UNCHANGED <<kind, first, second, free>>
    BY <1>6 DEF Reread, Runs, Waiting
  <2>2. /\ queue' \in Seq(Calls) /\ Distinct(queue')
        /\ Elements(queue') = Elements(queue) \cup {c}
    BY <1>1, <2>1, JoinQueue DEF PoolInv
  <2>3. TypeOK'
    BY <1>1, <2>1, <2>2 DEF TypeOK
  <2>4. QED
    BY <2>1, <2>2, <2>3 DEF PoolInv, Waiting
<1>7. ASSUME NEW c \in Calls, Drop(c)
      PROVE  PoolInv'
  <2>1. Return(c)
    BY <1>7 DEF Drop
  <2>2. CASE c \notin Waiting
    <3>1. queue' = queue
      BY <1>7, <2>2 DEF Drop
    <3>2. QED
      BY <1>1, <2>1, <2>2, <3>1, ReturnKeepsInv DEF PoolInv, Waiting
  <2>3. CASE c \in Waiting
    <3>1. PICK i \in 1..Len(queue) : queue[i] = c /\ queue' = Without(queue, i)
      BY <1>7, <2>3 DEF Drop
    <3>2. /\ queue' \in Seq(Calls) /\ Distinct(queue')
          /\ Elements(queue') \subseteq Elements(queue) \ {c}
      BY <1>1, <3>1, LeaveQueue DEF PoolInv
    <3>3. QED
      BY <2>1, <3>2, ReturnKeepsInv
  <2>4. QED
    BY <2>2, <2>3
<1>8. CASE UNCHANGED vars
  BY <1>8 DEF vars, PoolInv, TypeOK, Waiting
<1>9. QED
  BY <1>3, <1>4, <1>5, <1>6, <1>7, <1>8 DEF Next, Step

\* A stalled pool is one of PoolSize writes that wait for a second connection.
LEMMA StallIsDeadlock == PoolInv => NoStall
<1> SUFFICES ASSUME PoolInv, queue # <<>>, ~(free > 0), \A c \in first : ~Runs(c)
             PROVE  Deadlocked
  BY DEF NoStall
<1>1. first \subseteq Calls /\ second \subseteq first /\ free \in 0..PoolSize
  BY DEF PoolInv, TypeOK
<1>2. \A c \in first : c \in Waiting
  BY DEF Runs
<1>3. second = {}
  BY <1>1, <1>2 DEF PoolInv
<1>4. first = {c \in Calls : WaitsForSecond(c)}
  BY <1>1, <1>2 DEF PoolInv, WaitsForSecond
<1>5. Cardinality(first) = PoolSize
  <2>1. free = 0
    BY <1>1, PoolSizeAssumption
  <2>2. Cardinality(second) = 0
    BY <1>3, FS_EmptySet
  <2>3. Cardinality(first) \in Nat
    BY Counting DEF PoolInv
  <2>4. QED
    BY <2>1, <2>2, <2>3, PoolSizeAssumption DEF PoolInv
<1>6. QED
  BY <1>4, <1>5 DEF Deadlocked

\* Some call can always go on unless every connection belongs to a write that
\* waits for a second one, for every pool size and any mix of calls.
THEOREM PoolNeverStalls == Spec => []NoStall
<1>1. Spec => []PoolInv
  BY InitPoolInv, StepPoolInv, PTL DEF Spec
<1>2. QED
  BY <1>1, StallIsDeadlock, PTL

\* Permits stay within the size of the pool, and only calls that hold a first
\* connection hold or want a second.
THEOREM PoolTypeCorrect == Spec => []TypeOK
<1>1. Spec => []PoolInv
  BY InitPoolInv, StepPoolInv, PTL DEF Spec
<1>2. PoolInv => TypeOK
  BY DEF PoolInv
<1>3. QED
  BY <1>1, <1>2, PTL
=============================================================================
