-------------------------- MODULE WebWidgets_proofs --------------------------
(***************************************************************************)
(* Proofs about the widgets of the browser, for every instance of its       *)
(* parts: the chat, for any number of questions and parts of an answer; the *)
(* hydration of charts and their cards; the labels of a chart's events; and *)
(* what a chart draws, its legend, tooltip and axis.  Each part has an      *)
(* invariant of its own, which the steps of the others leave alone.         *)
(***************************************************************************)
EXTENDS Web, FiniteSets, SequenceTheorems, FiniteSetTheorems, WellFoundedInduction, TLAPS

-----------------------------------------------------------------------------
(* Sequences                                                                 *)

LEMMA MadeSeq ==
    ASSUME NEW S, NEW n \in Nat, NEW f, DOMAIN f = 1 .. n, f = [i \in 1 .. n |-> f[i]],
           \A i \in 1 .. n : f[i] \in S
    PROVE  f \in Seq(S) /\ Len(f) = n
<1>1. f \in [1 .. n -> S]
  OBVIOUS
<1>2. QED
  BY <1>1

LEMMA ReadSeq ==
    ASSUME NEW S, NEW s \in Seq(S)
    PROVE  /\ Len(s) \in Nat /\ DOMAIN s = 1 .. Len(s) /\ s = [i \in 1 .. Len(s) |-> s[i]]
           /\ \A i \in DOMAIN s : s[i] \in S
<1>1. s \in [1 .. Len(s) -> S] /\ Len(s) \in Nat
  OBVIOUS
<1>2. QED
  BY <1>1

\* The cardinality ChatWidget counts with
LEMMA SameCount == ASSUME NEW S PROVE Chat!Cardinality(S) = Cardinality(S)
BY DEF Chat!Cardinality, Cardinality

\* Of messages whose first n are no draft, and whose others are, n are kept.
LEMMA FirstAreKept ==
    ASSUME NEW ms, NEW n \in Nat, {i \in DOMAIN ms : ms[i].id # Chat!STREAMING_ID} = 1 .. n
    PROVE  Chat!WithoutDraft(ms) = [k \in 1 .. n |-> ms[k]]
<1> DEFINE kept == {i \in DOMAIN ms : ms[i].id # Chat!STREAMING_ID}
<1>1. Chat!WithoutDraft(ms) = [k \in 1 .. Chat!Cardinality(kept) |->
                            ms[CHOOSE i \in kept : Chat!Cardinality({j \in kept : j <= i}) = k]]
  BY DEF Chat!WithoutDraft
<1>2. kept = 1 .. n
  OBVIOUS
<1> HIDE DEF kept
<1>3. Chat!Cardinality(kept) = n
  BY <1>2, FS_Interval, SameCount
<1>4. ASSUME NEW i \in kept PROVE Chat!Cardinality({j \in kept : j <= i}) = i
  <2>1. {j \in kept : j <= i} = 1 .. i
    BY <1>2
  <2>2. i \in Nat /\ Chat!Cardinality(1 .. i) = i
    BY <1>2, FS_Interval, SameCount
  <2>3. QED
    BY <2>1, <2>2
<1>5. ASSUME NEW k \in 1 .. n
      PROVE  (CHOOSE i \in kept : Chat!Cardinality({j \in kept : j <= i}) = k) = k
  BY <1>2, <1>4
<1>6. QED
  BY <1>1, <1>3, <1>5

-----------------------------------------------------------------------------
(* Parts of an answer                                                        *)

\* What was read stays, and what is new was written by t.
Grows(old, new, t) ==
    /\ new \in Seq(Chat!Part) /\ Len(old) <= Len(new)
    /\ \A p \in DOMAIN old : old[p].by \subseteq new[p].by
    /\ (\A p \in DOMAIN old : old[p].by = {t}) => \A p \in DOMAIN new : new[p].by = {t}

LEMMA Maps ==
    ASSUME NEW old \in Seq(Chat!Part), NEW new, NEW t, DOMAIN new = DOMAIN old,
           new = [p \in DOMAIN old |-> new[p]],
           \A p \in DOMAIN old : new[p] = old[p] \/ new[p] = Chat!Closed(old[p])
    PROVE  Grows(old, new, t) /\ Len(new) = Len(old)
<1>1. Len(old) \in Nat /\ DOMAIN old = 1 .. Len(old) /\ \A p \in DOMAIN old : old[p] \in Chat!Part
  BY ReadSeq
<1>2. \A p \in DOMAIN old : new[p] \in Chat!Part /\ new[p].by = old[p].by
  BY <1>1 DEF Chat!Part, Chat!Closed
<1>3. new \in Seq(Chat!Part) /\ Len(new) = Len(old)
  BY <1>1, <1>2, MadeSeq
<1>4. QED
  BY <1>1, <1>2, <1>3 DEF Grows

LEMMA Closes ==
    ASSUME NEW old \in Seq(Chat!Part), NEW t
    PROVE  /\ Grows(old, Chat!closeStreamingReasoning(old), t)
           /\ Grows(old, Chat!finalizeParts(old), t) /\ Len(Chat!finalizeParts(old)) = Len(old)
<1>1. PICK a, b : a = Chat!closeStreamingReasoning(old) /\ b = Chat!finalizeParts(old)
  OBVIOUS
<1>2. DOMAIN a = DOMAIN old /\ a = [p \in DOMAIN old |-> a[p]]
      /\ \A p \in DOMAIN old : a[p] = old[p] \/ a[p] = Chat!Closed(old[p])
  BY <1>1 DEF Chat!closeStreamingReasoning
<1>3. DOMAIN b = DOMAIN old /\ b = [p \in DOMAIN old |-> b[p]]
      /\ \A p \in DOMAIN old : b[p] = old[p] \/ b[p] = Chat!Closed(old[p])
  BY <1>1 DEF Chat!finalizeParts
<1>4. Grows(old, a, t)
  BY <1>2, Maps
<1>5. Grows(old, b, t) /\ Len(b) = Len(old)
  BY <1>3, Maps
<1>6. QED
  BY <1>1, <1>4, <1>5

LEMMA ToolDone ==
    ASSUME NEW old \in Seq(Chat!Part), NEW t PROVE Grows(old, Chat!markToolDone(old), t)
<1>1. PICK a : a = Chat!markToolDone(old)
  OBVIOUS
<1>2. Len(old) \in Nat /\ DOMAIN old = 1 .. Len(old) /\ old = [p \in 1 .. Len(old) |-> old[p]]
  BY ReadSeq
<1>3. a = old \/ \E x : a = [old EXCEPT ![x] = Chat!Closed(@)]
  BY <1>1 DEF Chat!markToolDone
<1>4. DOMAIN a = DOMAIN old /\ a = [p \in DOMAIN old |-> a[p]]
      /\ \A p \in DOMAIN old : a[p] = old[p] \/ a[p] = Chat!Closed(old[p])
  BY <1>2, <1>3
<1>5. QED
  BY <1>1, <1>4, Maps

LEMMA Appends ==
    ASSUME NEW old \in Seq(Chat!Part), NEW t \in Chat!Turns, NEW kind \in {"reasoning", "tool", "text"}
    PROVE  Grows(old, Append(old, [kind |-> kind, live |-> TRUE, by |-> {t}]), t)
<1>1. PICK x \in Chat!Part : x = [kind |-> kind, live |-> TRUE, by |-> {t}]
  BY DEF Chat!Part
<1>2. x.by = {t}
  BY <1>1
<1>3. PICK a : a = Append(old, x)
  OBVIOUS
<1>4. /\ a \in Seq(Chat!Part) /\ Len(a) = Len(old) + 1
      /\ \A p \in 1 .. Len(old) : a[p] = old[p]
      /\ a[Len(old) + 1] = x
  BY <1>3, AppendProperties
<1>5. Len(old) \in Nat /\ DOMAIN old = 1 .. Len(old) /\ DOMAIN a = 1 .. Len(old) + 1
  BY <1>4, ReadSeq
<1>6. \A p \in DOMAIN a : p \in DOMAIN old \/ p = Len(old) + 1
  BY <1>5
<1>7. Grows(old, a, t)
  BY <1>2, <1>4, <1>5, <1>6 DEF Grows
<1>8. QED
  BY <1>1, <1>3, <1>7

LEMMA Extends ==
    ASSUME NEW old \in Seq(Chat!Part), NEW t \in Chat!Turns, NEW kind \in {"reasoning", "tool", "text"}
    PROVE  Grows(old, Chat!Extended(old, kind, t), t)
<1>1. CASE ~Chat!LastIsLive(old, kind)
  BY <1>1, Appends DEF Chat!Extended
<1>2. CASE Chat!LastIsLive(old, kind)
  <2>1. PICK a : a = [old EXCEPT ![Len(old)].by = @ \cup {t}]
    OBVIOUS
  <2>2. Len(old) \in Nat /\ DOMAIN old = 1 .. Len(old) /\ \A p \in DOMAIN old : old[p] \in Chat!Part
    BY ReadSeq
  <2>3. /\ DOMAIN a = DOMAIN old /\ a = [p \in DOMAIN old |-> a[p]]
        /\ \A p \in DOMAIN old :
             a[p] = IF p = Len(old) THEN [old[p] EXCEPT !.by = old[p].by \cup {t}] ELSE old[p]
    BY <2>1, <2>2
  <2>4. ASSUME NEW p \in DOMAIN old
        PROVE  a[p] \in Chat!Part /\ a[p].by = IF p = Len(old) THEN old[p].by \cup {t} ELSE old[p].by
    <3>1. old[p] \in Chat!Part
      BY <2>2
    <3>2. [old[p] EXCEPT !.by = old[p].by \cup {t}] \in Chat!Part
          /\ [old[p] EXCEPT !.by = old[p].by \cup {t}].by = old[p].by \cup {t}
      BY <3>1 DEF Chat!Part
    <3>3. QED
      BY <2>3, <3>1, <3>2
  <2>5. a \in Seq(Chat!Part) /\ Len(a) = Len(old)
    BY <2>2, <2>3, <2>4, MadeSeq
  <2>6. \A p \in DOMAIN old : old[p].by \subseteq a[p].by /\ (old[p].by = {t} => a[p].by = {t})
    BY <2>4
  <2>7. Grows(old, a, t)
    BY <2>2, <2>3, <2>5, <2>6 DEF Grows
  <2>8. QED
    BY <1>2, <2>1, <2>7 DEF Chat!Extended
<1>3. QED
  BY <1>1, <1>2

LEMMA GrowsFurther ==
    ASSUME NEW a, NEW b, NEW c, NEW t, a \in Seq(Chat!Part), Grows(a, b, t), Grows(b, c, t)
    PROVE  Grows(a, c, t)
<1>1. Len(a) \in Nat /\ DOMAIN a = 1 .. Len(a) /\ Len(b) \in Nat /\ DOMAIN b = 1 .. Len(b)
      /\ Len(c) \in Nat
  BY ReadSeq DEF Grows
<1>2. \A p \in DOMAIN a : p \in DOMAIN b
  BY <1>1 DEF Grows
<1>3. QED
  BY <1>1, <1>2 DEF Grows

\* Every event of the stream
LEMMA EventGrows ==
    ASSUME NEW old \in Seq(Chat!Part), NEW t \in Chat!Turns, NEW new,
           \/ new = Chat!appendReasoningDelta(old, t) \/ new = Chat!appendTextDelta(old, t)
           \/ new = Chat!appendToolStart(old, t) \/ new = Chat!markToolDone(old)
           \/ new = Chat!closeStreamingReasoning(old)
    PROVE  Grows(old, new, t)
<1>1. Grows(old, Chat!closeStreamingReasoning(old), t) /\ Chat!closeStreamingReasoning(old) \in Seq(Chat!Part)
  BY Closes DEF Grows
<1>2. ASSUME NEW kind \in {"reasoning", "tool", "text"}
      PROVE  Grows(old, Chat!Extended(Chat!closeStreamingReasoning(old), kind, t), t)
  BY <1>1, Extends, GrowsFurther
<1>3. CASE new = Chat!appendReasoningDelta(old, t)
  BY <1>2, <1>3, Extends DEF Chat!appendReasoningDelta
<1>4. CASE new = Chat!appendTextDelta(old, t)
  BY <1>2, <1>4 DEF Chat!appendTextDelta
<1>5. CASE new = Chat!appendToolStart(old, t)
  BY <1>1, <1>5, Appends, GrowsFurther DEF Chat!appendToolStart
<1>6. CASE new = Chat!markToolDone(old)
  BY <1>6, ToolDone
<1>7. CASE new = Chat!closeStreamingReasoning(old)
  BY <1>1, <1>7
<1>8. QED
  BY <1>3, <1>4, <1>5, <1>6, <1>7

-----------------------------------------------------------------------------
(* The conversation                                                          *)

NoDraft(ms) == \A i \in DOMAIN ms : ms[i].id # Chat!STREAMING_ID
DraftLast(ms) == \A i \in DOMAIN ms : ms[i].id = Chat!STREAMING_ID => i = Len(ms)

LEMMA FinishedType ==
    ASSUME NEW m \in Chat!Message
    PROVE  /\ Chat!Finished(m) \in Chat!Message /\ Chat!Finished(m).id = "uuid" /\ Chat!Finished(m).role = m.role
           /\ Chat!Finished(m).parts = Chat!finalizeParts(m.parts)
<1>1. m.parts \in Seq(Chat!Part)
  BY DEF Chat!Message
<1>2. Chat!finalizeParts(m.parts) \in Seq(Chat!Part)
  BY <1>1, Closes DEF Grows
<1>3. QED
  BY <1>2 DEF Chat!Finished, Chat!Message

\* A message stays that has at least these parts.
LEMMA KeptBy ==
    ASSUME NEW old \in Seq(Chat!Part), NEW ms \in Seq(Chat!Message), NEW j \in DOMAIN ms, NEW t,
           ms[j].role = "assistant", Grows(old, ms[j].parts, t)
    PROVE  Chat!Kept(old, ms)
BY DEF Chat!Kept, Grows

LEMMA AppendsMessage ==
    ASSUME NEW ms \in Seq(Chat!Message), NEW m \in Chat!Message
    PROVE  /\ Append(ms, m) \in Seq(Chat!Message) /\ Len(Append(ms, m)) = Len(ms) + 1
           /\ DOMAIN Append(ms, m) = 1 .. Len(ms) + 1
           /\ \A i \in DOMAIN ms : i \in DOMAIN Append(ms, m) /\ Append(ms, m)[i] = ms[i]
           /\ Append(ms, m)[Len(ms) + 1] = m
           /\ \A i \in DOMAIN Append(ms, m) : i \in DOMAIN ms \/ i = Len(ms) + 1
           /\ NoDraft(ms) /\ m.id # Chat!STREAMING_ID => NoDraft(Append(ms, m))
<1>1. PICK a : a = Append(ms, m)
  OBVIOUS
<1>2. /\ a \in Seq(Chat!Message) /\ Len(a) = Len(ms) + 1
      /\ \A p \in 1 .. Len(ms) : a[p] = ms[p]
      /\ a[Len(ms) + 1] = m
  BY <1>1, AppendProperties
<1>3. Len(ms) \in Nat /\ DOMAIN ms = 1 .. Len(ms) /\ DOMAIN a = 1 .. Len(ms) + 1
  BY <1>2, ReadSeq
<1>4. \A i \in DOMAIN a : i \in DOMAIN ms \/ i = Len(ms) + 1
  BY <1>3
<1>5. \A i \in DOMAIN ms : i \in DOMAIN a /\ a[i] = ms[i]
  BY <1>2, <1>3
<1>6. NoDraft(ms) /\ m.id # Chat!STREAMING_ID => NoDraft(a)
  BY <1>2, <1>3, <1>4 DEF NoDraft
<1>7. QED
  BY <1>1, <1>2, <1>3, <1>4, <1>5, <1>6

LEMMA KeptLonger ==
    ASSUME NEW ms \in Seq(Chat!Message), NEW m \in Chat!Message, NEW parts, Chat!Kept(parts, ms)
    PROVE  Chat!Kept(parts, Append(ms, m))
BY AppendsMessage DEF Chat!Kept

LEMMA NothingSettles ==
    ASSUME NEW ms, NoDraft(ms) PROVE Chat!Settled(ms) = ms
BY DEF NoDraft, Chat!Settled

\* What could be read of the draft is kept as a message of its own.
LEMMA Settles ==
    ASSUME NEW ms \in Seq(Chat!Message), DraftLast(ms)
    PROVE  /\ Chat!Settled(ms) \in Seq(Chat!Message) /\ NoDraft(Chat!Settled(ms))
           /\ \A i \in DOMAIN ms :
                ms[i].id = Chat!STREAMING_ID /\ ms[i].role = "assistant" /\ ms[i].parts # <<>>
                   => Chat!Kept(ms[i].parts, Chat!Settled(ms))
<1>1. CASE NoDraft(ms)
  BY <1>1, NothingSettles DEF NoDraft
<1>2. CASE ~NoDraft(ms)
  <2>1. PICK n \in Nat : Len(ms) = n + 1
    <3>1. Len(ms) \in Nat /\ Len(ms) # 0
      BY <1>2, ReadSeq DEF NoDraft
    <3>2. Len(ms) - 1 \in Nat /\ Len(ms) = Len(ms) - 1 + 1
      BY <3>1
    <3>3. QED
      BY <3>2
  <2>2. /\ DOMAIN ms = 1 .. n + 1 /\ ms[n + 1].id = Chat!STREAMING_ID /\ ms[n + 1] \in Chat!Message
        /\ \A i \in 1 .. n : ms[i].id # Chat!STREAMING_ID /\ ms[i] \in Chat!Message
    BY <1>2, <2>1, ReadSeq DEF NoDraft, DraftLast
  <2>3. {i \in DOMAIN ms : ms[i].id # Chat!STREAMING_ID} = 1 .. n
    BY <2>2
  <2>4. PICK w : w = Chat!WithoutDraft(ms)
    OBVIOUS
  <2>5. w = [k \in 1 .. n |-> ms[k]]
    BY <2>3, <2>4, FirstAreKept
  <2>6. DOMAIN w = 1 .. n /\ w = [k \in 1 .. n |-> w[k]] /\ \A k \in 1 .. n : w[k] \in Chat!Message
    BY <2>2, <2>5
  <2>7. w \in Seq(Chat!Message) /\ NoDraft(w)
    BY <2>2, <2>5, <2>6, MadeSeq DEF NoDraft
  <2> DEFINE drafts == {i \in DOMAIN ms : ms[i].id = Chat!STREAMING_ID}
  <2>8. drafts = {n + 1}
    BY <2>2
  <2>9. Chat!Min(drafts) = n + 1
    BY <2>8 DEF Chat!Min
  <2>10. Chat!Settled(ms) = IF ms[n + 1].parts # <<>> THEN Append(w, Chat!Finished(ms[n + 1])) ELSE w
    BY <2>4, <2>8, <2>9 DEF Chat!Settled, Chat!assistantHasVisibleContent
  <2> HIDE DEF drafts
  <2>11. CASE ms[n + 1].parts = <<>>
    BY <2>2, <2>7, <2>10, <2>11
  <2>12. CASE ms[n + 1].parts # <<>>
    <3>1. PICK f \in Chat!Message : f = Chat!Finished(ms[n + 1])
      BY <2>2, FinishedType
    <3>2. f.id # Chat!STREAMING_ID /\ f.role = ms[n + 1].role /\ f.parts = Chat!finalizeParts(ms[n + 1].parts)
      BY <2>2, <3>1, FinishedType DEF Chat!STREAMING_ID
    <3>3. Chat!Settled(ms) = Append(w, f)
      BY <2>10, <2>12, <3>1
    <3>4. Append(w, f) \in Seq(Chat!Message) /\ NoDraft(Append(w, f))
      BY <2>7, <3>2, AppendsMessage
    <3>5. Len(w) + 1 \in DOMAIN Append(w, f) /\ Append(w, f)[Len(w) + 1] = f
      BY <2>7, AppendsMessage, ReadSeq
    <3>6. ms[n + 1].parts \in Seq(Chat!Part)
      BY <2>2 DEF Chat!Message
    <3>7. ms[n + 1].role = "assistant" => Chat!Kept(ms[n + 1].parts, Append(w, f))
      BY <3>2, <3>4, <3>5, <3>6, Closes, KeptBy
    <3>8. QED
      BY <2>2, <3>3, <3>4, <3>7
  <2>13. QED
    BY <2>11, <2>12
<1>3. QED
  BY <1>1, <1>2

LEMMA SomeMessages ==
    /\ Chat!UserMessage \in Chat!Message /\ Chat!UserMessage.id # Chat!STREAMING_ID
    /\ Chat!ErrorMessage \in Chat!Message /\ Chat!ErrorMessage.id # Chat!STREAMING_ID
    /\ Chat!EmptyDraft \in Chat!Message /\ Chat!EmptyDraft.id = Chat!STREAMING_ID /\ Chat!EmptyDraft.role = "assistant"
    /\ Chat!EmptyDraft.parts = <<>>
<1>1. <<>> \in Seq(Chat!Part)
  OBVIOUS
<1>2. QED
  BY <1>1 DEF Chat!UserMessage, Chat!ErrorMessage, Chat!EmptyDraft, Chat!Message, Chat!STREAMING_ID

-----------------------------------------------------------------------------
(* The invariant                                                             *)

Stages == {"sent", "refused", "reading", "done", "over", "abandoned"}
Call == [at : Stages, session : Sessions \cup {None}]
Going(c) == c.at \notin {"over", "abandoned"}

ChatTypes ==
    /\ messages \in Seq(Chat!Message) /\ sessionId \in Sessions \cup {None}
    /\ turn \in Seq(Call) /\ Len(turn) <= MaxTurns

\* A turn goes on when it is the one the stop button aborts, or is about to
\* unwind; never both.
Control ==
    /\ isStreaming = (abortRef # None)
    /\ abortRef \in DOMAIN turn \cup {None}
    /\ unwinding = {} \/ (abortRef = None /\ \E t \in DOMAIN turn : unwinding = {t})
    /\ \A t \in DOMAIN turn : Going(turn[t]) <=> t = abortRef \/ t \in unwinding
    /\ ~open => abortRef = None

Writing ==
    \A i \in DOMAIN messages : messages[i].id = Chat!STREAMING_ID =>
        /\ i = Len(messages) /\ messages[i].role = "assistant"
        /\ abortRef # None /\ turn[abortRef].session = sessionId /\ turn[abortRef].at # "done"
        /\ \A p \in DOMAIN messages[i].parts : messages[i].parts[p].by = {abortRef}

ChatInv == ChatTypes /\ Control /\ Writing

\* What can be read of the draft stays.
Stays ==
    \A i \in DOMAIN messages : messages[i].id = Chat!STREAMING_ID /\ messages[i].parts # <<>>
        => Chat!Kept(messages[i].parts, messages')

conversation == <<open, messages, sessionId, isStreaming, abortRef, turn, unwinding>>

LEMMA ChatInit == Chat!Init => ChatInv
<1> SUFFICES ASSUME Chat!Init PROVE ChatInv
  OBVIOUS
<1>1. messages = <<>> /\ turn = <<>> /\ isStreaming = FALSE /\ abortRef = None /\ unwinding = {}
      /\ sessionId = None
  BY DEF Chat!Init
<1>2. ChatTypes
  <2>1. messages \in Seq(Chat!Message) /\ turn \in Seq(Call) /\ Len(turn) = 0
    BY <1>1
  <2>2. QED
    BY <1>1, <2>1, ChatAssumption DEF ChatTypes
<1>3. DOMAIN messages = {} /\ DOMAIN turn = {}
  BY <1>1
<1>4. Control /\ Writing
  <2>1. isStreaming = (abortRef # None)
    BY <1>1
  <2>2. QED
    BY <1>1, <1>3, <2>1 DEF Control, Writing
<1>5. QED
  BY <1>2, <1>4 DEF ChatInv

LEMMA Moves ==
    ASSUME NEW c \in Seq(Call), NEW t \in DOMAIN c, NEW stage \in Stages, NEW d,
           d = [c EXCEPT ![t].at = stage]
    PROVE  /\ d \in Seq(Call) /\ Len(d) = Len(c) /\ DOMAIN d = DOMAIN c
           /\ \A u \in DOMAIN c : d[u].session = c[u].session /\ (u # t => d[u].at = c[u].at)
           /\ d[t].at = stage
<1>1. Len(c) \in Nat /\ DOMAIN c = 1 .. Len(c) /\ \A u \in DOMAIN c : c[u] \in Call
  BY ReadSeq
<1>2. DOMAIN d = DOMAIN c /\ d = [u \in DOMAIN c |-> d[u]]
  BY <1>1
<1>3. ASSUME NEW u \in DOMAIN c
      PROVE  d[u] \in Call /\ d[u].session = c[u].session
             /\ d[u].at = IF u = t THEN stage ELSE c[u].at
  <2>1. c[u] \in Call
    BY <1>1
  <2>2. [c[u] EXCEPT !.at = stage] \in Call
        /\ [c[u] EXCEPT !.at = stage].session = c[u].session
        /\ [c[u] EXCEPT !.at = stage].at = stage
    BY <2>1 DEF Call
  <2>3. d[u] = IF u = t THEN [c[u] EXCEPT !.at = stage] ELSE c[u]
    BY <1>1
  <2>4. QED
    BY <2>1, <2>2, <2>3
<1>4. d \in Seq(Call) /\ Len(d) = Len(c)
  BY <1>1, <1>2, <1>3, MadeSeq
<1>5. QED
  BY <1>2, <1>3, <1>4

LEMMA DraftRests ==
    ASSUME ChatInv, UNCHANGED messages PROVE Stays
<1> SUFFICES ASSUME NEW i \in DOMAIN messages, messages[i].id = Chat!STREAMING_ID
             PROVE  Chat!Kept(messages[i].parts, messages)
  BY DEF Stays
<1>1. messages[i].role = "assistant" /\ messages[i] \in Chat!Message
  BY ReadSeq DEF ChatInv, Writing, ChatTypes
<1>2. Len(messages[i].parts) <= Len(messages[i].parts)
  BY <1>1, ReadSeq DEF Chat!Message
<1>3. QED
  BY <1>1, <1>2 DEF Chat!Kept

\* The steps of the account, the header and the dialog
LEMMA ConversationRests ==
    ASSUME ChatInv, UNCHANGED conversation PROVE ChatInv' /\ Stays
<1>1. UNCHANGED <<open, messages, sessionId, isStreaming, abortRef, turn, unwinding>>
  BY DEF conversation
<1>2. ChatInv'
  BY <1>1 DEF ChatInv, ChatTypes, Control, Writing
<1>3. Stays
  BY <1>1, DraftRests
<1>4. QED
  BY <1>2, <1>3

\* No turn runs, and the conversation is another one: a new one, a saved one,
\* or none.
LEMMA Replaced ==
    ASSUME ChatInv, Chat!Task, Chat!Abort, abortRef' = None, isStreaming' = FALSE,
           messages' \in Seq(Chat!Message), NoDraft(messages'),
           sessionId' \in Sessions \cup {None}, UNCHANGED turn
    PROVE  ChatInv'
<1>1. ChatTypes'
  BY DEF ChatInv, ChatTypes
<1>2. Writing'
  BY DEF NoDraft, Writing
<1>3. unwinding' = IF abortRef = None THEN {} ELSE {abortRef}
  BY DEF Chat!Abort
<1>4. unwinding = {}
  BY DEF Chat!Task
<1>5. /\ abortRef \in DOMAIN turn \cup {None}
      /\ \A t \in DOMAIN turn : Going(turn[t]) <=> t = abortRef
  BY <1>4 DEF ChatInv, Control
<1>6. None \notin DOMAIN turn
  BY ReadSeq, ChatAssumption DEF ChatInv, ChatTypes
<1>7. UNCHANGED turn
  OBVIOUS
<1>8. /\ isStreaming' = (abortRef' # None) /\ abortRef' = None
  OBVIOUS
<1>9. unwinding' = {} \/ \E t \in DOMAIN turn : unwinding' = {t}
  BY <1>3, <1>5
<1>10. ASSUME NEW t \in DOMAIN turn
       PROVE  Going(turn[t]) <=> t = abortRef' \/ t \in unwinding'
  <2>1. t # None
    BY <1>6
  <2>2. t \in unwinding' <=> t = abortRef
    BY <1>3, <2>1
  <2>3. QED
    BY <1>5, <1>8, <2>1, <2>2
<1>11. Control'
  BY <1>7, <1>8, <1>9, <1>10 DEF Control
<1>12. QED
  BY <1>1, <1>2, <1>11 DEF ChatInv

LEMMA DraftSettles ==
    ASSUME ChatInv
    PROVE  /\ Chat!Settled(messages) \in Seq(Chat!Message) /\ NoDraft(Chat!Settled(messages))
           /\ \A i \in DOMAIN messages : messages[i].id = Chat!STREAMING_ID /\ messages[i].parts # <<>>
                 => Chat!Kept(messages[i].parts, Chat!Settled(messages))
           /\ abortRef = None => NoDraft(messages) /\ Chat!Settled(messages) = messages
<1>1. messages \in Seq(Chat!Message) /\ DraftLast(messages)
      /\ \A i \in DOMAIN messages : messages[i].id = Chat!STREAMING_ID => messages[i].role = "assistant"
  BY DEF ChatInv, ChatTypes, Writing, DraftLast
<1>2. abortRef = None => NoDraft(messages)
  BY DEF ChatInv, Writing, NoDraft
<1>3. QED
  BY <1>1, <1>2, Settles, NothingSettles

LEMMA Stopped ==
    ASSUME ChatInv, Chat!Task, Chat!cancelStream, UNCHANGED <<sessionId, turn>>,
           messages' = IF abortRef = None THEN messages ELSE Chat!Settled(messages)
    PROVE  ChatInv' /\ Stays
<1>1. messages' = Chat!Settled(messages)
  BY DraftSettles
<1>2. messages' \in Seq(Chat!Message) /\ NoDraft(messages') /\ Stays
  BY <1>1, DraftSettles DEF Stays
<1>3. Chat!Abort /\ abortRef' = None /\ isStreaming' = IF abortRef = None THEN isStreaming ELSE FALSE
  BY DEF Chat!cancelStream
<1>4. isStreaming = (abortRef # None) /\ sessionId \in Sessions \cup {None}
  BY DEF ChatInv, Control, ChatTypes
<1>5. isStreaming' = FALSE
  BY <1>3, <1>4
<1>6. ChatInv'
  BY <1>2, <1>3, <1>4, <1>5, Replaced
<1>7. QED
  BY <1>2, <1>6

\* A question: the list shown, without a draft, and an empty one at its end.
LEMMA Asked ==
    ASSUME ChatInv, Chat!Task, open, ~isStreaming, NEW list \in Seq(Chat!Message), NoDraft(list),
           Chat!runAssistantTurn(list)
    PROVE  ChatInv' /\ Stays
<1>1. /\ Len(turn) < MaxTurns /\ Chat!Abort /\ messages' = Append(list, Chat!EmptyDraft)
      /\ isStreaming' = TRUE /\ abortRef' = Len(turn) + 1
      /\ turn' = Append(turn, [at |-> "sent", session |-> sessionId])
      /\ UNCHANGED <<open, sessionId>>
  BY DEF Chat!runAssistantTurn
<1>2. isStreaming = (abortRef # None) /\ sessionId \in Sessions \cup {None} /\ turn \in Seq(Call)
      /\ unwinding = {}
  BY DEF ChatInv, Control, ChatTypes, Chat!Task
<1>3. abortRef = None /\ unwinding' = {}
  BY <1>1, <1>2 DEF Chat!Abort
<1>4. PICK c \in Call : c = [at |-> "sent", session |-> sessionId]
  BY <1>2 DEF Call, Stages
<1>5. c.at = "sent" /\ c.session = sessionId /\ turn' = Append(turn, c)
  BY <1>1, <1>4
<1>6. /\ turn' \in Seq(Call) /\ Len(turn') = Len(turn) + 1 /\ Len(turn) \in Nat
      /\ \A u \in 1 .. Len(turn) : turn'[u] = turn[u]
      /\ turn'[Len(turn) + 1] = c
  BY <1>2, <1>5, AppendProperties
<1>7. DOMAIN turn = 1 .. Len(turn) /\ DOMAIN turn' = 1 .. Len(turn) + 1
  BY <1>2, <1>6, ReadSeq
<1>8. ASSUME NEW t \in DOMAIN turn' PROVE Going(turn'[t]) <=> t = abortRef'
  <2>1. CASE t = Len(turn) + 1
    BY <1>1, <1>5, <1>6, <2>1 DEF Going
  <2>2. CASE t # Len(turn) + 1
    <3>1. t \in DOMAIN turn /\ turn'[t] = turn[t] /\ t # None
      BY <1>6, <1>7, <2>2, ChatAssumption
    <3>2. ~Going(turn[t])
      BY <1>2, <1>3, <3>1 DEF ChatInv, Control
    <3>3. QED
      BY <1>1, <2>2, <3>1, <3>2
  <2>3. QED
    BY <2>1, <2>2
<1>9. Control'
  <2>1. abortRef' \in DOMAIN turn' /\ abortRef' # None
    BY <1>1, <1>6, <1>7, ChatAssumption
  <2>2. isStreaming' = (abortRef' # None)
    BY <1>1, <2>1
  <2>3. QED
    BY <1>1, <1>3, <1>8, <2>1, <2>2 DEF Control
<1>10. /\ messages' \in Seq(Chat!Message) /\ Len(messages') = Len(list) + 1
       /\ messages'[Len(list) + 1] = Chat!EmptyDraft
       /\ \A i \in DOMAIN messages' : messages'[i].id = Chat!STREAMING_ID => i = Len(list) + 1
  BY <1>1, SomeMessages, AppendsMessage DEF NoDraft
<1>11. ChatTypes'
  BY <1>1, <1>2, <1>6, <1>10, ChatAssumption DEF ChatTypes
<1>12. Writing'
  <2> SUFFICES ASSUME NEW i \in DOMAIN messages', messages'[i].id = Chat!STREAMING_ID
               PROVE  /\ i = Len(messages') /\ messages'[i].role = "assistant"
                      /\ abortRef' # None /\ turn'[abortRef'].session = sessionId'
                      /\ turn'[abortRef'].at # "done"
                      /\ \A p \in DOMAIN messages'[i].parts :
                            messages'[i].parts[p].by = {abortRef'}
    BY DEF Writing
  <2>1. i = Len(list) + 1 /\ messages'[i] = Chat!EmptyDraft
    BY <1>10
  <2>2. abortRef' # None /\ turn'[abortRef'] = c
    BY <1>1, <1>6, ChatAssumption
  <2>3. DOMAIN messages'[i].parts = {}
    BY <2>1, SomeMessages
  <2>4. QED
    BY <1>1, <1>5, <1>10, <2>1, <2>2, <2>3, SomeMessages
<1>13. Stays
  BY <1>3, DraftSettles DEF Stays, NoDraft
<1>14. QED
  BY <1>9, <1>11, <1>12, <1>13 DEF ChatInv

\* Between two tasks, only the turn the stop button aborts goes on.
LEMMA OneGoesOn ==
    ASSUME ChatInv, Chat!Task, NEW t \in DOMAIN turn, Going(turn[t])
    PROVE  t = abortRef /\ abortRef # None /\ unwinding = {}
<1>1. None \notin DOMAIN turn
  BY ReadSeq, ChatAssumption DEF ChatInv, ChatTypes
<1>2. QED
  BY <1>1 DEF ChatInv, Control, Chat!Task

\* A turn goes on: the server answers, refuses or says it is done.
LEMMA TurnGoesOn ==
    ASSUME ChatInv, Chat!Task, NEW t \in DOMAIN turn, Going(turn[t]),
           NEW stage \in {"reading", "refused", "done"}, turn' = [turn EXCEPT ![t].at = stage],
           UNCHANGED <<open, sessionId, isStreaming, abortRef, unwinding>>
    PROVE  /\ turn' \in Seq(Call) /\ Len(turn') = Len(turn) /\ Control' /\ t = abortRef
           /\ turn'[t].session = turn[t].session /\ turn'[t].at = stage
<1>1. t = abortRef /\ abortRef # None /\ unwinding = {}
  BY OneGoesOn
<1>2. PICK d : d = turn'
  OBVIOUS
<1>3. stage \in Stages /\ turn \in Seq(Call)
  BY DEF Stages, ChatInv, ChatTypes
<1>4. /\ d \in Seq(Call) /\ Len(d) = Len(turn) /\ DOMAIN d = DOMAIN turn
      /\ \A u \in DOMAIN turn : d[u].session = turn[u].session /\ (u # t => d[u].at = turn[u].at)
      /\ d[t].at = stage
  BY <1>2, <1>3, Moves
<1>5. \A u \in DOMAIN turn : Going(d[u]) <=> Going(turn[u])
  BY <1>4 DEF Going
<1>6. Control'
  BY <1>1, <1>2, <1>4, <1>5 DEF ChatInv, Control
<1>7. QED
  BY <1>1, <1>2, <1>4, <1>6

LEMMA TurnStops ==
    ASSUME ChatInv, Chat!Task, NEW t \in DOMAIN turn, Going(turn[t]), NEW stage \in {"over", "abandoned"},
           turn' = [turn EXCEPT ![t].at = stage], Chat!Finally, UNCHANGED <<open, unwinding>>
    PROVE  turn' \in Seq(Call) /\ Len(turn') = Len(turn) /\ Control'
<1>1. t = abortRef /\ abortRef # None /\ unwinding = {}
  BY OneGoesOn
<1>2. PICK d : d = turn'
  OBVIOUS
<1>3. stage \in Stages /\ turn \in Seq(Call)
  BY DEF Stages, ChatInv, ChatTypes
<1>4. /\ d \in Seq(Call) /\ Len(d) = Len(turn) /\ DOMAIN d = DOMAIN turn
      /\ \A u \in DOMAIN turn : d[u].session = turn[u].session /\ (u # t => d[u].at = turn[u].at)
      /\ d[t].at = stage
  BY <1>2, <1>3, Moves
<1>5. \A u \in DOMAIN turn : ~Going(d[u])
  BY <1>1, <1>4 DEF Going, ChatInv, Control
<1>6. None \notin DOMAIN turn
  BY ReadSeq, ChatAssumption DEF ChatInv, ChatTypes
<1>7. isStreaming' = (abortRef' # None) /\ abortRef' = None /\ unwinding' = {}
  BY <1>1 DEF Chat!Finally
<1>8. Control'
  BY <1>2, <1>4, <1>5, <1>6, <1>7 DEF Control
<1>9. QED
  BY <1>2, <1>4, <1>8

LEMMA TurnEnds ==
    ASSUME ChatInv, Chat!Task, NEW t \in DOMAIN turn, Going(turn[t]), Chat!Finally,
           turn' = [turn EXCEPT ![t].at = "over"], UNCHANGED <<open, sessionId, unwinding>>,
           messages' \in Seq(Chat!Message), NoDraft(messages')
    PROVE  ChatInv'
<1>1. turn' \in Seq(Call) /\ Len(turn') = Len(turn) /\ Control'
  BY TurnStops
<1>2. ChatTypes' /\ Writing'
  BY <1>1 DEF ChatInv, ChatTypes, NoDraft, Writing
<1>3. QED
  BY <1>1, <1>2 DEF ChatInv

LEMMA Unwinds ==
    ASSUME ChatInv, NEW t, Chat!Unwind(t) PROVE ChatInv' /\ Stays
<1>1. /\ t \in unwinding /\ unwinding' = unwinding \ {t} /\ Chat!Finally
      /\ turn' = [turn EXCEPT ![t].at = "abandoned"]
      /\ messages' = messages \/ Chat!ShowFailure
      /\ UNCHANGED <<open, sessionId>>
  BY DEF Chat!Unwind, Chat!ShowRefusal
<1>2. abortRef = None /\ t \in DOMAIN turn /\ unwinding = {t}
  BY <1>1 DEF ChatInv, Control
<1>3. NoDraft(messages) /\ Chat!Settled(messages) = messages /\ messages \in Seq(Chat!Message)
  BY <1>2, DraftSettles DEF ChatInv, ChatTypes
<1>4. messages' \in Seq(Chat!Message) /\ NoDraft(messages')
  <2>1. /\ Append(messages, Chat!ErrorMessage) \in Seq(Chat!Message)
        /\ NoDraft(Append(messages, Chat!ErrorMessage))
    BY <1>3, AppendsMessage, SomeMessages
  <2>2. CASE messages' = messages
    BY <1>3, <2>2
  <2>3. CASE Chat!ShowFailure
    BY <1>3, <2>1, <2>3 DEF Chat!ShowFailure
  <2>4. QED
    BY <1>1, <2>2, <2>3
<1>5. PICK d, stage : stage = "abandoned" /\ d = turn' /\ d = [turn EXCEPT ![t].at = stage]
  BY <1>1
<1>6. stage \in Stages /\ turn \in Seq(Call) /\ t \in DOMAIN turn
      /\ d = [turn EXCEPT ![t].at = stage]
  BY <1>2, <1>5 DEF Stages, ChatInv, ChatTypes
<1>7. /\ d \in Seq(Call) /\ Len(d) = Len(turn) /\ DOMAIN d = DOMAIN turn
      /\ \A u \in DOMAIN turn : d[u].session = turn[u].session /\ (u # t => d[u].at = turn[u].at)
      /\ d[t].at = stage
  BY <1>6, Moves
<1>8. None \notin DOMAIN turn
  BY ReadSeq, ChatAssumption DEF ChatInv, ChatTypes
<1>9. \A u \in DOMAIN turn : ~Going(d[u])
  BY <1>2, <1>5, <1>7, <1>8 DEF Going, ChatInv, Control
<1>10. isStreaming' = (abortRef' # None) /\ abortRef' = None /\ unwinding' = {}
  BY <1>1, <1>2 DEF Chat!Finally
<1>11. Control'
  BY <1>5, <1>7, <1>8, <1>9, <1>10 DEF Control
<1>12. ChatTypes'
  BY <1>1, <1>4, <1>5, <1>7 DEF ChatInv, ChatTypes
<1>13. Writing' /\ Stays
  BY <1>3, <1>4 DEF NoDraft, Writing, Stays
<1>14. QED
  BY <1>11, <1>12, <1>13 DEF ChatInv

LEMMA Abandoned ==
    ASSUME ChatInv, NEW t, Chat!AbandonedEnds(t) PROVE ChatInv' /\ Stays
<1>1. /\ t \in DOMAIN turn /\ turn[t].at = "abandoned" /\ turn' = [turn EXCEPT ![t].at = "over"]
      /\ UNCHANGED <<open, Chat!widget, unwinding>>
  BY DEF Chat!AbandonedEnds, Chat!At
<1>2. UNCHANGED <<open, messages, sessionId, isStreaming, abortRef, unwinding>>
  BY <1>1 DEF Chat!widget
<1>3. PICK d, stage : stage = "over" /\ d = turn' /\ d = [turn EXCEPT ![t].at = stage]
  BY <1>1
<1>4. stage \in Stages /\ turn \in Seq(Call) /\ t \in DOMAIN turn
      /\ d = [turn EXCEPT ![t].at = stage]
  BY <1>1, <1>3 DEF Stages, ChatInv, ChatTypes
<1>5. /\ d \in Seq(Call) /\ Len(d) = Len(turn) /\ DOMAIN d = DOMAIN turn
      /\ \A u \in DOMAIN turn : d[u].session = turn[u].session /\ (u # t => d[u].at = turn[u].at)
      /\ d[t].at = stage
  BY <1>4, Moves
<1>6. \A u \in DOMAIN turn : Going(d[u]) <=> Going(turn[u])
  BY <1>1, <1>3, <1>5 DEF Going
<1>7. Control'
  BY <1>2, <1>3, <1>5, <1>6 DEF ChatInv, Control
<1>8. ChatTypes'
  BY <1>2, <1>3, <1>5 DEF ChatInv, ChatTypes
<1>9. abortRef # None => abortRef \in DOMAIN turn /\ abortRef # t
  BY <1>1 DEF ChatInv, Control, Going
<1>10. Writing'
  <2>1. abortRef # None => d[abortRef].session = turn[abortRef].session
                           /\ d[abortRef].at = turn[abortRef].at
    BY <1>5, <1>9
  <2>2. QED
    BY <1>2, <1>3, <2>1 DEF ChatInv, Writing
<1>11. Stays
  BY <1>2, DraftRests
<1>12. QED
  BY <1>7, <1>8, <1>10, <1>11 DEF ChatInv

-----------------------------------------------------------------------------
(* The actions                                                               *)

\* Accounts, the header and the dialog leave the conversation alone.
LEMMA DialogStep ==
    ASSUME ChatInv,
           \/ Chat!SignIn \/ Chat!OpenHistory \/ Chat!CloseHistory \/ Chat!KeepConversation \/ Chat!ConfirmDelete
           \/ \E s \in Sessions : Chat!Select(s) \/ Chat!AskDelete(s) \/ Chat!SelectFails(s)
           \/ \E d \in history.deletes : Chat!DeleteFails(d) \/ (Chat!Deleted(d) /\ ~d.active)
    PROVE  ChatInv' /\ Stays
<1>1. UNCHANGED conversation
  BY DEF conversation, Chat!widget, Chat!SignIn, Chat!OpenHistory, Chat!CloseHistory,
     Chat!KeepConversation, Chat!ConfirmDelete,
         Chat!Select, Chat!AskDelete, Chat!SelectFails, Chat!DeleteFails, Chat!Deleted
<1>2. QED
  BY <1>1, ConversationRests

LEMMA StopStep ==
    ASSUME ChatInv, Chat!StopClicked \/ Chat!SignOut PROVE ChatInv' /\ Stays
<1>1. Chat!Task /\ Chat!cancelStream /\ UNCHANGED <<sessionId, turn>>
      /\ messages' = IF abortRef = None THEN messages ELSE Chat!Settled(messages)
  BY DEF Chat!StopClicked, Chat!SignOut, Chat!Click
<1>2. QED
  BY <1>1, Stopped

\* The conversation shown is another one.
LEMMA NewConversation ==
    ASSUME ChatInv, Chat!Task, Chat!startNewChat, UNCHANGED turn
    PROVE  ChatInv' /\ sessionId' # sessionId
<1>1. Chat!Abort /\ abortRef' = None /\ isStreaming' = FALSE /\ messages' = <<>>
      /\ \E id \in Chat!Fresh({sessionId}) : sessionId' = id
  BY DEF Chat!startNewChat
<1>2. messages' \in Seq(Chat!Message) /\ NoDraft(messages')
  BY <1>1 DEF NoDraft
<1>3. sessionId' \in Sessions /\ sessionId' # sessionId
  BY <1>1 DEF Chat!Fresh
<1>4. ChatInv'
  BY <1>1, <1>2, <1>3, Replaced
<1>5. QED
  BY <1>3, <1>4

LEMMA SelectStep ==
    ASSUME ChatInv, NEW s \in Sessions, Chat!SelectAnswered(s) PROVE ChatInv'
<1>1. Chat!Task /\ Chat!Abort /\ abortRef' = None /\ isStreaming' = FALSE /\ sessionId' = s
      /\ UNCHANGED turn
      /\ messages' = <<Chat!UserMessage, [id |-> "uuid", role |-> "assistant",
                                    parts |-> Chat!turnsToAssistantParts]>>
  BY DEF Chat!SelectAnswered, Chat!loadSession
<1>2. Chat!turnsToAssistantParts \in Seq(Chat!Part)
  BY DEF Chat!turnsToAssistantParts, Chat!Part
<1>3. PICK m : m = [id |-> "uuid", role |-> "assistant", parts |-> Chat!turnsToAssistantParts]
  OBVIOUS
<1>4. m \in Chat!Message /\ m.id # Chat!STREAMING_ID
  BY <1>2, <1>3 DEF Chat!Message, Chat!STREAMING_ID
<1>5. PICK u : u = Chat!UserMessage
  OBVIOUS
<1>6. messages' = <<u, m>> /\ u \in Chat!Message /\ u.id # Chat!STREAMING_ID
  BY <1>1, <1>3, <1>5, SomeMessages
<1>7. messages' \in Seq(Chat!Message) /\ NoDraft(messages')
  BY <1>4, <1>6 DEF NoDraft
<1>8. QED
  BY <1>1, <1>7, Replaced

LEMMA OpenStep ==
    ASSUME ChatInv, Chat!Open PROVE ChatInv' /\ Stays
<1>1. Chat!Task /\ ~open /\ messages' = <<>> /\ isStreaming' = FALSE /\ abortRef' = None
      /\ sessionId' \in Sessions /\ UNCHANGED <<turn, unwinding>>
  BY DEF Chat!Open, Chat!NewWidget, Chat!Fresh
<1>2. abortRef = None
  BY <1>1 DEF ChatInv, Control
<1>3. Chat!Abort
  BY <1>1, <1>2 DEF Chat!Abort, Chat!Task
<1>4. messages' \in Seq(Chat!Message) /\ NoDraft(messages')
  BY <1>1 DEF NoDraft
<1>5. ChatInv'
  BY <1>1, <1>3, <1>4, Replaced
<1>6. Stays
  BY <1>2, DraftSettles DEF NoDraft, Stays
<1>7. QED
  BY <1>5, <1>6

LEMMA CloseStep ==
    ASSUME ChatInv, Chat!Close PROVE ChatInv' /\ ~open'
<1>1. Chat!Task /\ open' = FALSE /\ messages' = <<>> /\ isStreaming' = FALSE /\ abortRef' = None
      /\ sessionId' = None /\ UNCHANGED unwinding
      /\ turn' = [t \in DOMAIN turn |->
                    IF turn[t].at = "over" THEN turn[t] ELSE [turn[t] EXCEPT !.at = "abandoned"]]
  BY DEF Chat!Close, Chat!NewWidget
<1>2. turn \in Seq(Call) /\ Len(turn) <= MaxTurns /\ unwinding = {}
  BY <1>1 DEF ChatInv, ChatTypes, Chat!Task
<1>3. Len(turn) \in Nat /\ DOMAIN turn = 1 .. Len(turn) /\ \A t \in DOMAIN turn : turn[t] \in Call
  BY <1>2, ReadSeq
<1>4. PICK d : d = turn'
  OBVIOUS
<1>5. ASSUME NEW t \in DOMAIN turn PROVE d[t] \in Call /\ ~Going(d[t])
  <2>1. turn[t] \in Call
    BY <1>3
  <2>2. PICK c : c = [turn[t] EXCEPT !.at = "abandoned"]
    OBVIOUS
  <2>5. c \in Call /\ c.at = "abandoned"
    BY <2>1, <2>2 DEF Call, Stages
  <2>3. d[t] = IF turn[t].at = "over" THEN turn[t] ELSE c
    BY <1>1, <1>4, <2>2
  <2>4. QED
    BY <2>1, <2>3, <2>5 DEF Going
<1>6. d \in Seq(Call) /\ Len(d) = Len(turn) /\ DOMAIN d = DOMAIN turn
  BY <1>1, <1>3, <1>4, <1>5, MadeSeq
<1>7. messages' \in Seq(Chat!Message) /\ NoDraft(messages')
  BY <1>1 DEF NoDraft
<1>8. ChatTypes' /\ Writing'
  BY <1>1, <1>2, <1>4, <1>6, <1>7 DEF ChatTypes, Writing, NoDraft
<1>9. None \notin DOMAIN turn
  BY <1>3, ChatAssumption
<1>10. isStreaming' = (abortRef' # None)
  BY <1>1
<1>11. Control'
  BY <1>1, <1>2, <1>4, <1>5, <1>6, <1>9, <1>10 DEF Control
<1>12. QED
  BY <1>1, <1>8, <1>11 DEF ChatInv

LEMMA AskStep ==
    ASSUME ChatInv, Chat!sendMessage \/ Chat!retryMessage PROVE ChatInv' /\ Stays
<1>1. Chat!Task /\ open
  BY DEF Chat!sendMessage, Chat!retryMessage, Chat!Click
<1>2. ~isStreaming
  <2>1. CASE Chat!sendMessage
    BY <2>1 DEF Chat!sendMessage, Chat!Composer
  <2>2. CASE Chat!retryMessage
    BY <2>2 DEF Chat!retryMessage, Chat!Retry
  <2>3. QED
    BY <2>1, <2>2
<1>3. messages \in Seq(Chat!Message) /\ NoDraft(messages)
  <2>1. abortRef = None
    BY <1>2 DEF ChatInv, Control
  <2>2. QED
    BY <2>1, DraftSettles DEF ChatInv, ChatTypes
<1>4. CASE Chat!sendMessage
  <2>1. PICK list : list = Append(messages, Chat!UserMessage)
    OBVIOUS
  <2>2. Chat!runAssistantTurn(list)
    BY <1>4, <2>1 DEF Chat!sendMessage
  <2>3. list \in Seq(Chat!Message) /\ NoDraft(list)
    BY <1>3, <2>1, AppendsMessage, SomeMessages
  <2>4. QED
    BY <1>1, <1>2, <2>2, <2>3, Asked
<1>5. CASE Chat!retryMessage
  <2>1. PICK list : list = IF messages[Len(messages)].role = "error" THEN SubSeq(messages, 1, Len(messages) - 1) ELSE messages
    OBVIOUS
  <2>2. Chat!runAssistantTurn(list) /\ DOMAIN messages # {}
    BY <1>5, <2>1 DEF Chat!retryMessage
  <2>3. SubSeq(messages, 1, Len(messages) - 1) \in Seq(Chat!Message) /\ NoDraft(SubSeq(messages, 1, Len(messages) - 1))
    <3>1. PICK n \in Nat : Len(messages) = n + 1
      <4>1. Len(messages) \in Nat /\ Len(messages) # 0
        BY <1>3, <2>2, ReadSeq
      <4>2. Len(messages) - 1 \in Nat /\ Len(messages) = Len(messages) - 1 + 1
        BY <4>1
      <4>3. QED
        BY <4>2
    <3>2. PICK f : f = SubSeq(messages, 1, n)
      OBVIOUS
    <3>3. f = SubSeq(messages, 1, Len(messages) - 1)
      BY <3>1, <3>2
    <3>4. DOMAIN messages = 1 .. n + 1 /\ \A i \in 1 .. n : messages[i] \in Chat!Message
      BY <1>3, <3>1, ReadSeq
    <3>5. DOMAIN f = 1 .. n /\ f = [i \in 1 .. n |-> f[i]] /\ \A i \in 1 .. n : f[i] = messages[i]
      BY <3>2
    <3>6. f \in Seq(Chat!Message) /\ NoDraft(f)
      BY <1>3, <3>4, <3>5, MadeSeq DEF NoDraft
    <3>7. QED
      BY <3>3, <3>6
  <2>4. list \in Seq(Chat!Message) /\ NoDraft(list)
    BY <1>3, <2>1, <2>3
  <2>5. QED
    BY <1>1, <1>2, <2>2, <2>4, Asked
<1>6. QED
  BY <1>4, <1>5

\* The server answers or refuses.
LEMMA AnswerStep ==
    ASSUME ChatInv, NEW t, Chat!Answered(t) \/ Chat!Refused(t) PROVE ChatInv' /\ Stays
<1>1. PICK stage \in {"reading", "refused"} : turn' = [turn EXCEPT ![t].at = stage]
  BY DEF Chat!Answered, Chat!Refused
<1>2. /\ Chat!Task /\ t \in DOMAIN turn /\ turn[t].at = "sent" /\ UNCHANGED <<open, Chat!widget, unwinding>>
  BY DEF Chat!Answered, Chat!Refused, Chat!At
<1>3. UNCHANGED <<open, messages, sessionId, isStreaming, abortRef, unwinding>>
  BY <1>2 DEF Chat!widget
<1>4. Going(turn[t]) /\ stage \in {"reading", "refused", "done"}
  BY <1>2 DEF Going
<1>5. /\ turn' \in Seq(Call) /\ Len(turn') = Len(turn) /\ Control' /\ t = abortRef
      /\ turn'[t].session = turn[t].session /\ turn'[t].at = stage
  BY <1>1, <1>2, <1>3, <1>4, TurnGoesOn
<1>6. PICK d : d = turn'
  OBVIOUS
<1>7. d[abortRef].session = turn[abortRef].session /\ d[abortRef].at # "done"
  BY <1>5, <1>6
<1>8. Writing'
  BY <1>3, <1>6, <1>7 DEF ChatInv, Writing
<1>9. ChatTypes'
  BY <1>3, <1>5 DEF ChatInv, ChatTypes
<1>10. Stays
  BY <1>3, DraftRests
<1>11. QED
  BY <1>5, <1>8, <1>9, <1>10 DEF ChatInv

LEMMA DoneStep ==
    ASSUME ChatInv, NEW t, Chat!DoneArrives(t) PROVE ChatInv' /\ Stays
<1>1. /\ Chat!Task /\ t \in DOMAIN turn /\ turn[t].at = "reading"
      /\ turn' = [turn EXCEPT ![t].at = "done"]
      /\ messages' = [i \in DOMAIN messages |->
                        IF i \in Chat!Draft THEN Chat!Finished(messages[i]) ELSE messages[i]]
      /\ UNCHANGED <<open, sessionId, isStreaming, abortRef, unwinding>>
  BY DEF Chat!DoneArrives, Chat!At
<1>2. Going(turn[t])
  BY <1>1 DEF Going
<1>3. turn' \in Seq(Call) /\ Len(turn') = Len(turn) /\ Control'
  BY <1>1, <1>2, TurnGoesOn
<1>4. messages \in Seq(Chat!Message) /\ sessionId \in Sessions \cup {None} /\ Len(turn) <= MaxTurns
  BY DEF ChatInv, ChatTypes
<1>5. /\ Len(messages) \in Nat /\ DOMAIN messages = 1 .. Len(messages)
      /\ \A i \in DOMAIN messages : messages[i] \in Chat!Message
  BY <1>4, ReadSeq
<1>6. PICK ms : ms = messages'
  OBVIOUS
<1>7. /\ DOMAIN ms = DOMAIN messages /\ ms = [i \in DOMAIN messages |-> ms[i]]
      /\ \A i \in DOMAIN messages :
           ms[i] = IF messages[i].id = Chat!STREAMING_ID THEN Chat!Finished(messages[i]) ELSE messages[i]
  BY <1>1, <1>6 DEF Chat!Draft
<1>8. ASSUME NEW i \in DOMAIN messages
      PROVE  ms[i] \in Chat!Message /\ ms[i].id # Chat!STREAMING_ID
  <2>1. messages[i] \in Chat!Message /\ Chat!Finished(messages[i]) \in Chat!Message
        /\ Chat!Finished(messages[i]).id # Chat!STREAMING_ID
    BY <1>5, FinishedType DEF Chat!STREAMING_ID
  <2>2. QED
    BY <1>7, <2>1
<1>9. ms \in Seq(Chat!Message) /\ NoDraft(ms)
  BY <1>5, <1>7, <1>8, MadeSeq DEF NoDraft
<1>10. ChatTypes' /\ Writing'
  BY <1>1, <1>3, <1>4, <1>6, <1>9 DEF ChatTypes, Writing, NoDraft
<1>11. Stays
  <2> SUFFICES ASSUME NEW i \in DOMAIN messages, messages[i].id = Chat!STREAMING_ID
               PROVE  Chat!Kept(messages[i].parts, messages')
    BY DEF Stays
  <2>1. messages[i] \in Chat!Message /\ messages[i].role = "assistant"
    BY <1>5 DEF ChatInv, Writing
  <2>2. messages[i].parts \in Seq(Chat!Part)
    BY <2>1 DEF Chat!Message
  <2>3. ms[i] = Chat!Finished(messages[i]) /\ i \in DOMAIN ms
    BY <1>7
  <2>4. ms[i].role = "assistant" /\ ms[i].parts = Chat!finalizeParts(messages[i].parts)
    BY <2>1, <2>3, FinishedType
  <2>5. Grows(messages[i].parts, ms[i].parts, t)
    BY <2>2, <2>4, Closes
  <2>6. Chat!Kept(messages[i].parts, ms)
    BY <1>9, <2>2, <2>3, <2>4, <2>5, KeptBy
  <2>7. QED
    BY <1>6, <2>6
<1>12. QED
  BY <1>3, <1>10, <1>11 DEF ChatInv

LEMMA EndStep ==
    ASSUME ChatInv, NEW t, Chat!RefusalRead(t) \/ Chat!StreamFails(t) \/ Chat!StreamEnds(t)
    PROVE  ChatInv' /\ Stays
<1>1. /\ Chat!Task /\ t \in DOMAIN turn /\ Chat!Finally /\ turn' = [turn EXCEPT ![t].at = "over"]
      /\ UNCHANGED <<open, sessionId, unwinding>>
  BY DEF Chat!RefusalRead, Chat!StreamFails, Chat!StreamEnds, Chat!Fails, Chat!At
<1>2. turn[t].at \in {"sent", "refused", "reading", "done"}
  BY DEF Chat!RefusalRead, Chat!StreamFails, Chat!StreamEnds, Chat!At
<1>3. Going(turn[t])
  BY <1>2 DEF Going
<1>4. CASE Chat!StreamEnds(t)
  <2>1. UNCHANGED messages /\ turn[t].at = "done" /\ t = abortRef
    BY <1>1, <1>3, <1>4, OneGoesOn DEF Chat!StreamEnds, Chat!At
  <2>2. messages \in Seq(Chat!Message) /\ NoDraft(messages)
    BY <2>1 DEF ChatInv, ChatTypes, Writing, NoDraft
  <2>3. messages' \in Seq(Chat!Message) /\ NoDraft(messages') /\ Stays
    BY <2>1, <2>2, DraftRests
  <2>4. QED
    BY <1>1, <1>3, <2>3, TurnEnds
<1>5. CASE Chat!ShowFailure
  <2>1. PICK kept : kept = Chat!Settled(messages)
    OBVIOUS
  <2>2. /\ kept \in Seq(Chat!Message) /\ NoDraft(kept)
        /\ \A i \in DOMAIN messages : messages[i].id = Chat!STREAMING_ID /\ messages[i].parts # <<>>
              => Chat!Kept(messages[i].parts, kept)
    BY <2>1, DraftSettles
  <2>3. messages' = Append(kept, Chat!ErrorMessage)
    BY <1>5, <2>1 DEF Chat!ShowFailure
  <2>4. messages' \in Seq(Chat!Message) /\ NoDraft(messages')
    BY <2>2, <2>3, AppendsMessage, SomeMessages
  <2>5. Stays
    BY <2>2, <2>3, KeptLonger, SomeMessages DEF Stays
  <2>6. QED
    BY <1>1, <1>3, <2>4, <2>5, TurnEnds
<1>6. QED
  BY <1>4, <1>5 DEF Chat!RefusalRead, Chat!StreamFails, Chat!Fails

LEMMA EventStep ==
    ASSUME ChatInv, NEW t \in Chat!Turns, Chat!EventArrives(t) PROVE ChatInv' /\ Stays
<1>1. /\ Chat!Task /\ t \in DOMAIN turn /\ turn[t].at = "reading"
      /\ UNCHANGED <<open, sessionId, isStreaming, abortRef, turn, unwinding>>
  BY DEF Chat!EventArrives, Chat!At
<1>2. t = abortRef
  BY <1>1, OneGoesOn DEF Going
<1>3. /\ messages \in Seq(Chat!Message) /\ Len(messages) \in Nat /\ DOMAIN messages = 1 .. Len(messages)
      /\ \A i \in DOMAIN messages : messages[i] \in Chat!Message
  BY ReadSeq DEF ChatInv, ChatTypes
<1>4. PICK ms : ms = messages'
  OBVIOUS
<1>5. PICK parts :
        /\ \/ parts = [i \in Chat!Draft |-> Chat!appendReasoningDelta(messages[i].parts, t)]
           \/ parts = [i \in Chat!Draft |-> Chat!appendTextDelta(messages[i].parts, t)]
           \/ parts = [i \in Chat!Draft |-> Chat!appendToolStart(messages[i].parts, t)]
           \/ parts = [i \in Chat!Draft |-> Chat!markToolDone(messages[i].parts)]
           \/ parts = [i \in Chat!Draft |-> Chat!closeStreamingReasoning(messages[i].parts)]
        /\ ms = [i \in DOMAIN messages |->
                   IF i \in Chat!Draft THEN [messages[i] EXCEPT !.parts = parts[i]] ELSE messages[i]]
  BY <1>4 DEF Chat!EventArrives, Chat!updateStreamingMessage
<1>6. ASSUME NEW i \in DOMAIN messages, messages[i].id = Chat!STREAMING_ID
      PROVE  /\ ms[i] \in Chat!Message /\ ms[i].role = messages[i].role
             /\ ms[i].parts = parts[i] /\ Grows(messages[i].parts, parts[i], t)
  <2>1. i \in Chat!Draft
    BY <1>6 DEF Chat!Draft
  <2>2. PICK old : old = messages[i].parts
    OBVIOUS
  <2>3. messages[i] \in Chat!Message /\ old \in Seq(Chat!Part)
    BY <1>3, <2>2 DEF Chat!Message
  <2>4. \/ parts[i] = Chat!appendReasoningDelta(old, t) \/ parts[i] = Chat!appendTextDelta(old, t)
        \/ parts[i] = Chat!appendToolStart(old, t) \/ parts[i] = Chat!markToolDone(old)
        \/ parts[i] = Chat!closeStreamingReasoning(old)
    BY <1>5, <2>1, <2>2
  <2>5. Grows(old, parts[i], t)
    BY <2>3, <2>4, EventGrows
  <2>6. parts[i] \in Seq(Chat!Part)
    BY <2>5 DEF Grows
  <2>7. PICK m : m = [messages[i] EXCEPT !.parts = parts[i]]
    OBVIOUS
  <2>8. m \in Chat!Message /\ m.role = messages[i].role /\ m.parts = parts[i]
    BY <2>3, <2>6, <2>7 DEF Chat!Message
  <2>9. ms[i] = m
    BY <1>5, <2>1, <2>7
  <2>10. QED
    BY <2>2, <2>5, <2>8, <2>9
<1>7. ASSUME NEW i \in DOMAIN messages, messages[i].id # Chat!STREAMING_ID
      PROVE  ms[i] \in Chat!Message /\ ms[i].id # Chat!STREAMING_ID
  BY <1>3, <1>5, <1>7 DEF Chat!Draft
<1>8. DOMAIN ms = DOMAIN messages /\ ms = [i \in DOMAIN messages |-> ms[i]]
  BY <1>5
<1>9. ms \in Seq(Chat!Message) /\ Len(ms) = Len(messages)
  BY <1>3, <1>6, <1>7, <1>8, MadeSeq
<1>10. ASSUME NEW i \in DOMAIN ms, ms[i].id = Chat!STREAMING_ID
       PROVE  /\ i = Len(ms) /\ ms[i].role = "assistant"
              /\ abortRef # None /\ turn[abortRef].session = sessionId /\ turn[abortRef].at # "done"
              /\ \A p \in DOMAIN ms[i].parts : ms[i].parts[p].by = {abortRef}
  <2>1. i \in DOMAIN messages /\ messages[i].id = Chat!STREAMING_ID
    BY <1>7, <1>8, <1>10
  <2>2. /\ i = Len(messages) /\ messages[i].role = "assistant"
        /\ abortRef # None /\ turn[abortRef].session = sessionId /\ turn[abortRef].at # "done"
        /\ \A p \in DOMAIN messages[i].parts : messages[i].parts[p].by = {abortRef}
    BY <2>1 DEF ChatInv, Writing
  <2>3. \A p \in DOMAIN ms[i].parts : ms[i].parts[p].by = {abortRef}
    BY <1>2, <1>6, <2>1, <2>2 DEF Grows
  <2>4. QED
    BY <1>6, <1>9, <2>1, <2>2, <2>3
<1>11. Writing'
  BY <1>1, <1>4, <1>10 DEF Writing
<1>12. ChatTypes' /\ Control'
  BY <1>1, <1>4, <1>9 DEF ChatInv, ChatTypes, Control
<1>13. Stays
  <2> SUFFICES ASSUME NEW i \in DOMAIN messages, messages[i].id = Chat!STREAMING_ID
               PROVE  Chat!Kept(messages[i].parts, ms)
    BY <1>4 DEF Stays
  <2>1. messages[i].parts \in Seq(Chat!Part) /\ messages[i].role = "assistant"
    BY <1>3 DEF Chat!Message, ChatInv, Writing
  <2>2. i \in DOMAIN ms /\ ms[i].role = "assistant" /\ Grows(messages[i].parts, ms[i].parts, t)
    BY <1>6, <1>8, <2>1
  <2>3. QED
    BY <1>9, <2>1, <2>2, KeptBy
<1>14. QED
  BY <1>11, <1>12, <1>13 DEF ChatInv

\* The invariant holds in every state, and what can be read of an answer stays
\* with its conversation.
LEMMA ChatStep ==
    ASSUME ChatInv, Chat!Next PROVE ChatInv' /\ Chat!AnswerNotLost
<1>1. ASSUME Stays PROVE Chat!AnswerNotLost
  <2>1. ASSUME NEW i \in Chat!Draft, Chat!assistantHasVisibleContent(messages[i])
        PROVE  Chat!Kept(messages[i].parts, messages')
    BY <1>1, <2>1 DEF Stays, Chat!Draft, Chat!assistantHasVisibleContent
  <2>2. QED
    BY <2>1 DEF Chat!AnswerNotLost
<1>2. CASE \E s \in Sessions : Chat!SelectAnswered(s)
  BY <1>2, SelectStep DEF Chat!AnswerNotLost, Chat!ConversationStays
<1>3. CASE Chat!NewChatClicked \/ \E d \in history.deletes : Chat!Deleted(d) /\ d.active
  <2>1. Chat!Task /\ Chat!startNewChat /\ UNCHANGED turn
    BY <1>3 DEF Chat!NewChatClicked, Chat!Click, Chat!Deleted
  <2>2. QED
    BY <2>1, NewConversation DEF Chat!AnswerNotLost, Chat!ConversationStays
<1>4. CASE Chat!Close
  BY <1>4, CloseStep DEF Chat!AnswerNotLost, Chat!ConversationStays
<1>5. CASE Chat!Open
  BY <1>1, <1>5, OpenStep
<1>6. CASE Chat!StopClicked \/ Chat!SignOut
  BY <1>1, <1>6, StopStep
<1>7. CASE Chat!sendMessage \/ Chat!retryMessage
  BY <1>1, <1>7, AskStep
<1>8. CASE \/ Chat!SignIn \/ Chat!OpenHistory \/ Chat!CloseHistory \/ Chat!KeepConversation \/ Chat!ConfirmDelete
           \/ \E s \in Sessions : Chat!Select(s) \/ Chat!AskDelete(s) \/ Chat!SelectFails(s)
           \/ \E d \in history.deletes : Chat!DeleteFails(d) \/ (Chat!Deleted(d) /\ ~d.active)
  BY <1>1, <1>8, DialogStep
<1>9. ASSUME NEW t \in Chat!Turns, Chat!Answered(t) \/ Chat!Refused(t) PROVE ChatInv' /\ Chat!AnswerNotLost
  BY <1>1, <1>9, AnswerStep
<1>10. ASSUME NEW t \in Chat!Turns, Chat!RefusalRead(t) \/ Chat!StreamFails(t) \/ Chat!StreamEnds(t)
       PROVE  ChatInv' /\ Chat!AnswerNotLost
  BY <1>1, <1>10, EndStep
<1>11. ASSUME NEW t \in Chat!Turns, Chat!EventArrives(t) PROVE ChatInv' /\ Chat!AnswerNotLost
  BY <1>1, <1>11, EventStep
<1>12. ASSUME NEW t \in Chat!Turns, Chat!DoneArrives(t) PROVE ChatInv' /\ Chat!AnswerNotLost
  BY <1>1, <1>12, DoneStep
<1>13. ASSUME NEW t \in Chat!Turns, Chat!Unwind(t) PROVE ChatInv' /\ Chat!AnswerNotLost
  BY <1>1, <1>13, Unwinds
<1>14. ASSUME NEW t \in Chat!Turns, Chat!AbandonedEnds(t) PROVE ChatInv' /\ Chat!AnswerNotLost
  BY <1>1, <1>14, Abandoned
<1>15. CASE Chat!UserSteps
  BY <1>3, <1>4, <1>5, <1>6, <1>7, <1>8, <1>15 DEF Chat!UserSteps
<1>16. CASE Chat!Answers
  BY <1>2, <1>3, <1>8, <1>9, <1>10, <1>11, <1>12, <1>13, <1>14, <1>16 DEF Chat!Answers
<1>17. QED
  BY <1>15, <1>16 DEF Chat!Next

LEMMA OneStream ==
    ASSUME ChatInv PROVE Chat!RunningTurnStoppable /\ Chat!DraftOfRunningTurn
<1>1. Chat!RunningTurnStoppable
  BY DEF ChatInv, Control, Going, Chat!Task, Chat!RunningTurnStoppable
<1>2. Chat!DraftOfRunningTurn
  <2> SUFFICES ASSUME NEW i \in Chat!Draft
               PROVE  /\ i = Len(messages) /\ abortRef # None
                      /\ turn[abortRef].session = sessionId
                      /\ Chat!ChatAssistantTurn(messages[i]) # "none"
                      /\ \A p \in DOMAIN messages[i].parts : messages[i].parts[p].by = {abortRef}
    BY DEF Chat!DraftOfRunningTurn
  <2>1. i \in DOMAIN messages /\ messages[i].id = Chat!STREAMING_ID
    BY DEF Chat!Draft
  <2>2. abortRef # None /\ isStreaming = (abortRef # None)
    BY <2>1 DEF ChatInv, Writing, Control
  <2>3. isStreaming
    BY <2>2
  <2>4. Chat!ChatAssistantTurn(messages[i]) # "none"
    BY <2>1, <2>3 DEF Chat!ChatAssistantTurn
  <2>5. QED
    BY <2>1, <2>4 DEF ChatInv, Writing
<1>3. QED
  BY <1>1, <1>2

-----------------------------------------------------------------------------
(* The types of the chat                                                     *)
\* A widget that is open has a conversation, and so has every question.
Conversations ==
    /\ open \in BOOLEAN /\ (open => sessionId \in Sessions)
    /\ \A t \in DOMAIN turn : turn[t].session \in Sessions
    /\ saved \subseteq Sessions

Counts ==
    /\ user \in {None} \cup [used : Nat]
    /\ quotaUsed \in Nat \cup {None} /\ counted \in Nat

MoreChatTypes == Conversations /\ Counts /\ history \in Chat!History

LEMMA MoreChatTypesInit == ASSUME Chat!Init PROVE MoreChatTypes
<1>1. Conversations
  <2>1. turn = <<>> /\ open = FALSE /\ saved = {}
    BY DEF Chat!Init
  <2>2. DOMAIN turn = {}
    BY <2>1
  <2>3. QED
    BY <2>1, <2>2 DEF Conversations
<1>2. Counts
  BY DEF Chat!Init, Counts
<1>3. history \in Chat!History
  <2>1. history = [open |-> FALSE, pendingDelete |-> None, deleting |-> FALSE,
                   asked |-> {}, deletes |-> {}]
    BY DEF Chat!Init
  <2>2. QED
    BY <2>1 DEF Chat!History
<1>4. QED
  BY <1>1, <1>2, <1>3 DEF MoreChatTypes

\* A new conversation has an id that may be returned.
LEMMA FreshIsSession == ASSUME NEW used PROVE Chat!Fresh(used) \subseteq Sessions
<1> DEFINE free == Sessions \ (used \cup saved \cup {turn[t].session : t \in DOMAIN turn})
<1>1. Chat!Fresh(used) = IF free = {} THEN {} ELSE {CHOOSE id \in free : TRUE}
  BY DEF Chat!Fresh
<1> HIDE DEF free
<1>2. free # {} => (CHOOSE id \in free : TRUE) \in free
  OBVIOUS
<1>3. free \subseteq Sessions
  BY DEF free
<1>4. QED
  BY <1>1, <1>2, <1>3

\* Questions keep their conversations, whatever becomes of them.
LEMMA StagesKeep ==
    ASSUME turn \in Seq(Call), Conversations, NEW t, NEW stage, turn' = [turn EXCEPT ![t].at = stage]
    PROVE  \A k \in DOMAIN turn' : turn'[k].session \in Sessions
<1>1. DOMAIN turn' = DOMAIN turn /\ \A k \in DOMAIN turn : turn[k] \in Call
  OBVIOUS
<1>2. ASSUME NEW k \in DOMAIN turn PROVE turn'[k].session = turn[k].session
  <2>1. turn[k] \in Call
    BY <1>1
  <2>2. turn'[k] = turn[k] \/ turn'[k] = [turn[k] EXCEPT !.at = stage]
    OBVIOUS
  <2>3. QED
    BY <2>1, <2>2 DEF Call
<1>3. QED
  BY <1>1, <1>2 DEF Conversations

LEMMA ConversationsStep ==
    ASSUME ChatInv, Conversations, history \in Chat!History, Chat!Next
    PROVE  Conversations'
<1>0. turn \in Seq(Call)
  BY DEF ChatInv, ChatTypes
<1>1. CASE Chat!Open
  <2>1. PICK id \in Chat!Fresh({}) : sessionId' = id
    BY <1>1 DEF Chat!Open, Chat!NewWidget
  <2>2. open' = TRUE /\ UNCHANGED <<turn, saved>>
    BY <1>1 DEF Chat!Open, Chat!server
  <2>3. QED
    BY <2>1, <2>2, FreshIsSession DEF Conversations
<1>2. CASE Chat!Close
  <2>1. open' = FALSE /\ saved' = saved /\ DOMAIN turn' = DOMAIN turn
        /\ \A t \in DOMAIN turn : turn'[t] = turn[t] \/ turn'[t] = [turn[t] EXCEPT !.at = "abandoned"]
    BY <1>2 DEF Chat!Close, Chat!server
  <2>2. ASSUME NEW t \in DOMAIN turn PROVE turn'[t].session = turn[t].session
    <3>1. turn[t] \in Call
      BY <1>0
    <3>2. QED
      BY <2>1, <3>1 DEF Call
  <2>3. QED
    BY <2>1, <2>2 DEF Conversations
<1>3. ASSUME NEW said, Chat!Click, Chat!runAssistantTurn(said) PROVE Conversations'
  <2>1. PICK call : call = [at |-> "sent", session |-> sessionId]
    OBVIOUS
  <2>2. turn' = Append(turn, call) /\ UNCHANGED <<open, sessionId, saved>>
    BY <1>3, <2>1 DEF Chat!runAssistantTurn, Chat!server
  <2>3. call.session \in Sessions
    BY <1>3, <2>1 DEF Chat!Click, Conversations
  <2>4. DOMAIN turn' = 1 .. Len(turn) + 1 /\ DOMAIN turn = 1 .. Len(turn)
        /\ \A t \in DOMAIN turn' : turn'[t] = IF t = Len(turn) + 1 THEN call ELSE turn[t]
    BY <1>0, <2>2
  <2>5. QED
    BY <2>2, <2>3, <2>4 DEF Conversations
<1>4. ASSUME Chat!startNewChat, UNCHANGED <<open, turn>>, saved' \subseteq saved PROVE Conversations'
  <2>1. sessionId' \in Sessions
    BY <1>4, FreshIsSession DEF Chat!startNewChat
  <2>2. QED
    BY <1>4, <2>1 DEF Conversations
<1>5. CASE Chat!NewChatClicked
  BY <1>4, <1>5 DEF Chat!NewChatClicked, Chat!server
<1>6. ASSUME NEW s \in Sessions, Chat!SelectAnswered(s) PROVE Conversations'
  BY <1>6 DEF Chat!SelectAnswered, Chat!loadSession, Chat!server, Conversations
<1>7. ASSUME NEW d \in history.deletes, Chat!Deleted(d) PROVE Conversations'
  <2>1. UNCHANGED <<open, turn>> /\ saved' \subseteq saved
    BY <1>7 DEF Chat!Deleted
  <2>2. CASE d.active
    BY <1>4, <1>7, <2>1, <2>2 DEF Chat!Deleted
  <2>3. CASE ~d.active
    BY <1>7, <2>1, <2>3 DEF Chat!Deleted, Conversations
  <2>4. QED
    BY <2>2, <2>3
<1>8. ASSUME NEW t \in Chat!Turns, NEW stage,
             turn' = [turn EXCEPT ![t].at = stage], UNCHANGED <<open, sessionId>>,
             saved' = saved \/ (t \in DOMAIN turn /\ saved' = saved \cup {turn[t].session})
      PROVE  Conversations'
  <2>1. \A k \in DOMAIN turn' : turn'[k].session \in Sessions
    BY <1>0, <1>8, StagesKeep
  <2>2. saved' \subseteq Sessions
    BY <1>8 DEF Conversations
  <2>3. QED
    BY <1>8, <2>1, <2>2 DEF Conversations
<1>9. ASSUME NEW t \in Chat!Turns,
             \/ Chat!Answered(t) \/ Chat!Refused(t) \/ Chat!RefusalRead(t) \/ Chat!StreamFails(t)
             \/ Chat!StreamEnds(t) \/ Chat!Unwind(t)
      PROVE  Conversations'
  <2>1. UNCHANGED <<open, sessionId, saved>> /\ \E stage : turn' = [turn EXCEPT ![t].at = stage]
    BY <1>9 DEF Chat!Answered, Chat!Refused, Chat!RefusalRead, Chat!StreamFails, Chat!StreamEnds,
       Chat!Unwind, Chat!Fails, Chat!server, Chat!widget
  <2>2. QED
    BY <1>8, <2>1
<1>10. ASSUME NEW t \in Chat!Turns, Chat!DoneArrives(t) \/ Chat!AbandonedEnds(t) PROVE Conversations'
  <2>1. UNCHANGED <<open, sessionId>> /\ t \in DOMAIN turn
        /\ (saved' = saved \/ saved' = saved \cup {turn[t].session})
        /\ \E stage : turn' = [turn EXCEPT ![t].at = stage]
    BY <1>10 DEF Chat!DoneArrives, Chat!AbandonedEnds, Chat!ServerFinishes, Chat!At, Chat!server,
       Chat!widget
  <2>2. QED
    BY <1>8, <2>1
<1>11. ASSUME UNCHANGED <<open, sessionId, turn, saved>> PROVE Conversations'
  BY <1>11 DEF Conversations
<1>12. ASSUME \/ Chat!SignIn \/ Chat!SignOut \/ Chat!StopClicked \/ Chat!OpenHistory
              \/ Chat!CloseHistory \/ Chat!KeepConversation \/ Chat!ConfirmDelete
              \/ \E s \in Sessions : Chat!Select(s) \/ Chat!AskDelete(s) \/ Chat!SelectFails(s)
              \/ \E t \in Chat!Turns : Chat!EventArrives(t)
              \/ \E d \in history.deletes : Chat!DeleteFails(d)
       PROVE  Conversations'
  BY <1>11, <1>12 DEF Chat!SignIn, Chat!SignOut, Chat!StopClicked, Chat!OpenHistory,
     Chat!CloseHistory, Chat!KeepConversation, Chat!ConfirmDelete, Chat!Select, Chat!AskDelete,
     Chat!SelectFails, Chat!EventArrives, Chat!DeleteFails, Chat!server, Chat!widget
<1>13. ASSUME Chat!sendMessage \/ Chat!retryMessage PROVE Conversations'
  BY <1>3, <1>13 DEF Chat!sendMessage, Chat!retryMessage
<1>14. QED
  BY <1>1, <1>2, <1>5, <1>6, <1>7, <1>9, <1>10, <1>12, <1>13
     DEF Chat!Next, Chat!UserSteps, Chat!Answers

\* The counts are numbers.
LEMMA CountsStep ==
    ASSUME Counts, Chat!Next
    PROVE  Counts'
<1> USE ChatAssumption DEF Counts
<1>1. ASSUME UNCHANGED <<user, quotaUsed, counted>> PROVE Counts'
  BY <1>1
<1>2. ASSUME NEW u, u \in {None} \cup [used : Nat], Chat!ShowQuotaOf(u) PROVE quotaUsed' \in Nat \cup {None}
  <2>1. u # None => u.used \in Nat
    BY <1>2
  <2>2. QED
    BY <1>2, <2>1 DEF Chat!ShowQuotaOf
<1>3. ASSUME Chat!SpendsQuota PROVE quotaUsed' \in Nat \cup {None}
  BY <1>3 DEF Chat!SpendsQuota
<1>4. ASSUME NEW t, Chat!ServerFinishes(t) PROVE counted' \in Nat
  BY <1>4 DEF Chat!ServerFinishes
<1>5. CASE Chat!Open
  BY <1>2, <1>5 DEF Chat!Open, Chat!server
<1>6. CASE Chat!Close
  BY <1>6 DEF Chat!Close, Chat!server
<1>7. CASE Chat!SignIn
  <2>1. user' = [used |-> counted] /\ counted' = counted
        /\ (Chat!ShowQuotaOf(user') \/ quotaUsed' = quotaUsed)
    BY <1>7 DEF Chat!SignIn, Chat!server
  <2>2. PICK u : u = user'
    OBVIOUS
  <2>3. u \in [used : Nat] /\ (Chat!ShowQuotaOf(u) \/ quotaUsed' = quotaUsed)
    BY <2>1, <2>2
  <2>4. QED
    BY <1>2, <2>1, <2>2, <2>3
<1>8. CASE Chat!SignOut
  BY <1>8 DEF Chat!SignOut, Chat!server
<1>9. ASSUME NEW t \in Chat!Turns, Chat!DoneArrives(t) PROVE Counts'
  <2>1. counted' \in Nat
    BY <1>4, <1>9 DEF Chat!DoneArrives
  <2>2. CASE quotaUsed' = (IF Chat!chatQuota THEN Chat!ShownUsed + counted' ELSE quotaUsed)
             /\ UNCHANGED user
    <3>1. Chat!chatQuota => Chat!ShownUsed \in Nat
      BY DEF Chat!chatQuota, Chat!ShownUsed
    <3>2. QED
      BY <2>1, <2>2, <3>1
  <2>3. CASE user' = [used |-> counted'] /\ Chat!ShowQuotaOf(user')
    <3>1. PICK u : u = user'
      OBVIOUS
    <3>2. u \in [used : Nat] /\ Chat!ShowQuotaOf(u)
      BY <2>1, <2>3, <3>1
    <3>3. QED
      BY <1>2, <2>1, <3>1, <3>2
  <2>4. QED
    BY <1>9, <2>2, <2>3 DEF Chat!DoneArrives
<1>10. ASSUME NEW t \in Chat!Turns, Chat!AbandonedEnds(t) PROVE Counts'
  BY <1>4, <1>10 DEF Chat!AbandonedEnds, Chat!server, Chat!widget
<1>11. ASSUME NEW t \in Chat!Turns, Chat!RefusalRead(t) \/ Chat!Unwind(t) PROVE Counts'
  <2>1. UNCHANGED <<user, counted>> /\ (Chat!SpendsQuota \/ quotaUsed' = quotaUsed)
    BY <1>11 DEF Chat!RefusalRead, Chat!Unwind, Chat!Fails, Chat!ShowRefusal, Chat!server
  <2>2. QED
    BY <1>3, <2>1
<1>12. ASSUME NEW t \in Chat!Turns,
              Chat!Answered(t) \/ Chat!Refused(t) \/ Chat!StreamFails(t) \/ Chat!EventArrives(t)
              \/ Chat!StreamEnds(t)
       PROVE  Counts'
  BY <1>1, <1>12 DEF Chat!Answered, Chat!Refused, Chat!StreamFails, Chat!EventArrives,
     Chat!StreamEnds, Chat!Fails, Chat!server, Chat!widget
<1>13. ASSUME \/ Chat!sendMessage \/ Chat!retryMessage \/ Chat!StopClicked \/ Chat!NewChatClicked
              \/ Chat!OpenHistory \/ Chat!CloseHistory \/ Chat!KeepConversation \/ Chat!ConfirmDelete
              \/ \E s \in Sessions : \/ Chat!Select(s) \/ Chat!AskDelete(s) \/ Chat!SelectFails(s)
                                     \/ Chat!SelectAnswered(s)
              \/ \E d \in history.deletes : Chat!Deleted(d) \/ Chat!DeleteFails(d)
       PROVE  Counts'
  BY <1>1, <1>13 DEF Chat!sendMessage, Chat!retryMessage, Chat!runAssistantTurn, Chat!StopClicked,
     Chat!NewChatClicked, Chat!OpenHistory, Chat!CloseHistory, Chat!KeepConversation,
     Chat!ConfirmDelete, Chat!Select, Chat!AskDelete, Chat!SelectFails, Chat!SelectAnswered,
     Chat!Deleted, Chat!DeleteFails, Chat!server, Chat!widget
<1>14. QED
  BY <1>5, <1>6, <1>7, <1>8, <1>9, <1>10, <1>11, <1>12, <1>13
     DEF Chat!Next, Chat!UserSteps, Chat!Answers

\* The dialog asks for conversations that are known, and remembers its deletes.
LEMMA HistoryStep ==
    ASSUME Conversations, history \in Chat!History, Chat!Next
    PROVE  history' \in Chat!History
<1>0. /\ history = [open |-> history.open, pendingDelete |-> history.pendingDelete,
                    deleting |-> history.deleting, asked |-> history.asked,
                    deletes |-> history.deletes]
      /\ history.open \in BOOLEAN /\ history.pendingDelete \in Sessions \cup {None}
      /\ history.deleting \in BOOLEAN /\ history.asked \subseteq Sessions
      /\ history.deletes \subseteq Chat!Delete
  BY DEF Chat!History
<1>1. ASSUME history' = history PROVE history' \in Chat!History
  BY <1>1
<1>2. ASSUME NEW h, h = Chat!Unmounted(history)
      PROVE  h \in Chat!History
  <2>1. PICK D : D = {[d EXCEPT !.mine = FALSE] : d \in history.deletes}
    OBVIOUS
  <2>2. D \subseteq Chat!Delete
    <3>1. ASSUME NEW d \in Chat!Delete PROVE [d EXCEPT !.mine = FALSE] \in Chat!Delete
      BY DEF Chat!Delete
    <3>2. QED
      BY <1>0, <2>1, <3>1
  <2>3. h = [open |-> FALSE, pendingDelete |-> None, deleting |-> FALSE, asked |-> history.asked,
             deletes |-> D]
    BY <1>2, <2>1 DEF Chat!Unmounted
  <2>4. QED
    BY <1>0, <2>2, <2>3 DEF Chat!History
<1>3. CASE Chat!Close
  <2>1. PICK h : h = Chat!Unmounted(history)
    OBVIOUS
  <2>2. h \in Chat!History
    BY <1>2, <2>1
  <2>3. PICK D : D = {[d EXCEPT !.active = FALSE] : d \in h.deletes}
    OBVIOUS
  <2>4. history' = [h EXCEPT !.asked = {}, !.deletes = D]
    BY <1>3, <2>1, <2>3 DEF Chat!Close
  <2>5. D \subseteq Chat!Delete
    <3>1. ASSUME NEW d \in Chat!Delete PROVE [d EXCEPT !.active = FALSE] \in Chat!Delete
      BY DEF Chat!Delete
    <3>2. h.deletes \subseteq Chat!Delete
      BY <2>2 DEF Chat!History
    <3>3. QED
      BY <2>3, <3>1, <3>2
  <2>6. QED
    BY <2>2, <2>4, <2>5 DEF Chat!History
<1>4. CASE Chat!SignOut
  BY <1>2, <1>4 DEF Chat!SignOut
<1>5. ASSUME NEW d \in history.deletes PROVE Chat!After(d) \in Chat!History
  <2>1. Chat!After(d) = [history EXCEPT !.deletes = history.deletes \ {d},
                    !.pendingDelete = IF d.mine THEN None ELSE history.pendingDelete,
                    !.deleting = IF d.mine THEN FALSE ELSE history.deleting]
    BY DEF Chat!After
  <2>2. QED
    BY <1>0, <2>1 DEF Chat!History
<1>6. ASSUME NEW d \in history.deletes, Chat!Deleted(d) \/ Chat!DeleteFails(d)
      PROVE  history' \in Chat!History
  <2>1. \A h \in Chat!History : [h EXCEPT !.pendingDelete = history.pendingDelete] \in Chat!History
    BY <1>0 DEF Chat!History
  <2>2. QED
    BY <1>5, <1>6, <2>1 DEF Chat!Deleted, Chat!DeleteFails
<1>7. CASE Chat!ConfirmDelete
  <2>1. PICK d : d = [session |-> history.pendingDelete,
                      active |-> history.pendingDelete = sessionId, mine |-> TRUE]
    OBVIOUS
  <2>2. d \in Chat!Delete
    BY <1>0, <1>7, <2>1 DEF Chat!ConfirmDelete, Chat!Delete
  <2>3. history' = [history EXCEPT !.deleting = TRUE, !.deletes = history.deletes \cup {d}]
    BY <1>7, <2>1 DEF Chat!ConfirmDelete
  <2>4. QED
    BY <1>0, <2>2, <2>3 DEF Chat!History
<1>8. ASSUME NEW s \in Sessions, Chat!Select(s) \/ Chat!AskDelete(s) \/ Chat!SelectFails(s)
                                 \/ Chat!SelectAnswered(s)
      PROVE  history' \in Chat!History
  <2>1. \/ history' = [history EXCEPT !.asked = history.asked \cup {s}]
        \/ history' = [history EXCEPT !.pendingDelete = s]
        \/ history' = [history EXCEPT !.asked = history.asked \ {s}]
        \/ history' = [history EXCEPT !.asked = history.asked \ {s}, !.open = FALSE]
    BY <1>8 DEF Chat!Select, Chat!AskDelete, Chat!SelectFails, Chat!SelectAnswered
  <2>2. QED
    BY <1>0, <2>1 DEF Chat!History
<1>9. ASSUME Chat!OpenHistory \/ Chat!CloseHistory \/ Chat!KeepConversation
      PROVE  history' \in Chat!History
  BY <1>0, <1>9 DEF Chat!OpenHistory, Chat!CloseHistory, Chat!KeepConversation, Chat!History
<1>10. ASSUME NEW t \in Chat!Turns,
             \/ Chat!Answered(t) \/ Chat!Refused(t) \/ Chat!RefusalRead(t) \/ Chat!StreamFails(t)
             \/ Chat!EventArrives(t) \/ Chat!DoneArrives(t) \/ Chat!StreamEnds(t)
             \/ Chat!Unwind(t) \/ Chat!AbandonedEnds(t)
       PROVE  history' \in Chat!History
  BY <1>1, <1>10 DEF Chat!Answered, Chat!Refused, Chat!RefusalRead, Chat!StreamFails,
     Chat!EventArrives, Chat!DoneArrives, Chat!StreamEnds, Chat!Unwind, Chat!AbandonedEnds,
     Chat!Fails
<1>11. ASSUME Chat!Open \/ Chat!SignIn \/ Chat!sendMessage \/ Chat!retryMessage
              \/ Chat!StopClicked \/ Chat!NewChatClicked
       PROVE  history' \in Chat!History
  BY <1>1, <1>11 DEF Chat!Open, Chat!SignIn, Chat!sendMessage, Chat!retryMessage,
     Chat!runAssistantTurn, Chat!StopClicked, Chat!NewChatClicked
<1>12. QED
  BY <1>3, <1>4, <1>6, <1>7, <1>8, <1>9, <1>10, <1>11 DEF Chat!Next, Chat!UserSteps, Chat!Answers

LEMMA MoreChatTypesStep ==
    ASSUME ChatInv, MoreChatTypes, Chat!Next \/ UNCHANGED chatVars
    PROVE  MoreChatTypes'
<1>1. CASE Chat!Next
  BY <1>1, ConversationsStep, CountsStep, HistoryStep DEF MoreChatTypes
<1>2. CASE UNCHANGED chatVars
  BY <1>2 DEF chatVars, MoreChatTypes, Conversations, Counts
<1>3. QED
  BY <1>1, <1>2

LEMMA ChatTyped == ASSUME ChatInv, MoreChatTypes PROVE Chat!TypeOK
<1>1. DOMAIN turn \subseteq Chat!Turns
  BY ChatAssumption DEF ChatInv, ChatTypes, Chat!Turns
<1>2. turn \in Seq(Chat!Turn)
  <2>1. turn \in [1 .. Len(turn) -> Call] /\ Len(turn) \in Nat
    BY DEF ChatInv, ChatTypes
  <2>2. ASSUME NEW t \in 1 .. Len(turn) PROVE turn[t] \in Chat!Turn
    BY <2>1 DEF MoreChatTypes, Conversations, Call, Stages, Chat!Turn
  <2>3. turn \in [1 .. Len(turn) -> Chat!Turn]
    BY <2>1, <2>2
  <2>4. QED
    BY <2>1, <2>3
<1>3. isStreaming \in BOOLEAN /\ abortRef \in Chat!Turns \cup {None} /\ unwinding \subseteq Chat!Turns
  BY <1>1 DEF ChatInv, Control
<1>4. QED
  BY <1>2, <1>3 DEF ChatInv, ChatTypes, MoreChatTypes, Conversations, Counts, Chat!TypeOK

-----------------------------------------------------------------------------
(* The queue of charts to draw                                               *)

\* In a queue without repetitions the one place of a chart is what is removed.
LEMMA IndexOf ==
    ASSUME NEW S, NEW s \in Seq(S), Hydration!IsInjective(s), NEW e, e \in Hydration!ToSet(s)
    PROVE  \E k \in 1 .. Len(s) : s[k] = e /\ Hydration!RemoveFirst(s, e) = Hydration!RemoveAt(s, k)
<1>1. DOMAIN s = 1 .. Len(s) /\ Len(s) \in Nat
  OBVIOUS
<1> DEFINE I == {i \in 1 .. Len(s) : s[i] = e}
<1>2. PICK k \in I : I = {k}
  BY <1>1 DEF Hydration!ToSet, Hydration!IsInjective
<1>3. Hydration!Min(I) \in I
  <2>1. k \in I /\ \A y \in I : k =< y
    BY <1>2
  <2>2. QED
    BY <2>1 DEF Hydration!Min
<1>4. Hydration!RemoveFirst(s, e) = Hydration!RemoveAt(s, Hydration!Min(I))
  BY <1>2 DEF Hydration!RemoveFirst, Hydration!SelectInSeq
<1>5. QED
  BY <1>3, <1>4

LEMMA Removed ==
    ASSUME NEW S, NEW s \in Seq(S), NEW k \in 1 .. Len(s)
    PROVE  /\ Hydration!RemoveAt(s, k) \in Seq(S) /\ Len(Hydration!RemoveAt(s, k)) = Len(s) - 1
           /\ \A i \in 1 .. Len(s) - 1 : Hydration!RemoveAt(s, k)[i] = IF i < k THEN s[i] ELSE s[i + 1]
<1> DEFINE a == SubSeq(s, 1, k - 1)
           b == SubSeq(s, k + 1, Len(s))
<1>1. Len(s) \in Nat /\ k \in Nat /\ 1 <= k /\ k <= Len(s)
  OBVIOUS
<1>2. a \in Seq(S) /\ Len(a) = k - 1 /\ \A i \in 1 .. k - 1 : a[i] = s[i]
  BY <1>1
<1>3. b \in Seq(S) /\ Len(b) = Len(s) - k /\ \A i \in 1 .. Len(s) - k : b[i] = s[i + k]
  BY <1>1
<1>4. Hydration!RemoveAt(s, k) = a \o b
  BY DEF Hydration!RemoveAt
<1> HIDE DEF a, b
<1>5. a \o b \in Seq(S) /\ Len(a \o b) = Len(s) - 1
  <2>1. a \o b \in Seq(S) /\ Len(a \o b) = Len(a) + Len(b)
    BY <1>2, <1>3, ConcatProperties
  <2>2. QED
    BY <1>1, <1>2, <1>3, <2>1
<1>6. ASSUME NEW i \in 1 .. Len(s) - 1 PROVE (a \o b)[i] = IF i < k THEN s[i] ELSE s[i + 1]
  <2>1. CASE i < k
    BY <1>1, <1>2, <1>3, <2>1
  <2>2. CASE ~(i < k)
    <3>1. (a \o b)[i] = b[i - (k - 1)]
      BY <1>1, <1>2, <1>3, <2>2
    <3>2. i - (k - 1) \in 1 .. Len(s) - k /\ i - (k - 1) + k = i + 1
      BY <1>1, <2>2
    <3>3. QED
      BY <1>3, <2>2, <3>1, <3>2
  <2>3. QED
    BY <2>1, <2>2
<1>7. QED
  BY <1>4, <1>5, <1>6

\* Removing the one place of a chart removes the chart.
LEMMA Dequeues ==
    ASSUME NEW S, NEW s \in Seq(S), Hydration!IsInjective(s), NEW e
    PROVE  /\ Hydration!RemoveFirst(s, e) \in Seq(S) /\ Hydration!IsInjective(Hydration!RemoveFirst(s, e))
           /\ Hydration!ToSet(Hydration!RemoveFirst(s, e)) = Hydration!ToSet(s) \ {e}
           /\ s = <<>> => Hydration!RemoveFirst(s, e) = <<>>
<1>1. CASE e \notin Hydration!ToSet(s)
  <2>1. Hydration!RemoveFirst(s, e) = s
    BY <1>1 DEF Hydration!RemoveFirst, Hydration!ToSet
  <2>2. QED
    BY <1>1, <2>1
<1>2. CASE e \in Hydration!ToSet(s)
  <2>1. PICK k \in 1 .. Len(s) : s[k] = e /\ Hydration!RemoveFirst(s, e) = Hydration!RemoveAt(s, k)
    BY <1>2, IndexOf
  <2>2. PICK t \in Seq(S) : /\ t = Hydration!RemoveFirst(s, e) /\ Len(t) = Len(s) - 1
                            /\ \A i \in 1 .. Len(s) - 1 : t[i] = IF i < k THEN s[i] ELSE s[i + 1]
    BY <2>1, Removed
  <2>3. DOMAIN s = 1 .. Len(s) /\ DOMAIN t = 1 .. Len(s) - 1 /\ Len(s) \in Nat
    BY <2>2
  <2> DEFINE at(i) == IF i < k THEN i ELSE i + 1
  <2>0. \A i \in DOMAIN t : at(i) \in DOMAIN s /\ t[i] = s[at(i)]
    BY <2>1, <2>2, <2>3
  <2>4. ASSUME NEW i \in DOMAIN t, NEW j \in DOMAIN t, t[i] = t[j] PROVE i = j
    <3>1. at(i) = at(j)
      BY <2>0, <2>4 DEF Hydration!IsInjective
    <3>2. QED
      BY <2>3, <3>1
  <2>5. ASSUME NEW i \in DOMAIN t PROVE t[i] \in Hydration!ToSet(s) /\ t[i] # e
    BY <2>1, <2>2, <2>3 DEF Hydration!IsInjective, Hydration!ToSet
  <2>6. ASSUME NEW i \in DOMAIN s, s[i] # e PROVE s[i] \in Hydration!ToSet(t)
    <3>1. CASE i < k
      <4>1. i \in DOMAIN t /\ t[i] = s[i]
        BY <2>2, <2>3, <3>1
      <4>2. QED
        BY <4>1 DEF Hydration!ToSet
    <3>2. CASE k < i
      <4>1. i - 1 \in DOMAIN t /\ t[i - 1] = s[i]
        BY <2>2, <2>3, <3>2
      <4>2. QED
        BY <4>1 DEF Hydration!ToSet
    <3>3. QED
      BY <2>1, <2>3, <2>6, <3>1, <3>2
  <2>7. s # <<>>
    BY <2>1
  <2>8. Hydration!ToSet(t) = Hydration!ToSet(s) \ {e}
    BY <2>5, <2>6 DEF Hydration!ToSet
  <2>9. QED
    BY <2>2, <2>4, <2>7, <2>8 DEF Hydration!IsInjective
<1>3. QED
  BY <1>1, <1>2

LEMMA Enqueues ==
    ASSUME NEW S, NEW s \in Seq(S), Hydration!IsInjective(s), NEW e \in S, e \notin Hydration!ToSet(s)
    PROVE  /\ Append(s, e) \in Seq(S) /\ Hydration!IsInjective(Append(s, e))
           /\ Hydration!ToSet(Append(s, e)) = Hydration!ToSet(s) \cup {e}
<1>1. PICK t \in Seq(S) : t = Append(s, e)
  BY AppendProperties
<1>2. /\ DOMAIN s = 1 .. Len(s) /\ Len(s) \in Nat /\ DOMAIN t = 1 .. Len(s) + 1
      /\ \A i \in 1 .. Len(s) : t[i] = s[i]
      /\ t[Len(s) + 1] = e
  BY <1>1
<1>3. \A i \in DOMAIN t : i \in DOMAIN s \/ i = Len(s) + 1
  BY <1>2
<1>4. Hydration!IsInjective(t)
  BY <1>2, <1>3 DEF Hydration!IsInjective, Hydration!ToSet
<1>5. Hydration!ToSet(t) = Hydration!ToSet(s) \cup {e}
  <2>1. \A i \in DOMAIN s : i \in DOMAIN t
    BY <1>2
  <2>2. Len(s) + 1 \in DOMAIN t
    BY <1>2
  <2>3. QED
    BY <1>2, <1>3, <2>1, <2>2 DEF Hydration!ToSet
<1>6. QED
  BY <1>1, <1>4, <1>5

LEMMA Served ==
    ASSUME NEW S, NEW s \in Seq(S), Hydration!IsInjective(s), NEW n \in 0 .. Len(s)
    PROVE  /\ SubSeq(s, n + 1, Len(s)) \in Seq(S) /\ Hydration!IsInjective(SubSeq(s, n + 1, Len(s)))
           /\ Hydration!ToSet(SubSeq(s, n + 1, Len(s))) = Hydration!ToSet(s) \ Hydration!ToSet(SubSeq(s, 1, n))
           /\ Hydration!ToSet(SubSeq(s, 1, n)) \subseteq Hydration!ToSet(s)
           /\ SubSeq(s, n + 1, Len(s)) # <<>> => Len(s) > n
<1>1. PICK a, b : a = SubSeq(s, 1, n) /\ b = SubSeq(s, n + 1, Len(s))
  OBVIOUS
<1>2. Len(s) \in Nat /\ DOMAIN s = 1 .. Len(s) /\ n \in Nat /\ n <= Len(s)
  OBVIOUS
<1>3. a \in Seq(S) /\ DOMAIN a = 1 .. n /\ \A i \in 1 .. n : a[i] = s[i]
  BY <1>1, <1>2
<1>4. b \in Seq(S) /\ Len(b) = Len(s) - n /\ DOMAIN b = 1 .. Len(s) - n
      /\ \A i \in 1 .. Len(s) - n : b[i] = s[i + n]
  <2>1. b \in Seq(S) /\ Len(b) = Len(s) - n
    <3>1. n + 1 \in Int /\ Len(s) \in Int /\ \A i \in n + 1 .. Len(s) : s[i] \in S
      BY <1>2
    <3>2. b \in Seq(S) /\ Len(b) = IF n + 1 <= Len(s) THEN Len(s) - (n + 1) + 1 ELSE 0
      BY <1>1, <3>1, SubSeqProperties
    <3>3. (n + 1 <= Len(s) => Len(s) - (n + 1) + 1 = Len(s) - n)
          /\ (~(n + 1 <= Len(s)) => Len(s) - n = 0)
      <4>1. ASSUME NEW m \in Nat, n <= m
            PROVE  /\ n + 1 <= m => m - (n + 1) + 1 = m - n
                   /\ ~(n + 1 <= m) => m - n = 0
        BY <1>2, <4>1
      <4>2. QED
        BY <1>2, <4>1
    <3>4. QED
      BY <3>2, <3>3
  <2>2. \A i \in 1 .. Len(s) - n : b[i] = s[i + n]
    BY <1>1, <1>2
  <2>3. QED
    BY <2>1, <2>2
<1>5. \A i \in DOMAIN b : i + n \in DOMAIN s /\ i + n \notin DOMAIN a
  BY <1>2, <1>3, <1>4
<1>6. \A i \in DOMAIN s : i \in DOMAIN a \/ (i - n \in DOMAIN b /\ b[i - n] = s[i])
  BY <1>2, <1>3, <1>4
<1>7. Hydration!IsInjective(b)
  BY <1>2, <1>4, <1>5 DEF Hydration!IsInjective
<1>8. \A i \in DOMAIN a : i \in DOMAIN s
  BY <1>2, <1>3
<1>9. Hydration!ToSet(a) \subseteq Hydration!ToSet(s)
  BY <1>3, <1>8 DEF Hydration!ToSet
<1>10. Hydration!ToSet(b) = Hydration!ToSet(s) \ Hydration!ToSet(a)
  <2>1. Hydration!ToSet(b) \subseteq Hydration!ToSet(s) \ Hydration!ToSet(a)
    <3>1. ASSUME NEW i \in DOMAIN b PROVE b[i] \in Hydration!ToSet(s) /\ b[i] \notin Hydration!ToSet(a)
      <4>1. b[i] = s[i + n] /\ i + n \in DOMAIN s /\ i + n \notin DOMAIN a
        BY <1>4, <1>5
      <4>2. ASSUME NEW j \in DOMAIN a PROVE b[i] # a[j]
        BY <1>3, <1>8, <4>1, <4>2 DEF Hydration!IsInjective
      <4>3. QED
        BY <4>1, <4>2 DEF Hydration!ToSet
    <3>2. QED
      BY <3>1 DEF Hydration!ToSet
  <2>2. Hydration!ToSet(s) \ Hydration!ToSet(a) \subseteq Hydration!ToSet(b)
    BY <1>3, <1>6 DEF Hydration!ToSet
  <2>3. QED
    BY <2>1, <2>2
<1>11. b # <<>> => Len(s) > n
  BY <1>2, <1>4
<1>12. QED
  BY <1>1, <1>4, <1>7, <1>9, <1>10, <1>11

\* Crossings are reported of charts in the page only.
HydrationInv ==
    /\ queue \in Seq(Charts) /\ storeFlushScheduled \in BOOLEAN
    /\ DOMAIN entries = Charts /\ \A c \in Charts : entries[c] # <<>> => c \in mounted
    /\ Hydration!OnceInQueue

LEMMA HydrationInit == ASSUME Hydration!Init PROVE HydrationInv
<1>1. queue = <<>> /\ Hydration!ToSet(queue) = {} /\ Hydration!IsInjective(queue)
  BY DEF Hydration!Init, Hydration!ToSet, Hydration!IsInjective
<1>2. DOMAIN entries = Charts /\ \A c \in Charts : entries[c] = <<>>
  BY DEF Hydration!Init
<1>3. queue \in Seq(Charts)
  BY <1>1
<1>4. QED
  BY <1>1, <1>2, <1>3 DEF Hydration!Init, HydrationInv, Hydration!OnceInQueue

LEMMA HydrationStep ==
    ASSUME HydrationInv, Hydration!Next \/ UNCHANGED hydVars
    PROVE  HydrationInv'
<1>1. ASSUME NEW c \in Charts, Hydration!Mount(c) PROVE HydrationInv'
  <2>1. UNCHANGED <<intersecting, hydrated, queue, flushScheduled,
                    storeChangedKeys, storeFlushScheduled, ready>>
        /\ mounted' = mounted \cup {c} /\ \E e : entries' = [entries EXCEPT ![c] = e]
    BY <1>1 DEF Hydration!Mount
  <2>2. DOMAIN entries' = Charts /\ \A d \in Charts : d # c => entries'[d] = entries[d]
    BY <2>1 DEF HydrationInv
  <2>3. QED
    BY <2>1, <2>2 DEF HydrationInv, Hydration!OnceInQueue
<1>2. ASSUME NEW c \in Charts, Hydration!Unmount(c) PROVE HydrationInv'
  <2>1. /\ UNCHANGED <<flushScheduled, storeChangedKeys, storeFlushScheduled>>
        /\ mounted' = mounted \ {c} /\ entries' = [entries EXCEPT ![c] = <<>>]
        /\ queue' = Hydration!RemoveFirst(queue, c) /\ intersecting' = intersecting \ {c}
        /\ hydrated' = hydrated \ {c} /\ ready' = ready \ {c}
    BY <1>2 DEF Hydration!Unmount, Hydration!Dequeued
  <2>2. DOMAIN entries' = Charts
        /\ \A d \in Charts : entries'[d] = IF d = c THEN <<>> ELSE entries[d]
    BY <2>1 DEF HydrationInv
  <2>3. queue' \in Seq(Charts) /\ Hydration!IsInjective(queue') /\ Hydration!ToSet(queue') = Hydration!ToSet(queue) \ {c}
        /\ (queue' # <<>> => queue # <<>>)
    BY <2>1, Dequeues DEF HydrationInv, Hydration!OnceInQueue
  <2>4. QED
    BY <2>1, <2>2, <2>3 DEF HydrationInv, Hydration!OnceInQueue
<1>3. ASSUME NEW c \in Charts, Hydration!Scroll(c) PROVE HydrationInv'
  <2>1. /\ UNCHANGED <<mounted, intersecting, hydrated, queue, flushScheduled,
                       storeChangedKeys, storeFlushScheduled, ready>>
        /\ entries' = entries \/ (c \in mounted /\ \E e : entries' = [entries EXCEPT ![c] = e])
    BY <1>3 DEF Hydration!Scroll
  <2>2. DOMAIN entries' = Charts
        /\ \A d \in Charts : entries'[d] = entries[d] \/ d \in mounted
    BY <2>1 DEF HydrationInv
  <2>3. QED
    BY <2>1, <2>2 DEF HydrationInv, Hydration!OnceInQueue
<1>4. ASSUME NEW c \in Charts, Hydration!Observe(c) PROVE HydrationInv'
  <2>1. /\ c \in mounted /\ UNCHANGED <<mounted, hydrated, ready>>
        /\ entries' = [entries EXCEPT ![c] = <<>>]
    BY <1>4 DEF Hydration!Observe, HydrationInv
  <2>2. DOMAIN entries' = Charts
        /\ \A d \in Charts : entries'[d] = IF d = c THEN <<>> ELSE entries[d]
    BY <2>1 DEF HydrationInv
  <2>3. /\ storeFlushScheduled' \in BOOLEAN
        /\ storeChangedKeys' # {} => storeFlushScheduled'
    BY <1>4 DEF Hydration!Observe, Hydration!setIntersecting, Hydration!scheduleStoreNotify,
       HydrationInv, Hydration!OnceInQueue
  <2>4. CASE ~Hydration!isIntersecting(entries[c])
    <3>1. intersecting' = intersecting \ {c} /\ queue' = Hydration!RemoveFirst(queue, c)
          /\ flushScheduled' = flushScheduled
      BY <1>4, <2>4 DEF Hydration!Observe, Hydration!Dequeued, Hydration!setIntersecting,
         Hydration!With
    <3>2. queue' \in Seq(Charts) /\ Hydration!IsInjective(queue') /\ Hydration!ToSet(queue') = Hydration!ToSet(queue) \ {c}
          /\ (queue' # <<>> => queue # <<>>)
      BY <3>1, Dequeues DEF HydrationInv, Hydration!OnceInQueue
    <3>3. QED
      BY <2>1, <2>2, <2>3, <3>1, <3>2 DEF HydrationInv, Hydration!OnceInQueue
  <2>5. CASE Hydration!isIntersecting(entries[c]) /\ Hydration!Queues(c)
    <3>1. intersecting' = intersecting \cup {c} /\ queue' = Append(queue, c) /\ flushScheduled'
      BY <1>4, <2>5 DEF Hydration!Observe, Hydration!enqueueChartHydration,
         Hydration!setIntersecting, Hydration!With
    <3>2. queue' \in Seq(Charts) /\ Hydration!IsInjective(queue') /\ Hydration!ToSet(queue') = Hydration!ToSet(queue) \cup {c}
      BY <2>5, <3>1, Enqueues DEF HydrationInv, Hydration!OnceInQueue, Hydration!Queues
    <3>3. QED
      BY <2>1, <2>2, <2>3, <2>5, <3>1, <3>2 DEF HydrationInv, Hydration!OnceInQueue,
         Hydration!Queues
  <2>6. CASE Hydration!isIntersecting(entries[c]) /\ ~Hydration!Queues(c)
    <3>1. intersecting' = intersecting \cup {c} /\ UNCHANGED <<queue, flushScheduled>>
      BY <1>4, <2>6 DEF Hydration!Observe, Hydration!setIntersecting, Hydration!With
    <3>2. QED
      BY <2>1, <2>2, <2>3, <3>1 DEF HydrationInv, Hydration!OnceInQueue
  <2>7. QED
    BY <2>4, <2>5, <2>6
<1>5. ASSUME NEW c \in Charts, Hydration!Render(c) PROVE HydrationInv'
  BY <1>5 DEF Hydration!Render, HydrationInv, Hydration!OnceInQueue
<1>6. CASE Hydration!FlushQueue
  <2> DEFINE n == IF Len(queue) < CHARTS_PER_FRAME THEN Len(queue) ELSE CHARTS_PER_FRAME
             served == Hydration!ToSet(SubSeq(queue, 1, n))
  <2>1. /\ UNCHANGED <<mounted, entries, intersecting, ready>>
        /\ queue' = SubSeq(queue, n + 1, Len(queue)) /\ flushScheduled' = (Len(queue) > n)
        /\ hydrated' = hydrated \cup served /\ Hydration!scheduleStoreNotify(served \ hydrated)
    BY <1>6 DEF Hydration!FlushQueue
  <2>2. n \in 0 .. Len(queue)
    BY HydrationAssumption DEF HydrationInv
  <2> HIDE DEF n
  <2>3. /\ queue' \in Seq(Charts) /\ Hydration!IsInjective(queue') /\ Hydration!ToSet(queue') = Hydration!ToSet(queue) \ served
        /\ served \subseteq Hydration!ToSet(queue) /\ (queue' # <<>> => flushScheduled')
    BY <2>1, <2>2, Served DEF HydrationInv, Hydration!OnceInQueue
  <2>4. /\ storeFlushScheduled' \in BOOLEAN
        /\ storeChangedKeys' # {} => storeFlushScheduled'
    BY <2>1 DEF Hydration!scheduleStoreNotify, HydrationInv, Hydration!OnceInQueue
  <2>5. QED
    BY <2>1, <2>3, <2>4 DEF HydrationInv, Hydration!OnceInQueue
<1>7. CASE Hydration!StoreFlush
  BY <1>7 DEF Hydration!StoreFlush, HydrationInv, Hydration!OnceInQueue
<1>8. CASE UNCHANGED hydVars
  BY <1>8 DEF hydVars, HydrationInv, Hydration!OnceInQueue
<1>9. QED
  BY <1>1, <1>2, <1>3, <1>4, <1>5, <1>6, <1>7, <1>8 DEF Hydration!Next

-----------------------------------------------------------------------------
(* The cards of charts                                                       *)

CardTypes ==
    /\ cardNear \in BOOLEAN /\ crossings \in Seq(BOOLEAN)
    /\ item \in Card!Visibility /\ seen \in Card!Visibility /\ focused \in BOOLEAN
    /\ query \in [data : BOOLEAN, age : Nat, fetching : BOOLEAN, error : BOOLEAN,
                  invalid : BOOLEAN]
    /\ refetchIn \in 0 .. RefreshInterval

\* A card in view with an answer, and no other on its way: the rest of the
\* interval still fits into what it may grow old.
KeptFresh(q) ==
    seen.intersecting /\ focused /\ q.data /\ ~q.error /\ ~q.fetching =>
        q.age + refetchIn < StaleTime + RefreshInterval

CardInv == CardTypes /\ KeptFresh(query)

Queries == [data : BOOLEAN, age : Nat, fetching : BOOLEAN, error : BOOLEAN, invalid : BOOLEAN]

LEMMA FetchingType ==
    ASSUME NEW q \in Queries
    PROVE  Card!Fetching(q) \in Queries /\ Card!Fetching(q).fetching
BY DEF Queries, Card!Fetching

LEMMA NoCrossing == <<>> \in Seq(BOOLEAN)
OBVIOUS

LEMMA CardInit == ASSUME Card!Init PROVE CardInv
<1>1. crossings \in Seq(BOOLEAN)
  BY DEF Card!Init
<1>2. item \in Card!Visibility /\ seen \in Card!Visibility
  BY DEF Card!Init, Card!Visibility
<1>3. query \in Queries
  BY DEF Card!Init, Queries
<1>4. refetchIn \in 0 .. RefreshInterval /\ cardNear \in BOOLEAN /\ focused \in BOOLEAN
  <2>1. refetchIn = RefreshInterval /\ cardNear = FALSE /\ focused = TRUE
    BY DEF Card!Init
  <2>2. RefreshInterval \in 0 .. RefreshInterval
    BY CardAssumption
  <2>3. QED
    BY <2>1, <2>2
<1>5. KeptFresh(query)
  BY DEF Card!Init, KeptFresh
<1>6. QED
  BY <1>1, <1>2, <1>3, <1>4, <1>5 DEF CardInv, CardTypes, Queries

LEMMA CardStep == ASSUME CardInv, Card!Next \/ UNCHANGED cardVars PROVE CardInv'
<1> USE CardAssumption DEF CardInv, CardTypes
<1>0. query \in Queries
  BY DEF Queries
<1>1. CASE Card!Scroll
  <2>1. crossings' \in Seq(BOOLEAN) /\ cardNear' \in BOOLEAN
    BY <1>1 DEF Card!Scroll
  <2>2. QED
    BY <1>1, <2>1 DEF Card!Scroll, KeptFresh
<1>2. CASE Card!updateVisibility
  <2>1. item' = [intersecting |-> Head(crossings),
                 hasBeenVisible |-> item.hasBeenVisible \/ Head(crossings)]
        /\ UNCHANGED <<cardNear, seen, query, refetchIn, focused>> /\ crossings' = <<>>
    BY <1>2 DEF Card!updateVisibility
  <2>2. Head(crossings) \in BOOLEAN
    <3>1. crossings # <<>> /\ crossings \in Seq(BOOLEAN)
      BY <1>2 DEF Card!updateVisibility
    <3>2. QED
      BY <3>1, HeadTailProperties
  <2>3. item' \in Card!Visibility
    BY <2>1, <2>2 DEF Card!Visibility
  <2>4. crossings' \in Seq(BOOLEAN)
    BY <2>1, NoCrossing
  <2>5. QED
    BY <2>1, <2>3, <2>4 DEF KeptFresh
<1>3. CASE Card!Notify
  <2>1. seen' = item /\ UNCHANGED <<cardNear, crossings, item, focused>>
    BY <1>3 DEF Card!Notify
  <2>2. CASE item.intersecting = Card!isVisible
    BY <1>3, <2>1, <2>2 DEF Card!Notify, Card!isVisible, KeptFresh
  <2>3. CASE item.intersecting # Card!isVisible /\ item.intersecting
    <3>1. query' = (IF Card!Stale(query) \/ dirty THEN Card!Fetching(query) ELSE query)
          /\ refetchIn' = RefreshInterval
      BY <1>3, <2>3 DEF Card!Notify, Card!Appear
    <3>2. CASE Card!Stale(query) \/ dirty
      BY <1>0, <2>1, <3>1, <3>2, FetchingType DEF KeptFresh, Queries
    <3>3. CASE ~(Card!Stale(query) \/ dirty)
      BY <2>1, <3>1, <3>3 DEF KeptFresh, Card!Stale
    <3>4. QED
      BY <3>2, <3>3
  <2>4. CASE item.intersecting # Card!isVisible /\ ~item.intersecting
    BY <1>3, <2>1, <2>4 DEF Card!Notify, Card!Disappear, KeptFresh
  <2>5. QED
    BY <2>2, <2>3, <2>4
<1>4. CASE Card!Refetch
  <2>1. query' = (IF focused THEN Card!Fetching(query) ELSE query)
        /\ refetchIn' = RefreshInterval /\ UNCHANGED <<cardNear, crossings, item, seen, focused>>
    BY <1>4 DEF Card!Refetch
  <2>2. QED
    BY <1>0, <2>1, FetchingType DEF KeptFresh, Queries
<1>5. CASE Card!FetchOk
  <2>1. query' = [data |-> TRUE, age |-> 0, fetching |-> FALSE,
                  error |-> FALSE, invalid |-> FALSE]
        /\ refetchIn' = RefreshInterval /\ UNCHANGED <<cardNear, crossings, item, seen, focused>>
    BY <1>5 DEF Card!FetchOk, Card!FetchEnds
  <2>2. QED
    BY <2>1 DEF KeptFresh
<1>6. CASE Card!FetchFails
  <2>1. query' = [query EXCEPT !.fetching = FALSE, !.error = TRUE]
        /\ refetchIn' = RefreshInterval /\ UNCHANGED <<cardNear, crossings, item, seen, focused>>
    BY <1>6 DEF Card!FetchFails, Card!FetchEnds
  <2>2. query' \in Queries /\ query'.error
    BY <1>0, <2>1 DEF Queries
  <2>3. QED
    BY <2>1, <2>2 DEF KeptFresh, Queries
<1>7. CASE Card!refreshAll
  <2>1. [query EXCEPT !.invalid = TRUE] \in Queries
    BY DEF Queries
  <2>2. query' \in Queries /\ (Card!isVisible => query'.fetching)
    BY <1>7, <2>1, FetchingType DEF Card!refreshAll
  <2>3. UNCHANGED <<cardNear, crossings, item, seen, focused, refetchIn>>
    BY <1>7 DEF Card!refreshAll
  <2>4. QED
    BY <2>2, <2>3 DEF KeptFresh, Queries, Card!isVisible
<1>8. CASE Card!markDirtyIfStale
  BY <1>8 DEF Card!markDirtyIfStale, KeptFresh
<1>9. CASE Card!Blur
  BY <1>9 DEF Card!Blur, KeptFresh
<1>10. CASE Card!onFocus
  <2>1. focused' /\ query' = (IF Card!isVisible /\ Card!Stale(query) THEN Card!Fetching(query) ELSE query)
        /\ focused' \in BOOLEAN /\ UNCHANGED <<cardNear, crossings, item, seen, refetchIn>>
    BY <1>10 DEF Card!onFocus
  <2>2. CASE Card!isVisible /\ Card!Stale(query)
    BY <1>0, <2>1, <2>2, FetchingType DEF KeptFresh, Queries
  <2>3. CASE ~(Card!isVisible /\ Card!Stale(query))
    BY <2>1, <2>3 DEF KeptFresh, Card!Stale, Card!isVisible
  <2>4. QED
    BY <2>2, <2>3
<1>11. CASE Card!Tick
  <2>1. query' = [query EXCEPT !.age = IF @ < MaxAge THEN @ + 1 ELSE @]
        /\ refetchIn' = Card!Left(refetchIn) /\ UNCHANGED <<cardNear, crossings, item, seen, focused>>
    BY <1>11 DEF Card!Tick
  <2>2. query'.age \in Nat /\ query'.age <= query.age + 1 /\ query' \in Queries
        /\ query'.data = query.data /\ query'.error = query.error
        /\ query'.fetching = query.fetching
    BY <2>1 DEF Queries
  <2>3. Card!isVisible => refetchIn' = refetchIn - 1 /\ refetchIn # 0
    BY <1>11, <2>1 DEF Card!Tick, Card!Due, Card!Left
  <2>4. refetchIn' \in 0 .. RefreshInterval
    BY <2>1 DEF Card!Left
  <2>5. QED
    BY <2>1, <2>2, <2>3, <2>4 DEF KeptFresh, Card!isVisible, Queries
<1>12. CASE UNCHANGED cardVars
  BY <1>12 DEF cardVars, KeptFresh
<1>13. QED
  BY <1>1, <1>2, <1>3, <1>4, <1>5, <1>6, <1>7, <1>8, <1>9, <1>10, <1>11, <1>12 DEF Card!Next

LEMMA DrawnIsFresh == ASSUME CardInv PROVE Card!VisibleFresh
<1>1. Card!Drawn => Card!isVisible /\ query.data /\ ~query.error
  BY DEF Card!Drawn, Card!EntityMetricsChart, Card!resolveLazyMetricChartState
<1>2. QED
  BY <1>1, CardAssumption DEF CardInv, CardTypes, KeptFresh, Card!VisibleFresh, Card!isVisible,
     Card!Visibility

-----------------------------------------------------------------------------
(* The types of the queue and the cards                                      *)

QueueTypes ==
    /\ mounted \subseteq Charts /\ near \subseteq Charts
    /\ \A c \in Charts : entries[c] \in Seq(BOOLEAN)
    /\ entries = [c \in Charts |-> entries[c]]
    /\ intersecting \subseteq Charts /\ hydrated \subseteq Charts /\ flushScheduled \in BOOLEAN
    /\ storeChangedKeys \subseteq Charts /\ ready \subseteq Charts

LEMMA QueueTypesInit == ASSUME Hydration!Init PROVE QueueTypes
<1>1. entries = [c \in Charts |-> <<>>]
  BY DEF Hydration!Init
<1>2. \A c \in Charts : entries[c] = <<>>
  BY <1>1
<1>3. entries = [c \in Charts |-> entries[c]]
  BY <1>1
<1>4. \A c \in Charts : entries[c] \in Seq(BOOLEAN)
  BY <1>2, NoCrossing
<1>5. QED
  BY <1>3, <1>4 DEF QueueTypes, Hydration!Init

LEMMA OneCrossing ==
    ASSUME NEW b \in BOOLEAN, NEW s \in Seq(BOOLEAN)
    PROVE  <<b>> \in Seq(BOOLEAN) /\ Append(s, b) \in Seq(BOOLEAN)
OBVIOUS

LEMMA QueueTypesStep ==
    ASSUME HydrationInv, QueueTypes, Hydration!Next \/ UNCHANGED hydVars
    PROVE  QueueTypes'
<1> USE DEF QueueTypes
<1>1. ASSUME NEW c \in Charts, NEW e \in Seq(BOOLEAN), entries' = [entries EXCEPT ![c] = e]
      PROVE  /\ \A d \in Charts : entries'[d] \in Seq(BOOLEAN)
             /\ entries' = [d \in Charts |-> entries'[d]]
  <2>1. entries' = [d \in Charts |-> IF d = c THEN e ELSE entries[d]]
    BY <1>1
  <2>2. \A d \in Charts : entries'[d] = IF d = c THEN e ELSE entries[d]
    BY <2>1
  <2>3. QED
    BY <2>1, <2>2
<1>2. ASSUME NEW changed \in SUBSET Charts, Hydration!scheduleStoreNotify(changed)
      PROVE  storeChangedKeys' \subseteq Charts
  BY <1>2 DEF Hydration!scheduleStoreNotify
<1>3. ASSUME NEW c \in Charts, Hydration!Mount(c) PROVE QueueTypes'
  <2>1. (c \in near) \in BOOLEAN
    OBVIOUS
  <2>2. <<c \in near>> \in Seq(BOOLEAN)
    BY <2>1, NoCrossing, OneCrossing
  <2>3. QED
    BY <1>1, <1>3, <2>2 DEF Hydration!Mount
<1>4. ASSUME NEW c \in Charts, Hydration!Unmount(c) PROVE QueueTypes'
  BY <1>1, <1>4, NoCrossing DEF Hydration!Unmount
<1>5. ASSUME NEW c \in Charts, Hydration!Scroll(c) PROVE QueueTypes'
  <2>1. near' \subseteq Charts
    BY <1>5 DEF Hydration!Scroll, Hydration!With
  <2>2. CASE c \in mounted
    <3>1. PICK e : e = Append(entries[c], c \notin near)
      OBVIOUS
    <3>2. (c \notin near) \in BOOLEAN /\ entries[c] \in Seq(BOOLEAN)
      OBVIOUS
    <3>3. e \in Seq(BOOLEAN)
      BY <3>1, <3>2, OneCrossing
    <3>4. entries' = [entries EXCEPT ![c] = e]
      BY <1>5, <2>2, <3>1 DEF Hydration!Scroll
    <3>5. QED
      BY <1>1, <1>5, <2>1, <3>3, <3>4 DEF Hydration!Scroll
  <2>3. CASE c \notin mounted
    BY <1>5, <2>1, <2>3 DEF Hydration!Scroll
  <2>4. QED
    BY <2>2, <2>3
<1>6. ASSUME NEW c \in Charts, Hydration!Observe(c) PROVE QueueTypes'
  <2>1. intersecting' \subseteq Charts /\ storeChangedKeys' \subseteq Charts
    BY <1>2, <1>6 DEF Hydration!Observe, Hydration!setIntersecting, Hydration!With
  <2>2. flushScheduled' \in BOOLEAN
    BY <1>6 DEF Hydration!Observe, Hydration!enqueueChartHydration
  <2>3. entries' = [entries EXCEPT ![c] = <<>>] /\ UNCHANGED <<mounted, near, hydrated, ready>>
    BY <1>6 DEF Hydration!Observe
  <2>4. QED
    BY <1>1, <2>1, <2>2, <2>3, NoCrossing
<1>7. ASSUME NEW c \in Charts, Hydration!Render(c) PROVE QueueTypes'
  BY <1>7 DEF Hydration!Render
<1>8. CASE Hydration!FlushQueue
  <2> DEFINE n == IF Len(queue) < CHARTS_PER_FRAME THEN Len(queue) ELSE CHARTS_PER_FRAME
             served == Hydration!ToSet(SubSeq(queue, 1, n))
  <2>1. /\ UNCHANGED <<mounted, near, entries, intersecting, ready>>
        /\ flushScheduled' = (Len(queue) > n)
        /\ hydrated' = hydrated \cup served /\ Hydration!scheduleStoreNotify(served \ hydrated)
    BY <1>8 DEF Hydration!FlushQueue
  <2>2. n \in 0 .. Len(queue) /\ queue \in Seq(Charts) /\ Hydration!IsInjective(queue)
    BY HydrationAssumption DEF HydrationInv, Hydration!OnceInQueue
  <2> HIDE DEF n
  <2>3. served \subseteq Charts
    <3>1. served \subseteq Hydration!ToSet(queue)
      BY <2>2, Served
    <3>2. Hydration!ToSet(queue) \subseteq Charts
      BY <2>2 DEF Hydration!ToSet
    <3>3. QED
      BY <3>1, <3>2
  <2> HIDE DEF served
  <2>4. storeChangedKeys' \subseteq Charts
    BY <1>2, <2>1, <2>3
  <2>5. QED
    BY <2>1, <2>3, <2>4
<1>9. CASE Hydration!StoreFlush
  BY <1>9 DEF Hydration!StoreFlush
<1>10. CASE UNCHANGED hydVars
  BY <1>10 DEF hydVars
<1>11. QED
  BY <1>3, <1>4, <1>5, <1>6, <1>7, <1>8, <1>9, <1>10 DEF Hydration!Next

LEMMA QueueTyped == ASSUME HydrationInv, QueueTypes PROVE Hydration!TypeOK
BY DEF HydrationInv, QueueTypes, Hydration!TypeOK

MoreCardTypes ==
    /\ notifyDue \in BOOLEAN /\ dirty \in BOOLEAN
    /\ query.age <= MaxAge /\ checkIn \in 0 .. RefreshInterval

LEMMA CardTypesInit == ASSUME Card!Init PROVE MoreCardTypes
<1>1. PICK q : q = query
  OBVIOUS
<1>2. q = [data |-> FALSE, age |-> 0, fetching |-> FALSE, error |-> FALSE, invalid |-> FALSE]
  BY <1>1 DEF Card!Init
<1>3. q.age = 0
  BY <1>2
<1>4. query.age <= MaxAge
  BY <1>1, <1>3, CardAssumption
<1>5. notifyDue \in BOOLEAN /\ dirty \in BOOLEAN
  BY DEF Card!Init
<1>6. checkIn \in 0 .. RefreshInterval
  BY CardAssumption DEF Card!Init
<1>7. QED
  BY <1>4, <1>5, <1>6 DEF MoreCardTypes

LEMMA CardTypesStep ==
    ASSUME CardInv, MoreCardTypes, Card!Next \/ UNCHANGED cardVars
    PROVE  MoreCardTypes'
<1> USE CardAssumption DEF MoreCardTypes
<1>0. query \in Queries
  BY DEF CardInv, CardTypes, Queries
<1>1. /\ Card!Fetching(query).age = query.age
      /\ [query EXCEPT !.invalid = TRUE].age = query.age
      /\ [query EXCEPT !.fetching = FALSE, !.error = TRUE].age = query.age
      /\ Card!Fetching([query EXCEPT !.invalid = TRUE]).age = query.age
  BY <1>0 DEF Card!Fetching, Queries
<1>2. Card!TooOld \in BOOLEAN
  BY <1>0 DEF Card!TooOld, Queries
<1>3. CASE Card!Scroll
  BY <1>3 DEF Card!Scroll
<1>4. CASE Card!updateVisibility
  BY <1>4 DEF Card!updateVisibility
<1>5. CASE Card!Notify
  <2>1. notifyDue' = FALSE /\ (UNCHANGED <<query, dirty, refetchIn, checkIn>> \/ Card!Appear
                                 \/ Card!Disappear)
    BY <1>5 DEF Card!Notify
  <2>2. dirty' \in BOOLEAN
    BY <1>2, <2>1 DEF Card!Appear, Card!Disappear
  <2>3. checkIn' \in 0 .. RefreshInterval
    BY <2>1 DEF Card!Appear, Card!Disappear
  <2>4. query' = query \/ query' = Card!Fetching(query)
    BY <2>1 DEF Card!Appear, Card!Disappear
  <2>5. QED
    BY <1>1, <2>1, <2>2, <2>3, <2>4
<1>6. CASE Card!Refetch
  BY <1>1, <1>6 DEF Card!Refetch
<1>7. CASE Card!FetchOk
  BY <1>7 DEF Card!FetchOk, Card!FetchEnds
<1>8. CASE Card!FetchFails
  BY <1>1, <1>8 DEF Card!FetchFails, Card!FetchEnds
<1>9. CASE Card!refreshAll
  BY <1>1, <1>9 DEF Card!refreshAll
<1>10. CASE Card!markDirtyIfStale
  BY <1>2, <1>10 DEF Card!markDirtyIfStale
<1>11. CASE Card!Blur
  BY <1>11 DEF Card!Blur
<1>12. CASE Card!onFocus
  BY <1>1, <1>12 DEF Card!onFocus
<1>13. CASE Card!Tick
  <2>1. query' = [query EXCEPT !.age = IF @ < MaxAge THEN @ + 1 ELSE @]
        /\ checkIn' = Card!Left(checkIn) /\ UNCHANGED <<notifyDue, dirty>>
    BY <1>13 DEF Card!Tick
  <2>2. query.age \in Nat
    BY <1>0 DEF Queries
  <2>3. query'.age = IF query.age < MaxAge THEN query.age + 1 ELSE query.age
    BY <1>0, <2>1 DEF Queries
  <2>4. QED
    BY <2>1, <2>2, <2>3 DEF Card!Left
<1>14. CASE UNCHANGED cardVars
  BY <1>14 DEF cardVars
<1>15. QED
  BY <1>3, <1>4, <1>5, <1>6, <1>7, <1>8, <1>9, <1>10, <1>11, <1>12, <1>13, <1>14 DEF Card!Next

LEMMA CardTyped == ASSUME CardInv, MoreCardTypes PROVE Card!TypeOK
BY CardAssumption DEF CardInv, CardTypes, MoreCardTypes, Card!TypeOK

-----------------------------------------------------------------------------
(* Induction                                                                 *)

\* Induction over numbers: what fails for some fails for a least one.
Below == {p \in Nat \X Nat : p[1] < p[2]}

LEMMA Least ==
  ASSUME NEW T \in SUBSET Nat, T # {}
  PROVE  \E x \in T : \A y \in T : x <= y
<1>1. Below = OpToRel(<, Nat)
  BY DEF Below, OpToRel
<1>2. IsWellFoundedOn(Below, Nat)
  BY <1>1, NatLessThanWellFounded
<1>3. PICK x \in T : \A y \in T : <<y, x>> \notin Below
  BY <1>2, WFMin
<1>4. x \in Nat /\ \A y \in T : y \in Nat
  OBVIOUS
<1>5. \A y \in T : ~(y < x)
  BY <1>3, <1>4 DEF Below
<1>6. QED
  BY <1>4, <1>5

\* What holds at first and is passed on holds for every number.
LEMMA Every ==
  ASSUME NEW good \in SUBSET Nat, 0 \in good, \A n \in good : n + 1 \in good
  PROVE  good = Nat
<1>1. SUFFICES ASSUME Nat \ good # {} PROVE FALSE
  OBVIOUS
<1>2. PICK x \in Nat \ good : \A y \in Nat \ good : x <= y
  BY <1>1, Least
<1>3. x \in Nat /\ x # 0
  BY <1>2
<1>4. x - 1 \in Nat /\ ~(x <= x - 1) /\ (x - 1) + 1 = x
  BY <1>3
<1>5. x - 1 \in good
  BY <1>2, <1>4
<1>6. QED
  BY <1>2, <1>4, <1>5

-----------------------------------------------------------------------------
(* The labels of a chart's events                                            *)

\* The first n rounds of the loop, and the sets it may gather
Loop(A, seed, n, g) == g = [i \in 0 .. n |-> IF i = 0 THEN {seed} ELSE Events!Near(A, g[i - 1])]

LEMMA Longer ==
    ASSUME NEW A, NEW seed, NEW n \in Nat, NEW g, Loop(A, seed, n, g)
    PROVE  \E h : Loop(A, seed, n + 1, h)
<1> DEFINE h == [i \in 0 .. n + 1 |-> IF i = n + 1 THEN Events!Near(A, g[n]) ELSE g[i]]
<1>1. ASSUME NEW i \in 0 .. n + 1
      PROVE  h[i] = IF i = 0 THEN {seed} ELSE Events!Near(A, h[i - 1])
  <2>1. i = n + 1 => i - 1 = n /\ i # 0 /\ n \in 0 .. n + 1 /\ n # n + 1
    OBVIOUS
  <2>2. i # n + 1 => i \in 0 .. n /\ (i # 0 => i - 1 \in 0 .. n + 1 /\ i - 1 # n + 1)
    OBVIOUS
  <2>3. CASE i = n + 1
    BY <2>1, <2>3
  <2>4. CASE i # n + 1
    BY <2>2, <2>4 DEF Loop
  <2>5. QED
    BY <2>3, <2>4
<1>2. h = [i \in 0 .. n + 1 |-> IF i = 0 THEN {seed} ELSE Events!Near(A, h[i - 1])]
  BY <1>1
<1> HIDE DEF h
<1>3. Loop(A, seed, n + 1, h)
  BY <1>2 DEF Loop
<1>4. QED
  BY <1>3

LEMMA LoopExists ==
    ASSUME NEW A, NEW seed, NEW n \in Nat
    PROVE  \E g : Loop(A, seed, n, g)
<1> DEFINE good == {k \in Nat : \E g : Loop(A, seed, k, g)}
<1>1. 0 \in good
  <2>1. Loop(A, seed, 0, [i \in 0 .. 0 |-> {seed}])
    BY DEF Loop
  <2>2. QED
    BY <2>1
<1>2. ASSUME NEW k \in good PROVE k + 1 \in good
  BY Longer
<1>3. QED
  BY <1>1, <1>2, Every

\* What the loop has gathered after each of its rounds
LEMMA RoundsRun ==
    ASSUME NEW A, IsFiniteSet(A), NEW seed
    PROVE  /\ Cardinality(A) \in Nat /\ Events!Cardinality(A) = Cardinality(A)
           /\ Events!Rounds(A, seed)[0] = {seed}
           /\ \A i \in 0 .. Cardinality(A) - 1 :
                 Events!Rounds(A, seed)[i + 1] = Events!Near(A, Events!Rounds(A, seed)[i])
<1>1. PICK n : n = Cardinality(A)
  OBVIOUS
<1>2. n \in Nat
  BY <1>1, FS_CardinalityType
<1>3. Events!Cardinality(A) = n
  BY <1>1 DEF Events!Cardinality, Cardinality, Events!IsFiniteSet, IsFiniteSet
<1>4. Events!Rounds(A, seed) = CHOOSE g : Loop(A, seed, n, g)
  BY <1>3 DEF Events!Rounds, Loop
<1>5. PICK r : r = Events!Rounds(A, seed)
  OBVIOUS
<1>6. Loop(A, seed, n, r)
  BY <1>2, <1>4, <1>5, LoopExists
<1>7. r[0] = {seed}
  BY <1>2, <1>6 DEF Loop
<1>8. ASSUME NEW i \in 0 .. n - 1 PROVE r[i + 1] = Events!Near(A, r[i])
  <2>1. i + 1 \in 0 .. n /\ i + 1 # 0 /\ (i + 1) - 1 = i
    BY <1>2
  <2>2. QED
    BY <1>6, <2>1 DEF Loop
<1>9. QED
  BY <1>1, <1>2, <1>3, <1>5, <1>7, <1>8

\* A fact that holds before the first round and survives each holds after all.
LEMMA Reached ==
    ASSUME NEW n \in Nat, NEW good, 0 \in good, \A i \in 0 .. n - 1 : i \in good => i + 1 \in good
    PROVE  0 .. n \subseteq good
<1> DEFINE all == {i \in Nat : i <= n => i \in good}
<1>1. 0 \in all
  OBVIOUS
<1>2. ASSUME NEW i \in all PROVE i + 1 \in all
  <2>1. i \in Nat /\ (i <= n => i \in good)
    OBVIOUS
  <2>2. i + 1 <= n => i \in 0 .. n - 1
    BY <2>1
  <2>3. QED
    BY <2>1, <2>2
<1>3. all = Nat
  <2> HIDE DEF all
  <2>1. all \in SUBSET Nat
    BY DEF all
  <2>2. QED
    BY <1>1, <1>2, <2>1, Every
<1>4. QED
  BY <1>3

\* Events on the plot, one of which the mouse has found
FoundIn(A, seed) == A \in SUBSET (0 .. Width) /\ seed \in A

LEMMA FinitePlot == ASSUME NEW A \in SUBSET (0 .. Width) PROVE IsFiniteSet(A) /\ A \subseteq Nat
<1>1. IsFiniteSet(0 .. Width) /\ 0 .. Width \subseteq Nat
  BY FS_Interval, EventsAssumption
<1>2. IsFiniteSet(A)
  BY <1>1, FS_Subset
<1>3. QED
  BY <1>1, <1>2

LEMMA NearGrows ==
    ASSUME NEW A \in SUBSET Int, NEW B \in SUBSET A
    PROVE  B \subseteq Events!Near(A, B) /\ Events!Near(A, B) \subseteq A
<1>1. ASSUME NEW b \in B PROVE Events!Distance(b, b) <= CHART_EVENT_ANNOTATION_MERGE_THRESHOLD_PX
  BY EventsAssumption DEF Events!Distance
<1>2. QED
  BY <1>1 DEF Events!Near

\* The loop's result contains the event found, and all that is near a member
\* of it: as many rounds as there are events are enough.
LEMMA Gathered ==
    ASSUME NEW A, NEW seed, FoundIn(A, seed)
    PROVE  LET C == Events!clusterNearbyChartEventAnnotations(A, seed)
           IN /\ seed \in C /\ C \subseteq A /\ Events!Near(A, C) = C
              /\ \A K \in SUBSET A : seed \in K /\ Events!Near(A, K) \subseteq K => C \subseteq K
<1>1. PICK n, r : n = Cardinality(A) /\ r = Events!Rounds(A, seed)
  OBVIOUS
<1>2. A \in SUBSET Int /\ IsFiniteSet(A) /\ seed \in A
  BY FinitePlot DEF FoundIn
<1>3. /\ n \in Nat /\ r[0] = {seed}
      /\ \A i \in 0 .. n - 1 : r[i + 1] = Events!Near(A, r[i])
      /\ Events!clusterNearbyChartEventAnnotations(A, seed) = r[n]
  BY <1>1, <1>2, RoundsRun DEF Events!clusterNearbyChartEventAnnotations
<1>4. \A i \in 0 .. n : r[i] \subseteq A /\ seed \in r[i]
  <2> DEFINE good == {i \in 0 .. n : r[i] \subseteq A /\ seed \in r[i]}
  <2>1. 0 \in good
    BY <1>2, <1>3
  <2>2. ASSUME NEW i \in 0 .. n - 1, i \in good PROVE i + 1 \in good
    <3>1. i + 1 \in 0 .. n /\ r[i + 1] = Events!Near(A, r[i])
      BY <1>3
    <3>2. QED
      BY <1>2, <2>2, <3>1, NearGrows
  <2> HIDE DEF good
  <2>3. 0 .. n \subseteq good
    BY <1>3, <2>1, <2>2, Reached
  <2>4. QED
    BY <2>3 DEF good
<1>5. \E i \in 0 .. n - 1 : r[i + 1] = r[i]
  <2>1. SUFFICES ASSUME \A i \in 0 .. n - 1 : r[i + 1] # r[i] PROVE FALSE
    OBVIOUS
  <2> DEFINE good == {i \in 0 .. n : Cardinality(r[i]) >= i + 1}
  <2>2. 0 \in good
    <3>1. Cardinality(r[0]) = 1 /\ 0 \in 0 .. n
      BY <1>3, FS_Singleton
    <3>2. QED
      BY <3>1
  <2>3. ASSUME NEW i \in 0 .. n - 1, i \in good PROVE i + 1 \in good
    <3>1. i \in 0 .. n /\ i + 1 \in 0 .. n
      BY <1>3
    <3>2. /\ r[i] \subseteq A /\ r[i + 1] \subseteq A /\ r[i] \subseteq r[i + 1] /\ r[i + 1] # r[i]
      <4>1. r[i + 1] = Events!Near(A, r[i]) /\ r[i] \in SUBSET A /\ r[i + 1] # r[i]
        BY <1>3, <1>4, <2>1, <3>1
      <4>2. PICK B \in SUBSET A : B = r[i]
        BY <4>1
      <4>3. B \subseteq Events!Near(A, B) /\ Events!Near(A, B) \subseteq A
        BY <1>2, NearGrows
      <4>4. QED
        BY <4>1, <4>2, <4>3
    <3>3. IsFiniteSet(r[i + 1]) /\ Cardinality(r[i + 1]) \in Nat /\ Cardinality(r[i]) \in Nat
          /\ Cardinality(r[i]) < Cardinality(r[i + 1])
      <4>1. IsFiniteSet(r[i + 1]) /\ IsFiniteSet(r[i])
        BY <1>2, <3>2, FS_Subset
      <4>2. Cardinality(r[i + 1]) \in Nat /\ Cardinality(r[i]) \in Nat
        BY <4>1, FS_CardinalityType
      <4>3. Cardinality(r[i]) <= Cardinality(r[i + 1]) /\ Cardinality(r[i]) # Cardinality(r[i + 1])
        BY <3>2, <4>1, FS_Subset
      <4>4. QED
        BY <4>1, <4>2, <4>3
    <3>4. QED
      BY <2>3, <3>1, <3>3
  <2> HIDE DEF good
  <2>4. 0 .. n \subseteq good
    BY <1>3, <2>2, <2>3, Reached
  <2>5. Cardinality(r[n]) >= n + 1
    BY <1>3, <2>4 DEF good
  <2>6. Cardinality(r[n]) <= n /\ Cardinality(r[n]) \in Nat
    <3>1. r[n] \subseteq A
      BY <1>3, <1>4
    <3>2. QED
      BY <1>1, <1>2, <3>1, FS_Subset, FS_CardinalityType
  <2>7. QED
    BY <1>3, <2>5, <2>6
<1>6. PICK i \in 0 .. n - 1 : r[i + 1] = r[i]
  BY <1>5
<1>7. r[n] = r[i]
  <2> DEFINE good == {k \in 0 .. n : k >= i => r[k] = r[i]}
  <2>1. 0 \in good
    BY <1>3
  <2>2. ASSUME NEW k \in 0 .. n - 1, k \in good PROVE k + 1 \in good
    <3>1. k + 1 \in 0 .. n /\ k \in Int /\ i \in Int
      BY <1>3
    <3>2. CASE k >= i
      <4>1. r[k + 1] = Events!Near(A, r[i]) /\ Events!Near(A, r[i]) = r[i]
        BY <1>3, <1>6, <2>2, <3>2
      <4>2. QED
        BY <3>1, <4>1
    <3>3. CASE ~(k >= i)
      <4>1. k + 1 >= i => k + 1 = i
        BY <3>1, <3>3
      <4>2. QED
        BY <3>1, <4>1
    <3>4. QED
      BY <3>2, <3>3
  <2> HIDE DEF good
  <2>3. 0 .. n \subseteq good
    BY <1>3, <2>1, <2>2, Reached
  <2>4. n \in good /\ n >= i
    BY <1>3, <2>3
  <2>5. QED
    BY <2>4 DEF good
<1>8. ASSUME NEW K \in SUBSET A, seed \in K, Events!Near(A, K) \subseteq K PROVE r[n] \subseteq K
  <2> DEFINE good == {k \in 0 .. n : r[k] \subseteq K}
  <2>1. 0 \in good
    BY <1>3, <1>8
  <2>2. ASSUME NEW k \in 0 .. n - 1, k \in good PROVE k + 1 \in good
    <3>1. k + 1 \in 0 .. n /\ r[k + 1] = Events!Near(A, r[k])
      BY <1>3
    <3>2. r[k] \subseteq K
      BY <2>2
    <3>3. Events!Near(A, r[k]) \subseteq Events!Near(A, K)
      BY <3>2 DEF Events!Near
    <3>4. QED
      BY <1>8, <3>1, <3>3
  <2> HIDE DEF good
  <2>3. 0 .. n \subseteq good
    BY <1>3, <2>1, <2>2, Reached
  <2>4. QED
    BY <1>3, <2>3 DEF good
<1>9. Events!Near(A, r[n]) = r[n]
  BY <1>3, <1>6, <1>7
<1>10. n \in 0 .. n
  BY <1>3
<1>11. QED
  BY <1>3, <1>4, <1>8, <1>9, <1>10

\* The members of a cluster have no gap between them wider than the merge
\* distance: of two halves with such a gap the loop would not leave the one the
\* event found is in.
LEMMA NoGap ==
    ASSUME NEW A, NEW seed, FoundIn(A, seed), NEW C,
           C = Events!clusterNearbyChartEventAnnotations(A, seed),
           NEW a \in C, NEW m \in C, m < a
    PROVE  \E b \in C : b < a /\ a - b <= CHART_EVENT_ANNOTATION_MERGE_THRESHOLD_PX
<1> SUFFICES ASSUME \A b \in C : ~(b < a /\ a - b <= CHART_EVENT_ANNOTATION_MERGE_THRESHOLD_PX)
             PROVE  FALSE
  OBVIOUS
<1>1. /\ seed \in C /\ C \subseteq A /\ Events!Near(A, C) = C
      /\ \A K \in SUBSET A : seed \in K /\ Events!Near(A, K) \subseteq K => C \subseteq K
  BY Gathered
<1>2. A \subseteq Nat
  BY FinitePlot DEF FoundIn
<1> DEFINE K == IF seed < a THEN {b \in C : b < a} ELSE {b \in C : a <= b}
<1>3. Events!Near(A, K) \subseteq K
  <2>1. ASSUME NEW c \in A, NEW b \in K,
               Events!Distance(c, b) <= CHART_EVENT_ANNOTATION_MERGE_THRESHOLD_PX
        PROVE  c \in K
    <3>1. b \in C /\ c \in Nat /\ b \in Nat /\ a \in Nat
      BY <1>1, <1>2
    <3>2. c \in C
      BY <1>1, <2>1, <3>1 DEF Events!Near
    <3>3. ~(b < a /\ a <= c) /\ ~(c < a /\ a <= b)
      BY <2>1, <3>1, <3>2, EventsAssumption DEF Events!Distance
    <3>4. QED
      BY <3>1, <3>2, <3>3
  <2> HIDE DEF K
  <2>2. QED
    BY <2>1 DEF Events!Near
<1>4. C \subseteq K
  <2>1. seed \in K /\ K \subseteq A
    BY <1>1, <1>2
  <2> HIDE DEF K
  <2>2. QED
    BY <1>1, <1>3, <2>1
<1>5. a \in K /\ m \in K /\ a \in Nat /\ m \in Nat
  BY <1>1, <1>2, <1>4
<1>6. QED
  BY <1>5

LEMMA LeastIsMin ==
    ASSUME NEW C \in SUBSET Nat, C # {}
    PROVE  Events!Min(C) \in C /\ \A c \in C : Events!Min(C) <= c
<1>1. \E x \in C : \A y \in C : x <= y
  BY Least
<1>2. QED
  BY <1>1 DEF Events!Min

\* Of the events within reach one is nearest to the mouse, or two are.
LEMMA Nearest ==
    ASSUME NEW A \in SUBSET (0 .. Width), NEW x \in Int, NEW d \in Nat,
           \E a \in A : Events!Distance(a, x) <= d
    PROVE  \E seed \in A : Events!findHoveredChartEventAnnotations(A, x, d)
                             = Events!clusterNearbyChartEventAnnotations(A, seed)
<1> DEFINE inRange == {a \in A : Events!Distance(a, x) <= d}
           nearest == {a \in inRange : \A b \in inRange : Events!Distance(a, x) <= Events!Distance(b, x)}
           lengths == {l \in Nat : \E a \in inRange : l = Events!Distance(a, x)}
<1>1. A \subseteq Int
  BY EventsAssumption
<1>2. ASSUME NEW a \in A PROVE Events!Distance(a, x) \in Nat
  <2>1. a \in Int
    BY <1>1
  <2>2. QED
    BY <2>1 DEF Events!Distance
<1>3. PICK a \in inRange : \A b \in inRange : Events!Distance(a, x) <= Events!Distance(b, x)
  <2>1. lengths # {} /\ lengths \in SUBSET Nat
    BY <1>2
  <2>2. PICK l \in lengths : \A k \in lengths : l <= k
    <3> HIDE DEF lengths
    <3>1. QED
      BY <2>1, Least
  <2>3. QED
    BY <1>2, <2>2
<1>4. a \in nearest
  BY <1>3
<1>5. \A b \in nearest : b \in Int /\ (b = a \/ b = 2 * x - a)
  <2>1. ASSUME NEW b \in nearest PROVE b \in Int /\ (b = a \/ b = 2 * x - a)
    <3>1. Events!Distance(a, x) <= Events!Distance(b, x) /\ Events!Distance(b, x) <= Events!Distance(a, x)
      BY <1>3, <1>4
    <3>2. a \in Int /\ b \in Int
      BY <1>1
    <3>3. QED
      BY <3>1, <3>2 DEF Events!Distance
  <2>2. QED
    BY <2>1
<1>6. \E b \in nearest : \A c \in nearest : b >= c
  <2>1. a \in Int /\ 2 * x - a \in Int
    BY <1>4, <1>5
  <2> HIDE DEF nearest
  <2>2. CASE 2 * x - a \in nearest /\ 2 * x - a >= a
    BY <1>5, <2>1, <2>2
  <2>3. CASE ~(2 * x - a \in nearest /\ 2 * x - a >= a)
    BY <1>4, <1>5, <2>1, <2>3
  <2>4. QED
    BY <2>2, <2>3
<1>7. Events!Max(nearest) \in nearest
  <2> HIDE DEF nearest
  <2>1. QED
    BY <1>6 DEF Events!Max
<1>8. inRange # {} /\ Events!Max(nearest) \in A
  BY <1>3, <1>7
<1>9. Events!findHoveredChartEventAnnotations(A, x, d)
        = Events!clusterNearbyChartEventAnnotations(A, Events!Max(nearest))
  BY <1>8 DEF Events!findHoveredChartEventAnnotations
<1>10. QED
  BY <1>8, <1>9

LEMMA NothingFound ==
    ASSUME NEW A, NEW x, NEW d, Events!findHoveredChartEventAnnotations(A, x, d) # {}
    PROVE  \E a \in A : Events!Distance(a, x) <= d
BY DEF Events!findHoveredChartEventAnnotations

EventsInv == events \subseteq 0 .. Width /\ showAnnotations \in BOOLEAN /\ pxRatio \in PxRatios

LEMMA EventsInit == Events!Init => EventsInv
BY EventsAssumption DEF Events!Init, EventsInv

LEMMA EventsStep ==
    ASSUME EventsInv, Events!Next \/ UNCHANGED eventVars
    PROVE  EventsInv'
BY DEF EventsInv, Events!Next, eventVars, Events!MouseMove, Events!MouseLeave, Events!LeaveLabel,
   Events!Redraw, Events!ToggleAnnotations, Events!Scroll, Events!Plot

LEMMA Tooltips == ASSUME EventsInv PROVE Events!OneTooltip /\ Events!LabelListsRun
<1> SUFFICES ASSUME NEW x \in 0 .. Width, Events!MouseMove(x), Events!Annotations # {}, annotationHover' # {}
             PROVE  /\ pxRatio = 1 => ~seriesTip'
                    /\ Events!Run(annotationHover') /\ Events!Chained(annotationHover')
  BY DEF Events!OneTooltip, Events!LabelListsRun, Events!Plot
<1>1. PICK at : at = Events!clientXToPlotX(x + Gutter)
  OBVIOUS
<1>2. x \in Int /\ at \in Int /\ (pxRatio = 1 => at = x)
  BY <1>1, EventsAssumption DEF EventsInv, Events!clientXToPlotX
<1>3. Events!Annotations = events /\ events \in SUBSET (0 .. Width)
  BY DEF Events!Annotations, Events!Shown, EventsInv
<1>4. PICK C : C = annotationHover'
  OBVIOUS
<1>5. C # {} /\ C = Events!findHoveredChartEventAnnotations(events, at,
              CHART_EVENT_ANNOTATION_HOVER_THRESHOLD_PX)
  BY <1>1, <1>3, <1>4 DEF Events!MouseMove, Events!handleAnnotationHover
<1>6. PICK a \in events : Events!Distance(a, at) <= CHART_EVENT_ANNOTATION_HOVER_THRESHOLD_PX
  BY <1>5, NothingFound
<1>7. pxRatio = 1 => ~seriesTip'
  <2>1. SUFFICES ASSUME pxRatio = 1 PROVE ~seriesTip'
    OBVIOUS
  <2>2. a \in Int /\ Events!Distance(a, x) \in Int
        /\ Events!Distance(a, x) <= CHART_EVENT_ANNOTATION_TOOLTIP_SUPPRESS_PX
    BY <1>2, <1>3, <1>6, <2>1, EventsAssumption DEF Events!Distance
  <2>3. PICK seed \in events :
           Events!findHoveredChartEventAnnotations(events, x, CHART_EVENT_ANNOTATION_TOOLTIP_SUPPRESS_PX)
             = Events!clusterNearbyChartEventAnnotations(events, seed)
    BY <1>2, <1>3, <2>2, Nearest, EventsAssumption
  <2>4. seed \in Events!clusterNearbyChartEventAnnotations(events, seed)
    BY <1>3, Gathered DEF FoundIn
  <2>5. Events!Yields(events, x)
    BY <2>3, <2>4 DEF Events!Yields
  <2>6. seriesTip' = Events!ShowsSeries(events, x)
    BY <1>3 DEF Events!MouseMove
  <2>7. QED
    BY <2>5, <2>6 DEF Events!ShowsSeries
<1>8. PICK seed \in events : C = Events!clusterNearbyChartEventAnnotations(events, seed)
  BY <1>2, <1>3, <1>5, <1>6, Nearest, EventsAssumption
<1>9. FoundIn(events, seed) /\ C \subseteq events /\ Events!Near(events, C) = C
  <2>1. FoundIn(events, seed)
    BY <1>3 DEF FoundIn
  <2>2. QED
    BY <1>8, <2>1, Gathered
<1>10. events' = events
  BY DEF Events!MouseMove
<1>11. Events!Run(annotationHover')
  <2>1. ASSUME NEW e \in events, NEW b \in C,
               Events!Distance(e, b) <= CHART_EVENT_ANNOTATION_MERGE_THRESHOLD_PX
        PROVE  e \in C
    BY <1>9, <2>1 DEF Events!Near
  <2>2. QED
    BY <1>4, <2>1 DEF Events!Run
<1>12. Events!Chained(annotationHover')
  <2>1. C \in SUBSET Nat /\ C # {}
    BY <1>3, <1>5, <1>9, FinitePlot
  <2>2. PICK m : m = Events!Min(C)
    OBVIOUS
  <2>3. m \in C /\ \A c \in C : m <= c
    BY <2>1, <2>2, LeastIsMin
  <2>4. ASSUME NEW c \in C, c # m
        PROVE  \E b \in C : b < c /\ c - b <= CHART_EVENT_ANNOTATION_MERGE_THRESHOLD_PX
    <3>1. m < c
      BY <2>1, <2>3, <2>4
    <3>2. QED
      BY <1>8, <1>9, <2>3, <3>1, NoGap
  <2>5. QED
    BY <1>4, <2>2, <2>4 DEF Events!Chained
<1>13. QED
  BY <1>7, <1>11, <1>12

-----------------------------------------------------------------------------
(* The types of the labels                                                   *)
EventTypes ==
    /\ annotationHover \subseteq 0 .. Width /\ seriesTip \in BOOLEAN
    /\ mouse \in 0 .. Width \cup {Events!Away} /\ cursorAt \in 0 .. Width \cup {Events!Away}

LEMMA EventTypesInit == ASSUME Events!Init PROVE EventTypes
BY DEF Events!Init, EventTypes

\* A label lists events of the plot.
LEMMA HoverInPlot ==
    ASSUME NEW A \in SUBSET (0 .. Width), NEW x \in Int, NEW d \in Nat
    PROVE  Events!findHoveredChartEventAnnotations(A, x, d) \subseteq 0 .. Width
<1>1. CASE Events!findHoveredChartEventAnnotations(A, x, d) = {}
  BY <1>1
<1>2. CASE Events!findHoveredChartEventAnnotations(A, x, d) # {}
  <2>1. PICK seed \in A : Events!findHoveredChartEventAnnotations(A, x, d)
                             = Events!clusterNearbyChartEventAnnotations(A, seed)
    BY <1>2, NothingFound, Nearest
  <2>2. Events!clusterNearbyChartEventAnnotations(A, seed) \subseteq A
    BY Gathered DEF FoundIn
  <2>3. QED
    BY <2>1, <2>2
<1>3. QED
  BY <1>1, <1>2

LEMMA EventTypesStep ==
    ASSUME EventsInv, EventTypes, Events!Next \/ UNCHANGED eventVars
    PROVE  EventTypes'
<1> USE DEF EventTypes
<1>0. \A A, x : Events!ShowsSeries(A, x) \in BOOLEAN
  BY DEF Events!ShowsSeries
<1>1. ASSUME NEW x \in 0 .. Width, Events!MouseMove(x) PROVE EventTypes'
  <2>1. x \in Int /\ Events!clientXToPlotX(x + Gutter) \in Int
    BY EventsAssumption DEF EventsInv, Events!clientXToPlotX
  <2>2. Events!Annotations \in SUBSET (0 .. Width)
    BY DEF Events!Annotations, Events!Shown, EventsInv
  <2>3. Events!findHoveredChartEventAnnotations(Events!Annotations,
            Events!clientXToPlotX(x + Gutter), CHART_EVENT_ANNOTATION_HOVER_THRESHOLD_PX)
          \subseteq 0 .. Width
    BY <2>1, <2>2, HoverInPlot, EventsAssumption
  <2>4. annotationHover' \subseteq 0 .. Width /\ cursorAt' \in 0 .. Width \cup {Events!Away}
    BY <1>1, <2>3 DEF Events!MouseMove, Events!handleAnnotationHover
  <2>5. QED
    BY <1>0, <1>1, <2>4 DEF Events!MouseMove
<1>2. CASE Events!MouseLeave
  BY <1>2 DEF Events!MouseLeave
<1>3. CASE Events!LeaveLabel
  BY <1>3 DEF Events!LeaveLabel
<1>4. CASE Events!Redraw
  BY <1>0, <1>4 DEF Events!Redraw
<1>5. CASE Events!ToggleAnnotations
  BY <1>5 DEF Events!ToggleAnnotations
<1>6. CASE Events!Scroll
  BY <1>6 DEF Events!Scroll
<1>7. CASE UNCHANGED eventVars
  BY <1>7 DEF eventVars
<1>8. QED
  BY <1>1, <1>2, <1>3, <1>4, <1>5, <1>6, <1>7 DEF Events!Next, Events!Plot

LEMMA EventsTyped == ASSUME EventsInv, EventTypes PROVE Events!TypeOK
BY DEF EventsInv, EventTypes, Events!TypeOK, Events!Plot

-----------------------------------------------------------------------------
(* Drawn charts                                                              *)

\* Who is ahead of whom is a strict order of all.
IsOrder(ahead) ==
    \A x, y \in DOMAIN ahead :
        /\ ahead[x] \subseteq DOMAIN ahead /\ x \notin ahead[x]
        /\ x \in ahead[y] => ahead[x] \subseteq ahead[y]
        /\ x = y \/ x \in ahead[y] \/ y \in ahead[x]

\* A finite set in such an order is a sequence of its elements, each once.
LEMMA Ordered ==
    ASSUME NEW ahead, IsFiniteSet(DOMAIN ahead), IsOrder(ahead)
    PROVE  LET s == Plot!InOrder(ahead) n == Cardinality(DOMAIN ahead)
           IN /\ n \in Nat /\ s \in [1 .. n -> DOMAIN ahead]
              /\ \A x \in DOMAIN ahead : \E k \in 1 .. n : s[k] = x
              /\ \A j, k \in 1 .. n : s[j] = s[k] => j = k
              /\ \A j, k \in 1 .. n : s[j] \in ahead[s[k]] => j < k
<1>1. PICK S, n : S = DOMAIN ahead /\ n = Cardinality(S)
  OBVIOUS
<1>2. n \in Nat /\ IsFiniteSet(S) /\ Plot!Cardinality(S) = n
  BY <1>1, FS_CardinalityType DEF Plot!Cardinality, Cardinality, Plot!IsFiniteSet, IsFiniteSet
<1> DEFINE c == [x \in S |-> Cardinality(ahead[x])]
<1>3. ASSUME NEW x \in S
      PROVE  c[x] \in 0 .. n - 1 /\ Plot!Cardinality(ahead[x]) = c[x]
  <2>1. ahead[x] \subseteq S /\ x \notin ahead[x]
    BY <1>1 DEF IsOrder
  <2>2. IsFiniteSet(ahead[x]) /\ Cardinality(ahead[x]) \in Nat /\ Cardinality(ahead[x]) <= n
        /\ Cardinality(ahead[x]) # n
    BY <1>1, <1>2, <2>1, FS_Subset, FS_CardinalityType
  <2>3. Plot!Cardinality(ahead[x]) = Cardinality(ahead[x])
    BY DEF Plot!Cardinality, Cardinality, Plot!IsFiniteSet, IsFiniteSet
  <2>4. QED
    BY <1>2, <2>2, <2>3
<1>4. ASSUME NEW x \in S, NEW y \in S, x \in ahead[y] PROVE c[x] < c[y]
  <2>1. ahead[x] \subseteq ahead[y] /\ x \notin ahead[x] /\ ahead[y] \subseteq S
    BY <1>1, <1>4 DEF IsOrder
  <2>2. IsFiniteSet(ahead[y])
    BY <1>2, <2>1, FS_Subset
  <2>3. c[x] <= c[y] /\ c[x] # c[y]
    BY <1>4, <2>1, <2>2, FS_Subset
  <2>4. QED
    BY <1>2, <1>3, <2>3
<1>5. ASSUME NEW x \in S, NEW y \in S, c[x] = c[y] PROVE x = y
  <2>1. x = y \/ x \in ahead[y] \/ y \in ahead[x]
    BY <1>1 DEF IsOrder
  <2>2. c[x] \in Int /\ c[y] \in Int
    BY <1>2, <1>3
  <2> HIDE DEF c
  <2>3. QED
    BY <1>4, <1>5, <2>1, <2>2
<1>6. ASSUME NEW k \in 1 .. n PROVE \E x \in S : c[x] = k - 1
  <2> DEFINE f == [x \in S |-> c[x] + 1]
  <2>1. \A x \in S : c[x] + 1 \in 1 .. n
    BY <1>2, <1>3
  <2>2. f \in Injection(S, 1 .. n)
    <3>1. \A x, y \in S : f[x] = f[y] => x = y
      <4> SUFFICES ASSUME NEW x \in S, NEW y \in S, f[x] = f[y] PROVE x = y
        OBVIOUS
      <4>1. c[x] + 1 = c[y] + 1 /\ c[x] \in Int /\ c[y] \in Int
        BY <1>2, <1>3
      <4> HIDE DEF c
      <4>2. QED
        BY <1>5, <4>1
    <3> HIDE DEF c
    <3>2. QED
      BY <2>1, <3>1 DEF Injection, IsInjective
  <2>3. IsFiniteSet(1 .. n) /\ Cardinality(1 .. n) = n
    BY <1>2, FS_Interval
  <2> HIDE DEF f
  <2>4. f \in Surjection(S, 1 .. n)
    BY <1>1, <2>2, <2>3, FS_Injection
  <2>5. PICK x \in S : f[x] = k
    BY <2>4 DEF Surjection
  <2>6. c[x] + 1 = k /\ c[x] \in Int
    BY <1>2, <1>3, <2>5 DEF f
  <2>7. QED
    BY <2>6
<1> HIDE DEF c
<1>7. PICK s : s = Plot!InOrder(ahead)
  OBVIOUS
<1>8. s = [k \in 1 .. n |-> CHOOSE x \in S : Plot!Cardinality(ahead[x]) = k - 1]
  BY <1>1, <1>2, <1>7 DEF Plot!InOrder
<1>9. ASSUME NEW k \in 1 .. n PROVE s[k] \in S /\ c[s[k]] = k - 1
  <2>1. \E x \in S : Plot!Cardinality(ahead[x]) = k - 1
    BY <1>3, <1>6
  <2>2. s[k] \in S /\ Plot!Cardinality(ahead[s[k]]) = k - 1
    BY <1>8, <2>1
  <2>3. QED
    BY <1>3, <2>2
<1>10. s \in [1 .. n -> S]
  BY <1>8, <1>9
<1>11. ASSUME NEW x \in S PROVE \E k \in 1 .. n : s[k] = x
  <2>1. c[x] + 1 \in 1 .. n /\ (c[x] + 1) - 1 = c[x]
    BY <1>2, <1>3
  <2>2. s[c[x] + 1] \in S /\ c[s[c[x] + 1]] = c[x]
    BY <1>9, <2>1
  <2>3. s[c[x] + 1] = x
    BY <1>5, <2>2
  <2>4. QED
    BY <2>1, <2>3
<1>12. ASSUME NEW j \in 1 .. n, NEW k \in 1 .. n, s[j] = s[k] PROVE j = k
  <2>1. j - 1 = k - 1
    BY <1>9, <1>12
  <2>2. QED
    BY <2>1
<1>13. ASSUME NEW j \in 1 .. n, NEW k \in 1 .. n, s[j] \in ahead[s[k]] PROVE j < k
  <2>1. j - 1 < k - 1
    BY <1>4, <1>9, <1>13
  <2>2. QED
    BY <2>1
<1>14. QED
  BY <1>1, <1>2, <1>7, <1>10, <1>11, <1>12, <1>13

\* A sequence of the elements of a set, each once
Lists(s, S) ==
    /\ Cardinality(S) \in Nat /\ s \in [1 .. Cardinality(S) -> S]
    /\ \A x \in S : \E k \in 1 .. Cardinality(S) : s[k] = x
    /\ \A j, k \in 1 .. Cardinality(S) : s[j] = s[k] => j = k

LEMMA Listing1 ==
    ASSUME NEW ahead, IsFiniteSet(DOMAIN ahead), IsOrder(ahead)
    PROVE  Lists(Plot!InOrder(ahead), DOMAIN ahead)
BY Ordered DEF Lists

\* Numbers in their order
LEMMA NumbersOrdered ==
    ASSUME NEW T \in SUBSET Nat, IsFiniteSet(T),
           NEW ahead, ahead = [x \in T |-> {y \in T : y < x}]
    PROVE  DOMAIN ahead = T /\ IsOrder(ahead)
<1>1. DOMAIN ahead = T
  OBVIOUS
<1>2. \A x, y \in T : x \in Int /\ y \in Int /\ (x \in ahead[y] <=> x < y)
  OBVIOUS
<1>3. \A x, y \in T : x \in ahead[y] => ahead[x] \subseteq ahead[y]
  <2> SUFFICES ASSUME NEW x \in T, NEW y \in T, x < y, NEW z \in T, z < x PROVE z < y
    BY <1>2
  <2>1. QED
    BY <1>2
<1>4. \A x, y \in T : ahead[x] \subseteq T /\ x \notin ahead[x] /\ (x = y \/ x \in ahead[y] \/ y \in ahead[x])
  BY <1>2
<1>5. QED
  BY <1>1, <1>3, <1>4 DEF IsOrder

LEMMA GreatestIsMax ==
    ASSUME NEW T \in SUBSET Nat, IsFiniteSet(T), T # {}
    PROVE  Plot!Max(T) \in T /\ \A x \in T : x <= Plot!Max(T)
<1>1. PICK ahead : ahead = [x \in T |-> {y \in T : y < x}]
  OBVIOUS
<1>2. DOMAIN ahead = T /\ IsOrder(ahead)
  BY <1>1, NumbersOrdered
<1>3. PICK s, n : s = Plot!InOrder(ahead) /\ n = Cardinality(T)
  OBVIOUS
<1>4. /\ n \in Nat /\ s \in [1 .. n -> T]
      /\ \A x \in T : \E k \in 1 .. n : s[k] = x
      /\ \A j, k \in 1 .. n : s[j] \in ahead[s[k]] => j < k
  BY <1>2, <1>3, Ordered
<1>5. n \in 1 .. n
  <2>1. PICK k \in 1 .. n : TRUE
    BY <1>4
  <2>2. QED
    BY <1>4, <2>1
<1>6. \A x \in T : s[n] >= x
  <2> SUFFICES ASSUME NEW x \in T, ~(s[n] >= x) PROVE FALSE
    OBVIOUS
  <2>1. s[n] \in ahead[x]
    <3>1. s[n] \in T /\ s[n] \in Nat /\ x \in Nat
      BY <1>4, <1>5
    <3>2. s[n] < x
      BY <3>1
    <3>3. QED
      BY <1>1, <3>1, <3>2
  <2>2. PICK k \in 1 .. n : s[k] = x
    BY <1>4
  <2>3. n < k
    BY <1>4, <1>5, <2>1, <2>2
  <2>4. QED
    BY <1>4, <2>3
<1>7. \E x \in T : \A y \in T : x >= y
  BY <1>4, <1>5, <1>6
<1>8. Plot!Max(T) \in T /\ \A y \in T : Plot!Max(T) >= y
  BY <1>7 DEF Plot!Max
<1>9. QED
  BY <1>8

Modes == {"line", "stack"}

LEMMA LaneTypes ==
    \A m \in Modes : \A v, w \in Lanes[m] :
        /\ IsFiniteSet(DOMAIN v) /\ DOMAIN v \subseteq Nat /\ DOMAIN v = DOMAIN w
        /\ \A i \in DOMAIN v : v[i] = None \/ v[i] \in Nat
<1> SUFFICES ASSUME NEW m \in Modes, NEW v \in Lanes[m], NEW w \in Lanes[m]
             PROVE  /\ IsFiniteSet(DOMAIN v) /\ DOMAIN v \subseteq Nat /\ DOMAIN v = DOMAIN w
                    /\ \A i \in DOMAIN v : v[i] = None \/ v[i] \in Nat
  OBVIOUS
<1>1. /\ v \in Seq(Nat \cup {None}) /\ w \in Seq(Nat \cup {None}) /\ Len(v) = Len(w)
  BY PlotAssumption DEF Modes
<1>2. /\ Len(v) \in Nat /\ DOMAIN v = 1 .. Len(v) /\ DOMAIN w = 1 .. Len(v)
      /\ \A i \in DOMAIN v : v[i] \in Nat \cup {None}
  BY <1>1
<1>3. IsFiniteSet(1 .. Len(v)) /\ 1 .. Len(v) \subseteq Nat
  BY <1>2, FS_Interval
<1>4. QED
  BY <1>2, <1>3

LEMMA Latest ==
    ASSUME NEW m \in Modes, NEW v \in Lanes[m]
    PROVE  /\ Plot!hasValues(v) <=> Plot!getLatestValue(v) # None
           /\ Plot!getLatestValue(v) # None => Plot!getLatestValue(v) \in Nat
<1>1. /\ IsFiniteSet(DOMAIN v) /\ DOMAIN v \subseteq Nat
      /\ \A i \in DOMAIN v : v[i] = None \/ v[i] \in Nat
  BY LaneTypes
<1>2. PICK T : T = Plot!Measured(v)
  OBVIOUS
<1>3. T \in SUBSET Nat /\ IsFiniteSet(T) /\ \A i \in T : v[i] # None /\ v[i] \in Nat
  BY <1>1, <1>2, FS_Subset DEF Plot!Measured
<1>4. T # {} => Plot!Max(T) \in T
  BY <1>3, GreatestIsMax
<1>5. Plot!hasValues(v) <=> T # {}
  BY <1>2 DEF Plot!hasValues
<1>6. Plot!getLatestValue(v) = IF T # {} THEN v[Plot!Max(T)] ELSE None
  BY <1>2 DEF Plot!getLatestValue, Plot!hasValues
<1>7. QED
  BY <1>3, <1>4, <1>5, <1>6

\* The series of a chart: each label once
IsConfig(m, S) ==
    /\ IsFiniteSet(S) /\ S \subseteq Plot!Entry(m)
    /\ \A d, e \in S : d.label = e.label => d = e

LEMMA EntryTypes ==
    ASSUME NEW m \in Modes, NEW S, IsConfig(m, S), NEW e \in S
    PROVE  /\ e.label \in Int /\ e.values \in Lanes[m]
           /\ Plot!stackSortValue(e) \in Int
<1>1. e.label \in Int /\ e.values \in Lanes[m]
  BY PlotAssumption DEF IsConfig, Plot!Entry
<1>2. PICK latest : latest = Plot!getLatestValue(e.values)
  OBVIOUS
<1>3. latest # None => latest \in Nat
  BY <1>1, <1>2, Latest
<1>4. Plot!stackSortValue(e) = IF latest = None THEN -1 ELSE latest
  BY <1>2 DEF Plot!stackSortValue
<1>5. QED
  BY <1>1, <1>3, <1>4

\* The legend has a button for each series.
LEMMA LegendLists ==
    ASSUME NEW m \in Modes, NEW S, IsConfig(m, S)
    PROVE  Lists(Plot!displaySeries(m, S), S)
<1>1. IsFiniteSet(S) /\ \A d, e \in S : d.label = e.label => d = e
  BY DEF IsConfig
<1>2. \A e \in S : e.label \in Int /\ Plot!stackSortValue(e) \in Int
  BY EntryTypes
<1>3. CASE m = "stack"
  <2>1. PICK ahead : ahead = [e \in S |->
            {d \in S : IF Plot!stackSortValue(d) = Plot!stackSortValue(e) THEN d.label < e.label
                       ELSE Plot!stackSortValue(d) < Plot!stackSortValue(e)}]
    OBVIOUS
  <2>2. DOMAIN ahead = S
    BY <2>1
  <2>3. \A x, y \in S : x \in ahead[y] <=>
            IF Plot!stackSortValue(x) = Plot!stackSortValue(y) THEN x.label < y.label
            ELSE Plot!stackSortValue(x) < Plot!stackSortValue(y)
    BY <2>1
  <2>4. \A x \in S : ahead[x] \subseteq S /\ x \notin ahead[x]
    BY <1>2, <2>1
  <2>5. \A x, y \in S : x = y \/ x \in ahead[y] \/ y \in ahead[x]
    BY <1>1, <1>2, <2>3
  <2>6. \A x, y \in S : x \in ahead[y] => ahead[x] \subseteq ahead[y]
    <3> SUFFICES ASSUME NEW x \in S, NEW y \in S, x \in ahead[y], NEW z \in S, z \in ahead[x]
                 PROVE  z \in ahead[y]
      BY <2>4
    <3>1. QED
      BY <1>2, <2>3
  <2>7. IsOrder(ahead)
    BY <2>2, <2>4, <2>5, <2>6 DEF IsOrder
  <2>8. Plot!displaySeries(m, S) = Plot!InOrder(ahead)
    BY <1>3, <2>1 DEF Plot!displaySeries, Plot!sortSeriesForStack
  <2>9. QED
    BY <1>1, <2>2, <2>7, <2>8, Listing1
<1>4. CASE m # "stack"
  <2>1. PICK ahead : ahead = [e \in S |-> {d \in S : d.label < e.label}]
    OBVIOUS
  <2>2. DOMAIN ahead = S
    BY <2>1
  <2>3. \A x, y \in S : x \in ahead[y] <=> x.label < y.label
    BY <2>1
  <2>4. \A x \in S : ahead[x] \subseteq S /\ x \notin ahead[x]
    BY <1>2, <2>1
  <2>5. \A x, y \in S : x = y \/ x \in ahead[y] \/ y \in ahead[x]
    BY <1>1, <1>2, <2>3
  <2>6. \A x, y \in S : x \in ahead[y] => ahead[x] \subseteq ahead[y]
    <3> SUFFICES ASSUME NEW x \in S, NEW y \in S, x \in ahead[y], NEW z \in S, z \in ahead[x]
                 PROVE  z \in ahead[y]
      BY <2>4
    <3>1. QED
      BY <1>2, <2>3
  <2>7. IsOrder(ahead)
    BY <2>2, <2>4, <2>5, <2>6 DEF IsOrder
  <2>8. Plot!displaySeries(m, S) = Plot!InOrder(ahead)
    BY <1>4, <2>1 DEF Plot!displaySeries, Plot!ByLabel
  <2>9. QED
    BY <1>1, <2>2, <2>7, <2>8, Listing1
<1>5. QED
  BY <1>3, <1>4

\* The places of a legend of n series that have values
WithValues(L, n) == {i \in 1 .. n : Plot!hasValues(L[i].values)}

\* The series with values, in the order of the legend, and what is plotted of them
LEMMA PlottedLists ==
    ASSUME NEW m \in Modes, NEW S, IsConfig(m, S),
           NEW n, n = Cardinality(S), NEW L, L = Plot!displaySeries(m, S),
           NEW B, B = Plot!buildMultiSeriesData(L),
           NEW P, P = WithValues(L, n),
           NEW q, q = Cardinality(P), NEW active, active = B.sourceIndices
    PROVE  /\ Lists(active, P) /\ q \in Nat /\ active \in [1 .. q -> P]
           /\ DOMAIN B.labels = 1 .. q /\ DOMAIN B.data = 1 .. q
           /\ \A j \in 1 .. q : /\ B.labels[j] = L[active[j]].label
                               /\ B.data[j] = L[active[j]].values
           /\ B.data \in [1 .. q -> Lanes[m]]
<1>1. n \in Nat /\ L \in [1 .. n -> S]
  BY LegendLists DEF Lists
<1>2. PICK ahead : ahead = [i \in P |-> {k \in P : k < i}]
  OBVIOUS
<1>3. P \in SUBSET Nat /\ IsFiniteSet(P)
  <2>1. IsFiniteSet(1 .. n) /\ P \subseteq 1 .. n
    BY <1>1, FS_Interval DEF WithValues
  <2>2. IsFiniteSet(P)
    BY <2>1, FS_Subset
  <2>3. P \subseteq Nat
    BY <1>1, <2>1
  <2>4. QED
    BY <2>2, <2>3
<1>4. DOMAIN ahead = P /\ IsOrder(ahead)
  BY <1>2, <1>3, NumbersOrdered
<1>5. PICK order : order = Plot!InOrder(ahead)
  OBVIOUS
<1>6. Lists(order, P)
  BY <1>3, <1>4, <1>5, Listing1
<1>7. DOMAIN L = 1 .. n /\ q \in Nat /\ order \in [1 .. q -> P] /\ DOMAIN order = 1 .. q
  BY <1>1, <1>6 DEF Lists
<1>8. B = [sourceIndices |-> order,
            labels |-> [j \in 1 .. q |-> L[order[j]].label],
            data   |-> [j \in 1 .. q |-> L[order[j]].values]]
  BY <1>2, <1>5, <1>7 DEF Plot!buildMultiSeriesData, WithValues
<1>9. active = order
  BY <1>8
<1>10. /\ B.labels = [j \in 1 .. q |-> L[active[j]].label]
       /\ B.data = [j \in 1 .. q |-> L[active[j]].values]
  BY <1>8, <1>9
<1>11. \A j \in 1 .. q : L[active[j]].values \in Lanes[m]
  <2>1. \A j \in 1 .. q : L[active[j]] \in S
    BY <1>1, <1>7, <1>9 DEF WithValues
  <2>2. QED
    BY <2>1, EntryTypes
<1>12. B.data \in [1 .. q -> Lanes[m]]
  BY <1>10, <1>11
<1>13. QED
  BY <1>6, <1>7, <1>9, <1>10, <1>12

LEMMA FiniteRange ==
    ASSUME NEW f, IsFiniteSet(DOMAIN f)
    PROVE  IsFiniteSet(Plot!Range(f))
<1> DEFINE g == [x \in DOMAIN f |-> f[x]]
<1>1. g \in Surjection(DOMAIN f, Plot!Range(f))
  BY DEF Surjection, Plot!Range
<1> HIDE DEF g
<1>2. QED
  BY <1>1, FS_Surjection

\* The end of the axis is a number.
LEMMA YMaxType ==
    ASSUME NEW m \in Modes, NEW S, IsConfig(m, S)
    PROVE  Plot!chartYMax(S) \in Nat
<1> DEFINE family == [e \in S |-> Plot!Range(e.values)]
           all == UNION {Plot!Range(e.values) : e \in S}
           samples == {v \in all : v # None /\ v # 0}
<1>1. \A e \in S : /\ IsFiniteSet(DOMAIN e.values)
                   /\ \A p \in DOMAIN e.values : e.values[p] = None \/ e.values[p] \in Nat
  BY EntryTypes, LaneTypes
<1>2. IsFiniteSet(all)
  <2>1. \A e \in S : IsFiniteSet(Plot!Range(e.values))
    BY <1>1, FiniteRange
  <2>2. family \in Surjection(S, {Plot!Range(e.values) : e \in S})
    BY DEF Surjection
  <2>3. IsFiniteSet({Plot!Range(e.values) : e \in S})
    <3> HIDE DEF family
    <3>1. IsFiniteSet(S)
      BY DEF IsConfig
    <3>2. QED
      BY <2>2, <3>1, FS_Surjection
  <2>4. QED
    BY <2>1, <2>3, FS_UNION
<1>3. \A v \in all : v = None \/ v \in Nat
  BY <1>1 DEF Plot!Range
<1>4. IsFiniteSet(samples) /\ samples \in SUBSET Nat /\ \A v \in samples : v > 0
  <2>1. samples \subseteq all
    OBVIOUS
  <2>2. samples \in SUBSET Nat /\ \A v \in samples : v > 0
    BY <1>3
  <2> HIDE DEF samples, all
  <2>3. QED
    BY <1>2, <2>1, <2>2, FS_Subset
<1>5. PICK top, y : top = Plot!Max(samples) /\ y = Plot!chartYMax(S)
  OBVIOUS
<1>6. y = IF {v \in samples : v > 0} = {} THEN 1 ELSE (11 * top + 9) \div 10
  BY <1>5 DEF Plot!chartYMax
<1> HIDE DEF samples, all, family
<1>7. CASE samples = {}
  BY <1>5, <1>6, <1>7
<1>8. CASE samples # {}
  <2>1. top \in samples /\ \A v \in samples : v <= top
    BY <1>4, <1>5, <1>8, GreatestIsMax
  <2>2. top \in Nat /\ top > 0 /\ y = (11 * top + 9) \div 10
    BY <1>4, <1>6, <2>1
  <2>3. QED
    BY <1>5, <2>2
<1>9. QED
  BY <1>7, <1>8

\* The axis ends at a number, or where uPlot finds it should.
LEMMA AxisRange ==
    ASSUME mode \in Modes, NEW S, IsConfig(mode, S), NEW floor \in Nat
    PROVE  Plot!DisplayAxis(S, floor).max \in Nat \cup {None}
<1>1. PICK y : y = Plot!chartYMax(S)
  OBVIOUS
<1>2. y \in Nat
  BY <1>1, YMaxType
<1>3. PICK d : d = Plot!DisplayedMax(y, floor)
  OBVIOUS
<1>4. d \in Nat
  BY <1>2, <1>3 DEF Plot!DisplayedMax
<1>5. PICK range : range = Plot!resolveYRange(mode, S)
  OBVIOUS
<1>6. range = [autoMin |-> mode = "stack", max |-> IF mode = "stack" THEN None ELSE y]
  BY <1>1, <1>5 DEF Plot!resolveYRange
<1>7. Plot!DisplayAxis(S, floor)
        = IF range.max = None THEN range
          ELSE [range EXCEPT !.max = Plot!DisplayedMax(@, floor)]
  BY <1>5 DEF Plot!DisplayAxis
<1>8. CASE mode = "stack"
  BY <1>6, <1>7, <1>8
<1>9. CASE mode = "line"
  <2>1. range.max = y /\ y # None
    BY <1>2, <1>6, <1>9, PlotAssumption
  <2>2. Plot!DisplayAxis(S, floor) = [autoMin |-> mode = "stack", max |-> d]
    BY <1>3, <1>6, <1>7, <2>1
  <2>3. QED
    BY <1>4, <2>2
<1>10. QED
  BY <1>8, <1>9 DEF Modes

\* The series of a legend that are hidden
Hidden(m, S, remembered, toggled) ==
    Plot!HiddenBy(Plot!LabelsOf(Plot!displaySeries(m, S)), remembered, toggled)

\* A live chart, whatever it was made of
IsChart(chart) ==
    \E names, lines, end, scale, visible :
        chart = [labels |-> names, data |-> lines, range |-> end, scale |-> scale,
                 shown |-> visible]

\* The plotted series that are not hidden
Visible(built, hid) == {j \in DOMAIN built.labels : built.sourceIndices[j] \notin hid}

\* ... and one that is made of these series, and shows all but the hidden ones
Draws(m, S, hid, chart) ==
    LET built == Plot!buildMultiSeriesData(Plot!displaySeries(m, S))
    IN \E end, scale :
          chart = [labels |-> built.labels, data |-> Plot!Prepared(m, built),
                   range |-> end, scale |-> scale, shown |-> Visible(built, hid)]

\* What was toggled leaves a button pressed.
LeavesOne(hid, places) == hid \subseteq places /\ places \ hid # {}

PlotInv ==
    /\ mode \in Modes /\ IsConfig(mode, config) /\ yMaxFloor \in Nat
    /\ override # None => \E key, hid :
          override = [key |-> key, hidden |-> hid] /\ LeavesOne(hid, DOMAIN key)
    /\ uplot # None =>
          config # {} /\ Draws(mode, config, Hidden(mode, config, hiddenLabels, override), uplot)

\* Setting the series of a chart leaves its data.
LEMMA SetSeries ==
    ASSUME NEW names, NEW lines, NEW end, NEW old, NEW visible, NEW places, NEW hid, NEW chart,
           chart = [labels |-> names, data |-> lines, range |-> end, scale |-> old,
                    shown |-> visible]
    PROVE  Plot!applySeriesVisibility(chart, places, hid)
             = [labels |-> names, data |-> lines, range |-> end, scale |-> end,
                shown |-> {j \in DOMAIN names : places[j] \notin hid}]
<1>1. chart.labels = names
  OBVIOUS
<1>2. chart.range = end
  OBVIOUS
<1>3. PICK on : on = {j \in DOMAIN chart.labels : places[j] \notin hid}
  OBVIOUS
<1>4. on = {j \in DOMAIN names : places[j] \notin hid}
  BY <1>1, <1>3
<1>5. PICK set : set = [chart EXCEPT !.shown = on, !.scale = chart.range]
  OBVIOUS
<1>6. set = Plot!applySeriesVisibility(chart, places, hid)
  BY <1>3, <1>5 DEF Plot!applySeriesVisibility
<1>7. set = [labels |-> names, data |-> lines, range |-> end, scale |-> end, shown |-> on]
  BY <1>2, <1>5
<1>8. QED
  BY <1>4, <1>6, <1>7

\* A new instance, and one that is updated, shows the series.
LEMMA CreatedDraws ==
    ASSUME NEW m \in Modes, NEW S, NEW range, NEW hid
    PROVE  Draws(m, S, hid,
                 Plot!Created(m, Plot!buildMultiSeriesData(Plot!displaySeries(m, S)), range, hid))
<1>1. PICK built : built = Plot!buildMultiSeriesData(Plot!displaySeries(m, S))
  OBVIOUS
<1>2. PICK end, lines, names, places :
          /\ end = Plot!buildYScale(range) /\ lines = Plot!Prepared(m, built)
          /\ names = built.labels /\ places = built.sourceIndices
  OBVIOUS
<1>3. PICK chart : chart = [labels |-> names, data |-> lines, range |-> end, scale |-> end,
                            shown |-> DOMAIN names]
  OBVIOUS
<1>4. Plot!Created(m, built, range, hid) = Plot!applySeriesVisibility(chart, places, hid)
  BY <1>2, <1>3 DEF Plot!Created, Plot!buildUPlotOptions
<1>5. Plot!applySeriesVisibility(chart, places, hid)
        = [labels |-> names, data |-> lines, range |-> end, scale |-> end,
           shown |-> {j \in DOMAIN names : places[j] \notin hid}]
  BY <1>3, SetSeries
<1>6. Plot!Created(m, built, range, hid)
        = [labels |-> built.labels, data |-> Plot!Prepared(m, built), range |-> end,
           scale |-> end, shown |-> Visible(built, hid)]
  BY <1>2, <1>4, <1>5 DEF Visible
<1>7. QED
  BY <1>1, <1>6 DEF Draws

LEMMA RenderedDraws ==
    ASSUME NEW m \in Modes, NEW S, NEW range, NEW hid, NEW chart, chart # None => IsChart(chart)
    PROVE  Draws(m, S, hid, Plot!Rendered(chart, m, S, range, hid))
<1>1. PICK built : built = Plot!buildMultiSeriesData(Plot!displaySeries(m, S))
  OBVIOUS
<1>2. CASE chart = None \/ chart.labels # built.labels
  <2>1. Plot!Rendered(chart, m, S, range, hid) = Plot!Created(m, built, range, hid)
    BY <1>1, <1>2 DEF Plot!Rendered
  <2>2. QED
    BY <1>1, <2>1, CreatedDraws
<1>3. CASE chart # None /\ chart.labels = built.labels
  <2>1. PICK names, before, end, old, visible :
            chart = [labels |-> names, data |-> before, range |-> end, scale |-> old,
                     shown |-> visible]
    BY <1>3 DEF IsChart
  <2>2. PICK scale, lines, places :
            /\ scale = Plot!applyChartAxisScales(chart, range)
            /\ lines = Plot!Prepared(m, built) /\ places = built.sourceIndices
    OBVIOUS
  <2>3. PICK updated : updated = [chart EXCEPT !.data = lines, !.scale = scale]
    OBVIOUS
  <2>4. updated = [labels |-> names, data |-> lines, range |-> end, scale |-> scale,
                   shown |-> visible]
    BY <2>1, <2>3
  <2>5. Plot!Rendered(chart, m, S, range, hid) = Plot!applySeriesVisibility(updated, places, hid)
    BY <1>1, <1>3, <2>2, <2>3 DEF Plot!Rendered
  <2>6. Plot!applySeriesVisibility(updated, places, hid)
          = [labels |-> names, data |-> lines, range |-> end, scale |-> end,
             shown |-> {j \in DOMAIN names : places[j] \notin hid}]
    BY <2>4, SetSeries
  <2>7. names = built.labels
    BY <1>3, <2>1
  <2>8. Plot!Rendered(chart, m, S, range, hid)
          = [labels |-> built.labels, data |-> Plot!Prepared(m, built), range |-> end,
             scale |-> end, shown |-> Visible(built, hid)]
    BY <2>2, <2>5, <2>6, <2>7 DEF Visible
  <2>9. QED
    BY <1>1, <2>8 DEF Draws
<1>4. QED
  BY <1>2, <1>3

LEMMA DrawnIsChart ==
    ASSUME NEW m, NEW S, NEW hid, NEW chart, Draws(m, S, hid, chart)
    PROVE  IsChart(chart)
BY DEF Draws, IsChart

LEMMA PlotInit == ASSUME Plot!Init PROVE PlotInv
<1>1. IsConfig(mode, config)
  BY FS_EmptySet DEF Plot!Init, IsConfig
<1>2. QED
  BY <1>1 DEF Plot!Init, PlotInv, Modes

\* A chart is mounted with new data, or gets new data.
LEMMA DrawStep ==
    ASSUME PlotInv, mode' = mode, hiddenLabels' = hiddenLabels,
           NEW S, IsConfig(mode, S), S # {}, NEW chart \in {None, uplot},
           NEW toggled \in {None, override}, NEW floor \in {0, yMaxFloor},
           Plot!Draw(S, chart, toggled, floor)
    PROVE  PlotInv'
<1>1. PICK m, range, hid : m = mode /\ range = Plot!DisplayAxis(S, floor)
                           /\ hid = Hidden(mode, S, hiddenLabels, toggled)
  OBVIOUS
<1>2. mode \in Modes /\ floor \in Nat
  BY DEF PlotInv
<1>3. range.max \in Nat \cup {None}
  BY <1>1, <1>2, AxisRange
<1>4. chart # None => IsChart(chart)
  BY DrawnIsChart DEF PlotInv
<1>5. Draws(m, S, hid, Plot!Rendered(chart, m, S, range, hid))
  BY <1>1, <1>2, <1>4, RenderedDraws
<1>6. /\ config' = S /\ override' = toggled
      /\ yMaxFloor' = IF range.max = None THEN floor ELSE range.max
      /\ uplot' = Plot!Rendered(chart, m, S, range, hid)
  BY <1>1 DEF Plot!Draw, Hidden
<1>7. yMaxFloor' \in Nat
  BY <1>2, <1>3, <1>6
<1>8. toggled # None => \E key, hidd :
          toggled = [key |-> key, hidden |-> hidd] /\ LeavesOne(hidd, DOMAIN key)
  BY DEF PlotInv
<1>9. hid = Hidden(m, S, hiddenLabels', toggled)
  BY <1>1
<1>10. Draws(mode', config', Hidden(mode', config', hiddenLabels', override'), uplot')
  BY <1>1, <1>5, <1>6, <1>9
<1>11. mode' \in Modes /\ IsConfig(mode', config') /\ config' # {}
  BY <1>2, <1>6
<1>12. override' # None => \E key, hidd :
          override' = [key |-> key, hidden |-> hidd] /\ LeavesOne(hidd, DOMAIN key)
  BY <1>6, <1>8
<1>13. QED
  BY <1>7, <1>10, <1>11, <1>12 DEF PlotInv

\* An answer has each label once, as the one before.
LEMMA AnswerIsConfig ==
    ASSUME PlotInv, NEW S \in Plot!Answers
    PROVE  IsConfig(mode, S)
<1>1. IsFiniteSet(config) /\ config \subseteq Plot!Entry(mode)
      /\ \A d, e \in config : d.label = e.label => d = e
  BY DEF PlotInv, IsConfig
<1>2. CASE \E new \in Plot!Entry(mode) : S = {e \in config : e.label # new.label} \cup {new}
  <2>1. PICK new \in Plot!Entry(mode) : S = {e \in config : e.label # new.label} \cup {new}
    BY <1>2
  <2>2. PICK others : others = {e \in config : e.label # new.label}
    OBVIOUS
  <2>3. IsFiniteSet(others)
    <3>1. others \subseteq config
      BY <2>2
    <3>2. QED
      BY <1>1, <3>1, FS_Subset
  <2>4. S = others \cup {new}
    BY <2>1, <2>2
  <2>5. IsFiniteSet(S)
    BY <2>3, <2>4, FS_AddElement
  <2>6. S \subseteq Plot!Entry(mode) /\ \A d, e \in S : d.label = e.label => d = e
    BY <1>1, <2>1
  <2>7. QED
    BY <2>5, <2>6 DEF IsConfig
<1>3. CASE \E gone \in Labels : S = {e \in config : e.label # gone}
  <2>1. S \subseteq config
    BY <1>3
  <2>2. IsFiniteSet(S)
    BY <1>1, <2>1, FS_Subset
  <2>3. QED
    BY <1>1, <2>1, <2>2 DEF IsConfig
<1>4. QED
  BY <1>2, <1>3 DEF Plot!Answers

\* The places of the legend, and those hidden: never all.
LEMMA HiddenType ==
    ASSUME PlotInv, config # {}
    PROVE  /\ Cardinality(config) \in Nat /\ DOMAIN Plot!seriesLabels = 1 .. Cardinality(config)
           /\ LeavesOne(Plot!hiddenSeries, 1 .. Cardinality(config))
           /\ Plot!hiddenSeries = Hidden(mode, config, hiddenLabels, override)
<1>1. PICK n, L : n = Cardinality(config) /\ L = Plot!displaySeries(mode, config)
  OBVIOUS
<1>2. Lists(L, config)
  BY <1>1, LegendLists DEF PlotInv
<1>3. n \in Nat /\ DOMAIN L = 1 .. n
  BY <1>1, <1>2 DEF Lists
<1>4. n # 0
  BY <1>1, <1>2 DEF Lists
<1>5. PICK names : names = Plot!seriesLabels
  OBVIOUS
<1>6. names = Plot!LabelsOf(L) /\ DOMAIN names = 1 .. n
  BY <1>1, <1>3, <1>5 DEF Plot!seriesLabels, Plot!LabelsOf
<1>7. 1 \in DOMAIN names /\ names # <<>>
  BY <1>3, <1>4, <1>6
<1>8. PICK hid : hid = Plot!hiddenSeries
  OBVIOUS
<1>9. hid = Plot!HiddenBy(names, hiddenLabels, override)
  BY <1>5, <1>8 DEF Plot!hiddenSeries
<1>10. LeavesOne(hid, 1 .. n)
  <2>1. CASE override # None /\ override.key = names
    <3>1. PICK key, hidd : override = [key |-> key, hidden |-> hidd] /\ LeavesOne(hidd, DOMAIN key)
      BY <2>1 DEF PlotInv
    <3>2. key = names /\ hid = hidd
      BY <1>9, <2>1, <3>1 DEF Plot!HiddenBy
    <3>3. QED
      BY <1>6, <3>1, <3>2
  <2>2. CASE ~(override # None /\ override.key = names)
    <3>1. hid = Plot!resolveHiddenSeriesIndices(names, hiddenLabels)
      BY <1>9, <2>2 DEF Plot!HiddenBy
    <3>2. QED
      BY <1>6, <1>7, <3>1 DEF Plot!resolveHiddenSeriesIndices, LeavesOne
  <2>3. QED
    BY <2>1, <2>2
<1>11. hid = Hidden(mode, config, hiddenLabels, override)
  BY <1>1, <1>6, <1>9 DEF Hidden
<1>12. QED
  BY <1>1, <1>3, <1>5, <1>6, <1>8, <1>10, <1>11

\* The last button that is pressed stays pressed.
LEMMA ToggleStep ==
    ASSUME PlotInv, NEW i \in DOMAIN Plot!seriesLabels, Plot!toggleSeries(i)
    PROVE  PlotInv'
<1>1. PICK n, names, hid : n = Cardinality(config) /\ names = Plot!seriesLabels
                           /\ hid = Plot!hiddenSeries
  OBVIOUS
<1>2. config # {} /\ mode \in Modes /\ IsConfig(mode, config) /\ yMaxFloor \in Nat
  BY DEF PlotInv, Plot!toggleSeries
<1>3. n \in Nat /\ DOMAIN names = 1 .. n /\ LeavesOne(hid, 1 .. n)
  BY <1>1, <1>2, HiddenType
<1>4. PICK k : k = Cardinality(hid)
  OBVIOUS
<1>5. PICK after : after = IF i \in hid THEN hid \ {i} ELSE hid \cup {i}
  OBVIOUS
<1>6. /\ IF i \in hid THEN TRUE ELSE n - k > 1
      /\ override' = [key |-> names, hidden |-> after]
      /\ uplot' = Plot!Rendered(uplot, mode, config, Plot!DisplayAxis(config, yMaxFloor), after)
      /\ mode' = mode /\ config' = config /\ yMaxFloor' = yMaxFloor
  <2>1. Plot!Cardinality(config) = n /\ Plot!Cardinality(hid) = k
    BY <1>1, <1>4 DEF Plot!Cardinality, Cardinality, Plot!IsFiniteSet, IsFiniteSet
  <2>2. QED
    BY <1>1, <1>5, <2>1 DEF Plot!toggleSeries
<1>7. LeavesOne(after, 1 .. n)
  <2>1. CASE i \in hid
    BY <1>1, <1>3, <1>5, <2>1 DEF LeavesOne
  <2>2. CASE i \notin hid
    <3>1. IsFiniteSet(1 .. n) /\ Cardinality(1 .. n) = n
      BY <1>3, FS_Interval
    <3>2. IsFiniteSet(hid)
      <4>1. hid \subseteq 1 .. n
        BY <1>3 DEF LeavesOne
      <4>2. QED
        BY <3>1, <4>1, FS_Subset
    <3>3. k \in Nat /\ Cardinality(hid \cup {i}) = k + 1
      BY <1>4, <2>2, <3>2, FS_AddElement, FS_CardinalityType
    <3>4. k + 1 # n
      BY <1>3, <1>6, <2>2, <3>3
    <3>5. after # 1 .. n
      BY <1>5, <2>2, <3>1, <3>3, <3>4
    <3>6. after \subseteq 1 .. n
      BY <1>1, <1>3, <1>5, <2>2 DEF LeavesOne
    <3>7. QED
      BY <3>5, <3>6 DEF LeavesOne
  <2>3. QED
    BY <2>1, <2>2
<1>8. override' # None => \E key, hidd :
          override' = [key |-> key, hidden |-> hidd] /\ LeavesOne(hidd, DOMAIN key)
  BY <1>3, <1>6, <1>7
<1>9. PICK m, S, range : m = mode /\ S = config /\ range = Plot!DisplayAxis(config, yMaxFloor)
  OBVIOUS
<1>10. Draws(m, S, after, Plot!Rendered(uplot, m, S, range, after))
  <2>1. uplot # None => IsChart(uplot)
    BY DrawnIsChart DEF PlotInv
  <2>2. QED
    BY <1>2, <1>9, <2>1, RenderedDraws
<1>11. Hidden(m, S, hiddenLabels', override') = after
  <2>1. names = Plot!LabelsOf(Plot!displaySeries(m, S))
    BY <1>1, <1>9 DEF Plot!seriesLabels
  <2>2. PICK o : o = override'
    OBVIOUS
  <2>3. o = [key |-> names, hidden |-> after]
    BY <1>6, <2>2
  <2>4. o # None
    <3>1. PICK L : L = Plot!displaySeries(m, S)
      OBVIOUS
    <3>2. L \in [1 .. n -> S] /\ \A e \in S : e.label \in Labels
      BY <1>1, <1>2, <1>9, <3>1, LegendLists DEF Lists, IsConfig, Plot!Entry
    <3>3. names = [j \in 1 .. n |-> L[j].label]
      BY <2>1, <3>1, <3>2 DEF Plot!LabelsOf
    <3>4. names \in [1 .. n -> Labels]
      BY <3>2, <3>3
    <3>5. names \in Seq(Labels)
      BY <1>3, <3>4
    <3>6. after \in SUBSET Nat
      BY <1>3, <1>7 DEF LeavesOne
    <3>7. QED
      BY <2>3, <3>5, <3>6, PlotAssumption
  <2>5. Plot!HiddenBy(names, hiddenLabels', o) = after
    BY <2>3, <2>4 DEF Plot!HiddenBy
  <2>6. QED
    BY <2>1, <2>2, <2>5 DEF Hidden
<1>12. Draws(mode', config', Hidden(mode', config', hiddenLabels', override'), uplot')
  BY <1>6, <1>9, <1>10, <1>11
<1>13. mode' \in Modes /\ IsConfig(mode', config') /\ config' # {} /\ yMaxFloor' \in Nat
  BY <1>2, <1>6
<1>14. QED
  BY <1>8, <1>12, <1>13 DEF PlotInv

LEMMA PlotStep == ASSUME PlotInv, Plot!Next \/ UNCHANGED plotVars PROVE PlotInv'
<1>1. mode \in Modes /\ IsConfig(mode, config) /\ yMaxFloor \in Nat
  BY DEF PlotInv
<1>2. CASE Plot!Refresh
  <2>1. mode' = mode /\ hiddenLabels' = hiddenLabels
    BY <1>2 DEF Plot!Refresh
  <2>2. PICK S \in Plot!Answers :
            IF Plot!Drawable(S) THEN Plot!Draw(S, uplot, override, yMaxFloor) ELSE Plot!Unmount
    BY <1>2 DEF Plot!Refresh
  <2>3. IsConfig(mode, S)
    BY AnswerIsConfig
  <2>4. CASE Plot!Drawable(S)
    <3>1. S # {}
      BY <2>4 DEF Plot!Drawable
    <3>2. QED
      BY <2>1, <2>2, <2>3, <2>4, <3>1, DrawStep
  <2>5. CASE Plot!Unmount
    <3>1. config' = {} /\ override' = None /\ yMaxFloor' = 0 /\ uplot' = None /\ mode' \in Modes
      BY <1>1, <2>1, <2>5 DEF Plot!Unmount
    <3>2. IsConfig(mode', config')
      BY <3>1, FS_EmptySet DEF IsConfig
    <3>3. QED
      BY <3>1, <3>2 DEF PlotInv
  <2>6. QED
    BY <2>2, <2>4, <2>5
<1>3. CASE Plot!Reload
  <2>1. config # {} /\ mode' = mode /\ hiddenLabels' = hiddenLabels
        /\ Plot!Draw(config, None, None, 0)
    BY <1>3 DEF Plot!Reload
  <2>2. QED
    BY <1>1, <2>1, DrawStep
<1>4. CASE Plot!ThemeChanged
  <2>1. PICK m, S, range, hid : m = mode /\ S = config /\ hid = Plot!hiddenSeries
                                /\ range = Plot!DisplayAxis(config, yMaxFloor)
    OBVIOUS
  <2>2. /\ mode' = mode /\ config' = config /\ hiddenLabels' = hiddenLabels
        /\ override' = override /\ yMaxFloor' = yMaxFloor /\ uplot # None
        /\ uplot' = Plot!Created(m, Plot!buildMultiSeriesData(Plot!displaySeries(m, S)), range, hid)
    BY <1>4, <2>1 DEF Plot!ThemeChanged
  <2>3. config # {}
    BY <2>2 DEF PlotInv
  <2>4. hid = Hidden(mode, config, hiddenLabels, override)
    BY <2>1, <2>3, HiddenType
  <2>5. Draws(m, S, hid, uplot')
    BY <1>1, <2>1, <2>2, CreatedDraws
  <2>6. Draws(mode', config', Hidden(mode', config', hiddenLabels', override'), uplot')
    BY <2>1, <2>2, <2>4, <2>5
  <2>7. QED
    BY <1>1, <2>2, <2>3, <2>6 DEF PlotInv
<1>5. CASE \E i \in DOMAIN Plot!seriesLabels : Plot!toggleSeries(i)
  BY <1>5, ToggleStep
<1>6. CASE UNCHANGED plotVars
  BY <1>6 DEF PlotInv, plotVars
<1>7. QED
  BY <1>2, <1>3, <1>4, <1>5, <1>6 DEF Plot!Next

LEMMA LegendTold == ASSUME PlotInv PROVE Plot!LegendTellsPlot
<1> SUFFICES ASSUME uplot # None
             PROVE  /\ \E i \in DOMAIN Plot!SeriesLegend : Plot!SeriesLegend[i].pressed
                    /\ {uplot.labels[j] : j \in uplot.shown}
                         = {Plot!SeriesLegend[i].label : i \in {k \in DOMAIN Plot!SeriesLegend :
                              Plot!SeriesLegend[k].pressed /\ Plot!SeriesLegend[k].value # None}}
  BY DEF Plot!LegendTellsPlot
<1>1. PICK n, L, hid : n = Cardinality(config) /\ L = Plot!displaySeries(mode, config)
                       /\ hid = Plot!hiddenSeries
  OBVIOUS
<1>2. /\ mode \in Modes /\ IsConfig(mode, config) /\ config # {}
      /\ Draws(mode, config, Hidden(mode, config, hiddenLabels, override), uplot)
  BY DEF PlotInv
<1>3. n \in Nat /\ LeavesOne(hid, 1 .. n) /\ hid = Hidden(mode, config, hiddenLabels, override)
  BY <1>1, <1>2, HiddenType
<1>4. L \in [1 .. n -> config]
  BY <1>1, <1>2, LegendLists DEF Lists
<1>5. PICK legend : legend = Plot!SeriesLegend
  OBVIOUS
<1>6. legend = [i \in 1 .. n |-> [label |-> L[i].label, pressed |-> i \notin hid,
                                  value |-> Plot!getLatestValue(L[i].values)]]
  BY <1>1, <1>4, <1>5 DEF Plot!SeriesLegend, Plot!seriesLabels, Plot!LabelsOf
<1>7. \E i \in DOMAIN legend : legend[i].pressed
  BY <1>3, <1>6 DEF LeavesOne
<1>8. PICK P : P = WithValues(L, n)
  OBVIOUS
<1>9. PICK built : built = Plot!buildMultiSeriesData(L)
  OBVIOUS
<1>10. PICK q, active : q = Cardinality(P) /\ active = built.sourceIndices
  OBVIOUS
<1>11. /\ Lists(active, P) /\ DOMAIN built.labels = 1 .. q
       /\ \A j \in 1 .. q : built.labels[j] = L[active[j]].label
  BY <1>1, <1>2, <1>8, <1>9, <1>10, PlottedLists
<1>12. /\ P \subseteq 1 .. n /\ \A i \in 1 .. n : i \in P <=> Plot!hasValues(L[i].values)
  BY <1>8 DEF WithValues
<1>13. /\ q \in Nat /\ active \in [1 .. q -> P] /\ \A i \in P : \E j \in 1 .. q : active[j] = i
  BY <1>10, <1>11 DEF Lists
<1>14. uplot.labels = built.labels /\ uplot.shown = {j \in 1 .. q : active[j] \notin hid}
  BY <1>1, <1>2, <1>3, <1>9, <1>10, <1>11 DEF Draws, Visible
<1>15. \A i \in 1 .. n : i \in P <=> legend[i].value # None
  <2>1. \A i \in 1 .. n : Plot!hasValues(L[i].values) <=> Plot!getLatestValue(L[i].values) # None
    BY <1>2, <1>4, EntryTypes, Latest
  <2>2. QED
    BY <1>6, <1>12, <2>1
<1>16. PICK marked : marked = {k \in DOMAIN legend : legend[k].pressed /\ legend[k].value # None}
  OBVIOUS
<1>17. marked = P \ hid
  <2>1. \A i \in 1 .. n : legend[i].pressed <=> i \notin hid
    BY <1>6
  <2>2. DOMAIN legend = 1 .. n /\ P \subseteq 1 .. n
    BY <1>6, <1>12
  <2>3. QED
    BY <1>15, <1>16, <2>1, <2>2
<1>18. {uplot.labels[j] : j \in uplot.shown} = {legend[i].label : i \in marked}
  <2>1. ASSUME NEW j \in uplot.shown
        PROVE  active[j] \in marked /\ uplot.labels[j] = legend[active[j]].label
    BY <1>6, <1>11, <1>12, <1>13, <1>14, <1>17, <2>1
  <2>2. ASSUME NEW i \in marked
        PROVE  \E j \in uplot.shown : uplot.labels[j] = legend[i].label
    <3>1. PICK j \in 1 .. q : active[j] = i
      BY <1>13, <1>17
    <3>2. j \in uplot.shown
      BY <1>14, <1>17, <3>1
    <3>3. QED
      BY <2>1, <3>1, <3>2
  <2>3. QED
    BY <2>1, <2>2
<1>19. QED
  BY <1>5, <1>7, <1>16, <1>18

LEMMA PlotMin ==
    ASSUME NEW T \in SUBSET Nat, T # {}
    PROVE  Plot!Min(T) \in T /\ \A x \in T : Plot!Min(T) <= x
<1>1. \E x \in T : \A y \in T : x <= y
  BY Least
<1>2. QED
  BY <1>1 DEF Plot!Min

\* A sequence that repeats nothing is as long as its elements are many.
LEMMA RangeCounts ==
    ASSUME NEW k \in Nat, NEW s, DOMAIN s = 1 .. k, \A i, j \in 1 .. k : s[i] = s[j] => i = j
    PROVE  Plot!Cardinality(Plot!Range(s)) = k
<1> DEFINE g == [i \in 1 .. k |-> s[i]]
<1>1. g \in Bijection(1 .. k, Plot!Range(s))
  BY DEF Bijection, Injection, Surjection, IsInjective, Plot!Range
<1> HIDE DEF g
<1>2. ExistsBijection(1 .. k, Plot!Range(s))
  BY <1>1 DEF ExistsBijection
<1>3. IsFiniteSet(1 .. k) /\ Cardinality(1 .. k) = k
  BY FS_Interval
<1>4. Cardinality(Plot!Range(s)) = k
  BY <1>2, <1>3, FS_Bijection
<1>5. QED
  BY <1>4 DEF Plot!Cardinality, Cardinality, Plot!IsFiniteSet, IsFiniteSet

\* The rows of a tooltip, and what is left out
LEMMA BodyTells ==
    ASSUME NEW A, IsFiniteSet(A), \A a \in A : a.value \in Int /\ a.line \in Int,
           \A a, b \in A : a.line = b.line => a = b,
           NEW focus, NEW body, body = Plot!renderTooltipBody(A, focus)
    PROVE  /\ \A i \in DOMAIN body.rows : body.rows[i] \in A
           /\ Len(body.rows) + body.remaining = Plot!Cardinality(A)
           /\ Plot!Cardinality(Plot!Range(body.rows)) = Len(body.rows)
           /\ \A a \in A : a.line = focus => a \in Plot!Range(body.rows)
<1>1. PICK ahead : ahead = [a \in A |->
          {b \in A : IF b.value = a.value THEN b.line < a.line ELSE b.value > a.value}]
  OBVIOUS
<1>2. DOMAIN ahead = A
  BY <1>1
<1>3. IsOrder(ahead)
  <2>1. \A x, y \in A : x \in ahead[y] <=>
            IF x.value = y.value THEN x.line < y.line ELSE x.value > y.value
    BY <1>1
  <2>2. \A x \in A : ahead[x] \subseteq A /\ x \notin ahead[x]
    BY <1>1
  <2>3. \A x, y \in A : x = y \/ x \in ahead[y] \/ y \in ahead[x]
    <3> SUFFICES ASSUME NEW x \in A, NEW y \in A, x # y, x \notin ahead[y], y \notin ahead[x]
                 PROVE  FALSE
      OBVIOUS
    <3>1. x.line # y.line
      OBVIOUS
    <3>2. QED
      BY <2>1, <3>1
  <2>4. \A x, y \in A : x \in ahead[y] => ahead[x] \subseteq ahead[y]
    <3> SUFFICES ASSUME NEW x \in A, NEW y \in A, x \in ahead[y], NEW z \in A, z \in ahead[x]
                 PROVE  z \in ahead[y]
      BY <2>2
    <3>1. QED
      BY <2>1
  <2>5. QED
    BY <1>2, <2>2, <2>3, <2>4 DEF IsOrder
<1>4. PICK s, n : s = Plot!InOrder(ahead) /\ n = Cardinality(A)
  OBVIOUS
<1>5. Lists(s, A)
  BY <1>2, <1>3, <1>4, Listing1
<1>6. /\ n \in Nat /\ s \in [1 .. n -> A]
      /\ \A x \in A : \E k \in 1 .. n : s[k] = x
      /\ \A j, k \in 1 .. n : s[j] = s[k] => j = k
  BY <1>4, <1>5 DEF Lists
<1>7. s \in Seq(A) /\ Len(s) = n /\ DOMAIN s = 1 .. n
  BY <1>6
<1>8. Plot!Cardinality(A) = n
  BY <1>4 DEF Plot!Cardinality, Cardinality, Plot!IsFiniteSet, IsFiniteSet
<1>9. PICK max, few, at : max = MAX_TOOLTIP_ENTRIES /\ few = Plot!Min({max, n})
                          /\ at = {i \in 1 .. n : s[i].line = focus}
  OBVIOUS
<1>10. max \in Nat /\ max > 0
  BY <1>9, PlotAssumption
<1>11. few \in {max, n} /\ few <= max /\ few <= n
  <2>1. {max, n} \in SUBSET Nat /\ {max, n} # {}
    BY <1>6, <1>10
  <2>2. QED
    BY <1>9, <2>1, PlotMin
<1>12. PICK k : k = Plot!Min(at)
  OBVIOUS
<1>13. at # {} => k \in 1 .. n /\ s[k].line = focus
  <2>1. at \in SUBSET Nat
    BY <1>6, <1>9
  <2>2. at # {} => k \in at
    BY <1>12, <2>1, PlotMin
  <2>3. QED
    BY <1>9, <2>2
<1>14. \A a \in A : a.line = focus => at # {} /\ a = s[k]
  <2> SUFFICES ASSUME NEW a \in A, a.line = focus PROVE at # {} /\ a = s[k]
    OBVIOUS
  <2>1. PICK i \in 1 .. n : s[i] = a
    BY <1>6
  <2>2. i \in at
    BY <1>9, <2>1
  <2>3. s[k] \in A /\ s[k].line = focus
    BY <1>6, <1>13, <2>2
  <2>4. QED
    BY <2>2, <2>3
<1>15. body = IF at # {} /\ k > max
              THEN [rows |-> Append(SubSeq(s, 1, max - 1), s[k]), remaining |-> n - max]
              ELSE [rows |-> SubSeq(s, 1, few), remaining |-> n - few]
  BY <1>1, <1>4, <1>7, <1>9, <1>12 DEF Plot!renderTooltipBody
<1>16. PICK told : told = body.rows
  OBVIOUS
<1>17. CASE at # {} /\ k > max
  <2>1. told = Append(SubSeq(s, 1, max - 1), s[k]) /\ body.remaining = n - max
    <3>1. PICK t, left : t = Append(SubSeq(s, 1, max - 1), s[k]) /\ left = n - max
      OBVIOUS
    <3>2. body = [rows |-> t, remaining |-> left]
      BY <1>15, <1>17, <3>1, Zenon
    <3>3. told = t /\ body.remaining = left
      BY <1>16, <3>2
    <3>4. QED
      BY <3>1, <3>3, Zenon
  <2>2. max - 1 \in 0 .. n /\ k \in 1 .. n
    BY <1>6, <1>10, <1>13, <1>17
  <2>3. PICK head : head = SubSeq(s, 1, max - 1)
    OBVIOUS
  <2>4. head \in Seq(A) /\ Len(head) = max - 1 /\ \A i \in 1 .. max - 1 : head[i] = s[i]
    BY <1>7, <2>2, <2>3
  <2>5. told \in Seq(A) /\ Len(told) = max /\ DOMAIN told = 1 .. max
    BY <1>6, <1>10, <2>1, <2>2, <2>3, <2>4
  <2>6. \A i \in 1 .. max : told[i] = IF i = max THEN s[k] ELSE s[i]
    BY <1>10, <2>1, <2>3, <2>4
  <2>7. \A i, j \in 1 .. max : told[i] = told[j] => i = j
    BY <1>6, <1>10, <1>17, <2>2, <2>6
  <2>8. Plot!Cardinality(Plot!Range(told)) = max
    BY <1>10, <2>5, <2>7, RangeCounts
  <2>9. s[k] \in Plot!Range(told)
    BY <1>10, <2>5, <2>6 DEF Plot!Range
  <2>10. \A i \in DOMAIN told : told[i] \in A
    BY <2>5
  <2>11. max + (n - max) = n
    BY <1>6, <1>10
  <2>12. QED
    BY <1>8, <1>14, <1>16, <2>1, <2>5, <2>8, <2>9, <2>10, <2>11
<1>18. CASE ~(at # {} /\ k > max)
  <2>1. told = SubSeq(s, 1, few) /\ body.remaining = n - few
    <3>1. PICK t, left : t = SubSeq(s, 1, few) /\ left = n - few
      OBVIOUS
    <3>2. body = [rows |-> t, remaining |-> left]
      BY <1>15, <1>18, <3>1, Zenon
    <3>3. told = t /\ body.remaining = left
      BY <1>16, <3>2
    <3>4. QED
      BY <3>1, <3>3, Zenon
  <2>2. few \in 0 .. n
    BY <1>6, <1>10, <1>11
  <2>3. told \in Seq(A) /\ Len(told) = few /\ DOMAIN told = 1 .. few
    BY <1>7, <2>1, <2>2
  <2>4. \A i \in 1 .. few : told[i] = s[i]
    BY <1>7, <2>1, <2>2
  <2>5. \A i, j \in 1 .. few : told[i] = told[j] => i = j
    BY <1>6, <2>2, <2>4
  <2>6. Plot!Cardinality(Plot!Range(told)) = few
    BY <2>2, <2>3, <2>5, RangeCounts
  <2>7. at # {} => s[k] \in Plot!Range(told)
    <3> SUFFICES ASSUME at # {} PROVE s[k] \in Plot!Range(told)
      OBVIOUS
    <3>1. k \in 1 .. few
      BY <1>6, <1>10, <1>11, <1>13, <1>18
    <3>2. QED
      BY <2>3, <2>4, <3>1 DEF Plot!Range
  <2>8. \A i \in DOMAIN told : told[i] \in A
    BY <2>3
  <2>9. few + (n - few) = n
    BY <1>6, <2>2
  <2>10. QED
    BY <1>8, <1>14, <1>16, <2>1, <2>3, <2>6, <2>7, <2>8, <2>9
<1>19. QED
  BY <1>17, <1>18

\* What a stack adds at a point, and what its first n series measure together
Adds(lines, p, j) == IF lines[j][p] = None THEN 0 ELSE lines[j][p]

Piled(lines, p, n, g) == g = [j \in 0 .. n |-> IF j = 0 THEN 0 ELSE g[j - 1] + Adds(lines, p, j)]

LEMMA PiledExists ==
    ASSUME NEW lines, NEW p, NEW n \in Nat
    PROVE  \E g : Piled(lines, p, n, g)
<1> DEFINE good == {k \in Nat : \E g : Piled(lines, p, k, g)}
<1>1. 0 \in good
  <2>1. Piled(lines, p, 0, [j \in 0 .. 0 |-> 0])
    BY DEF Piled
  <2>2. QED
    BY <2>1
<1>2. ASSUME NEW k \in Nat, NEW g, Piled(lines, p, k, g)
      PROVE  \E h : Piled(lines, p, k + 1, h)
  <2> DEFINE h == [j \in 0 .. k + 1 |-> IF j = k + 1 THEN g[k] + Adds(lines, p, k + 1) ELSE g[j]]
  <2>1. ASSUME NEW j \in 0 .. k + 1
        PROVE  h[j] = IF j = 0 THEN 0 ELSE h[j - 1] + Adds(lines, p, j)
    <3>1. j = k + 1 => j - 1 = k /\ j # 0 /\ k \in 0 .. k + 1 /\ k # k + 1
      OBVIOUS
    <3>2. j # k + 1 => j \in 0 .. k /\ (j # 0 => j - 1 \in 0 .. k + 1 /\ j - 1 # k + 1)
      OBVIOUS
    <3>3. CASE j = k + 1
      BY <3>1, <3>3
    <3>4. CASE j # k + 1
      BY <1>2, <3>2, <3>4 DEF Piled
    <3>5. QED
      BY <3>3, <3>4
  <2>2. h = [j \in 0 .. k + 1 |-> IF j = 0 THEN 0 ELSE h[j - 1] + Adds(lines, p, j)]
    BY <2>1
  <2> HIDE DEF h
  <2>3. Piled(lines, p, k + 1, h)
    BY <2>2 DEF Piled
  <2>4. QED
    BY <2>3
<1>3. \A k \in good : k + 1 \in good
  BY <1>2
<1>4. QED
  BY <1>1, <1>3, Every

\* The heights of a stack of numbers
IsHeights(lines, p, n, r) ==
    /\ r[0] = 0 /\ \A j \in 0 .. n : r[j] \in Nat
    /\ \A j \in 1 .. n : r[j] = r[j - 1] + Adds(lines, p, j)

LEMMA HeightsRun ==
    ASSUME NEW n \in Nat, NEW V, NEW lines \in [1 .. n -> V], NEW p,
           \A j \in 1 .. n : lines[j][p] = None \/ lines[j][p] \in Nat,
           NEW r, r = Plot!Heights(lines, p)
    PROVE  IsHeights(lines, p, n, r)
<1>1. lines \in Seq(V) /\ Len(lines) = n
  OBVIOUS
<1>2. r = CHOOSE g : Piled(lines, p, n, g)
  BY <1>1 DEF Plot!Heights, Piled, Adds
<1>3. Piled(lines, p, n, r)
  BY <1>2, PiledExists
<1>4. r[0] = 0
  BY <1>3 DEF Piled
<1>5. ASSUME NEW j \in 1 .. n PROVE r[j] = r[j - 1] + Adds(lines, p, j)
  <2>1. j \in 0 .. n /\ j # 0
    OBVIOUS
  <2>2. QED
    BY <1>3, <2>1 DEF Piled
<1>6. PICK good : good = {j \in 0 .. n : r[j] \in Nat}
  OBVIOUS
<1>7. 0 \in good
  BY <1>4, <1>6
<1>8. ASSUME NEW i \in 0 .. n - 1, i \in good PROVE i + 1 \in good
  <2>1. i + 1 \in 1 .. n /\ (i + 1) - 1 = i
    OBVIOUS
  <2>2. r[i + 1] = r[i] + Adds(lines, p, i + 1) /\ Adds(lines, p, i + 1) \in Nat
    BY <1>5, <2>1 DEF Adds
  <2>3. QED
    BY <1>6, <1>8, <2>1, <2>2
<1>9. 0 .. n \subseteq good
  BY <1>7, <1>8, Reached
<1>10. QED
  BY <1>4, <1>5, <1>6, <1>9 DEF IsHeights

\* What the tooltip takes from a plotted line
Over(m, drawn, p, j) ==
    drawn[j][p] - (IF m # "stack" \/ j = 1 \/ drawn[j - 1][p] = None THEN 0
                   ELSE drawn[j - 1][p])

\* The plotted lines: what was answered, or in a stack the sums so far
LEMMA Drawn ==
    ASSUME NEW m \in Modes, NEW n \in Nat, NEW lines \in [1 .. n -> Lanes[m]],
           NEW built, built.data = lines, NEW drawn, drawn = Plot!Prepared(m, built),
           NEW p, \A j \in 1 .. n : p \in DOMAIN lines[j],
           NEW j \in 1 .. n, drawn[j][p] # None
    PROVE  /\ drawn[j][p] \in Nat
           /\ Over(m, drawn, p, j) = Adds(lines, p, j)
           /\ Adds(lines, p, j) \in Nat
<1>1. \A k \in 1 .. n : lines[k][p] = None \/ lines[k][p] \in Nat
  BY LaneTypes
<1>2. Adds(lines, p, j) \in Nat
  BY <1>1 DEF Adds
<1>3. CASE m # "stack"
  <2>1. drawn = lines
    BY <1>3 DEF Plot!Prepared
  <2>2. drawn[j][p] = Adds(lines, p, j)
    BY <2>1 DEF Adds
  <2>3. QED
    BY <1>2, <1>3, <2>2 DEF Over
<1>4. CASE m = "stack"
  <2>1. PICK r : r = Plot!Heights(lines, p)
    OBVIOUS
  <2>2. /\ r[0] = 0 /\ \A k \in 0 .. n : r[k] \in Nat
        /\ \A k \in 1 .. n : r[k] = r[k - 1] + Adds(lines, p, k)
    <3>1. PICK V : V = Lanes[m]
      OBVIOUS
    <3>2. lines \in [1 .. n -> V]
      BY <3>1
    <3>3. IsHeights(lines, p, n, r)
      BY <1>1, <2>1, <3>2, HeightsRun
    <3>4. QED
      BY <3>3 DEF IsHeights
  <2>3. ASSUME NEW k \in 1 .. n
        PROVE  drawn[k][p] = IF lines[k][p] = None /\ r[k] = 0 THEN None ELSE r[k]
    <3>1. drawn = Plot!stackAlignedData(lines)
      BY <1>4 DEF Plot!Prepared
    <3>2. drawn[k] = [x \in DOMAIN lines[k] |->
                         IF lines[k][x] = None /\ Plot!Heights(lines, x)[k] = 0 THEN None
                         ELSE Plot!Heights(lines, x)[k]]
      BY <3>1 DEF Plot!stackAlignedData
    <3>3. p \in DOMAIN lines[k]
      OBVIOUS
    <3>4. drawn[k][p] = IF lines[k][p] = None /\ Plot!Heights(lines, p)[k] = 0 THEN None
                        ELSE Plot!Heights(lines, p)[k]
      BY <3>2, <3>3
    <3>5. QED
      BY <2>1, <3>4
  <2>4. drawn[j][p] = r[j] /\ r[j] \in Nat /\ r[j] = r[j - 1] + Adds(lines, p, j)
    BY <2>2, <2>3
  <2>5. r[j - 1] \in Nat
    BY <2>2
  <2>6. r[j] - r[j - 1] = Adds(lines, p, j)
    BY <1>2, <2>4, <2>5
  <2>7. CASE j = 1
    BY <1>2, <2>2, <2>4, <2>6, <2>7 DEF Over
  <2>8. CASE j # 1
    <3>1. j - 1 \in 1 .. n
      BY <2>8
    <3>2. drawn[j - 1][p] = None => r[j - 1] = 0
      <4>1. drawn[j - 1][p] = IF lines[j - 1][p] = None /\ r[j - 1] = 0 THEN None ELSE r[j - 1]
        BY <2>3, <3>1
      <4>2. r[j - 1] # None
        BY <2>5, PlotAssumption
      <4>3. QED
        BY <4>1, <4>2
    <3>3. drawn[j - 1][p] # None => drawn[j - 1][p] = r[j - 1]
      BY <2>3, <3>1
    <3>4. QED
      BY <1>2, <1>4, <2>4, <2>5, <2>6, <2>8, <3>2, <3>3 DEF Over
  <2>9. QED
    BY <2>7, <2>8
<1>5. QED
  BY <1>3, <1>4

\* What the rows of the tooltip say of the series
LEMMA Readings ==
    ASSUME PlotInv, uplot # None, NEW p \in UNION {DOMAIN e.values : e \in config},
           NEW A, A = Plot!TooltipEntries(uplot, p)
    PROVE  /\ IsFiniteSet(A)
           /\ \A a \in A : a.value \in Int /\ a.line \in Int /\ a.value = Plot!Answered(a.label, p)
           /\ \A a, b \in A : a.line = b.line => a = b
<1>1. PICK n, L : n = Cardinality(config) /\ L = Plot!displaySeries(mode, config)
  OBVIOUS
<1>2. PICK hid : Draws(mode, config, hid, uplot)
  BY DEF PlotInv
<1>3. mode \in Modes /\ IsConfig(mode, config)
  BY DEF PlotInv
<1>4. PICK built : built = Plot!buildMultiSeriesData(L)
  OBVIOUS
<1>5. PICK P : P = WithValues(L, n)
  OBVIOUS
<1>6. PICK q, active : q = Cardinality(P) /\ active = built.sourceIndices
  OBVIOUS
<1>7. /\ q \in Nat /\ active \in [1 .. q -> P]
      /\ DOMAIN built.labels = 1 .. q /\ DOMAIN built.data = 1 .. q
      /\ \A j \in 1 .. q : /\ built.labels[j] = L[active[j]].label
                           /\ built.data[j] = L[active[j]].values
  BY <1>1, <1>3, <1>4, <1>5, <1>6, PlottedLists
<1>8. L \in [1 .. n -> config]
  BY <1>1, <1>3, LegendLists DEF Lists
<1>9. P \subseteq 1 .. n
  BY <1>5 DEF WithValues
<1>10. PICK lines : lines = built.data
  OBVIOUS
<1>11. lines \in [1 .. q -> Lanes[mode]]
  BY <1>1, <1>3, <1>4, <1>5, <1>6, <1>10, PlottedLists
<1>12. \A j \in 1 .. q : p \in DOMAIN lines[j]
  <2>1. PICK e \in config : p \in DOMAIN e.values
    OBVIOUS
  <2>2. e.values \in Lanes[mode]
    BY <1>3, EntryTypes
  <2>3. \A j \in 1 .. q : DOMAIN lines[j] = DOMAIN e.values
    BY <1>3, <1>11, <2>2, LaneTypes
  <2>4. QED
    BY <2>1, <2>3
<1>13. PICK drawn : drawn = Plot!Prepared(mode, built)
  OBVIOUS
<1>14. /\ uplot.labels = built.labels /\ uplot.data = drawn /\ uplot.shown \subseteq 1 .. q
  <2>1. Visible(built, hid) \subseteq 1 .. q
    BY <1>7 DEF Visible
  <2>2. QED
    BY <1>1, <1>2, <1>4, <1>13, <2>1 DEF Draws
<1>15. \A a \in A : \E j \in 1 .. q :
          /\ drawn[j][p] # None
          /\ a = [label |-> built.labels[j],
                  value |-> Over(mode, drawn, p, j), line |-> j]
  BY <1>14 DEF Plot!TooltipEntries, Over
<1>16. \A a \in A : a.line \in 1 .. q /\ a = [label |-> built.labels[a.line],
                                              value |-> Adds(lines, p, a.line), line |-> a.line]
                    /\ Adds(lines, p, a.line) \in Nat
  <2> SUFFICES ASSUME NEW a \in A
               PROVE  a.line \in 1 .. q /\ a = [label |-> built.labels[a.line],
                                              value |-> Adds(lines, p, a.line), line |-> a.line]
                      /\ Adds(lines, p, a.line) \in Nat
    OBVIOUS
  <2>1. PICK j \in 1 .. q :
          /\ drawn[j][p] # None
          /\ a = [label |-> built.labels[j],
                  value |-> Over(mode, drawn, p, j), line |-> j]
    BY <1>15
  <2>2. Over(mode, drawn, p, j) = Adds(lines, p, j) /\ Adds(lines, p, j) \in Nat
    <3>1. PICK m : m = mode
      OBVIOUS
    <3>2. m \in Modes /\ lines \in [1 .. q -> Lanes[m]] /\ drawn = Plot!Prepared(m, built)
      BY <1>3, <1>11, <1>13, <3>1
    <3>3. drawn[j][p] # None
      BY <2>1
    <3>4. q \in Nat /\ built.data = lines
      BY <1>7, <1>10
    <3>5. Over(m, drawn, p, j) = Adds(lines, p, j) /\ Adds(lines, p, j) \in Nat
      BY <1>12, <3>2, <3>3, <3>4, Drawn
    <3>6. QED
      BY <3>1, <3>5
  <2>3. a = [label |-> built.labels[j], value |-> Adds(lines, p, j), line |-> j]
    BY <2>1, <2>2
  <2>4. a.line = j
    BY <2>3
  <2>5. QED
    BY <2>2, <2>3, <2>4
<1>17. \A a, b \in A : a.line = b.line => a = b
  BY <1>16
<1>18. IsFiniteSet(A)
  <2> DEFINE f == [a \in A |-> a.line]
  <2>1. f \in Injection(A, 1 .. q)
    BY <1>16, <1>17 DEF Injection, IsInjective
  <2>2. IsFiniteSet(1 .. q)
    BY <1>7, FS_Interval
  <2> HIDE DEF f
  <2>3. QED
    BY <2>1, <2>2, FS_Injection
<1>19. ASSUME NEW a \in A PROVE a.value = Plot!Answered(a.label, p)
  <2>1. PICK j \in 1 .. q : a = [label |-> built.labels[j], value |-> Adds(lines, p, j), line |-> j]
    BY <1>16
  <2>2. PICK e : e = L[active[j]]
    OBVIOUS
  <2>3. e \in config /\ built.labels[j] = e.label /\ lines[j] = e.values
    BY <1>7, <1>8, <1>9, <1>10, <2>2
  <2>4. (CHOOSE d \in config : d.label = e.label) = e
    BY <1>3, <2>3 DEF IsConfig
  <2>5. Plot!Answered(e.label, p) = Adds(lines, p, j)
    BY <2>3, <2>4 DEF Plot!Answered, Adds
  <2>6. QED
    BY <2>1, <2>3, <2>5
<1>20. \A a \in A : a.value \in Int /\ a.line \in Int
  <2> SUFFICES ASSUME NEW a \in A PROVE a.value \in Int /\ a.line \in Int
    OBVIOUS
  <2>1. a.line \in 1 .. q /\ a.value = Adds(lines, p, a.line) /\ Adds(lines, p, a.line) \in Nat
    BY <1>16
  <2>2. QED
    BY <1>7, <2>1
<1>21. QED
  BY <1>17, <1>18, <1>19, <1>20

LEMMA TooltipTold == ASSUME PlotInv PROVE Plot!TooltipTellsData
<1> SUFFICES ASSUME uplot # None, NEW p \in UNION {DOMAIN e.values : e \in config},
                    NEW hover \in Plot!Measures,
                    NEW A, A = Plot!TooltipEntries(uplot, p),
                    NEW focus, focus = Plot!FocusedLine(uplot, p, hover),
                    NEW body, body = Plot!renderTooltipBody(A, focus)
             PROVE  /\ \A i \in DOMAIN body.rows :
                          body.rows[i].value = Plot!Answered(body.rows[i].label, p)
                    /\ Len(body.rows) + body.remaining = Plot!Cardinality(A)
                    /\ Plot!Cardinality(Plot!Range(body.rows)) = Len(body.rows)
                    /\ \A a \in A : a.line = focus => a \in Plot!Range(body.rows)
  BY DEF Plot!TooltipTellsData
<1>1. /\ IsFiniteSet(A)
      /\ \A a \in A : a.value \in Int /\ a.line \in Int /\ a.value = Plot!Answered(a.label, p)
      /\ \A a, b \in A : a.line = b.line => a = b
  BY Readings
<1>2. /\ \A i \in DOMAIN body.rows : body.rows[i] \in A
      /\ Len(body.rows) + body.remaining = Plot!Cardinality(A)
      /\ Plot!Cardinality(Plot!Range(body.rows)) = Len(body.rows)
      /\ \A a \in A : a.line = focus => a \in Plot!Range(body.rows)
  BY <1>1, BodyTells
<1>3. QED
  BY <1>1, <1>2

-----------------------------------------------------------------------------
(* The types of the chart                                                    *)
PlotTypes ==
    /\ hiddenLabels \subseteq Labels
    /\ override # None => override.key \in Seq(Labels)

\* The legend has the labels of the series.
LEMMA LegendLabels ==
    ASSUME PlotInv, config # {}
    PROVE  Plot!seriesLabels \in Seq(Labels)
<1>1. PICK n, L : n = Cardinality(config) /\ L = Plot!displaySeries(mode, config)
  OBVIOUS
<1>2. mode \in Modes /\ IsConfig(mode, config)
  BY DEF PlotInv
<1>3. n \in Nat /\ L \in [1 .. n -> config]
  BY <1>1, <1>2, LegendLists DEF Lists
<1>4. \A e \in config : e.label \in Labels
  BY <1>2 DEF IsConfig, Plot!Entry
<1>5. PICK names : names = [j \in 1 .. n |-> L[j].label]
  OBVIOUS
<1>6. Plot!seriesLabels = names
  BY <1>1, <1>3, <1>5 DEF Plot!seriesLabels, Plot!LabelsOf
<1>7. names \in [1 .. n -> Labels]
  BY <1>3, <1>4, <1>5
<1>8. names \in Seq(Labels)
  BY <1>3, <1>7
<1>9. QED
  BY <1>6, <1>8

LEMMA PlotTypesInit == ASSUME Plot!Init PROVE PlotTypes
BY DEF Plot!Init, PlotTypes

LEMMA PlotTypesStep ==
    ASSUME PlotInv, PlotTypes, Plot!Next \/ UNCHANGED plotVars
    PROVE  PlotTypes'
<1>1. CASE \E i \in DOMAIN Plot!seriesLabels : Plot!toggleSeries(i)
  <2>1. PICK i \in DOMAIN Plot!seriesLabels : Plot!toggleSeries(i)
    BY <1>1
  <2>2. PICK names, hid, after : names = Plot!seriesLabels /\ hid = Plot!hiddenSeries
           /\ after = IF i \in hid THEN hid \ {i} ELSE hid \cup {i}
    OBVIOUS
  <2>3. config # {}
    BY <2>1 DEF Plot!toggleSeries
  <2>4. names \in Seq(Labels) /\ hid \subseteq DOMAIN names
    BY <2>2, <2>3, LegendLabels, HiddenType DEF LeavesOne
  <2>5. hiddenLabels' = {names[j] : j \in after} /\ override' = [key |-> names, hidden |-> after]
    BY <2>1, <2>2 DEF Plot!toggleSeries, Plot!hiddenIndicesToLabels
  <2>6. after \subseteq DOMAIN names
    BY <2>1, <2>2, <2>4
  <2>7. \A j \in DOMAIN names : names[j] \in Labels
    BY <2>4
  <2>8. hiddenLabels' \subseteq Labels
    BY <2>5, <2>6, <2>7
  <2>9. PICK o : o = override'
    OBVIOUS
  <2>10. o.key = names
    BY <2>5, <2>9
  <2>11. QED
    BY <2>4, <2>8, <2>9, <2>10 DEF PlotTypes
<1>2. CASE hiddenLabels' = hiddenLabels /\ override' \in {None, override}
  BY <1>2 DEF PlotTypes
<1>3. CASE Plot!Refresh \/ Plot!Reload \/ Plot!ThemeChanged \/ UNCHANGED plotVars
  <2>1. hiddenLabels' = hiddenLabels
    BY <1>3 DEF Plot!Refresh, Plot!Reload, Plot!ThemeChanged, plotVars
  <2>2. override' \in {None, override}
    BY <1>3 DEF Plot!Refresh, Plot!Reload, Plot!ThemeChanged, plotVars, Plot!Draw, Plot!Unmount
  <2>3. QED
    BY <1>2, <2>1, <2>2
<1>4. QED
  BY <1>1, <1>3 DEF Plot!Next

LEMMA PlotTyped == ASSUME PlotInv, PlotTypes PROVE Plot!TypeOK
<1>1. mode \in Modes /\ IsConfig(mode, config) /\ yMaxFloor \in Nat
  BY DEF PlotInv
<1>2. override = None \/ (override.key \in Seq(Labels) /\ override.hidden \subseteq DOMAIN override.key)
  <2>1. SUFFICES ASSUME override # None
                 PROVE  override.hidden \subseteq DOMAIN override.key /\ override.key \in Seq(Labels)
    OBVIOUS
  <2>2. PICK o : o = override
    OBVIOUS
  <2>3. PICK key, hid : o = [key |-> key, hidden |-> hid] /\ LeavesOne(hid, DOMAIN key)
    BY <2>1, <2>2 DEF PlotInv
  <2>4. o.key = key /\ o.hidden = hid
    BY <2>3
  <2>5. o.hidden \subseteq DOMAIN o.key
    BY <2>3, <2>4 DEF LeavesOne
  <2>6. QED
    BY <2>1, <2>2, <2>5 DEF PlotTypes
<1>3. uplot = None \/ DOMAIN uplot = {"labels", "data", "range", "scale", "shown"}
  <2>1. SUFFICES ASSUME uplot # None PROVE DOMAIN uplot = {"labels", "data", "range", "scale", "shown"}
    OBVIOUS
  <2>2. IsChart(uplot)
    BY <2>1, DrawnIsChart DEF PlotInv
  <2>3. PICK chart, names, lines, end, scale, visible :
            /\ chart = uplot
            /\ chart = [labels |-> names, data |-> lines, range |-> end, scale |-> scale,
                        shown |-> visible]
    BY <2>2 DEF IsChart
  <2>4. DOMAIN chart = {"labels", "data", "range", "scale", "shown"}
    BY <2>3
  <2>5. QED
    BY <2>3, <2>4
<1>4. QED
  BY <1>1, <1>2, <1>3 DEF Plot!TypeOK, PlotTypes, IsConfig, Modes

-----------------------------------------------------------------------------
(* The browser                                                               *)

\* A step of the whole is one of one part, and leaves every other alone.
LEMMA PartSteps ==
    ASSUME [Next]_vars
    PROVE  /\ Chat!Next \/ UNCHANGED chatVars
           /\ Window!Next \/ UNCHANGED timeVars
           /\ Form!Next \/ UNCHANGED formVars
           /\ Admin!Next \/ UNCHANGED adminVars
           /\ Hydration!Next \/ UNCHANGED hydVars
           /\ Card!Next \/ UNCHANGED cardVars
           /\ Plot!Next \/ UNCHANGED plotVars
           /\ Events!Next \/ UNCHANGED eventVars
           /\ Listing!Next \/ UNCHANGED listVars
           /\ PinnedServers!Next \/ UNCHANGED pinVars
<1>1. CASE UNCHANGED vars
  BY <1>1 DEF vars
<1>2. CASE Next
  BY <1>2 DEF Next, OnChat, OnHydration, OnCard, OnWindow, OnPlot, OnEvents, OnPins, OnLists,
     OnForm, OnAdmin
<1>3. QED
  BY <1>1, <1>2

LEMMA ChatKept == ASSUME ChatInv, Chat!Next \/ UNCHANGED chatVars PROVE ChatInv'
<1>1. UNCHANGED chatVars => ChatInv'
  BY ConversationRests DEF chatVars, conversation
<1>2. QED
  BY <1>1, ChatStep

LEMMA ChatInvariant == Spec => []ChatInv
<1>1. Init => ChatInv
  BY ChatInit DEF Init
<1>2. ChatInv /\ [Next]_vars => ChatInv'
  BY ChatKept, PartSteps
<1>3. QED
  BY <1>1, <1>2, PTL DEF Spec

\* Whatever is stopped, retried, closed, reopened or replaced while answers
\* arrive: the turn that goes on is the one the stop button aborts, and the only
\* one that writes into the draft shown.
THEOREM ChatAlwaysOneStream == Spec => []ChatOneStream
<1>1. ChatInv => ChatOneStream
  BY OneStream DEF ChatOneStream
<1>2. QED
  BY <1>1, ChatInvariant, PTL

\* What the reader has seen of an answer stays until the conversation is left.
THEOREM AnswerNeverLost == Spec => AnswerNotLost
<1>1. ChatInv /\ [Next]_vars => [page = "chat" => Chat!AnswerNotLost]_vars
  <2> SUFFICES ASSUME ChatInv, Next, page = "chat" PROVE Chat!AnswerNotLost
    OBVIOUS
  <2>1. CASE Chat!Next
    BY <2>1, ChatStep
  <2>2. Chat!Next
    BY DEF Next, OnHydration, OnCard, OnWindow, OnPlot, OnEvents, OnPins, OnLists, OnForm, OnAdmin,
       On
  <2>3. QED
    BY <2>1, <2>2
<1>2. QED
  BY <1>1, ChatInvariant, PTL DEF Spec, AnswerNotLost

\* A chart never waits twice in the queue, and no card that is drawn shows data
\* older than its interval and the time an answer counts as fresh.
THEOREM ChartsAlwaysFresh == Spec => []ChartsFresh
<1> DEFINE Inv == HydrationInv /\ CardInv
<1>1. Init => Inv
  BY HydrationInit, CardInit DEF Init
<1>2. Inv /\ [Next]_vars => Inv'
  <2> SUFFICES ASSUME Inv, [Next]_vars PROVE Inv'
    OBVIOUS
  <2>1. HydrationInv'
    BY HydrationStep, PartSteps
  <2>2. CardInv'
    BY CardStep, PartSteps
  <2>3. QED
    BY <2>1, <2>2
<1>3. Inv => ChartsFresh
  BY DrawnIsFresh DEF ChartsFresh, HydrationInv
<1>4. QED
  BY <1>1, <1>2, <1>3, PTL DEF Spec

\* Where CSS pixels are canvas pixels, the values of the series and a label of
\* the events are never open together; and a label that opens lists every event
\* chained to the one under the mouse, and no other.
THEOREM TooltipsAlwaysYield == Spec => TooltipsYield
<1>1. Init => EventsInv
  BY EventsInit DEF Init
<1>2. EventsInv /\ [Next]_vars => EventsInv'
  BY EventsStep, PartSteps
<1>3. EventsInv /\ [Next]_vars => [page = "events" => Events!OneTooltip /\ Events!LabelListsRun]_vars
  BY Tooltips
<1>4. QED
  BY <1>1, <1>2, <1>3, PTL DEF Spec, TooltipsYield

\* Through every answer, reload, change of theme and click: the legend, the plot
\* and the tooltip tell the same of the same series.
THEOREM ChartAlwaysTellsData == Spec => []ChartTellsData
<1>1. Init => PlotInv
  BY PlotInit DEF Init
<1>2. PlotInv /\ [Next]_vars => PlotInv'
  BY PlotStep, PartSteps
<1>3. PlotInv => ChartTellsData
  BY LegendTold, TooltipTold DEF ChartTellsData
<1>4. QED
  BY <1>1, <1>2, <1>3, PTL DEF Spec
=============================================================================
