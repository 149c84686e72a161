-------------------------- MODULE AgentLoop_proofs --------------------------
(***************************************************************************)
(* Proofs about AgentLoop.  An answer has one end event; Flow names the     *)
(* place where it is: not sent yet, on its way through the four stages,     *)
(* read, or of no interest because the client has left.  Shown says that    *)
(* something to read goes before a "done" at each of these places.          *)
(***************************************************************************)
EXTENDS AgentLoop, SequenceTheorems, TLAPS

Shows == {"delta", "reasoning"}

InRound == {"ask", "wait", "listen", "decide", "recover", "tools"}

Asked == {"wait", "listen", "decide", "recover", "tools"}

-----------------------------------------------------------------------------
(* What a channel holds *)

Pure(s) == \A i \in 1..Len(s) : s[i] \notin Ends

EndLast(s) == \A i \in 1..Len(s) : s[i] \in Ends => i = Len(s)

Ended(s) == s # <<>> /\ s[Len(s)] \in Ends

Visible(s) == \E i \in 1..Len(s) : s[i] \in Shows

HasDone(s) == \E i \in 1..Len(s) : s[i] = "done"

-----------------------------------------------------------------------------
(* The inductive invariant *)

RoundsInv ==
    /\ at \in InRound => round < MaxRounds
    /\ at # "end" =>
         requests <= round + (IF recovered THEN 1 ELSE 0)
                           + (IF at \in Asked THEN 1 ELSE 0)
    /\ requests <= MaxRounds + 1

LateInv ==
    /\ ~MustStop \/ at \in {"validate", "ask"} => late = 0
    /\ at \in {"wait", "listen", "decide"} => late <= 1
    /\ late <= 2

TasksInv ==
    /\ cancelled <=> client.at # "reading"
    /\ pump.at \in {"next", "gone"} <=> pump.hold = NoEvent
    /\ pump.at = "gone" => inner = <<>>
    /\ client.at = "finished" => client.end \in Ends

Open == pump.at # "gone" /\ client.at = "reading" /\ client.end = NoEvent

Talking ==
    /\ Open
    /\ at # "end"
    /\ Pure(out) /\ Pure(inner) /\ pump.hold \notin Ends /\ Pure(outer)

InOut ==
    /\ Open
    /\ at = "end" /\ Ended(out) /\ EndLast(out)
    /\ Pure(inner) /\ pump.hold \notin Ends /\ Pure(outer)

InInner ==
    /\ Open
    /\ AgentGone
    /\ Ended(inner) /\ EndLast(inner)
    /\ pump.hold \notin Ends /\ Pure(outer)

Held ==
    /\ Open
    /\ AgentGone /\ inner = <<>>
    /\ pump.hold \in Ends
    /\ Pure(outer)

InOuter ==
    /\ AgentGone /\ pump.at = "gone"
    /\ client.at = "reading" /\ client.end = NoEvent
    /\ Ended(outer) /\ EndLast(outer)

Told ==
    /\ AgentGone /\ pump.at = "gone"
    /\ outer = <<>> /\ client.end \in Ends

Left == client.at = "left" /\ outer = <<>> /\ client.end = NoEvent

Flow == Talking \/ InOut \/ InInner \/ Held \/ InOuter \/ Told \/ Left

\* Something to read is past the agent's channel, or in it.
PastInner == pump.hold \in Shows \/ Visible(outer) \/ client.shown

Shown ==
    /\ client.at = "reading" =>
         /\ at \in {"listen", "decide"} /\ HasText
              => Visible(out) \/ Visible(inner) \/ PastInner
         /\ HasDone(out) \/ HasDone(inner) => Visible(inner) \/ PastInner
         /\ pump.hold = "done" => Visible(outer) \/ client.shown
    /\ HasDone(outer) => Visible(outer) \/ client.shown

IInv == TypeOK /\ RoundsInv /\ LateInv /\ TasksInv /\ Flow /\ Shown

-----------------------------------------------------------------------------
(* Lemmas about channels *)

\* What an empty channel holds.
LEMMA EmptyFacts ==
  /\ <<>> \in Seq(Event)
  /\ Pure(<<>>) /\ EndLast(<<>>) /\ ~Ended(<<>>)
  /\ ~Visible(<<>>) /\ ~HasDone(<<>>)
<1>1. <<>> \in Seq(Event) /\ Len(<<>>) = 0
  BY EmptySeq
<1> QED
  BY <1>1 DEF Pure, EndLast, Ended, Visible, HasDone

\* What a channel with one event holds.
LEMMA OneFacts ==
  ASSUME NEW e \in Event
  PROVE  /\ <<e>> \in Seq(Event) /\ <<e>> # <<>>
         /\ EndLast(<<e>>)
         /\ Pure(<<e>>) <=> e \notin Ends
         /\ Ended(<<e>>) <=> e \in Ends
         /\ Visible(<<e>>) <=> e \in Shows
         /\ HasDone(<<e>>) <=> e = "done"
<1>1. <<e>> \in Seq(Event) /\ Len(<<e>>) = 1 /\ <<e>>[1] = e /\ <<e>> # <<>>
  OBVIOUS
<1>2. 1..1 = {1}
  OBVIOUS
<1> QED
  BY <1>1, <1>2 DEF Pure, EndLast, Ended, Visible, HasDone

\* Sending an event adds it to what the channel holds.
LEMMA AppendFacts ==
  ASSUME NEW s \in Seq(Event), NEW e \in Event
  PROVE  /\ Append(s, e) \in Seq(Event) /\ Append(s, e) # <<>>
         /\ Pure(s) => EndLast(Append(s, e))
         /\ Pure(Append(s, e)) <=> Pure(s) /\ e \notin Ends
         /\ Ended(Append(s, e)) <=> e \in Ends
         /\ Visible(Append(s, e)) <=> Visible(s) \/ e \in Shows
         /\ HasDone(Append(s, e)) <=> HasDone(s) \/ e = "done"
<1> DEFINE t == Append(s, e)
<1>1. /\ t \in Seq(Event) /\ Len(s) \in Nat /\ Len(t) = Len(s) + 1
      /\ t[Len(s) + 1] = e
      /\ \A i \in 1..Len(s) : t[i] = s[i]
      /\ t # <<>>
  BY AppendProperties, LenProperties
<1>2. /\ \A i \in 1..Len(t) : i \in 1..Len(s) \/ i = Len(s) + 1
      /\ \A i \in 1..Len(s) : i \in 1..Len(t) /\ i # Len(t)
      /\ Len(s) + 1 \in 1..Len(t)
  BY <1>1
<1> HIDE DEF t
<1>3. Pure(s) => EndLast(t)
  BY <1>1, <1>2 DEF Pure, EndLast
<1>4. Pure(t) <=> Pure(s) /\ e \notin Ends
  BY <1>1, <1>2 DEF Pure
<1>5. Ended(t) <=> e \in Ends
  BY <1>1 DEF Ended
<1>6. Visible(t) <=> Visible(s) \/ e \in Shows
  BY <1>1, <1>2 DEF Visible
<1>7. HasDone(t) <=> HasDone(s) \/ e = "done"
  BY <1>1, <1>2 DEF HasDone
<1> QED
  BY <1>1, <1>3, <1>4, <1>5, <1>6, <1>7 DEF t

\* Receiving takes the first event and leaves the rest.
LEMMA TailFacts ==
  ASSUME NEW s \in Seq(Event), s # <<>>
  PROVE  /\ Head(s) \in Event /\ Tail(s) \in Seq(Event)
         /\ Pure(s) <=> Head(s) \notin Ends /\ Pure(Tail(s))
         /\ EndLast(s) => /\ EndLast(Tail(s))
                          /\ Head(s) \in Ends => Tail(s) = <<>>
         /\ Ended(s) => IF Tail(s) = <<>> THEN Head(s) \in Ends
                        ELSE Ended(Tail(s))
         /\ Visible(s) <=> Head(s) \in Shows \/ Visible(Tail(s))
         /\ HasDone(s) <=> Head(s) = "done" \/ HasDone(Tail(s))
<1> DEFINE t == Tail(s)
           h == Head(s)
<1>1. /\ t \in Seq(Event) /\ h \in Event /\ h = s[1]
      /\ Len(s) \in Nat /\ Len(s) >= 1 /\ Len(t) = Len(s) - 1
      /\ \A i \in 1..Len(t) : t[i] = s[i + 1]
      /\ t = <<>> <=> Len(t) = 0
  <2>1. Len(s) \in Nat /\ Len(s) # 0
    BY LenProperties, EmptySeq
  <2>2. /\ t \in Seq(Event) /\ h \in Event /\ Len(t) = Len(s) - 1
        /\ \A i \in 1..Len(t) : t[i] = s[i + 1]
    BY HeadTailProperties
  <2>3. h = s[1]
    OBVIOUS
  <2>4. t = <<>> <=> Len(t) = 0
    BY <2>2, EmptySeq
  <2> HIDE DEF t, h
  <2> QED
    BY <2>1, <2>2, <2>3, <2>4
<1>2. /\ \A i \in 1..Len(t) : i + 1 \in 1..Len(s)
      /\ \A i \in 1..Len(s) : i = 1 \/ (i - 1 \in 1..Len(t) /\ s[i] = t[i - 1])
      /\ 1 \in 1..Len(s)
  BY <1>1
<1> HIDE DEF t, h
<1>3. Pure(s) <=> h \notin Ends /\ Pure(t)
  BY <1>1, <1>2 DEF Pure
<1>4. EndLast(s) => EndLast(t) /\ (h \in Ends => t = <<>>)
  BY <1>1, <1>2 DEF EndLast
<1>5. Ended(s) => IF t = <<>> THEN h \in Ends ELSE Ended(t)
  <2>1. CASE t = <<>>
    <3>1. Len(s) = 1
      BY <1>1, <2>1
    <3> QED
      BY <1>1, <2>1, <3>1 DEF Ended
  <2>2. CASE t # <<>>
    <3>1. Len(t) \in 1..Len(t) /\ t[Len(t)] = s[Len(s)]
      BY <1>1, <2>2
    <3> QED
      BY <2>2, <3>1 DEF Ended
  <2> QED
    BY <2>1, <2>2
<1>6. Visible(s) <=> h \in Shows \/ Visible(t)
  BY <1>1, <1>2 DEF Visible
<1>7. HasDone(s) <=> h = "done" \/ HasDone(t)
  BY <1>1, <1>2 DEF HasDone
<1> QED
  BY <1>1, <1>3, <1>4, <1>5, <1>6, <1>7 DEF t, h

\* The events of tool calls do not end an answer.
LEMMA ToolEventsFacts ==
  ASSUME NEW n \in 1..MaxCalls
  PROVE  /\ ToolEvents(n) \in Seq(Event)
         /\ Pure(ToolEvents(n))
         /\ ~HasDone(ToolEvents(n))
<1> DEFINE m == 2 * n
           t == ToolEvents(n)
<1>1. n \in Nat /\ m \in Nat
  BY MaxCallsAssumption
<1>2. \A k \in 1..m :
        (IF k % 2 = 1 THEN "tool_start" ELSE "tool_done") \in Event \ Ends
  BY DEF Event, Ends
<1>3. t \in [1..m -> Event]
  BY <1>2 DEF ToolEvents
<1>4. t \in Seq(Event) /\ Len(t) = m
  BY <1>1, <1>3, SeqDef
<1>5. \A i \in 1..m : t[i] \notin Ends /\ t[i] # "done"
  BY <1>2 DEF ToolEvents, Ends
<1> QED
  BY <1>4, <1>5 DEF Pure, HasDone

-----------------------------------------------------------------------------
(* What the agent's steps have in common *)

\* An error event ends the answer.
LEMMA FailFacts ==
  ASSUME Fail
  PROVE  /\ at' = "end"
         /\ out' \in Seq(Event) /\ Ended(out') /\ EndLast(out')
         /\ ~HasDone(out')
         /\ UNCHANGED <<round, recovered, heard, requests, late>>
<1>1. "error" \in Event /\ "error" \in Ends
  BY DEF Event, Ends
<1>2. at' = "end" /\ out' = <<"error">>
      /\ UNCHANGED <<round, recovered, heard, requests, late>>
  BY DEF Fail
<1> QED
  BY <1>1, <1>2, OneFacts

\* What the agent sends as it takes a chunk.
LEMMA SaysFacts ==
  ASSUME NEW c \in Chunk
  PROVE  /\ Says(c) \in Seq(Event) /\ Pure(Says(c)) /\ ~HasDone(Says(c))
         /\ c = "text" => Visible(Says(c))
         /\ c = "thought" /\ Thinking => Visible(Says(c))
<1>1. /\ {"delta", "blank", "reasoning"} \subseteq Event
      /\ {"delta", "blank", "reasoning"} \cap Ends = {}
      /\ {"delta", "reasoning"} \subseteq Shows
  BY DEF Event, Ends, Shows
<1>2. CASE c = "text"
  <2>1. Says(c) = <<"delta">>
    BY <1>2 DEF Says
  <2> QED
    BY <1>1, <1>2, <2>1, OneFacts
<1>3. CASE c = "blank"
  <2>1. Says(c) = <<"blank">>
    BY <1>3 DEF Says
  <2> QED
    BY <1>1, <1>3, <2>1, OneFacts
<1>4. CASE c = "thought" /\ Thinking
  <2>1. Says(c) = <<"reasoning">>
    BY <1>4 DEF Says
  <2> QED
    BY <1>1, <1>4, <2>1, OneFacts
<1>5. CASE c \notin {"text", "blank"} /\ ~(c = "thought" /\ Thinking)
  <2>1. Says(c) = <<>>
    BY <1>5 DEF Says
  <2> QED
    BY <1>5, <2>1, EmptyFacts
<1> QED
  BY <1>2, <1>3, <1>4, <1>5

\* Of the events the agent sends in one step only the last may end the
\* answer, and it is "done" only when there was something to read.
LEMMA AgentStep ==
  ASSUME TypeOK, AgentSteps
  PROVE  /\ out = <<>> /\ at # "end"
         /\ UNCHANGED Others
         /\ out' \in Seq(Event)
         /\ IF at' = "end" THEN Ended(out') /\ EndLast(out') ELSE Pure(out')
         /\ HasDone(out') => at = "decide" /\ HasText
         /\ at' \in {"listen", "decide"} /\ HasText'
              => Visible(out') \/ (at \in {"listen", "decide"} /\ HasText)
<1>u. /\ "usage" \in Event /\ "usage" \notin Ends /\ "usage" # "done"
      /\ "done" \in Event /\ "done" \in Ends
  BY DEF Event, Ends
<1>usage. /\ <<"usage">> \in Seq(Event) /\ Pure(<<"usage">>)
          /\ ~HasDone(<<"usage">>)
  BY <1>u, OneFacts
<1>done. <<"done">> \in Seq(Event) /\ Ended(<<"done">>) /\ EndLast(<<"done">>)
  BY <1>u, OneFacts
<1>1. CASE Refuse
  BY <1>1, FailFacts DEF Refuse, Runs
<1>2. CASE Begin
  BY <1>2, EmptyFacts DEF Begin, Runs
<1>3. CASE Top
  <2>1. CASE round = MaxRounds \/ MustStop
    BY <1>3, <2>1, FailFacts DEF Top, Runs
  <2>2. CASE ~(round = MaxRounds \/ MustStop)
    BY <1>3, <2>2, EmptyFacts DEF Top, Runs
  <2> QED
    BY <2>1, <2>2
<1>4. CASE Request
  BY <1>4, EmptyFacts DEF Request, Runs
<1>5. CASE Answered
  BY <1>5, EmptyFacts DEF Answered, Runs, HasText
<1>6. CASE NotAnswered
  BY <1>6, FailFacts DEF NotAnswered, Runs
<1>7. CASE \E c \in Chunk : Listen(c)
  <2>1. PICK c \in Chunk : Listen(c)
    BY <1>7
  <2>2. CASE MustStop
    BY <2>1, <2>2, FailFacts DEF Listen, Runs
  <2>3. CASE ~MustStop
    <3>1. /\ at = "listen" /\ at' = at /\ out = <<>> /\ out' = Says(c)
          /\ heard' = heard \cup ({c} \cap Content)
          /\ UNCHANGED Others
      BY <2>1, <2>3 DEF Listen, Runs
    <3>2. HasText' => HasText \/ Visible(out')
      BY <3>1, SaysFacts DEF HasText
    <3> QED
      BY <3>1, <3>2, SaysFacts
  <2> QED
    BY <2>2, <2>3
<1>8. CASE StreamBreaks
  BY <1>8, FailFacts DEF StreamBreaks, Runs
<1>9. CASE StreamEnds
  BY <1>9, <1>usage DEF StreamEnds, Runs, HasText
<1>10. CASE CallTools
  BY <1>10, EmptyFacts DEF CallTools, Runs
<1>11. CASE EmitDone
  BY <1>11, <1>done DEF EmitDone, Runs
<1>12. CASE Recover
  BY <1>12, EmptyFacts DEF Recover, Runs
<1>13. CASE GiveUp
  BY <1>13, FailFacts DEF GiveUp, Runs
<1>14. CASE RecoveryFails
  BY <1>14, FailFacts DEF RecoveryFails, Runs
<1>15. CASE RecoveryCalls
  BY <1>15, <1>usage DEF RecoveryCalls, Runs
<1>16. CASE ToolsAnswer
  <2>1. PICK n \in 1..MaxCalls : out' = ToolEvents(n)
    BY <1>16 DEF ToolsAnswer
  <2> QED
    BY <1>16, <2>1, ToolEventsFacts DEF ToolsAnswer, Runs
<1>17. CASE ToolsRefused
  BY <1>17, FailFacts DEF ToolsRefused, Runs
<1> QED
  BY <1>1, <1>2, <1>3, <1>4, <1>5, <1>6, <1>7, <1>8, <1>9, <1>10, <1>11,
     <1>12, <1>13, <1>14, <1>15, <1>16, <1>17 DEF AgentSteps

-----------------------------------------------------------------------------
(* Every step preserves the invariant, part by part *)

\* The types of the agent's variables other than out.
LEMMA AgentTypes ==
  ASSUME TypeOK, RoundsInv, AgentSteps
  PROVE  /\ at' \in {"validate", "top", "ask", "wait", "listen", "decide",
                    "recover", "tools", "end"}
         /\ round' \in 0..MaxRounds /\ recovered' \in BOOLEAN
         /\ heard' \in SUBSET Content
         /\ requests' \in Nat /\ late' \in Nat
<1>1. CASE Refuse \/ Begin \/ Top \/ Request \/ Answered \/ NotAnswered
  BY <1>1 DEF TypeOK, Refuse, Begin, Top, Request, Ask, Answered, NotAnswered,
     Fail
<1>2. CASE (\E c \in Chunk : Listen(c)) \/ StreamBreaks \/ StreamEnds
  BY <1>2 DEF TypeOK, Listen, StreamBreaks, StreamEnds, Fail
<1>3. CASE CallTools \/ EmitDone \/ GiveUp
  BY <1>3 DEF TypeOK, CallTools, EmitDone, GiveUp, Fail
<1>6. CASE Recover
  <2>1. requests + 1 \in Nat /\ late + 1 \in Nat
    BY DEF TypeOK
  <2> QED
    BY <1>6, <2>1 DEF TypeOK, Recover, Ask
<1>4. CASE RecoveryFails \/ RecoveryCalls \/ ToolsRefused
  BY <1>4 DEF TypeOK, RecoveryFails, RecoveryCalls, ToolsRefused, Fail
<1>5. CASE ToolsAnswer
  <2>1. round \in 0..MaxRounds /\ round < MaxRounds
    BY <1>5 DEF TypeOK, RoundsInv, ToolsAnswer, Runs, InRound
  <2>2. round + 1 \in 0..MaxRounds
    BY <2>1, MaxRoundsAssumption
  <2> QED
    BY <1>5, <2>2 DEF TypeOK, ToolsAnswer
<1> QED
  BY <1>1, <1>2, <1>3, <1>4, <1>5, <1>6 DEF AgentSteps

LEMMA TypeStep ==
  ASSUME TypeOK, RoundsInv, TasksInv, [Next]_vars
  PROVE  TypeOK'
<1> DEFINE Pump == [at : {"next", "save", "send", "gone"},
                    hold : Event \cup {NoEvent}]
<1> USE DEF TypeOK
<1>g. [at |-> "gone", hold |-> NoEvent] \in Pump
  OBVIOUS
<1>1. CASE AgentSteps
  <2>1. out' \in Seq(Event) /\ UNCHANGED Others
    BY <1>1, AgentStep
  <2> HIDE DEF TypeOK
  <2>2. /\ at' \in {"validate", "top", "ask", "wait", "listen", "decide",
                   "recover", "tools", "end"}
        /\ round' \in 0..MaxRounds /\ recovered' \in BOOLEAN
        /\ heard' \in SUBSET Content
        /\ requests' \in Nat /\ late' \in Nat
    BY <1>1, AgentTypes
  <2> QED
    BY <2>1, <2>2 DEF TypeOK, Others
<1>2. CASE Send
  <2>1. Head(out) \in Event /\ Tail(out) \in Seq(Event)
    BY <1>2, TailFacts DEF Send
  <2>2. Append(inner, Head(out)) \in Seq(Event)
    BY <2>1, AppendFacts
  <2>3. inner' \in Seq(Event) /\ out' \in Seq(Event)
    BY <1>2, <2>1, <2>2 DEF Send
  <2> QED
    BY <1>2, <2>3 DEF Send
<1>3. CASE PumpNext
  <2>1. CASE inner = <<>> \/ cancelled
    <3>1. pump' \in Pump /\ inner' \in Seq(Event)
      BY <1>3, <1>g, <2>1, EmptyFacts DEF PumpNext, PumpEnds
    <3> QED
      BY <1>3, <3>1 DEF PumpNext, agentVars
  <2>2. CASE ~(inner = <<>> \/ cancelled)
    <3>1. Head(inner) \in Event /\ Tail(inner) \in Seq(Event)
      BY <2>2, TailFacts
    <3>2. /\ pump' = [at |-> IF Head(inner) = "done" THEN "save" ELSE "send",
                     hold |-> Head(inner)]
          /\ inner' = Tail(inner)
      BY <1>3, <2>2 DEF PumpNext, Take
    <3>3. pump' \in Pump
      BY <3>1, <3>2
    <3> QED
      BY <1>3, <3>1, <3>2, <3>3 DEF PumpNext, agentVars
  <2> QED
    BY <2>1, <2>2
<1>4. CASE PumpSave
  BY <1>4 DEF PumpSave, agentVars
<1>5. CASE PumpSend
  <2>1. pump.hold \in Event
    BY <1>5 DEF PumpSend, TasksInv
  <2>2. outer' \in Seq(Event)
    BY <1>5, <2>1, AppendFacts DEF PumpSend
  <2>3. [at |-> "next", hold |-> NoEvent] \in Pump
    OBVIOUS
  <2>4. inner' \in Seq(Event) /\ pump' \in Pump
    BY <1>5, <1>g, <2>3, EmptyFacts DEF PumpSend, PumpEnds
  <2> QED
    BY <1>5, <2>2, <2>4 DEF PumpSend, agentVars
<1>6. CASE PumpRefused
  BY <1>6, EmptyFacts DEF PumpRefused, PumpEnds, agentVars
<1>7. CASE ClientReads
  <2>1. outer' \in Seq(Event)
    BY <1>7, TailFacts DEF ClientReads
  <2>2. client' \in [at : {"reading", "finished", "left"},
                    end : Ends \cup {NoEvent}, shown : BOOLEAN]
    BY <1>7 DEF ClientReads
  <2> QED
    BY <1>7, <2>1, <2>2 DEF ClientReads, agentVars
<1>8. CASE ClientFinished
  BY <1>8 DEF ClientFinished, agentVars
<1>9. CASE ClientLeaves
  BY <1>9, EmptyFacts DEF ClientLeaves, agentVars
<1>10. CASE Expire
  BY <1>10 DEF Expire, agentVars
<1>11. CASE UNCHANGED vars
  BY <1>11 DEF vars
<1> QED
  BY <1>1, <1>2, <1>3, <1>4, <1>5, <1>6, <1>7, <1>8, <1>9, <1>10, <1>11
     DEF Next, PumpSteps

\* The agent's variables change in the agent's steps only, but for out.
LEMMA OthersStep ==
  ASSUME TypeOK, Next, ~AgentSteps
  PROVE  UNCHANGED <<at, round, recovered, heard, requests, late>>
  BY DEF Next, PumpSteps, Send, PumpNext, PumpSave, PumpSend, PumpRefused,
     ClientReads, ClientFinished, ClientLeaves, Expire, agentVars

LEMMA RoundsStep ==
  ASSUME TypeOK, RoundsInv, [Next]_vars
  PROVE  RoundsInv'
<1> USE DEF RoundsInv
<1>t. /\ round \in Nat /\ round <= MaxRounds /\ requests \in Nat
      /\ MaxRounds \in Nat /\ recovered \in BOOLEAN
  BY MaxRoundsAssumption DEF TypeOK
<1>1. CASE Refuse \/ Begin \/ NotAnswered \/ Answered
  BY <1>1, <1>t DEF Refuse, Begin, NotAnswered, Answered, Fail, Runs, InRound,
     Asked
<1>2. CASE Top
  BY <1>2, <1>t DEF Top, Fail, Runs, InRound, Asked
<1>3. CASE Request
  BY <1>3, <1>t DEF Request, Ask, Runs, InRound, Asked
<1>4. CASE (\E c \in Chunk : Listen(c)) \/ StreamBreaks \/ StreamEnds
  BY <1>4, <1>t DEF Listen, StreamBreaks, StreamEnds, Fail, Runs, InRound, Asked
<1>5. CASE CallTools \/ EmitDone \/ GiveUp
  BY <1>5, <1>t DEF CallTools, EmitDone, GiveUp, Fail, Runs, InRound, Asked
<1>6. CASE Recover
  BY <1>6, <1>t DEF Recover, MayRecover, Ask, Runs, InRound, Asked
<1>7. CASE RecoveryFails \/ RecoveryCalls \/ ToolsRefused
  BY <1>7, <1>t DEF RecoveryFails, RecoveryCalls, ToolsRefused, Fail, Runs,
     InRound, Asked
<1>8. CASE ToolsAnswer
  BY <1>8, <1>t DEF ToolsAnswer, Runs, InRound, Asked
<1>9. CASE UNCHANGED <<at, round, recovered, heard, requests, late>>
  BY <1>9
<1> QED
  BY <1>1, <1>2, <1>3, <1>4, <1>5, <1>6, <1>7, <1>8, <1>9, OthersStep
     DEF AgentSteps, vars

LEMMA LateStep ==
  ASSUME TypeOK, LateInv, [Next]_vars
  PROVE  LateInv'
<1> USE DEF LateInv
<1>t. late \in Nat /\ cancelled \in BOOLEAN /\ expired \in BOOLEAN
  BY DEF TypeOK
<1>a. CASE AgentSteps
  <2>m. MustStop' <=> MustStop
    BY <1>a, AgentStep DEF Others, MustStop
  <2>1. CASE Refuse \/ Begin \/ NotAnswered \/ Answered
    BY <2>1, <2>m, <1>t DEF Refuse, Begin, NotAnswered, Answered, Fail, Runs
  <2>2. CASE Top
    BY <2>2, <2>m, <1>t DEF Top, Fail, Runs
  <2>3. CASE Request
    BY <2>3, <2>m, <1>t DEF Request, Ask, Runs
  <2>4. CASE (\E c \in Chunk : Listen(c)) \/ StreamBreaks \/ StreamEnds
    BY <2>4, <2>m, <1>t DEF Listen, StreamBreaks, StreamEnds, Fail, Runs
  <2>5. CASE CallTools \/ EmitDone \/ GiveUp
    BY <2>5, <2>m, <1>t DEF CallTools, EmitDone, GiveUp, Fail, Runs
  <2>6. CASE Recover
    BY <2>6, <2>m, <1>t DEF Recover, Ask, Runs
  <2>7. CASE RecoveryFails \/ RecoveryCalls \/ ToolsRefused \/ ToolsAnswer
    BY <2>7, <2>m, <1>t DEF RecoveryFails, RecoveryCalls, ToolsRefused,
       ToolsAnswer, Fail, Runs
  <2> QED
    BY <1>a, <2>1, <2>2, <2>3, <2>4, <2>5, <2>6, <2>7 DEF AgentSteps
<1>b. CASE Next /\ ~AgentSteps
  <2>1. late' = late /\ at' = at
    BY <1>b, OthersStep
  <2>2. MustStop => MustStop'
    BY <1>b DEF Next, PumpSteps, Send, PumpNext, PumpSave, PumpSend,
       PumpRefused, ClientReads, ClientFinished, ClientLeaves, Expire, MustStop
  <2> QED
    BY <2>1, <2>2
<1>c. CASE UNCHANGED vars
  BY <1>c DEF vars, MustStop
<1> QED
  BY <1>a, <1>b, <1>c

LEMMA TasksStep ==
  ASSUME TypeOK, TasksInv, Flow, [Next]_vars
  PROVE  TasksInv'
<1> USE DEF TasksInv
<1>n. NoEvent \notin Event /\ NoEvent \notin Ends
  BY DEF NoEvent, Event, Ends
<1>t. /\ inner \in Seq(Event) /\ cancelled \in BOOLEAN
      /\ pump \in [at : {"next", "save", "send", "gone"},
                  hold : Event \cup {NoEvent}]
      /\ client \in [at : {"reading", "finished", "left"},
                    end : Ends \cup {NoEvent}, shown : BOOLEAN]
  BY DEF TypeOK
<1>1. CASE AgentSteps
  BY <1>1, AgentStep DEF Others
<1>2. CASE Send
  BY <1>2 DEF Send
<1>3. CASE PumpNext
  <2>1. CASE inner = <<>> \/ cancelled
    BY <1>3, <2>1 DEF PumpNext, PumpEnds
  <2>2. CASE ~(inner = <<>> \/ cancelled)
    <3>1. Head(inner) # NoEvent
      BY <1>n, <1>t, <2>2, TailFacts
    <3> QED
      BY <1>3, <2>2, <3>1 DEF PumpNext, Take
  <2> QED
    BY <2>1, <2>2
<1>4. CASE PumpSave
  BY <1>4, <1>t DEF PumpSave
<1>5. CASE PumpSend
  BY <1>5, <1>t DEF PumpSend, PumpEnds
<1>6. CASE PumpRefused
  BY <1>6 DEF PumpRefused, PumpEnds
<1>7. CASE ClientReads
  BY <1>7, <1>t DEF ClientReads
<1>8. CASE ClientFinished
  <2>1. ~Talking /\ ~InOut /\ ~InInner /\ ~Held /\ ~Left
    BY <1>8 DEF ClientFinished, Talking, InOut, InInner, Held, Left, Open
  <2>2. ~InOuter
    BY <1>8 DEF ClientFinished, InOuter, Ended
  <2>3. client.end \in Ends
    BY <2>1, <2>2 DEF Flow, Told
  <2> QED
    BY <1>8, <1>t, <2>3 DEF ClientFinished
<1>9. CASE ClientLeaves
  BY <1>9, <1>t DEF ClientLeaves
<1>10. CASE Expire
  BY <1>10 DEF Expire
<1>11. CASE UNCHANGED vars
  BY <1>11 DEF vars
<1> QED
  BY <1>1, <1>2, <1>3, <1>4, <1>5, <1>6, <1>7, <1>8, <1>9, <1>10, <1>11
     DEF Next, PumpSteps

LEMMA FlowStep ==
  ASSUME TypeOK, TasksInv, Flow, [Next]_vars
  PROVE  Flow'
<1>t. /\ out \in Seq(Event) /\ inner \in Seq(Event) /\ outer \in Seq(Event)
      /\ pump \in [at : {"next", "save", "send", "gone"},
                  hold : Event \cup {NoEvent}]
      /\ client \in [at : {"reading", "finished", "left"},
                    end : Ends \cup {NoEvent}, shown : BOOLEAN]
  BY DEF TypeOK
<1>n. NoEvent \notin Ends
  BY DEF NoEvent, Ends
<1> USE DEF Open
<1>1. CASE AgentSteps
  <2>1. /\ out = <<>> /\ at # "end" /\ UNCHANGED Others
        /\ IF at' = "end" THEN Ended(out') /\ EndLast(out') ELSE Pure(out')
    BY <1>1, AgentStep
  <2>2. CASE Talking
    BY <2>1, <2>2 DEF Talking, InOut, Flow, Others
  <2>3. CASE Left
    BY <2>1, <2>3 DEF Left, Flow, Others
  <2> QED
    BY <2>1, <2>2, <2>3 DEF Flow, InOut, InInner, Held, InOuter, Told, AgentGone
<1>2. CASE Send
  <2>1. /\ out # <<>> /\ out' = Tail(out)
        /\ pump.at # "gone" => inner' = Append(inner, Head(out))
        /\ UNCHANGED <<at, pump, outer, client>>
    BY <1>2 DEF Send
  <2>2. CASE Talking
    <3>1. Pure(out') /\ Pure(inner')
      BY <1>t, <2>1, <2>2, TailFacts, AppendFacts DEF Talking
    <3> QED
      BY <2>1, <2>2, <3>1 DEF Talking, Flow
  <2>3. CASE InOut /\ Tail(out) = <<>>
    <3>0. Head(out) \in Event /\ Head(out) \in Ends
      BY <1>t, <2>1, <2>3, TailFacts DEF InOut
    <3>1. Pure(inner) /\ inner' = Append(inner, Head(out))
      BY <2>1, <2>3 DEF InOut
    <3>2. /\ Ended(Append(inner, Head(out)))
          /\ EndLast(Append(inner, Head(out)))
      BY <1>t, <3>0, <3>1, AppendFacts
    <3>3. Ended(inner') /\ EndLast(inner')
      BY <3>1, <3>2
    <3> QED
      BY <2>1, <2>3, <3>3 DEF InOut, InInner, AgentGone, Flow
  <2>4. CASE InOut /\ Tail(out) # <<>>
    <3>1. Ended(out') /\ EndLast(out') /\ Pure(inner')
      BY <1>t, <2>1, <2>4, TailFacts, AppendFacts DEF InOut
    <3> QED
      BY <2>1, <2>4, <3>1 DEF InOut, Flow
  <2>5. CASE Left
    BY <2>1, <2>5 DEF Left, Flow
  <2> QED
    BY <2>1, <2>2, <2>3, <2>4, <2>5 DEF Flow, InInner, Held, InOuter, Told,
       AgentGone
<1>3. CASE PumpNext
  <2>1. /\ pump.at = "next" /\ pump.hold = NoEvent
        /\ UNCHANGED <<at, out, outer, client>>
    BY <1>3 DEF PumpNext, TasksInv, agentVars
  <2>2. CASE inner = <<>> \/ cancelled
    <3>1. inner = <<>> => AgentGone
      BY <1>3 DEF PumpNext
    <3>2. cancelled => client.at # "reading"
      BY DEF TasksInv
    <3>3. Left
      BY <1>n, <2>1, <2>2, <3>1, <3>2 DEF Flow, Talking, InOut, InInner, Held,
         InOuter, Told, AgentGone, Ended
    <3> QED
      BY <2>1, <3>3 DEF Left, Flow
  <2>3. CASE ~(inner = <<>> \/ cancelled)
    <3>1. /\ inner' = Tail(inner)
          /\ pump'.at # "gone" /\ pump'.hold = Head(inner)
      BY <1>3, <2>3 DEF PumpNext, Take
    <3>2. CASE Talking \/ InOut
      <4>1. Head(inner) \notin Ends /\ Pure(inner')
        BY <1>t, <2>3, <3>1, <3>2, TailFacts DEF Talking, InOut
      <4> QED
        BY <2>1, <3>1, <3>2, <4>1 DEF Talking, InOut, Flow
    <3>3. CASE InInner /\ Tail(inner) = <<>>
      <4>1. Head(inner) \in Ends
        BY <1>t, <2>3, <3>3, TailFacts DEF InInner
      <4> QED
        BY <2>1, <3>1, <3>3, <4>1 DEF InInner, Held, AgentGone, Flow
    <3>4. CASE InInner /\ Tail(inner) # <<>>
      <4>1. Head(inner) \notin Ends /\ Ended(inner') /\ EndLast(inner')
        BY <1>t, <2>3, <3>1, <3>4, TailFacts DEF InInner
      <4> QED
        BY <2>1, <3>1, <3>4, <4>1 DEF InInner, AgentGone, Flow
    <3>5. CASE Left
      BY <2>1, <3>5 DEF Left, Flow
    <3> QED
      BY <1>n, <2>1, <3>2, <3>3, <3>4, <3>5 DEF Flow, Held, InOuter, Told
  <2> QED
    BY <2>2, <2>3
<1>4. CASE PumpSave
  <2>1. /\ pump.at # "gone" /\ pump'.at # "gone" /\ pump'.hold = pump.hold
        /\ UNCHANGED <<at, out, inner, outer, client>>
    BY <1>4, <1>t DEF PumpSave, agentVars
  <2> QED
    BY <2>1 DEF Flow, Talking, InOut, InInner, Held, InOuter, Told, Left,
       AgentGone
<1>5. CASE PumpSend
  <2>1. /\ pump.at = "send" /\ client.at = "reading"
        /\ outer' = Append(outer, pump.hold)
        /\ UNCHANGED <<at, out, client>>
    BY <1>5 DEF PumpSend, agentVars
  <2>2. pump.hold \in Event
    BY <1>t, <2>1 DEF TasksInv
  <2>3. CASE pump.hold \in Ends
    <3>1. Held
      BY <2>1, <2>3 DEF Flow, Talking, InOut, InInner, InOuter, Told, Left
    <3>2. Ended(outer') /\ EndLast(outer')
      BY <1>t, <2>1, <2>2, <2>3, <3>1, AppendFacts DEF Held
    <3>3. pump'.at = "gone"
      BY <1>5, <2>3 DEF PumpSend, PumpEnds
    <3> QED
      BY <2>1, <3>1, <3>2, <3>3 DEF Held, InOuter, AgentGone, Flow
  <2>4. CASE pump.hold \notin Ends
    <3>1. Talking \/ InOut \/ InInner
      BY <2>1, <2>4 DEF Flow, Held, InOuter, Told, Left
    <3>2. Pure(outer')
      BY <1>t, <2>1, <2>2, <2>4, <3>1, AppendFacts DEF Talking, InOut, InInner
    <3>3. pump'.at = "next" /\ pump'.hold = NoEvent /\ inner' = inner
      BY <1>5, <2>4 DEF PumpSend
    <3> QED
      BY <1>n, <2>1, <3>1, <3>2, <3>3 DEF Talking, InOut, InInner, AgentGone,
         Flow
  <2> QED
    BY <2>3, <2>4
<1>6. CASE PumpRefused
  <2>1. /\ pump.at = "send" /\ client.at # "reading"
        /\ UNCHANGED <<outer, client>>
    BY <1>6 DEF PumpRefused
  <2>2. Left
    BY <2>1 DEF Flow, Talking, InOut, InInner, Held, InOuter, Told
  <2> QED
    BY <2>1, <2>2 DEF Left, Flow
<1>7. CASE ClientReads
  <2>1. /\ client.at = "reading" /\ client'.at = "reading"
        /\ outer # <<>> /\ outer' = Tail(outer)
        /\ client'.end = IF Head(outer) \in Ends THEN Head(outer)
                         ELSE client.end
        /\ UNCHANGED <<at, out, inner, pump>>
    BY <1>7, <1>t DEF ClientReads, agentVars
  <2>2. CASE Talking \/ InOut \/ InInner \/ Held
    <3>1. Head(outer) \notin Ends /\ Pure(outer')
      BY <1>t, <2>1, <2>2, TailFacts DEF Talking, InOut, InInner, Held
    <3> QED
      BY <2>1, <2>2, <3>1 DEF Talking, InOut, InInner, Held, AgentGone, Flow
  <2>3. CASE InOuter /\ Tail(outer) = <<>>
    <3>1. Head(outer) \in Ends
      BY <1>t, <2>1, <2>3, TailFacts DEF InOuter
    <3> QED
      BY <2>1, <2>3, <3>1 DEF InOuter, Told, AgentGone, Flow
  <2>4. CASE InOuter /\ Tail(outer) # <<>>
    <3>1. Head(outer) \notin Ends /\ Ended(outer') /\ EndLast(outer')
      BY <1>t, <2>1, <2>4, TailFacts DEF InOuter
    <3> QED
      BY <2>1, <2>4, <3>1 DEF InOuter, AgentGone, Flow
  <2> QED
    BY <2>1, <2>2, <2>3, <2>4 DEF Flow, Told, Left
<1>8. CASE ClientFinished
  <2>1. /\ client.at = "reading" /\ outer = <<>> /\ pump.at = "gone"
        /\ client'.end = client.end /\ UNCHANGED <<at, out, outer, pump>>
    BY <1>8, <1>t DEF ClientFinished, agentVars
  <2>2. Told
    BY <2>1 DEF Flow, Talking, InOut, InInner, Held, InOuter, Left, Ended
  <2> QED
    BY <2>1, <2>2 DEF Told, AgentGone, Flow
<1>9. CASE ClientLeaves
  <2>1. /\ client'.at = "left" /\ client'.end = client.end
        /\ outer' = <<>> /\ UNCHANGED <<at, out, pump>>
    BY <1>9, <1>t DEF ClientLeaves, agentVars
  <2> QED
    BY <2>1 DEF Flow, Talking, InOut, InInner, Held, InOuter, Told, Left,
       AgentGone
<1>10. CASE Expire \/ UNCHANGED vars
  <2>1. UNCHANGED <<at, out, inner, pump, outer, client>>
    BY <1>10 DEF Expire, agentVars, vars
  <2> QED
    BY <2>1 DEF Flow, Talking, InOut, InInner, Held, InOuter, Told, Left,
       AgentGone
<1> QED
  BY <1>1, <1>2, <1>3, <1>4, <1>5, <1>6, <1>7, <1>8, <1>9, <1>10
     DEF Next, PumpSteps

LEMMA ShownStep ==
  ASSUME TypeOK, TasksInv, Flow, Shown, [Next]_vars
  PROVE  Shown'
<1>t. /\ out \in Seq(Event) /\ inner \in Seq(Event) /\ outer \in Seq(Event)
      /\ pump \in [at : {"next", "save", "send", "gone"},
                  hold : Event \cup {NoEvent}]
      /\ client \in [at : {"reading", "finished", "left"},
                    end : Ends \cup {NoEvent}, shown : BOOLEAN]
  BY DEF TypeOK
<1>n. /\ NoEvent # "done" /\ NoEvent \notin Shows
      /\ "done" \in Ends /\ "done" \notin Shows /\ Shows \cap Ends = {}
  BY DEF NoEvent, Ends, Shows
<1>1. CASE AgentSteps
  <2>1. /\ out = <<>> /\ UNCHANGED Others
        /\ HasDone(out') => at = "decide" /\ HasText
        /\ at' \in {"listen", "decide"} /\ HasText'
             => Visible(out') \/ (at \in {"listen", "decide"} /\ HasText)
    BY <1>1, AgentStep
  <2>2. /\ UNCHANGED <<inner, pump, outer, client>>
        /\ Visible(inner') <=> Visible(inner)
        /\ HasDone(inner') <=> HasDone(inner)
        /\ PastInner' <=> PastInner
    BY <2>1 DEF Others, PastInner
  <2>3. ~Visible(out) /\ ~HasDone(out)
    BY <2>1, EmptyFacts
  <2> QED
    BY <2>1, <2>2, <2>3 DEF Shown
<1>2. CASE Send
  <2>1. /\ out # <<>> /\ out' = Tail(out)
        /\ IF pump.at = "gone" THEN inner' = inner
           ELSE inner' = Append(inner, Head(out))
        /\ UNCHANGED <<at, heard, pump, outer, client>>
    BY <1>2 DEF Send
  <2>2. /\ Head(out) \in Event
        /\ Visible(out) => Head(out) \in Shows \/ Visible(out')
        /\ HasDone(out) <=> Head(out) = "done" \/ HasDone(out')
    BY <1>t, <2>1, TailFacts
  <2>3. (PastInner' <=> PastInner) /\ (HasText' <=> HasText)
    BY <2>1 DEF PastInner, HasText
  <2>4. CASE client.at = "reading" /\ pump.at # "gone"
    <3>0. /\ Visible(Append(inner, Head(out)))
               <=> Visible(inner) \/ Head(out) \in Shows
          /\ HasDone(Append(inner, Head(out)))
               <=> HasDone(inner) \/ Head(out) = "done"
      BY <1>t, <2>2, AppendFacts
    <3>1. /\ Visible(inner') <=> Visible(inner) \/ Head(out) \in Shows
          /\ HasDone(inner') => HasDone(inner) \/ Head(out) = "done"
      BY <2>1, <2>4, <3>0
    <3> QED
      BY <2>1, <2>2, <2>3, <3>1 DEF Shown
  <2>5. CASE client.at = "reading" /\ pump.at = "gone"
    BY <2>1, <2>5 DEF Flow, Talking, InOut, InInner, Held, InOuter, Told, Left,
       Open, AgentGone
  <2>6. CASE client.at # "reading"
    BY <2>1, <2>6 DEF Shown
  <2> QED
    BY <2>4, <2>5, <2>6
<1>3. CASE PumpNext
  <2>1. /\ pump.at = "next" /\ pump.hold = NoEvent
        /\ UNCHANGED <<at, heard, out, outer, client>>
    BY <1>3 DEF PumpNext, TasksInv, agentVars
  <2>2. CASE client.at # "reading"
    BY <2>1, <2>2 DEF Shown
  <2>3. CASE client.at = "reading" /\ inner = <<>>
    \* not before the end of the answer was received
    <3>1. AgentGone
      BY <1>3, <2>3 DEF PumpNext
    <3>2. FALSE
      BY <1>n, <2>1, <2>3, <3>1 DEF Flow, Talking, InOut, InInner, Held,
         InOuter, Told, Left, AgentGone, Ended, Ends, NoEvent
    <3> QED
      BY <3>2
  <2>4. CASE client.at = "reading" /\ inner # <<>>
    <3>1. inner' = Tail(inner) /\ pump'.hold = Head(inner)
      BY <1>3, <2>4 DEF PumpNext, Take, TasksInv
    <3>2. /\ Visible(inner) <=> Head(inner) \in Shows \/ Visible(inner')
          /\ HasDone(inner) <=> Head(inner) = "done" \/ HasDone(inner')
      BY <1>t, <2>4, <3>1, TailFacts
    <3>3. Head(inner) = "done" => ~Visible(inner)
      <4>1. SUFFICES ASSUME Head(inner) = "done" PROVE ~Visible(inner)
        OBVIOUS
      <4>2. InInner
        BY <1>t, <1>n, <2>1, <2>4, <4>1, TailFacts DEF Flow, Talking, InOut,
           Held, InOuter, Told, Left
      <4>3. Tail(inner) = <<>>
        BY <1>t, <1>n, <2>4, <4>1, <4>2, TailFacts DEF InInner
      <4> QED
        BY <1>n, <3>1, <3>2, <4>1, <4>3, EmptyFacts
    <3>4. Visible(inner) \/ PastInner <=> Visible(inner') \/ PastInner'
      BY <1>n, <2>1, <3>1, <3>2 DEF PastInner
    <3>5. HasText' <=> HasText
      BY <2>1 DEF HasText
    <3>6. Head(inner) = "done" => Visible(outer) \/ client.shown
      BY <1>n, <2>1, <2>4, <3>2, <3>3 DEF Shown, PastInner
    <3> QED
      BY <2>1, <3>1, <3>2, <3>4, <3>5, <3>6 DEF Shown
  <2> QED
    BY <2>2, <2>3, <2>4
<1>4. CASE PumpSave
  <2>1. /\ pump'.hold = pump.hold
        /\ UNCHANGED <<at, heard, out, inner, outer, client>>
    BY <1>4, <1>t DEF PumpSave, agentVars
  <2> QED
    BY <2>1 DEF Shown, PastInner, HasText
<1>5. CASE PumpSend
  <2>1. /\ pump.at = "send" /\ client.at = "reading"
        /\ outer' = Append(outer, pump.hold) /\ pump'.hold = NoEvent
        /\ UNCHANGED <<at, heard, out, client>>
    BY <1>5 DEF PumpSend, PumpEnds, agentVars
  <2>2. pump.hold \in Event
    BY <1>t, <2>1 DEF TasksInv
  <2>3. /\ Visible(outer') <=> Visible(outer) \/ pump.hold \in Shows
        /\ HasDone(outer') <=> HasDone(outer) \/ pump.hold = "done"
    BY <1>t, <2>1, <2>2, AppendFacts
  <2>4. (PastInner' <=> PastInner) /\ (HasText' <=> HasText)
    BY <1>n, <2>1, <2>3 DEF PastInner, HasText
  <2>5. CASE pump.hold \in Ends
    <3>1. Held
      BY <2>1, <2>5 DEF Flow, Talking, InOut, InInner, InOuter, Told, Left
    <3>2. inner = <<>> /\ inner' = <<>>
      BY <1>5, <2>5, <3>1 DEF Held, PumpSend, PumpEnds
    <3> QED
      BY <1>n, <2>1, <2>3, <2>4, <3>2 DEF Shown
  <2>6. CASE pump.hold \notin Ends
    <3>1. inner' = inner
      BY <1>5, <2>6 DEF PumpSend
    <3> QED
      BY <1>n, <2>1, <2>3, <2>4, <3>1 DEF Shown
  <2> QED
    BY <2>5, <2>6
<1>6. CASE PumpRefused
  BY <1>6 DEF PumpRefused, Shown
<1>7. CASE ClientReads
  <2>1. /\ outer # <<>> /\ outer' = Tail(outer)
        /\ client'.at = client.at
        /\ client'.shown = (client.shown \/ Head(outer) \in Shows)
        /\ UNCHANGED <<at, heard, out, inner, pump>>
    BY <1>7, <1>t DEF ClientReads, agentVars, Shows
  <2>2. /\ Visible(outer) <=> Head(outer) \in Shows \/ Visible(outer')
        /\ HasDone(outer') => HasDone(outer)
    BY <1>t, <2>1, TailFacts
  <2>3. /\ Visible(outer') \/ client'.shown <=> Visible(outer) \/ client.shown
        /\ PastInner' <=> PastInner
        /\ HasText' <=> HasText
    BY <2>1, <2>2 DEF PastInner, HasText
  <2> QED
    BY <2>1, <2>2, <2>3 DEF Shown
<1>8. CASE ClientFinished \/ ClientLeaves
  <2>1. /\ client'.at # "reading" /\ client'.shown = client.shown
        /\ outer' = outer \/ outer' = <<>>
    BY <1>8, <1>t DEF ClientFinished, ClientLeaves
  <2> QED
    BY <2>1, EmptyFacts DEF Shown
<1>9. CASE Expire \/ UNCHANGED vars
  <2>1. UNCHANGED <<at, heard, out, inner, pump, outer, client>>
    BY <1>9 DEF Expire, agentVars, vars
  <2> QED
    BY <2>1 DEF Shown, PastInner, HasText
<1> QED
  BY <1>1, <1>2, <1>3, <1>4, <1>5, <1>6, <1>7, <1>8, <1>9 DEF Next, PumpSteps

-----------------------------------------------------------------------------
(* Theorems *)

\* Every reachable state satisfies the inductive invariant.
LEMMA Invariance == Spec => []IInv
<1>1. Init => IInv
  <2> SUFFICES ASSUME Init PROVE IInv
    OBVIOUS
  <2>t. TypeOK
    <3>1. 0 \in 0..MaxRounds
      BY MaxRoundsAssumption
    <3>2. [at |-> "next", hold |-> NoEvent]
            \in [at : {"next", "save", "send", "gone"},
                 hold : Event \cup {NoEvent}]
      OBVIOUS
    <3>3. [at |-> "reading", end |-> NoEvent, shown |-> FALSE]
            \in [at : {"reading", "finished", "left"},
                 end : Ends \cup {NoEvent}, shown : BOOLEAN]
      OBVIOUS
    <3> QED
      BY <3>1, <3>2, <3>3, EmptyFacts DEF Init, TypeOK
  <2>1. RoundsInv
    BY MaxRoundsAssumption DEF Init, RoundsInv, InRound, Asked
  <2>2. LateInv
    BY DEF Init, LateInv
  <2>3. TasksInv
    BY DEF Init, TasksInv
  <2>4. Flow
    BY EmptyFacts DEF Init, Flow, Talking, Open, NoEvent, Ends
  <2>5. Shown
    BY EmptyFacts DEF Init, Shown, NoEvent
  <2> QED
    BY <2>t, <2>1, <2>2, <2>3, <2>4, <2>5 DEF IInv
<1>2. IInv /\ [Next]_vars => IInv'
  BY TypeStep, RoundsStep, LateStep, TasksStep, FlowStep, ShownStep DEF IInv
<1> QED
  BY <1>1, <1>2, PTL DEF Spec

\* The variables have their types: the loop counter of run_unified_agent
\* stays in its range.
THEOREM TypeCorrect == Spec => []TypeOK
<1>1. IInv => TypeOK
  BY DEF IInv
<1> QED
  BY Invariance, <1>1, PTL

\* run_unified_agent asks for at most max_tool_rounds + 1 completions,
\* whatever the language model answers and whenever it fails.
THEOREM CompletionsAreBounded == Spec => []CompletionsBounded
<1>1. IInv => CompletionsBounded
  BY DEF IInv, RoundsInv, CompletionsBounded
<1> QED
  BY Invariance, <1>1, PTL

\* Of these at most two are asked for when the client has gone or the time
\* is over, for any number of rounds.
THEOREM LateIsBounded == Spec => []LateBounded
<1>1. IInv => LateBounded
  BY DEF IInv, LateInv, LateBounded
<1> QED
  BY Invariance, <1>1, PTL

\* A client that reads POST /chat to the end gets an end event, through two
\* bounded channels of any capacity.
THEOREM TheEndIsTold == Spec => []ToldTheEnd
<1>1. IInv => ToldTheEnd
  BY DEF IInv, TasksInv, ToldTheEnd
<1> QED
  BY Invariance, <1>1, PTL

\* How the answer ended, as far as the client knows.
Status == IF client.end \in Ends THEN client.end
          ELSE IF client.at = "left" THEN "left" ELSE "open"

\* What the client reads: more of the answer, or its one end, and "done" only
\* when it was shown something.
LEMMA ClientReadsAnswer ==
  ASSUME IInv, ClientReads
  PROVE  /\ Status = "open"
         /\ \/ Status' = "open" /\ client'.shown
            \/ Status' = "open" /\ client'.shown = client.shown
            \/ Status' = "done" /\ client.shown /\ client'.shown
            \/ Status' = "error" /\ client'.shown = client.shown
<1> DEFINE e == Head(outer)
<1>t. /\ outer \in Seq(Event)
      /\ client \in [at : {"reading", "finished", "left"},
                    end : Ends \cup {NoEvent}, shown : BOOLEAN]
      /\ Flow /\ Shown
  BY DEF IInv, TypeOK
<1>n. NoEvent \notin Ends /\ Shows \cap Ends = {} /\ Ends = {"done", "error"}
  BY DEF NoEvent, Ends, Shows
<1>1. /\ client.at = "reading" /\ client'.at = "reading" /\ outer # <<>>
      /\ client'.end = IF e \in Ends THEN e ELSE client.end
      /\ client'.shown = (client.shown \/ e \in Shows)
  BY <1>t DEF ClientReads, Shows
<1>2. client.end = NoEvent
  BY <1>1 DEF IInv, Flow, Talking, InOut, InInner, Held, InOuter, Told, Left,
     Open
<1>3. Status = "open"
  BY <1>n, <1>1, <1>2 DEF Status
<1>4. CASE e \notin Ends
  BY <1>n, <1>t, <1>1, <1>2, <1>3, <1>4 DEF Status
<1>5. CASE e \in Ends
  <2>1. InOuter
    BY <1>t, <1>1, <1>5, TailFacts DEF Flow, Talking, InOut, InInner, Held,
       Told, Left
  <2>2. Tail(outer) = <<>>
    BY <1>t, <1>1, <1>5, <2>1, TailFacts DEF InOuter
  <2>3. e \notin Shows
    BY <1>n, <1>5
  <2>4. ~Visible(outer)
    <3>1. Visible(outer) <=> e \in Shows \/ Visible(Tail(outer))
      BY <1>t, <1>1, TailFacts
    <3>2. ~Visible(Tail(outer))
      BY <2>2, EmptyFacts
    <3> QED
      BY <2>3, <3>1, <3>2
  <2>5. e = "done" => client.shown
    <3>1. e = "done" => HasDone(outer)
      BY <1>t, <1>1, TailFacts
    <3> QED
      BY <1>t, <2>4, <3>1 DEF Shown
  <2>6. Status' = e /\ client'.shown = client.shown
    BY <1>t, <1>1, <1>5, <2>3 DEF Status
  <2> QED
    BY <1>n, <1>3, <1>5, <2>5, <2>6
<1> QED
  BY <1>4, <1>5

\* The agent's task, the task of post_chat and the channels between them
\* implement one answer: shown piece by piece, ended once, and not complete
\* without anything to read.
THEOREM ImplementsAnswer == Spec => AnswerSpec
<1>1. Init => Answer!AnswerInit
  BY DEF Init, Answer!AnswerInit, NoEvent, Ends
<1>2. ASSUME IInv, [Next]_vars
      PROVE  [Answer!AnswerNext]_(Answer!answerVars)
  <2>t. /\ client \in [at : {"reading", "finished", "left"},
                      end : Ends \cup {NoEvent}, shown : BOOLEAN]
        /\ Flow
    BY <1>2 DEF IInv, TypeOK
  <2>n. Ends = {"done", "error"}
    BY DEF Ends
  <2>d. /\ Answer!AnswerNext <=>
             \/ Status = "open" /\ client'.shown = TRUE /\ Status' = Status
             \/ /\ Status = "open" /\ client.shown /\ Status' = "done"
                /\ client'.shown = client.shown
             \/ /\ Status = "open" /\ Status' = "error"
                /\ client'.shown = client.shown
             \/ /\ Status = "open" /\ Status' = "left"
                /\ client'.shown = client.shown
        /\ UNCHANGED Answer!answerVars
             <=> Status' = Status /\ client'.shown = client.shown
    BY DEF Answer!AnswerNext, Answer!Show, Answer!Complete, Answer!Fail,
       Answer!Leave, Answer!answerVars, Status
  <2>1. CASE ClientReads
    <3>1. client.shown \in BOOLEAN /\ client'.shown \in BOOLEAN
      BY <2>1, <2>t DEF ClientReads
    <3> QED
      BY <1>2, <2>1, <2>d, <3>1, ClientReadsAnswer
  <2>2. CASE ClientFinished
    <3>1. Told
      BY <2>t, <2>2 DEF ClientFinished, Flow, Talking, InOut, InInner, Held,
         InOuter, Left, Open, Ended
    <3>2. Status' = Status /\ client'.shown = client.shown
      BY <2>t, <2>2, <3>1 DEF ClientFinished, Told, Status
    <3> QED
      BY <2>d, <3>2
  <2>3. CASE ClientLeaves
    <3>1. /\ client.at = "reading" /\ client'.at = "left"
          /\ client'.end = client.end /\ client'.shown = client.shown
      BY <2>t, <2>3 DEF ClientLeaves
    <3>2. \/ Status' = Status
          \/ Status = "open" /\ Status' = "left"
      BY <3>1 DEF Status
    <3> QED
      BY <2>d, <3>1, <3>2
  <2>4. CASE UNCHANGED client
    <3>1. Status' = Status /\ client'.shown = client.shown
      BY <2>4 DEF Status
    <3> QED
      BY <2>d, <3>1
  <2>5. AgentSteps => UNCHANGED client
    BY <1>2, AgentStep DEF IInv, Others
  <2> QED
    BY <1>2, <2>1, <2>2, <2>3, <2>4, <2>5 DEF Next, PumpSteps, Send, PumpNext,
       PumpSave, PumpSend, PumpRefused, Expire, vars
<1> QED
  BY Invariance, <1>1, <1>2, PTL DEF Spec, AnswerSpec, Answer!AnswerSpec
=============================================================================
