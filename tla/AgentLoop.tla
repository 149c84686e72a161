----------------------------- MODULE AgentLoop -----------------------------
(***************************************************************************)
(* One answer of the chat assistant: the agent loop of mc-chat, the task of *)
(* post_chat that forwards and stores what it says, and the client at the   *)
(* end of the event stream.                                                 *)
(*                                                                          *)
(*    agent --inner--> pump --outer--> client                               *)
(*                                                                          *)
(* Both channels are bounded: a sender waits while its channel is full, and *)
(* is refused once the receiver is gone.  The client that goes away sets    *)
(* the cancellation token; the agent looks at it, and at the clock, between *)
(* rounds and at every chunk of a completion, and nowhere else.             *)
(*                                                                          *)
(* A completion is what it contained: text, only blanks, reasoning, tool    *)
(* calls.  A chunk with several parts is several chunks here.               *)
(***************************************************************************)
EXTENDS Integers, Sequences

CONSTANTS MaxRounds,  \* config.max_tool_rounds
          Capacity,   \* of both channels (64)
          MaxCalls,   \* bound: different tool calls in one completion
          Thinking    \* config.thinking_enabled

ASSUME MaxRoundsAssumption == MaxRounds \in Nat
ASSUME CapacityAssumption == Capacity \in Nat \ {0}
ASSUME MaxCallsAssumption == MaxCalls \in Nat \ {0}
ASSUME ThinkingAssumption == Thinking \in BOOLEAN

VARIABLES
  at,         \* where run_unified_agent is
  round,      \* its round, from 0
  recovered,  \* recovery_used
  heard,      \* what the completion of this round contained so far
  out,        \* the events the agent sends before it goes on
  inner,      \* the agent's channel
  pump,       \* the forwarding task: where it is, the event it holds
  outer,      \* its channel to the client
  client,     \* is it reading, and what it was told
  cancelled,  \* the cancellation token
  expired,    \* config.timeout has elapsed
  requests,   \* history: completions asked for
  late        \* history: those asked for after the client left or the timeout

agentVars == <<at, round, recovered, heard, out, requests, late>>
vars == <<at, round, recovered, heard, out, inner, pump, outer, client,
          cancelled, expired, requests, late>>

Chunk == {"text", "blank", "thought", "call", "other"}

\* Those on which the next step depends.
Content == {"text", "thought", "call"}

\* A delta of blanks is told from one with text.
Event == {"delta", "blank", "reasoning", "usage", "tool_start", "tool_done", "done",
          "error"}

Ends == {"done", "error"}

NoEvent == "none"

TypeOK ==
    /\ at \in {"validate", "top", "ask", "wait", "listen", "decide", "recover",
              "tools", "end"}
    /\ round \in 0..MaxRounds
    /\ recovered \in BOOLEAN
    /\ heard \in SUBSET Content
    /\ out \in Seq(Event)
    /\ inner \in Seq(Event)
    /\ pump \in [at : {"next", "save", "send", "gone"}, hold : Event \cup {NoEvent}]
    /\ outer \in Seq(Event)
    /\ client \in [at : {"reading", "finished", "left"},
                   end : Ends \cup {NoEvent}, shown : BOOLEAN]
    /\ cancelled \in BOOLEAN
    /\ expired \in BOOLEAN
    /\ requests \in Nat
    /\ late \in Nat

Init ==
    /\ at = "validate"
    /\ round = 0
    /\ recovered = FALSE
    /\ heard = {}
    /\ out = <<>>
    /\ inner = <<>>
    /\ pump = [at |-> "next", hold |-> NoEvent]
    /\ outer = <<>>
    /\ client = [at |-> "reading", end |-> NoEvent, shown |-> FALSE]
    /\ cancelled = FALSE
    /\ expired = FALSE
    /\ requests = 0
    /\ late = 0

-----------------------------------------------------------------------------
(* run_unified_agent *)

\* The agent goes on when everything it had to send is in the channel.
Runs(stage) == at = stage /\ out = <<>>

MustStop == cancelled \/ expired

\* run_unified_agent returns Err, which chat_stream sends.
Fail ==
    /\ at' = "end"
    /\ out' = <<"error">>
    /\ UNCHANGED <<round, recovered, heard, requests, late>>

\* A request to the language model.
Ask ==
    /\ requests' = requests + 1
    /\ late' = IF MustStop THEN late + 1 ELSE late

Others == <<inner, pump, outer, client, cancelled, expired>>

\* validate_request: an empty or overlong message.
Refuse ==
    /\ Runs("validate")
    /\ Fail
    /\ UNCHANGED Others

Begin ==
    /\ Runs("validate")
    /\ at' = "top"
    /\ UNCHANGED <<round, recovered, heard, out, requests, late>>
    /\ UNCHANGED Others

\* Mutant: a round begins whether or not there is still someone to answer.
TopUnwatched ==
    /\ Runs("top")
    /\ IF round = MaxRounds
       THEN Fail
       ELSE /\ at' = "ask"
            /\ UNCHANGED <<round, recovered, heard, out, requests, late>>
    /\ UNCHANGED Others

\* The head of the loop.
Top ==
    /\ Runs("top")
    /\ IF round = MaxRounds \/ MustStop
       THEN Fail
       ELSE /\ at' = "ask"
            /\ UNCHANGED <<round, recovered, heard, out, requests, late>>
    /\ UNCHANGED Others

\* chat_completion_stream: the request is sent, and answered or not.
Request ==
    /\ Runs("ask")
    /\ Ask
    /\ at' = "wait"
    /\ UNCHANGED <<round, recovered, heard, out>>
    /\ UNCHANGED Others

Answered ==
    /\ Runs("wait")
    /\ at' = "listen"
    /\ heard' = {}
    /\ UNCHANGED <<round, recovered, out, requests, late>>
    /\ UNCHANGED Others

NotAnswered ==
    /\ Runs("wait")
    /\ Fail
    /\ UNCHANGED Others

\* Reasoning is shown only if it was asked for.
Says(c) == CASE c = "text" -> <<"delta">>
             [] c = "blank" -> <<"blank">>
             [] c = "thought" /\ Thinking -> <<"reasoning">>
             [] OTHER -> <<>>

\* Mutant: the token and the clock are looked at between rounds only.
ListenOn(c) ==
    /\ Runs("listen")
    /\ heard' = heard \cup ({c} \cap Content)
    /\ out' = Says(c)
    /\ UNCHANGED <<at, round, recovered, requests, late>>
    /\ UNCHANGED Others

Listen(c) ==
    /\ Runs("listen")
    /\ IF MustStop THEN Fail
       ELSE /\ heard' = heard \cup ({c} \cap Content)
            /\ out' = Says(c)
            /\ UNCHANGED <<at, round, recovered, requests, late>>
    /\ UNCHANGED Others

\* The stream breaks; the client's own timeout does that at the latest.
StreamBreaks ==
    /\ Runs("listen")
    /\ Fail
    /\ UNCHANGED Others

\* The stream ends; emit_usage.
StreamEnds ==
    /\ Runs("listen")
    /\ at' = "decide"
    /\ out' = <<"usage">>
    /\ UNCHANGED <<round, recovered, heard, requests, late>>
    /\ UNCHANGED Others

\* non_empty_text of the content, or of the reasoning in its place.
HasText == "text" \in heard \/ ("thought" \in heard /\ Thinking)

\* Tool calls come before text, text before a recovery, which is tried once
\* and not in the last round.
CallTools ==
    /\ Runs("decide")
    /\ "call" \in heard
    /\ at' = "tools"
    /\ UNCHANGED <<round, recovered, heard, out, requests, late>>
    /\ UNCHANGED Others

\* Mutant: whatever is not a tool call is an answer.
EmitDoneAnyway ==
    /\ Runs("decide")
    /\ "call" \notin heard
    /\ at' = "end"
    /\ out' = <<"done">>
    /\ UNCHANGED <<round, recovered, heard, requests, late>>
    /\ UNCHANGED Others

\* emit_done; what was not shown yet is always nothing.
EmitDone ==
    /\ Runs("decide")
    /\ "call" \notin heard /\ HasText
    /\ at' = "end"
    /\ out' = <<"done">>
    /\ UNCHANGED <<round, recovered, heard, requests, late>>
    /\ UNCHANGED Others

\* Mutant: every round without an answer tries again.
MayRecoverAgain == round + 1 < MaxRounds

MayRecover == round + 1 < MaxRounds /\ ~recovered

Recover ==
    /\ Runs("decide")
    /\ "call" \notin heard /\ ~HasText
    /\ MayRecover
    /\ Ask
    /\ recovered' = TRUE
    /\ at' = "recover"
    /\ UNCHANGED <<round, heard, out>>
    /\ UNCHANGED Others

\* "agent cycle limit"
GiveUp ==
    /\ Runs("decide")
    /\ "call" \notin heard /\ ~HasText
    /\ ~MayRecover
    /\ Fail
    /\ UNCHANGED Others

\* recovery_tool_calls: an error, or no calls, ends the loop.
RecoveryFails ==
    /\ Runs("recover")
    /\ Fail
    /\ UNCHANGED Others

RecoveryCalls ==
    /\ Runs("recover")
    /\ at' = "tools"
    /\ out' = <<"usage">>
    /\ UNCHANGED <<round, recovered, heard, requests, late>>
    /\ UNCHANGED Others

\* The events of n different calls, one pair each.
ToolEvents(n) ==
    [k \in 1..2*n |-> IF k % 2 = 1 THEN "tool_start" ELSE "tool_done"]

\* execute_tool_calls: equal calls run once; their results go into the
\* messages of the next round, a tool's error among them.
ToolsAnswer ==
    /\ Runs("tools")
    /\ \E n \in 1..MaxCalls : out' = ToolEvents(n)
    /\ round' = round + 1
    /\ at' = "top"
    /\ UNCHANGED <<recovered, heard, requests, late>>
    /\ UNCHANGED Others

\* Arguments that do not fit the tool's schema.
ToolsRefused ==
    /\ Runs("tools")
    /\ Fail
    /\ UNCHANGED Others

AgentSteps ==
    \/ Refuse \/ Begin
    \/ Top
    \/ Request \/ Answered \/ NotAnswered
    \/ \E c \in Chunk : Listen(c)
    \/ StreamBreaks \/ StreamEnds
    \/ CallTools \/ EmitDone \/ Recover \/ GiveUp
    \/ RecoveryFails \/ RecoveryCalls
    \/ ToolsAnswer \/ ToolsRefused

\* tx.send(...).await, whose failure is ignored.
Send ==
    /\ out # <<>>
    /\ \/ /\ pump.at = "gone"
          /\ UNCHANGED inner
       \/ /\ pump.at # "gone"
          /\ Len(inner) < Capacity
          /\ inner' = Append(inner, Head(out))
    /\ out' = Tail(out)
    /\ UNCHANGED <<at, round, recovered, heard, requests, late, pump, outer,
                   client, cancelled, expired>>

AgentGone == at = "end" /\ out = <<>>

-----------------------------------------------------------------------------
(* The task post_chat spawns *)

\* It ends and drops its end of the agent's channel.
PumpEnds ==
    /\ pump' = [at |-> "gone", hold |-> NoEvent]
    /\ inner' = <<>>

Take ==
    /\ pump' = [at |-> IF Head(inner) = "done" THEN "save" ELSE "send",
                hold |-> Head(inner)]
    /\ inner' = Tail(inner)

\* Mutant: an error of the agent ends the task without a word.
PumpNextQuietly ==
    /\ pump.at = "next"
    /\ inner # <<>> \/ AgentGone
    /\ IF inner = <<>> \/ cancelled \/ Head(inner) = "error"
       THEN PumpEnds
       ELSE Take
    /\ UNCHANGED <<outer, client, cancelled, expired>>
    /\ UNCHANGED agentVars

\* The head of the loop: the next event, or none because the agent is gone.
PumpNext ==
    /\ pump.at = "next"
    /\ inner # <<>> \/ AgentGone
    /\ IF inner = <<>> \/ cancelled
       THEN PumpEnds
       ELSE Take
    /\ UNCHANGED <<outer, client, cancelled, expired>>
    /\ UNCHANGED agentVars

\* append_turn_pair and what follows (module Chat); failures are logged.
PumpSave ==
    /\ pump.at = "save"
    /\ pump' = [pump EXCEPT !.at = "send"]
    /\ UNCHANGED <<inner, outer, client, cancelled, expired>>
    /\ UNCHANGED agentVars

PumpSend ==
    /\ pump.at = "send"
    /\ client.at = "reading"
    /\ Len(outer) < Capacity
    /\ outer' = Append(outer, pump.hold)
    /\ IF pump.hold \in Ends
       THEN PumpEnds
       ELSE /\ pump' = [at |-> "next", hold |-> NoEvent]
            /\ UNCHANGED inner
    /\ UNCHANGED <<client, cancelled, expired>>
    /\ UNCHANGED agentVars

\* The event stream was dropped: send fails.
PumpRefused ==
    /\ pump.at = "send"
    /\ client.at # "reading"
    /\ PumpEnds
    /\ UNCHANGED <<outer, client, cancelled, expired>>
    /\ UNCHANGED agentVars

PumpSteps ==
    PumpNext \/ PumpSave \/ PumpSend \/ PumpRefused

-----------------------------------------------------------------------------
(* The client, and time *)

ClientReads ==
    /\ client.at = "reading"
    /\ outer # <<>>
    /\ LET e == Head(outer) IN
         client' = [client EXCEPT
                      !.end = IF e \in Ends THEN e ELSE @,
                      !.shown = @ \/ e \in {"delta", "reasoning"}]
    /\ outer' = Tail(outer)
    /\ UNCHANGED <<inner, pump, cancelled, expired>>
    /\ UNCHANGED agentVars

\* CancelOnDrop, either way: the response is complete, or the connection was
\* closed.
ClientFinished ==
    /\ client.at = "reading"
    /\ outer = <<>> /\ pump.at = "gone"
    /\ client' = [client EXCEPT !.at = "finished"]
    /\ cancelled' = TRUE
    /\ UNCHANGED <<inner, pump, outer, expired>>
    /\ UNCHANGED agentVars

ClientLeaves ==
    /\ client.at = "reading"
    /\ client' = [client EXCEPT !.at = "left"]
    /\ outer' = <<>>
    /\ cancelled' = TRUE
    /\ UNCHANGED <<inner, pump, expired>>
    /\ UNCHANGED agentVars

Expire ==
    /\ ~expired
    /\ expired' = TRUE
    /\ UNCHANGED <<inner, pump, outer, client, cancelled>>
    /\ UNCHANGED agentVars

Next ==
    \/ AgentSteps
    \/ Send
    \/ PumpSteps
    \/ ClientReads \/ ClientFinished \/ ClientLeaves
    \/ Expire

Spec == Init /\ [][Next]_vars

\* tokio polls the two tasks; the language model and the tools answer or fail
\* (reqwest has a timeout for the whole response); time passes; a connection
\* that is open is read.  Nothing makes a client leave or a completion end.
Fairness ==
    /\ WF_vars(AgentSteps)
    /\ WF_vars(Send)
    /\ WF_vars(PumpSteps)
    /\ WF_vars(ClientReads)
    /\ WF_vars(Expire)

FairSpec == Spec /\ Fairness

-----------------------------------------------------------------------------
(* Properties *)

\* An answer costs at most one completion for each round and one recovery,
\* whatever the model says (run_unified_agent).
CompletionsBounded == requests <= MaxRounds + 1

\* After the client has left, or the time is over, at most two more
\* completions are asked for: that of a round which had begun, and the
\* recovery, before which neither is looked at.
LateBounded == late <= 2

\* A client that reads to the end is told how the answer ended, also when the
\* agent failed.
ToldTheEnd == client.at = "finished" => client.end \in Ends

\* For the client the two tasks are one answer, which ends once, and is never
\* declared complete when there was nothing to read in it.
Answer == INSTANCE AnswerStream
    WITH status <- IF client.end \in Ends THEN client.end
                   ELSE IF client.at = "left" THEN "left" ELSE "open",
         shown <- client.shown

AnswerSpec == Answer!AnswerSpec

\* Both tasks end, however long the model goes on talking and wherever the
\* client goes.
TasksEnd == <>(AgentGone /\ pump.at = "gone")
=============================================================================
