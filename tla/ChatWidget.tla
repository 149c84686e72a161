----------------------------- MODULE ChatWidget -----------------------------
(***************************************************************************)
(* The chat assistant in the browser: the conversation useChatSession       *)
(* keeps, the stream of one answer, the dialog with the saved               *)
(* conversations, and what the widget offers in each state.                 *)
(*                                                                          *)
(* One action is one task of the browser's event loop: a click, a chunk of  *)
(* the stream, an answer of the server.  Aborting a request rejects the     *)
(* promise its turn waits for, and the rest of that turn (catch, finally)   *)
(* runs as a microtask: after the task that aborted, before the next one.   *)
(* A message is what its parts are; a part remembers which turns wrote it,  *)
(* and always has visible characters.                                       *)
(***************************************************************************)
EXTENDS Naturals, Sequences, FiniteSetsExt

CONSTANTS Sessions,   \* conversation ids crypto.randomUUID() may return
          None,
          MaxTurns,   \* bound: questions asked while the page is open
          MaxParts,   \* bound: parts of one answer
          MaxAsked,   \* bound: requests of the history dialog at one time
          Limit,      \* messages a week
          Exempt      \* has the user's account no limit?

VARIABLES
  open,             \* DeferredChatWidget: is the widget mounted?
  user,             \* AuthContext: None, or the user /auth/me described
  messages, sessionId, isStreaming, abortRef, quotaUsed,
  turn,             \* the calls of runAssistantTurn, in order
  unwinding,        \* turns whose request was aborted in this very task
  history,          \* ChatHistorySheet
  saved,            \* server: the user's conversations
  counted           \* server: messages of the user this week

widget == <<messages, sessionId, isStreaming, abortRef, quotaUsed>>
server == <<saved, counted>>
vars == <<open, user, widget, turn, unwinding, history, server>>

Turns == 1 .. MaxTurns
STREAMING_ID == "streaming"

Part == [kind : {"reasoning", "tool", "text"}, live : BOOLEAN, by : SUBSET Turns]
Message == [id : {STREAMING_ID, "uuid"}, role : {"user", "assistant", "error"},
            parts : Seq(Part)]
\* An abandoned turn was aborted, or its widget is gone; the server may
\* still answer it, and nobody listens.
Turn == [at : {"sent", "refused", "reading", "done", "over", "abandoned"},
         session : Sessions]

\* Dialogs of the sheet, and its requests.  A delete remembers whether the
\* conversation was the active one at the click, and whether the sheet that
\* sent it is still mounted.
Delete == [session : Sessions, active : BOOLEAN, mine : BOOLEAN]
History == [open : BOOLEAN, pendingDelete : Sessions \cup {None}, deleting : BOOLEAN,
            asked : SUBSET Sessions, deletes : SUBSET Delete]

TypeOK ==
    /\ open \in BOOLEAN
    /\ user \in {None} \cup [used : Nat]
    /\ messages \in Seq(Message)
    /\ sessionId \in Sessions \cup {None}
    /\ isStreaming \in BOOLEAN
    /\ abortRef \in Turns \cup {None}
    /\ quotaUsed \in Nat \cup {None}
    /\ turn \in Seq(Turn)
    /\ unwinding \subseteq Turns
    /\ history \in History
    /\ saved \subseteq Sessions /\ counted \in Nat

-----------------------------------------------------------------------------
\* part-utils.ts

Closed(part) == [part EXCEPT !.live = FALSE]

closeStreamingReasoning(parts) ==
    [i \in DOMAIN parts |->
        IF parts[i].kind = "reasoning" THEN Closed(parts[i]) ELSE parts[i]]

finalizeParts(parts) ==
    [i \in DOMAIN parts |-> IF parts[i].kind = "tool" THEN parts[i] ELSE Closed(parts[i])]

LastIsLive(parts, kind) ==
    parts # <<>> /\ parts[Len(parts)].kind = kind /\ parts[Len(parts)].live

\* A delta continues the last part when that part is of its kind and open.
Extended(parts, kind, t) ==
    IF LastIsLive(parts, kind)
    THEN [parts EXCEPT ![Len(parts)].by = @ \cup {t}]
    ELSE Append(parts, [kind |-> kind, live |-> TRUE, by |-> {t}])

appendReasoningDelta(parts, t) ==
    IF LastIsLive(parts, "reasoning") THEN Extended(parts, "reasoning", t)
    ELSE Extended(closeStreamingReasoning(parts), "reasoning", t)

appendTextDelta(parts, t) == Extended(closeStreamingReasoning(parts), "text", t)

appendToolStart(parts, t) ==
    Append(closeStreamingReasoning(parts), [kind |-> "tool", live |-> TRUE, by |-> {t}])

markToolDone(parts) ==
    LET running == {i \in DOMAIN parts : parts[i].kind = "tool" /\ parts[i].live}
    IN IF running = {} THEN parts
       ELSE [parts EXCEPT ![Max(running)] = Closed(@)]

assistantHasVisibleContent(message) == message.parts # <<>>

turnsToAssistantParts == <<[kind |-> "tool", live |-> FALSE, by |-> {}],
                           [kind |-> "text", live |-> FALSE, by |-> {}]>>

-----------------------------------------------------------------------------
\* What the widget shows and offers

chatQuota == user # None /\ ~Exempt

ShownUsed == IF quotaUsed # None THEN quotaUsed ELSE user.used

quotaExceeded == chatQuota /\ ShownUsed >= Limit

\* TrackerChatHeader: the history and the new-chat button of a signed-in user
Header == [history  |-> user # None,
           newChat  |-> user # None /\ (messages # <<>> \/ isStreaming)]

\* TrackerChatComposer: one button sends or stops; the text box is locked
\* while an answer streams and when the week's messages are spent.
Composer == [locked    |-> isStreaming \/ quotaExceeded,
             button    |-> IF isStreaming THEN "stop" ELSE "send",
             suggestions |-> messages = <<>> \/ ~isStreaming]

\* ChatBubble: the Retry button of a failed turn
Retry(message) == [offered |-> message.role = "error", disabled |-> isStreaming]

\* ChatAssistantTurn: its parts, the indicator, or "No response generated."
ChatAssistantTurn(message) ==
    IF assistantHasVisibleContent(message) THEN "parts"
    ELSE IF message.id = STREAMING_ID /\ isStreaming THEN "thinking" ELSE "none"

-----------------------------------------------------------------------------
Draft == {i \in DOMAIN messages : messages[i].id = STREAMING_ID}

\* filter: the k-th of the messages that stay
WithoutDraft(ms) ==
    LET kept == {i \in DOMAIN ms : ms[i].id # STREAMING_ID}
    IN [k \in 1 .. Cardinality(kept) |->
          ms[CHOOSE i \in kept : Cardinality({j \in kept : j <= i}) = k]]

Finished(message) ==
    [message EXCEPT !.id = "uuid", !.parts = finalizeParts(@)]

\* Mutant: the draft goes, whatever could be read of it.
DropsDraft(ms) == WithoutDraft(ms)

\* cancelStream, and the catch of a failed turn: keep what could be read
Settled(ms) ==
    LET draft == {i \in DOMAIN ms : ms[i].id = STREAMING_ID}
    IN IF draft = {} THEN ms
       ELSE LET d == ms[Min(draft)]
            IN IF assistantHasVisibleContent(d)
               THEN Append(WithoutDraft(ms), Finished(d)) ELSE WithoutDraft(ms)

updateStreamingMessage(parts) ==
    messages' = [i \in DOMAIN messages |->
                    IF i \in Draft THEN [messages[i] EXCEPT !.parts = parts[i]]
                                   ELSE messages[i]]

UserMessage == [id |-> "uuid", role |-> "user", parts |-> <<>>]
EmptyDraft == [id |-> STREAMING_ID, role |-> "assistant", parts |-> <<>>]
ErrorMessage == [id |-> "uuid", role |-> "error", parts |-> <<>>]

\* A task begins when the microtasks of the one before are done.
Task == unwinding = {}

\* A click in the mounted widget of a signed-in user
Click == Task /\ open /\ user # None /\ ~history.open /\ history.pendingDelete = None

\* Mutant: the controller is dropped, its request goes on.
KeepsReading == unwinding' = {}

\* Aborting: the turn that waits for the request unwinds when the task ends.
Abort == unwinding' = IF abortRef = None THEN {} ELSE {abortRef}

\* A new id: one is as good as another.
Fresh(used) ==
    LET free == Sessions \ (used \cup saved \cup {turn[t].session : t \in DOMAIN turn})
    IN IF free = {} THEN {} ELSE {CHOOSE id \in free : TRUE}

NewWidget(id) ==
    /\ messages' = <<>> /\ sessionId' = id /\ isStreaming' = FALSE
    /\ abortRef' = None

\* The effect on [user]: a new user object resets the count shown.
ShowQuotaOf(u) == quotaUsed' = IF u # None /\ ~Exempt THEN u.used ELSE None

Unmounted(h) ==
    [open |-> FALSE, pendingDelete |-> None, deleting |-> FALSE, asked |-> h.asked,
     deletes |-> {[d EXCEPT !.mine = FALSE] : d \in h.deletes}]

Init ==
    /\ open = FALSE
    /\ user \in {None} \cup [used : {0}]
    /\ messages = <<>> /\ sessionId = None /\ isStreaming = FALSE
    /\ abortRef = None /\ quotaUsed = None
    /\ turn = <<>> /\ unwinding = {}
    /\ history = [open |-> FALSE, pendingDelete |-> None, deleting |-> FALSE,
                  asked |-> {}, deletes |-> {}]
    /\ saved = {} /\ counted = 0

-----------------------------------------------------------------------------
\* DeferredChatWidget: opening mounts the widget, closing unmounts it and all
\* it held.  The requests go on; their answers find nothing to change.

Open ==
    /\ Task /\ ~open
    /\ open' = TRUE
    /\ \E id \in Fresh({}) : NewWidget(id)
    /\ ShowQuotaOf(user)
    /\ UNCHANGED <<user, turn, unwinding, history, server>>

Close ==
    /\ Task /\ open
    /\ open' = FALSE
    /\ NewWidget(None) /\ quotaUsed' = None
    /\ turn' = [t \in DOMAIN turn |->
                  IF turn[t].at = "over" THEN turn[t] ELSE [turn[t] EXCEPT !.at = "abandoned"]]
    /\ history' = [Unmounted(history) EXCEPT
                     !.asked = {}, !.deletes = {[d EXCEPT !.active = FALSE] : d \in @}]
    /\ UNCHANGED <<user, unwinding, server>>

SignIn ==
    /\ Task /\ user = None
    /\ user' = [used |-> counted]
    /\ IF open THEN ShowQuotaOf(user') ELSE UNCHANGED quotaUsed
    /\ UNCHANGED <<open, messages, sessionId, isStreaming, abortRef,
                   turn, unwinding, history, server>>

cancelStream ==
    /\ Abort
    /\ abortRef' = None
    /\ isStreaming' = IF abortRef = None THEN isStreaming ELSE FALSE

\* The widget cancels the stream of a user who is gone; the header no longer
\* renders the sheet.
SignOut ==
    /\ Task /\ user # None
    /\ user' = None
    /\ cancelStream
    /\ messages' = IF abortRef = None THEN messages ELSE Settled(messages)
    /\ quotaUsed' = None
    /\ history' = Unmounted(history)
    /\ UNCHANGED <<open, sessionId, turn, server>>

-----------------------------------------------------------------------------
\* use-chat-session.ts

startNewChat ==
    /\ Abort
    /\ abortRef' = None /\ isStreaming' = FALSE
    /\ messages' = <<>>
    /\ \E id \in Fresh({sessionId}) : sessionId' = id

\* A saved conversation: the turns of the server, as one question and answer
loadSession(id) ==
    /\ Abort
    /\ abortRef' = None /\ isStreaming' = FALSE
    /\ sessionId' = id
    /\ messages' = <<UserMessage, [id |-> "uuid", role |-> "assistant",
                                   parts |-> turnsToAssistantParts]>>

\* runAssistantTurn up to its await.  The list it extends is the one rendered.
runAssistantTurn(shown) ==
    /\ Len(turn) < MaxTurns
    /\ Abort
    /\ messages' = Append(shown, EmptyDraft)
    /\ isStreaming' = TRUE
    /\ turn' = Append(turn, [at |-> "sent", session |-> sessionId])
    /\ abortRef' = Len(turn) + 1
    /\ UNCHANGED <<open, user, sessionId, quotaUsed, history, server>>

sendMessage ==
    /\ Click
    /\ ~Composer.locked
    /\ runAssistantTurn(Append(messages, UserMessage))

retryMessage ==
    /\ Click
    /\ \E i \in DOMAIN messages :
          Retry(messages[i]).offered /\ ~Retry(messages[i]).disabled
    /\ ~quotaExceeded
    /\ runAssistantTurn(LET n == Len(messages) IN
                        IF messages[n].role = "error" THEN SubSeq(messages, 1, n - 1) ELSE messages)

StopClicked ==
    /\ Click
    /\ Composer.button = "stop"
    /\ cancelStream
    /\ messages' = IF abortRef = None THEN messages ELSE Settled(messages)
    /\ UNCHANGED <<open, user, sessionId, quotaUsed, turn, history, server>>

NewChatClicked ==
    /\ Click
    /\ Header.newChat
    /\ startNewChat
    /\ UNCHANGED <<open, user, quotaUsed, turn, history, server>>

-----------------------------------------------------------------------------
\* streamChat: the answer of the server and the events of its stream.  Nothing
\* of an aborted request arrives.

At(t, stage) == Task /\ t \in DOMAIN turn /\ turn[t].at = stage

Answered(t) ==
    /\ At(t, "sent")
    /\ turn' = [turn EXCEPT ![t].at = "reading"]
    /\ UNCHANGED <<open, user, widget, unwinding, history, server>>

\* An HTTP error: its text is read before the turn fails.
Refused(t) ==
    /\ At(t, "sent")
    /\ turn' = [turn EXCEPT ![t].at = "refused"]
    /\ UNCHANGED <<open, user, widget, unwinding, history, server>>

\* finally
Finally ==
    /\ isStreaming' = FALSE
    /\ abortRef' = None

ShowFailure == messages' = Append(Settled(messages), ErrorMessage)

\* 429 spends what the count shown had left.
SpendsQuota == quotaUsed' \in {quotaUsed} \cup (IF chatQuota THEN {Limit} ELSE {})

ShowRefusal == ShowFailure /\ SpendsQuota

Fails(t) ==
    /\ ShowFailure
    /\ Finally
    /\ turn' = [turn EXCEPT ![t].at = "over"]
    /\ UNCHANGED <<open, user, sessionId, unwinding, history, server>>

\* The text of the refusal
RefusalRead(t) ==
    /\ At(t, "refused")
    /\ SpendsQuota
    /\ Fails(t)

\* The network, the agent (an error event) or the body fails.
StreamFails(t) ==
    /\ At(t, "sent") \/ At(t, "reading") \/ At(t, "done")
    /\ UNCHANGED quotaUsed
    /\ Fails(t)

\* toolStart, toolDone, delta, reasoningDelta, usage
EventArrives(t) ==
    /\ At(t, "reading")
    /\ \/ updateStreamingMessage([i \in Draft |-> appendReasoningDelta(messages[i].parts, t)])
       \/ updateStreamingMessage([i \in Draft |-> appendTextDelta(messages[i].parts, t)])
       \/ updateStreamingMessage([i \in Draft |-> appendToolStart(messages[i].parts, t)])
       \/ updateStreamingMessage([i \in Draft |-> markToolDone(messages[i].parts)])
       \/ updateStreamingMessage([i \in Draft |-> closeStreamingReasoning(messages[i].parts)])
    /\ \A i \in Draft : Len(messages'[i].parts) <= MaxParts
    /\ UNCHANGED <<open, user, sessionId, isStreaming, abortRef, quotaUsed,
                   turn, unwinding, history, server>>

\* post_chat stores and counts an answer before it sends done.
ServerFinishes(t) ==
    /\ saved' = saved \cup {turn[t].session}
    /\ counted' = IF Exempt THEN counted ELSE counted + 1

\* done: its count is added to the one shown, or the user is read again.
DoneArrives(t) ==
    /\ At(t, "reading")
    /\ ServerFinishes(t)
    /\ turn' = [turn EXCEPT ![t].at = "done"]
    /\ messages' = [i \in DOMAIN messages |->
                      IF i \in Draft THEN Finished(messages[i]) ELSE messages[i]]
    /\ \/ /\ quotaUsed' = IF chatQuota THEN ShownUsed + counted' ELSE quotaUsed
          /\ UNCHANGED user
       \/ chatQuota /\ user' = [used |-> counted'] /\ ShowQuotaOf(user')
    /\ UNCHANGED <<open, sessionId, isStreaming, abortRef, unwinding, history>>

\* The server closes the stream after its last event (AnswerStream).
StreamEnds(t) ==
    /\ At(t, "done")
    /\ Finally
    /\ turn' = [turn EXCEPT ![t].at = "over"]
    /\ UNCHANGED <<open, user, messages, sessionId, quotaUsed,
                   unwinding, history, server>>

\* The microtask of an aborted turn: an AbortError ends it in silence, but a
\* refusal whose JSON could not be read fails it like any refusal.
Unwind(t) ==
    /\ t \in unwinding
    /\ unwinding' = unwinding \ {t}
    /\ turn' = [turn EXCEPT ![t].at = "abandoned"]
    /\ \/ UNCHANGED <<messages, quotaUsed>>
       \/ turn[t].at = "refused" /\ ShowRefusal
    /\ Finally
    /\ UNCHANGED <<open, user, sessionId, history, server>>

\* The server is done with a turn nobody listens to, with or without an answer.
AbandonedEnds(t) ==
    /\ At(t, "abandoned")
    /\ turn' = [turn EXCEPT ![t].at = "over"]
    /\ ServerFinishes(t) \/ UNCHANGED server
    /\ UNCHANGED <<open, user, widget, unwinding, history>>

-----------------------------------------------------------------------------
\* history-sheet.tsx

Sheet == Task /\ open /\ Header.history

OpenHistory ==
    /\ Click
    /\ history' = [history EXCEPT !.open = TRUE]
    /\ UNCHANGED <<open, user, widget, turn, unwinding, server>>

InDialog == Sheet /\ history.open /\ history.pendingDelete = None

CloseHistory ==
    /\ InDialog
    /\ history' = [history EXCEPT !.open = FALSE]
    /\ UNCHANGED <<open, user, widget, turn, unwinding, server>>

Room == Cardinality(history.asked) + Cardinality(history.deletes) < MaxAsked

\* handleSelect up to its await
Select(s) ==
    /\ InDialog /\ s \in saved /\ Room
    /\ history' = [history EXCEPT !.asked = @ \cup {s}]
    /\ UNCHANGED <<open, user, widget, turn, unwinding, server>>

\* Whatever was done since the click: its conversation is the one shown now.
SelectAnswered(s) ==
    /\ Task /\ open /\ s \in history.asked
    /\ loadSession(s)
    /\ history' = [history EXCEPT !.asked = @ \ {s}, !.open = FALSE]
    /\ UNCHANGED <<open, user, quotaUsed, turn, server>>

SelectFails(s) ==
    /\ Task /\ s \in history.asked
    /\ history' = [history EXCEPT !.asked = @ \ {s}]
    /\ UNCHANGED <<open, user, widget, turn, unwinding, server>>

AskDelete(s) ==
    /\ InDialog /\ s \in saved
    /\ history' = [history EXCEPT !.pendingDelete = s]
    /\ UNCHANGED <<open, user, widget, turn, unwinding, server>>

KeepConversation ==
    /\ Sheet /\ history.pendingDelete # None /\ ~history.deleting
    /\ history' = [history EXCEPT !.pendingDelete = None]
    /\ UNCHANGED <<open, user, widget, turn, unwinding, server>>

\* confirmDelete up to its await
ConfirmDelete ==
    /\ Sheet /\ history.pendingDelete # None /\ ~history.deleting /\ Room
    /\ LET s == history.pendingDelete
       IN history' = [history EXCEPT !.deleting = TRUE,
             !.deletes = @ \cup {[session |-> s, active |-> s = sessionId, mine |-> TRUE]}]
    /\ UNCHANGED <<open, user, widget, turn, unwinding, server>>

\* Its answer: only the sheet that asked has a dialog to close.
After(d) ==
    [history EXCEPT !.deletes = @ \ {d},
                    !.pendingDelete = IF d.mine THEN None ELSE @,
                    !.deleting = IF d.mine THEN FALSE ELSE @]

Deleted(d) ==
    /\ Task
    /\ saved' = saved \ {d.session}
    /\ history' = After(d)
    /\ IF d.active THEN startNewChat
                   ELSE UNCHANGED <<messages, sessionId, isStreaming, abortRef,
                                    unwinding>>
    /\ UNCHANGED <<open, user, quotaUsed, turn, counted>>

DeleteFails(d) ==
    /\ Task
    /\ history' = [After(d) EXCEPT !.pendingDelete = history.pendingDelete]
    /\ UNCHANGED <<open, user, widget, turn, unwinding, server>>

-----------------------------------------------------------------------------
UserSteps ==
    \/ Open \/ Close \/ SignIn \/ SignOut
    \/ sendMessage \/ retryMessage \/ StopClicked \/ NewChatClicked
    \/ OpenHistory \/ CloseHistory \/ KeepConversation \/ ConfirmDelete
    \/ \E s \in Sessions : Select(s) \/ AskDelete(s)

Answers ==
    \/ \E t \in Turns :
          \/ Answered(t) \/ Refused(t) \/ RefusalRead(t) \/ StreamFails(t)
          \/ EventArrives(t) \/ DoneArrives(t) \/ StreamEnds(t)
          \/ Unwind(t) \/ AbandonedEnds(t)
    \/ \E s \in Sessions : SelectAnswered(s) \/ SelectFails(s)
    \/ \E d \in history.deletes : Deleted(d) \/ DeleteFails(d)

Next == UserSteps \/ Answers

Spec == Init /\ [][Next]_vars

-----------------------------------------------------------------------------
\* Between two tasks, every turn still going on is the one the stop button
\* aborts, and the button says stop exactly while there is one: no stream
\* writes where the user cannot stop it, no lock outlives its stream
\* (use-chat-session.ts:172, 332; the finally clears what a later turn set).
RunningTurnStoppable ==
    Task => /\ isStreaming = (abortRef # None)
            /\ \A t \in DOMAIN turn :
                  turn[t].at \notin {"over", "abandoned"} <=> t = abortRef

\* The message being written is the last one, the only one, of the
\* conversation shown, and only the running turn has written it: an answer is
\* never continued by the stream of another question, shown in another
\* conversation, or called empty before it began (every stream writes to the
\* one id "streaming").
DraftOfRunningTurn ==
    Task => \A i \in Draft :
              /\ i = Len(messages)
              /\ abortRef # None
              /\ turn[abortRef].session = sessionId
              /\ ChatAssistantTurn(messages[i]) # "none"
              /\ \A p \in DOMAIN messages[i].parts : messages[i].parts[p].by = {abortRef}

\* What could be read of an answer stays on screen when the turn is stopped,
\* fails or ends: it leaves only with its conversation.
Kept(parts, ms) ==
    \E j \in DOMAIN ms :
        /\ ms[j].role = "assistant"
        /\ Len(ms[j].parts) >= Len(parts)
        /\ \A p \in DOMAIN parts : parts[p].by \subseteq ms[j].parts[p].by

ConversationStays ==
    open' /\ sessionId' = sessionId /\ ~\E s \in Sessions : SelectAnswered(s)

AnswerNotLost ==
    ConversationStays => \A i \in Draft :
        assistantHasVisibleContent(messages[i]) => Kept(messages[i].parts, messages')
=============================================================================
