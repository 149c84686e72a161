---------------------------- MODULE AnswerStream ----------------------------
(***************************************************************************)
(* What a client of POST /chat may rely on: it is shown pieces of an answer *)
(* until the answer is complete or an error is reported, once, and nothing  *)
(* follows; or it goes away before.  An answer that is complete had some    *)
(* text, or reasoning, in it.                                               *)
(***************************************************************************)

VARIABLES status,  \* how the answer ended, as far as the client knows
          shown    \* has it been shown any text or reasoning?

answerVars == <<status, shown>>

AnswerInit == status = "open" /\ shown = FALSE

Show ==
    /\ status = "open"
    /\ shown' = TRUE
    /\ UNCHANGED status

Complete ==
    /\ status = "open"
    /\ shown
    /\ status' = "done"
    /\ UNCHANGED shown

Fail ==
    /\ status = "open"
    /\ status' = "error"
    /\ UNCHANGED shown

Leave ==
    /\ status = "open"
    /\ status' = "left"
    /\ UNCHANGED shown

AnswerNext == Show \/ Complete \/ Fail \/ Leave

AnswerSpec == AnswerInit /\ [][AnswerNext]_answerVars
=============================================================================
