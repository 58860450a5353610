--------------------------- MODULE CardConversation ---------------------------
(***************************************************************************)
(* What a contactless card promises its reader, whatever layers, buffers   *)
(* and loops it is made of: it speaks only when spoken to.  A frame is     *)
(* acted on at most once and answered at most once; no frame is heard while *)
(* an answer to the one before is owed or under way; and the answer is     *)
(* begun only while the reader that sent the frame still holds the field.  *)
(* The card may leave any frame unanswered.  CardEmulation implements it.  *)
(***************************************************************************)
VARIABLES
    turn,       \* whose turn it is, and how far the card has come with its own
    present     \* the frame heard last was sent in the present field period

talk == <<turn, present>>
Turns == {"reader", "heard", "owed", "answer"}

TalkInit == turn = "reader" /\ present = FALSE

\* A frame is in the card; one not acted on yet may be replaced by the next.
Hear ==
    /\ turn \in {"reader", "heard"} /\ turn' = "heard"
    /\ present' \in BOOLEAN

\* The card acts on the frame.
TakeUp == turn = "heard" /\ turn' = "owed" /\ UNCHANGED present

\* It begins to answer; the answer ends.
Answer == turn = "owed" /\ present /\ turn' = "answer" /\ UNCHANGED present
Finish == turn = "answer" /\ turn' = "reader" /\ UNCHANGED present

\* Nothing (more) is said to this frame: it asked for no answer, was damaged,
\* or the card begins to listen anew.
Leave == turn' = "reader" /\ present' \in {present, FALSE}

\* The carrier goes away.
Lose == present' = FALSE /\ UNCHANGED turn

TalkNext == Hear \/ TakeUp \/ Answer \/ Finish \/ Leave \/ Lose

TalkSpec == TalkInit /\ [][TalkNext]_talk
=============================================================================
