------------------------------ MODULE ApduLink ------------------------------
(***************************************************************************)
(* The APDU reader and a card that runs the card's side of rfal_isoDep.c,  *)
(* over air that loses and garbles frames.                                 *)
(***************************************************************************)
EXTENDS ApduReader, IsoDepPicc

CONSTANTS
    Answers,        \* the INF fields of the card's answers
    MaxAsked        \* bound: requests for time, per command

VARIABLES
    got,            \* ghost: the bytes the card application was given
    asked,          \* ghost: the requests for time
    clean           \* ghost: the card expected block number 0 when the command was
                    \* sent, and no frame was lost, garbled or too late since

ghosts == <<got, asked, clean>>
vars == <<apduVars, piccVars, air, ghosts>>

Init ==
    /\ ReaderInit /\ PiccInit /\ to = "nobody" /\ frame = SBlock("none")
    /\ got = <<>> /\ asked = 0 /\ clean = FALSE

Connect ==
    /\ ConnectReader /\ PiccActivate /\ Quiet
    /\ got' = <<>> /\ asked' = 0 /\ clean' = FALSE

\* The card has answered all it was asked, and its next command has number 0.
Ready == picc = "RX" /\ piccBn = 1 /\ ~piccChaining /\ ~cardBusy /\ ~isWait4WTX

Command ==
    /\ \E n \in 1..MaxLen : SendApdu(n)
    /\ Quiet
    /\ got' = <<>> /\ asked' = 0 /\ clean' = Ready
    /\ UNCHANGED piccVars

\* A command that is not sent disturbs nobody but the user.
EmptyCommand ==
    /\ SendNothing
    /\ clean' = FALSE
    /\ UNCHANGED <<piccVars, air, got, asked>>

ReaderStep ==
    \/ (SendBlock \/ Receive) /\ UNCHANGED <<piccVars, ghosts>>
    \/ /\ ReceiveGarbled \/ NothingReceived
       /\ clean' = FALSE /\ UNCHANGED <<piccVars, got, asked>>

Noise == Lose /\ clean' = FALSE /\ UNCHANGED <<apduVars, piccVars, got, asked>>

CardStep ==
    /\ \/ (GetWtx \/ GetRetry \/ GetNak \/ SendI) /\ UNCHANGED <<got, asked>>
       \/ GetI /\ got' = (IF piccBn' = piccBn THEN got ELSE got \o frame.data)
               /\ UNCHANGED asked
       \/ AskWtx /\ asked < MaxAsked /\ asked' = asked + 1 /\ UNCHANGED got
       \/ (\E d \in Answers, m \in BOOLEAN : Answer(d, m)) /\ UNCHANGED <<got, asked>>
    /\ UNCHANGED <<apduVars, clean>>

Next == Connect \/ Command \/ EmptyCommand \/ ReaderStep \/ Noise \/ CardStep

\* The reader's console thread runs on; nothing is asked of the card or the air.
Spec == Init /\ [][Next]_vars /\ WF_vars(ReaderStep)

-----------------------------------------------------------------------------
Done == step = "idle" /\ apdu > 0 /\ clean

\* Whatever the air does to the frames, the card application is given no byte of a
\* command twice, or after a later one: get_iblock gives every block a number of
\* its own turn, and send_apdu never repeats one.
InOrder == \A m, n \in 1..Len(got) : m < n => got[m] < got[n]

\* A command sent through clean air to a card that expects it reaches the card
\* application whole, also when it fills its last block and the index wraps there.
Delivered == Done => got = Chunk(0, apdu)

\* The answer is shown, no more and no less, when it is one block and the card
\* asked for time at most once.  (An answer in several blocks is cut after the first:
\* AskForMore is an R(NAK), and the card answers it with R(ACK).)
Shown == Done /\ ~piccChaining /\ asked <= 1 => rapdu = <<piccData>>

\* send_apdu comes to its end, unless the air disturbs it.
Ends == step # "idle" ~> (step = "idle" \/ ~clean)
=============================================================================
