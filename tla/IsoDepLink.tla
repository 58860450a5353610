----------------------------- MODULE IsoDepLink -----------------------------
(***************************************************************************)
(* A reader and a card, both running rfal_isoDep.c, over air that loses    *)
(* frames, with timeouts that may come while the answer is on its way.     *)
(***************************************************************************)
EXTENDS IsoDepPcd, IsoDepPicc

linkVars == <<pcdVars, piccVars, air>>

TypeOK == AirTypeOK /\ PcdTypeOK /\ PiccTypeOK

Init == PcdInit /\ PiccInit /\ to = "nobody" /\ frame = SBlock("none")

\* The session starts: the field goes off and on, and the card is selected.
Activate == PcdActivate /\ PiccActivate /\ Quiet

ReaderStep ==
    \/ Transmit \/ Timeout
    \/ HearWtx \/ HearStray \/ HearAck \/ HearOldAck \/ HearChained \/ HearLast

ReaderApp == Deselect \/ \E d \in Data, m \in BOOLEAN : StartTransceive(d, m)

CardStep ==
    \/ GetWtx \/ GetDsl \/ Deselected \/ GetRetry \/ GetAck \/ GetNak \/ GetI
    \/ AskWtx \/ SendI

CardApp == \E d \in Data, m \in BOOLEAN : Answer(d, m)

Next ==
    \/ Activate
    \/ Lose /\ UNCHANGED <<pcdVars, piccVars>>
    \/ (ReaderStep \/ ReaderApp) /\ UNCHANGED piccVars
    \/ (CardStep \/ CardApp) /\ UNCHANGED pcdVars

\* The reader's worker keeps running; nothing is asked of the card, of its
\* application or of the air.
Spec == Init /\ [][Next]_linkVars /\ WF_linkVars(ReaderStep /\ UNCHANGED piccVars)

-----------------------------------------------------------------------------
\* What has to happen next, read off the two block numbers (rules A to E of
\* ISO 14443-4): they differ until the card has taken the reader's block.
turn ==
    IF app \in {"deselect", "off"} THEN "down"
    ELSE IF app = "ready" THEN "reader"
    ELSE IF bn # piccBn THEN IF isRxChaining THEN "goOn" ELSE "toCard"
    ELSE IF isTxChaining THEN "confirm"
    ELSE IF cardBusy THEN "card" ELSE "toReader"

Live == app \notin {"deselect", "off"}

\* However many frames are lost, within a session each block is handed to the
\* other application once and in order, and only a response to the command that
\* was submitted is handed back.
Exchange == INSTANCE IsoDepExchange WITH
    down <- [data |-> pcdData, more |-> isTxChaining],
    up   <- [data |-> piccData, more |-> piccChaining]

ExactlyOnce == Exchange!ExchangeSpec

\* A card in a session always listens again: no frame finds it with nothing to
\* repeat and no reception started.
NeverDeaf == picc # "DEAF"

\* The reader gives up only after as many timeouts as its limits promise, on the
\* block it is busy with, or because the card asked for time too often; between
\* two devices with this code no block is ever a protocol error.
Fewest == IF MaxI <= MaxR /\ MaxI <= MaxNack THEN MaxI
          ELSE IF MaxR <= MaxNack THEN MaxR ELSE MaxNack

GivesUpLate ==
    /\ app = "timeout" => timeouts > Fewest
    /\ app = "proto" => cntWtx > MaxWtx

\* Whatever the card does or fails to do, the reader is done with every block:
\* it gets on, or gives up.
Settled == \A n \in Bit : (app = "busy" /\ bn = n) ~> (app # "busy" \/ bn # n)
=============================================================================
