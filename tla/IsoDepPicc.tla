----------------------------- MODULE IsoDepPicc -----------------------------
(***************************************************************************)
(* The card's side of ISO-DEP: rfalIsoDepDataExchangePICC,                 *)
(* rfalIsoDepReSendControlMsg and rfalIsoDepStartTransceive of             *)
(* rfal_isoDep.c, from the activation on (CardEmulation has what comes     *)
(* before it).  Its own retry counters are cleared with every frame it     *)
(* receives and limit nothing.                                             *)
(***************************************************************************)
EXTENDS IsoDepBlocks

VARIABLES
    picc,           \* gIsoDep.state: "IDLE", "RX", "TX", "SWTX", "SDSL"; "DEAF" is
                    \* "RX" with no reception started
    piccBn,         \* blockNumber
    piccLast,       \* lastPCB, as far as it is looked at
    isWait4WTX, isTxPending,
    piccChaining,   \* isTxChaining
    piccData,       \* txBuf
    cardBusy,       \* the application has a command to answer, or more to send
    card            \* ghost: what the application was given last

piccVars == <<picc, piccBn, piccLast, isWait4WTX, isTxPending, piccChaining,
              piccData, cardBusy, card>>

PiccTypeOK ==
    /\ picc \in {"IDLE", "RX", "TX", "SWTX", "SDSL", "DEAF"}
    /\ piccBn \in Bit
    /\ piccLast \in {"none", "I", "ACK", "WTX", "DSL"}
    /\ isWait4WTX \in BOOLEAN /\ isTxPending \in BOOLEAN
    /\ piccChaining \in BOOLEAN
    /\ piccData \in Data \cup {None}
    /\ cardBusy \in BOOLEAN
    /\ card \in [data : Data \cup {None}, parity : BOOLEAN]

PiccInit ==
    /\ picc = "IDLE" /\ piccBn = 0 /\ piccLast = "none"
    /\ isWait4WTX = FALSE /\ isTxPending = FALSE /\ piccChaining = FALSE
    /\ piccData = None /\ cardBusy = FALSE
    /\ card = [data |-> None, parity |-> FALSE]

\* rfalIsoDepInitialize.
PiccInitialize ==
    /\ piccLast' = "none"
    /\ isWait4WTX' = FALSE /\ isTxPending' = FALSE /\ piccChaining' = FALSE
    /\ UNCHANGED piccData

-----------------------------------------------------------------------------
Hearing(k) == picc = "RX" /\ to = "picc" /\ frame.k = k

\* A frame that is none of the card's business: reception is started again.
Ignore ==
    /\ Quiet
    /\ UNCHANGED <<picc, piccLast>>

\* rfalIsoDepReSendControlMsg, or the last I-block once more: rule 11.  With
\* nothing sent yet there is nothing to send again, and no reception is started.
Resend ==
    IF piccLast = "I"
    THEN picc' = "TX" /\ Quiet /\ UNCHANGED piccLast
    ELSE /\ UNCHANGED piccLast
         /\ IF piccLast = "none" THEN picc' = "DEAF" /\ Quiet
            ELSE /\ UNCHANGED picc
                 /\ Send("pcd", IF piccLast = "ACK" THEN RBlock("ACK", piccBn)
                                                    ELSE SBlock(piccLast))

\* The reader grants more time: on with a response that waited for it, or with
\* the wait.
GetWtx ==
    /\ Hearing("WTX")
    /\ IF piccLast = "WTX"
       THEN /\ isWait4WTX' = FALSE /\ Quiet
            /\ picc' = IF isTxPending THEN "TX" ELSE "SWTX"
            /\ UNCHANGED piccLast
       ELSE Ignore /\ UNCHANGED isWait4WTX
    /\ UNCHANGED <<piccBn, isTxPending, piccChaining, piccData, cardBusy, card>>

\* Deselection: answered, then the card is back where it was before RATS.
GetDsl ==
    /\ Hearing("DSL")
    /\ picc' = "SDSL" /\ Send("pcd", SBlock("DSL")) /\ piccLast' = "DSL"
    /\ UNCHANGED <<piccBn, isWait4WTX, isTxPending, piccChaining, piccData,
                   cardBusy, card>>

Deselected ==
    /\ picc = "SDSL" /\ picc' = "IDLE"
    /\ PiccInitialize /\ piccBn' = 0 /\ cardBusy' = FALSE
    /\ UNCHANGED <<card, air>>

\* R(ACK) or R(NAK) with the card's number: the last frame again.
GetRetry ==
    /\ Hearing("ACK") \/ Hearing("NAK")
    /\ frame.bn = piccBn
    /\ Resend
    /\ UNCHANGED <<piccBn, isWait4WTX, isTxPending, piccChaining, piccData,
                   cardBusy, card>>

\* R(ACK) with the other number: the block of a chained response has arrived, the
\* application is asked for the next (rules E, 13).
GetAck ==
    /\ Hearing("ACK") /\ frame.bn # piccBn
    /\ IF piccChaining
       THEN /\ piccBn' = Toggle(piccBn) /\ picc' = "SWTX" /\ cardBusy' = TRUE
            /\ Quiet /\ UNCHANGED piccLast
       ELSE Ignore /\ UNCHANGED <<piccBn, cardBusy>>
    /\ UNCHANGED <<isWait4WTX, isTxPending, piccChaining, piccData, card>>

\* R(NAK) with the other number: the reader's block was lost (rule 12).
GetNak ==
    /\ Hearing("NAK") /\ frame.bn # piccBn
    /\ Send("pcd", RBlock("ACK", piccBn)) /\ piccLast' = "ACK"
    /\ UNCHANGED <<picc, piccBn, isWait4WTX, isTxPending, piccChaining, piccData,
                   cardBusy, card>>

\* An I-block with the other number, and no chained response under way, is for
\* the application; in the middle of a command it is confirmed at once, at the
\* end the card starts to wait for the response (rule D).
GetI ==
    /\ Hearing("I")
    /\ IF frame.bn # piccBn /\ ~piccChaining
       THEN /\ piccBn' = frame.bn /\ card' = Handed(card, frame.data)
            /\ IF frame.more
               THEN /\ Send("pcd", RBlock("ACK", frame.bn)) /\ piccLast' = "ACK"
                    /\ UNCHANGED <<picc, cardBusy>>
               ELSE /\ picc' = "SWTX" /\ cardBusy' = TRUE
                    /\ Quiet /\ UNCHANGED piccLast
       ELSE Ignore /\ UNCHANGED <<piccBn, cardBusy, card>>
    /\ UNCHANGED <<isWait4WTX, isTxPending, piccChaining, piccData>>

-----------------------------------------------------------------------------
\* The WTX timer expires: more time is asked for.
AskWtx ==
    /\ picc = "SWTX" /\ picc' = "RX"
    /\ isWait4WTX' = TRUE
    /\ Send("pcd", SBlock("WTX")) /\ piccLast' = "WTX"
    /\ UNCHANGED <<piccBn, isTxPending, piccChaining, piccData, cardBusy, card>>

\* rfalIsoDepStartTransceive: the application answers, with a block of a chained
\* response or the last one.  While a request for more time is under way the
\* block waits.
Answer(d, m) ==
    /\ cardBusy /\ cardBusy' = FALSE
    /\ piccData' = d /\ piccChaining' = m
    /\ IF isWait4WTX THEN picc' = "RX" /\ isTxPending' = TRUE
                     ELSE picc' = "TX" /\ UNCHANGED isTxPending
    /\ UNCHANGED <<piccBn, piccLast, isWait4WTX, card, air>>

SendI ==
    /\ picc = "TX" /\ picc' = "RX"
    /\ Send("pcd", IBlock(piccBn, piccChaining, piccData)) /\ piccLast' = "I"
    /\ isTxPending' = FALSE
    /\ UNCHANGED <<piccBn, isWait4WTX, piccChaining, piccData, cardBusy, card>>

\* The field came back and the card was selected and activated again, by a user of
\* the module that initialises it at RATS (rfal_nfc.c).
\* Mutant: the block number starts at 0, as the reader's does.
PiccActivate_BnZero ==
    /\ picc' = "RX" /\ piccBn' = 0 /\ cardBusy' = FALSE
    /\ PiccInitialize /\ UNCHANGED card

PiccActivate ==
    /\ picc' = "RX" /\ piccBn' = 1 /\ cardBusy' = FALSE
    /\ PiccInitialize /\ UNCHANGED card
=============================================================================
