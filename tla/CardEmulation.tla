--------------------------- MODULE CardEmulation ---------------------------
(***************************************************************************)
(* The NFC-A card emulator: ceRun() of hydranfc_v2/hydranfc_v2_ce.c, the   *)
(* handler, receive and transmit entry points of hydranfc_v2/ce.c, and the *)
(* PICC side of rfal_isoDep.c, on top of the listen and transceive         *)
(* machines of RfalListen.                                                 *)
(*                                                                         *)
(* One pass of the main loop is Worker, Handler, GetRx and, when a command *)
(* was received, Process (processCmd and ceSetTx); pc says which comes     *)
(* next.  The reader and the chip act between any two of them, and between *)
(* the worker calls of the two busy-waiting transmissions.                 *)
(***************************************************************************)
EXTENDS RfalListen

CONSTANT Mode     \* "T4T": layer 4, "3A": layer 3 only, "UL": Mifare Ultralight

ASSUME ModeAssumption == Mode \in {"T4T", "3A", "UL"}
ASSUME NoneAssumption ==
    None \notin {"RATS", "RATSDID", "PPS", "PPSDID", "PPSRATE", "HLTA",
                "IBLOCK", "CHAIN", "RNAK", "RETX", "DSL"}

VARIABLES
    pc,                 \* the next step of ceRun
    rxReady, txReady, isActivatedA, isFirstA3_Frame,    \* ce.c
    ul_cwrite_page_set, \* TRUE: first half of a compatibility write accepted
    iso,                \* gIsoDep.state
    cmd,                \* rxtxFrameBuf: the command handed to processCmd
    started             \* ghost: rfalStartTransceive called since listening began

flags == <<rxReady, txReady, isActivatedA, isFirstA3_Frame, ul_cwrite_page_set>>
ceVars == <<pc, rxReady, txReady, isActivatedA, isFirstA3_Frame,
            ul_cwrite_page_set, iso, cmd, started>>
vars == <<rfalVars, ceVars>>

level4_enabled == Mode = "T4T"
Rats == {"RATS", "RATSDID"}
PiccStates == {"PICC_RX", "PICC_TX", "PICC_SWTX", "PICC_SDSL"}

CeTypeOK ==
    /\ pc \in {"worker", "handler", "ats", "getRx", "process", "nak", "sleep"}
    /\ rxReady \in BOOLEAN /\ txReady \in BOOLEAN
    /\ isActivatedA \in BOOLEAN /\ isFirstA3_Frame \in BOOLEAN
    /\ ul_cwrite_page_set \in BOOLEAN
    /\ iso \in {"IDLE", "ACT_ATS"} \cup PiccStates
    /\ cmd \in Cmd \cup {None}
    /\ started \in BOOLEAN

\* Every variable of the emulator and of the RFAL stays in its range.
TypeOK == RfalTypeOK /\ CeTypeOK

\* ceInit: the flags, here and after each restart of the listen mode.
ceInit ==
    /\ rxReady = FALSE /\ txReady = FALSE
    /\ isActivatedA = FALSE /\ isFirstA3_Frame = TRUE
    /\ ul_cwrite_page_set = FALSE

Init ==
    /\ RfalInit
    /\ ceInit
    /\ pc = "worker" /\ iso = "IDLE" /\ cmd = None /\ started = FALSE

-----------------------------------------------------------------------------
\* rfalWorker() at the top of the pass.
Worker ==
    /\ pc = "worker"
    /\ RfalWorker
    /\ pace' = IF pace = 0 THEN 0 ELSE pace - 1
    /\ pc' = "handler"
    /\ UNCHANGED <<fresh, flags, iso, cmd, started>>

-----------------------------------------------------------------------------
(***************************************************************************)
(* ceHandler                                                               *)
(***************************************************************************)
InHandler(next) == pc = "handler" /\ pc' = next

\* Mutants: isFirstA3_Frame, or isActivatedA, survives a restart.
ResetFlags_KeepsFirst ==
    /\ rxReady' = FALSE /\ txReady' = FALSE /\ isActivatedA' = FALSE
    /\ ul_cwrite_page_set' = FALSE /\ UNCHANGED isFirstA3_Frame

ResetFlags_KeepsActivated ==
    /\ rxReady' = FALSE /\ txReady' = FALSE /\ isFirstA3_Frame' = TRUE
    /\ ul_cwrite_page_set' = FALSE /\ UNCHANGED isActivatedA

\* All the flags a restart clears.
ResetFlags ==
    /\ rxReady' = FALSE /\ txReady' = FALSE
    /\ isActivatedA' = FALSE /\ isFirstA3_Frame' = TRUE
    /\ ul_cwrite_page_set' = FALSE

\* rfalIsoDepListenStartActivation: the ATS goes out in a busy-waiting loop.  A
\* DID is refused (didSupport is false), and nobody looks at the refusal.
StartActivation ==
    IF rx = "RATS"
    THEN /\ pc' = "ats"
         /\ iso' = "ACT_ATS" /\ StartTransceive(TRUE) /\ started' = TRUE
    ELSE /\ pc' = "getRx"
         /\ UNCHANGED <<iso, started, top, xcv, fifo, irq>>

\* RATS with layer 4: CARDEMU_4A, then the activation.
HandleRats ==
    /\ pc = "handler"
    /\ lm \in Active /\ dataFlag /\ rx \in Rats /\ level4_enabled
    /\ lm' = "CARDEMU_4A" /\ dataFlag' = FALSE
    /\ taken' = TRUE
    /\ StartActivation
    /\ UNCHANGED <<field, auto, pta, reader, br, rx, live, flags, cmd>>

\* RATS without layer 4: back to where the tag came from.
IgnoreRats ==
    /\ InHandler("getRx")
    /\ lm \in Active /\ dataFlag /\ rx \in Rats /\ ~level4_enabled
    /\ IF lm = "ACTIVE_Ax" THEN SleepStart(irq, rx) /\ UNCHANGED fifo
                           ELSE SetIdle(irq) /\ UNCHANGED <<rx, top>>
    /\ taken' = TRUE
    /\ UNCHANGED <<field, reader, xcv, live, flags, iso, cmd, started>>

\* HLTA: sleep.  No flag is touched and the outcome is not looked at.
Halt ==
    /\ InHandler("getRx")
    /\ lm \in Active /\ dataFlag /\ rx = "HLTA"
    /\ SleepStart(irq, rx)
    /\ taken' = TRUE
    /\ UNCHANGED <<field, fifo, reader, xcv, live, flags, iso, cmd, started>>

\* Any other layer 3 frame.  dataFlag stays up for the whole session, so that
\* frames received by later transceives pass here as well.
HandleA3 ==
    /\ InHandler("getRx")
    /\ lm \in Active /\ dataFlag /\ rx \notin Rats \cup {"HLTA", None}
    /\ rxReady' = TRUE
    /\ UNCHANGED <<rfalVars, txReady, isActivatedA, isFirstA3_Frame,
                   ul_cwrite_page_set, iso, cmd, started>>

\* rfalIsoDepListenGetActivationStatus: the first block after the ATS, good or
\* bad, ends the activation; a PPS is answered on the way.
Activate ==
    /\ lm = "CARDEMU_4A" /\ ~isActivatedA
    /\ \/ iso \in PiccStates /\ UNCHANGED iso
       \/ /\ iso = "ACT_ATS" /\ iso' = "PICC_RX"
          /\ \/ TransceiveStatus = "CRC"
             \/ TransceiveStatus = "NONE" /\ rx \notin {"PPSDID", "PPSRATE"}
    /\ isActivatedA' = TRUE
    /\ IF iso = "ACT_ATS" /\ TransceiveStatus = "NONE" /\ rx = "PPS"
       THEN InHandler("ats") /\ StartTransceive(TRUE) /\ taken' = TRUE
       ELSE InHandler("getRx") /\ UNCHANGED <<top, xcv, fifo, irq, taken>>
    /\ UNCHANGED <<field, auto, pta, reader, listen, rx, live, rxReady, txReady,
                   isFirstA3_Frame, ul_cwrite_page_set, cmd, started>>

\* The link was lost during the activation, or, in layer 3 with no data held,
\* in a transceive.
LinkLost ==
    /\ TransceiveStatus = "LINK_LOSS"
    /\ IF lm = "CARDEMU_4A" THEN ~isActivatedA /\ iso = "ACT_ATS"
                            ELSE lm \in Active /\ ~dataFlag /\ ~isFirstA3_Frame

\* Mutant: LINK_LOSS is ignored like the other errors.
HandleLinkLoss_Ignored ==
    /\ InHandler("getRx") /\ LinkLost
    /\ UNCHANGED <<rfalVars, flags, iso, cmd, started>>

\* Listen anew; each of the two places in the code clears flags of its own.
HandleLinkLoss ==
    /\ InHandler("getRx") /\ LinkLost
    /\ RestartListening
    /\ IF lm = "CARDEMU_4A"
       THEN isActivatedA' = FALSE /\ UNCHANGED <<rxReady, txReady>>
       ELSE rxReady' = FALSE /\ txReady' = FALSE /\ UNCHANGED isActivatedA
    /\ isFirstA3_Frame' = TRUE /\ ul_cwrite_page_set' = FALSE
    /\ started' = FALSE
    /\ UNCHANGED <<iso, cmd>>

\* A PPS for another DID is ignored and the receiver armed again.
ActivationRetry ==
    /\ InHandler("getRx")
    /\ lm = "CARDEMU_4A" /\ ~isActivatedA
    /\ iso = "ACT_ATS" /\ TransceiveStatus = "NONE" /\ rx = "PPSDID"
    /\ ReEnableRx
    /\ taken' = FALSE
    /\ UNCHANGED <<field, auto, pta, reader, listen, live, flags, iso, cmd, started>>

\* Nothing to do in this state, or not yet; or an error that is only logged
\* (ERR_WRONG_STATE before an activation, ERR_PROTO for a PPS that asks for a
\* bit rate other than 106, after which the receiver stays as it is).
HandleNothing ==
    /\ InHandler("getRx")
    /\ \/ lm \in Active /\ dataFlag /\ rx = None
       \/ /\ lm \in Active /\ ~dataFlag
          /\ isFirstA3_Frame \/ TransceiveStatus # "LINK_LOSS"
       \/ /\ lm = "CARDEMU_4A"
          /\ \/ isActivatedA \/ iso = "IDLE"
             \/ iso = "ACT_ATS" /\ TransceiveStatus = "BUSY"
             \/ iso = "ACT_ATS" /\ TransceiveStatus = "NONE" /\ rx = "PPSRATE"
       \/ lm \notin Active \cup {"CARDEMU_4A"}
    /\ UNCHANGED <<rfalVars, flags, iso, cmd, started>>

Handler ==
    \/ HandleRats \/ IgnoreRats \/ Halt \/ HandleA3 \/ HandleLinkLoss
    \/ Activate \/ ActivationRetry \/ HandleNothing

\* do { rfalWorker(); } while (rfalIsTransceiveInTx() && ERR_BUSY), for the ATS
\* and the PPS response (rfalTransceiveBlockingTx), and for a NAK (ceSetTx).
BlockingTx ==
    /\ pc \in {"ats", "nak"}
    /\ TxRxWorker
    /\ pc' = IF txrx' \in TxStates THEN pc ELSE IF pc = "ats" THEN "getRx" ELSE "sleep"
    /\ UNCHANGED <<reader, flags, iso, cmd, started>>

-----------------------------------------------------------------------------
(***************************************************************************)
(* ceGetRx                                                                 *)
(***************************************************************************)
InGetRx(next) == pc = "getRx" /\ pc' = next

\* ERR_NONE: the received command goes to processCmd.
HandOver ==
    /\ InGetRx("process")
    /\ cmd' = rx /\ taken' = TRUE
    /\ rxReady' = FALSE /\ txReady' = TRUE
    /\ UNCHANGED <<chip, reader, top, listen, xcv, rx, live, isActivatedA,
                   isFirstA3_Frame, ul_cwrite_page_set, started>>

\* Every error but BUSY and AGAIN: listen anew.
Relisten ==
    /\ InGetRx("worker")
    /\ RestartListening
    /\ ResetFlags
    /\ started' = FALSE
    /\ UNCHANGED cmd

\* Mutant: a status of ERR_NONE is taken for a command whatever was received.
GetRxA3_NoLengthCheck ==
    /\ ~isActivatedA
    /\ \/ (IF isFirstA3_Frame THEN rxReady ELSE TransceiveStatus = "NONE") /\ HandOver
       \/ ~isFirstA3_Frame /\ TransceiveStatus \in {"LINK_LOSS", "CRC"} /\ Relisten
       \/ /\ IF isFirstA3_Frame THEN ~rxReady ELSE TransceiveStatus = "BUSY"
          /\ InGetRx("worker")
          /\ UNCHANGED <<rfalVars, flags, cmd, started>>
    /\ UNCHANGED iso

\* Layer 3.
GetRxA3 ==
    /\ ~isActivatedA
    /\ \/ /\ IF isFirstA3_Frame THEN rxReady
                                ELSE TransceiveStatus = "NONE" /\ rx # None
          /\ HandOver
       \/ /\ ~isFirstA3_Frame /\ TransceiveStatus \in {"LINK_LOSS", "CRC"}
          /\ Relisten
       \/ /\ IF isFirstA3_Frame THEN ~rxReady
                                ELSE \/ TransceiveStatus = "BUSY"
                                     \/ TransceiveStatus = "NONE" /\ rx = None
          /\ InGetRx("worker")
          /\ UNCHANGED <<rfalVars, flags, cmd, started>>
    /\ UNCHANGED iso

\* Mutant: what was to be sent is still to be sent when it has been handed on.
IsoSend_Again(next) ==
    /\ InGetRx("worker")
    /\ StartTransceive(TRUE)
    /\ taken' = TRUE
    /\ UNCHANGED <<field, auto, pta, reader, listen, rx, live, flags, iso, cmd, started>>

\* A block of the PICC's own goes out, or the receiver is armed again; ceGetRx
\* sees BUSY (AGAIN for a chained block) and waits.
IsoSend(next) ==
    /\ InGetRx("worker")
    /\ StartTransceive(TRUE)
    /\ iso' = next /\ taken' = TRUE
    /\ UNCHANGED <<field, auto, pta, reader, listen, rx, live, flags, cmd, started>>

IsoListen ==
    /\ InGetRx("worker")
    /\ ReEnableRx
    /\ taken' = FALSE
    /\ UNCHANGED <<field, auto, pta, reader, listen, live, flags, iso, cmd, started>>

\* Mutant: gIsoDep.state is not set.
IsoWait_Stays(next) ==
    /\ InGetRx("worker")
    /\ UNCHANGED <<rfalVars, flags, iso, cmd, started>>

IsoWait(next) ==
    /\ InGetRx("worker")
    /\ iso' = next
    /\ UNCHANGED <<rfalVars, flags, cmd, started>>

\* Layer 4: rfalIsoDepDataExchangePICC.  Blocks are told apart by what they
\* make the PICC do: pass a command up, acknowledge a chained block, send the
\* last block again, send R(ACK) or S(DESELECT), or nothing.
\* PICC_SWTX is never met here: processCmd answers in the same pass.
GetRxA4 ==
    /\ isActivatedA
    /\ \/ iso = "PICC_TX" /\ IsoSend("PICC_RX")
       \/ /\ iso = "PICC_RX" /\ TransceiveStatus = "NONE"
          /\ \/ rx = "IBLOCK" /\ HandOver /\ iso' = "PICC_SWTX"
             \/ rx \in {"CHAIN", "RNAK"} /\ IsoSend("PICC_RX")
             \/ rx = "RETX" /\ IsoWait("PICC_TX")
             \/ rx = "DSL" /\ IsoSend("PICC_SDSL")
             \/ rx \notin {"IBLOCK", "CHAIN", "RNAK", "RETX", "DSL"} /\ IsoListen
       \/ iso = "PICC_RX" /\ TransceiveStatus = "CRC" /\ IsoListen
       \/ iso = "PICC_RX" /\ TransceiveStatus = "BUSY" /\ IsoWait("PICC_RX")
       \/ iso = "PICC_RX" /\ TransceiveStatus = "LINK_LOSS" /\ Relisten
             /\ UNCHANGED iso
       \/ iso = "PICC_SDSL" /\ txrx \in TxStates /\ IsoWait("PICC_SDSL")
       \/ iso = "PICC_SDSL" /\ txrx \notin TxStates /\ Relisten /\ iso' = "IDLE"

-----------------------------------------------------------------------------
(***************************************************************************)
(* processCmd / processCmdMifUL, and ceSetTx                               *)
(***************************************************************************)
Answer(reply, reset, page) == [reply |-> reply, reset |-> reset, page |-> page]

\* processCmd: layer 4 answers everything, layer 3 nothing.
processCmd ==
    IF lm = "CARDEMU_4A" THEN Answer(TRUE, FALSE, ul_cwrite_page_set)
                         ELSE Answer(FALSE, lm \in Active, ul_cwrite_page_set)

\* processCmdMifUL: READ stands for every command answered at once, CWRITE for
\* an accepted first half, DATA for a 16 byte frame, BAD for a command in the
\* wrong format or out of range.
processCmdMifUL ==
    IF lm \notin Active THEN Answer(FALSE, lm = "CARDEMU_4A", FALSE)
    ELSE IF cmd = "HLTA" THEN Answer(FALSE, TRUE, FALSE)
    ELSE IF ul_cwrite_page_set THEN Answer(TRUE, cmd # "DATA", FALSE)
    ELSE IF cmd = "READ" THEN Answer(TRUE, FALSE, FALSE)
    ELSE IF cmd = "CWRITE" THEN Answer(TRUE, FALSE, TRUE)
    ELSE IF cmd = "BAD" THEN Answer(TRUE, TRUE, FALSE)
    ELSE Answer(FALSE, TRUE, FALSE)

current_processCmdPtr == IF Mode = "UL" THEN processCmdMifUL ELSE processCmd

\* ceSetTx; txReady is always set here, ceGetRx has just set it.
Process ==
    LET a == current_processCmdPtr
    IN  /\ pc = "process"
        /\ rx' = None /\ taken' = FALSE
        /\ \/ /\ isActivatedA
              /\ iso' = IF a.reply THEN "PICC_TX" ELSE "PICC_RX"
              /\ rxReady' = FALSE /\ txReady' = FALSE
              /\ ul_cwrite_page_set' = a.page
              /\ pc' = "worker"
              /\ UNCHANGED <<top, xcv, fifo, irq, isFirstA3_Frame, started>>
           \/ /\ ~isActivatedA /\ a.reset
              /\ ul_cwrite_page_set' = a.page
              /\ IF a.reply
                 THEN pc' = "nak" /\ StartTransceive(TRUE) /\ started' = TRUE
                 ELSE pc' = "sleep" /\ UNCHANGED <<top, xcv, fifo, irq, started>>
              /\ UNCHANGED <<iso, rxReady, txReady, isFirstA3_Frame>>
           \/ /\ ~isActivatedA /\ ~a.reset
              /\ StartTransceive(a.reply) /\ started' = TRUE
              /\ isFirstA3_Frame' = FALSE
              /\ rxReady' = FALSE /\ txReady' = FALSE
              /\ ul_cwrite_page_set' = a.page
              /\ pc' = "worker"
              /\ UNCHANGED iso
        /\ cmd' = None
        /\ UNCHANGED <<field, auto, pta, reader, listen, live, isActivatedA>>

\* The end of ceSetTx's reset path: the tag sleeps after a NAK.
Sleep ==
    /\ pc = "sleep" /\ pc' = "worker"
    /\ SleepStart(irq, rx)
    /\ ResetFlags
    /\ UNCHANGED <<field, fifo, reader, xcv, ghosts, iso, cmd, started>>

\* The user button ends hydranfc_ce_common (ceStop); emulation is started again
\* from the console: rfalFieldOff, ceInit, rfalIsoDepInitialize, ceStart.
Button ==
    /\ pc = "worker"
    /\ RestartListening
    /\ ResetFlags
    /\ iso' = "IDLE" /\ started' = FALSE
    /\ UNCHANGED <<pc, cmd>>

-----------------------------------------------------------------------------
Firmware ==
    Worker \/ Handler \/ BlockingTx \/ GetRxA3 \/ GetRxA4 \/ Process \/ Sleep

\* A reader in no hurry sends the next frame, or drops the field, only when
\* nothing it has sent is unserved and it has heard the answer to the end.  A
\* frame that was read and not acted on in the same pass is not waited for.
Serving ==
    \/ fifo # None
    \/ pc # "worker" /\ rx # None /\ ~taken
    \/ pc \in {"process", "nak", "sleep"}
    \/ iso = "PICC_TX"
    \/ top = "TXRX" /\ txrx \in TxStates /\ "TXE" \notin irq
    \/ top = "TXRX" /\ txrx \in {"RX_READ_DATA", "RX_FAIL"}

Reader ==
    /\ \/ FieldOn \/ Poll \/ Select
       \/ (Hasty \/ ~Serving) /\ (FieldOff \/ \E f \in Frames : Send(f))
    /\ UNCHANGED ceVars

ChipTx == TxEnd /\ UNCHANGED ceVars

Next == Firmware \/ Button \/ Reader \/ ChipTx

Spec == Init /\ [][Next]_vars

\* ceRun is called in an endless loop and the chip ends what it transmits.
FairSpec == Spec /\ WF_vars(Firmware) /\ WF_vars(ChipTx)
-----------------------------------------------------------------------------
\* A reply never crosses a loss of the field: transmission starts only for a
\* command received in the present field period, although rfalTransceiveTx
\* erases the pending EOF first and only looks at the carrier afterwards.
ReplyInSession ==
    [][txrx = "TX_IDLE" /\ txrx' = "TX_WAIT_TXE" => live]_vars

\* A frame is acted on once: what the handler consumed (HLTA, RATS) or
\* processCmd was given never reaches processCmd again through a length that
\* was left standing in rxRcvdLen.
ActedOnce == [][pc = "getRx" /\ pc' = "process" => ~taken]_vars

\* processCmd is never run without a frame, nor with ceSetTx disarmed.
NoEmptyCommand == pc = "process" => cmd # None /\ txReady

\* ce.c: "We can not call rfalGetTransceiveStatus before we did the first call
\* rfalStartTransceive": whenever the code would look at the status, a
\* transceive has been started since it last began to listen.
StatusDefined == ~isFirstA3_Frame => started

\* rfalWorker() runs one machine only, by gRFAL.state: in every state the
\* listen machine must leave by itself, it is the one that runs.
Listening == {"POWER_OFF", "IDLE", "SLEEP_A", "READY_A", "READY_Ax"}
ListenServed == lm \in Listening => top = "LM"

\* isActivatedA, the listen state and the ISO-DEP state are three copies of one
\* fact, kept in two files: an activated card is in CARDEMU_4A with its ISO-DEP
\* machine past the activation.
ActivatedConsistent ==
    isActivatedA => lm = "CARDEMU_4A" /\ iso \in PiccStates

\* The chip answers the anticollision by itself exactly while the listen
\* machine takes nobody to be selected.
AutoMatchesState == auto <=> lm \in Listening

\* A compatibility write does not outlive the card's power
\* (hydranfc_v2_ce.c: "ul_cwrite_page_set must also be reset at power off").
PowerOffClean == lm = "POWER_OFF" => ~ul_cwrite_page_set

\* However a session ended, once the field is gone the card comes back to
\* answering the next reader.
Rearm == ~field ~> (auto \/ field)

\* A frame that arrives intact and asks for an answer gets one, unless the
\* field goes or listening begins anew.
Due ==
    /\ field /\ fifo # None /\ fifo.ok
    /\ \/ lm \in Active /\ Mode = "UL" /\ fifo.cmd \in {"READ", "CWRITE", "BAD"}
       \/ lm \in Active /\ Mode = "T4T" /\ fifo.cmd = "RATS"
       \/ isActivatedA /\ fifo.cmd \in {"IBLOCK", "CHAIN", "RNAK", "RETX", "DSL"}
Answered == Due ~> (txrx = "TX_WAIT_TXE" \/ ~field \/ lm = "IDLE")

\* No frame stays in the chip, no answer under way and no failed transceive in
\* the machine for good, whichever machine was running when it came.
Served == Serving ~> ~Serving

-----------------------------------------------------------------------------
\* Whose turn it is, read off the variables of three files: an answer is under
\* way, or owed, or a frame lies in rxBuf_ce that nobody has acted on.
Turn ==
    IF top = "TXRX" /\ txrx = "TX_WAIT_TXE" THEN "answer"
    ELSE IF \/ top = "TXRX" /\ txrx = "TX_IDLE"
            \/ cmd # None
            \/ iso = "PICC_TX" THEN "owed"
    ELSE IF rx # None /\ ~taken THEN "heard"
    ELSE "reader"

Talk == INSTANCE CardConversation WITH turn <- Turn, present <- live

\* The emulator speaks only when spoken to: through all its layers every frame
\* is acted on at most once and answered at most once, never while an answer is
\* under way, and only to a reader that is still there.
SpeaksWhenSpokenTo == Talk!TalkSpec
=============================================================================
