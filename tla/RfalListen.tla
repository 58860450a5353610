----------------------------- MODULE RfalListen -----------------------------
(***************************************************************************)
(* The RFAL listen mode and transceive machines as the card emulator uses  *)
(* them (hydranfc_v2/rfal/src/st25r3916/rfal_rfst25r3916.c), with the      *)
(* ST25R3916 and the reader in front of it as the environment.             *)
(*                                                                         *)
(* Interrupts accumulate in a software status word (st25r3916_irq.c) until *)
(* some state of some machine asks for them; the machines run only when    *)
(* rfalWorker() is called.  Everything the reader does is therefore seen   *)
(* late, in batches, and possibly by a different machine state than the    *)
(* one in which it happened.                                               *)
(*                                                                         *)
(* Only NFC-A is modelled: hydranfc_ce_common disables Type B and FeliCa.  *)
(***************************************************************************)
EXTENDS Naturals

CONSTANTS
    Cmd,        \* the frames a reader can send, as far as the firmware tells them apart
    None,       \* no frame (*rxRcvdLen = 0, empty FIFO)
    FirstOnly,  \* frames a reader sends only right after it selected the tag (RATS)
    Noise,      \* TRUE: frames may arrive with a bad CRC or parity
    Hasty       \* TRUE: the reader may drop the field while a frame is unserved

ASSUME CmdAssumption == None \notin Cmd /\ FirstOnly \subseteq Cmd
ASSUME ReaderAssumption == Noise \in BOOLEAN /\ Hasty \in BOOLEAN

VARIABLES
    field,      \* the reader's carrier is detected (st25r3916IsExtFieldOn)
    auto,       \* automatic NFC-A anticollision responses (d_106_ac_a clear)
    pta,        \* passive target state of the chip
    irq,        \* st25r3916interrupt.status: raised and not yet fetched
    fifo,       \* the frame in the chip's FIFO, or None
    pace,       \* worker passes that go by before the reader's next slow step
    fresh,      \* the reader selected the tag and has sent it nothing yet
    top,        \* gRFAL.state
    lm,         \* gRFAL.Lm.state
    dataFlag,   \* gRFAL.Lm.dataFlag
    br,         \* gRFAL.Lm.brDetected # RFAL_BR_KEEP
    txrx,       \* gRFAL.TxRx.state
    status,     \* gRFAL.TxRx.status
    rx,         \* rxBuf_ce up to *rxRcvdLen, or None when the length is 0
    live,       \* ghost: the last frame read was sent in the present field period
    taken       \* ghost: the frame in rx has already been acted on

reader == <<pace, fresh>>
chip   == <<field, auto, pta, irq, fifo>>
listen == <<lm, dataFlag, br>>
xcv    == <<txrx, status>>
ghosts == <<live, taken>>
rfalVars == <<field, auto, pta, irq, fifo, pace, fresh, top, lm, dataFlag,
              br, txrx, status, rx, live, taken>>

Irqs == {"EON", "EOF", "RXE_PTA", "WU_A", "WU_A_X", "RXE", "TXE"}
Frames == [cmd : Cmd, ok : BOOLEAN, live : BOOLEAN]
LmStates == {"NOT_INIT", "POWER_OFF", "IDLE", "READY_A", "ACTIVE_A",
             "SLEEP_A", "READY_Ax", "ACTIVE_Ax", "CARDEMU_4A"}
TxStates == {"TX_IDLE", "TX_WAIT_TXE", "TX_FAIL"}
RxStates == {"RX_IDLE", "RX_WAIT_RXS", "RX_READ_DATA", "RX_FAIL"}
Active == {"ACTIVE_A", "ACTIVE_Ax"}

\* Passes a reset of the field lasts, and passes a carrier must be up before
\* the reader polls (ISO 14443-3 asks for 5 ms each; an idle pass is 0.13 ms).
OffPasses == 2
OnPasses  == 1

ReaderTypeOK == pace \in 0..OffPasses /\ fresh \in BOOLEAN

ChipTypeOK ==
    /\ field \in BOOLEAN /\ auto \in BOOLEAN
    /\ pta \in {"sense", "ready", "active", "halt", "readyx", "activex"}
    /\ irq \subseteq Irqs
    /\ fifo \in Frames \cup {None}

ListenTypeOK ==
    /\ top \in {"LM", "TXRX"}
    /\ lm \in LmStates
    /\ dataFlag \in BOOLEAN /\ br \in BOOLEAN

XcvTypeOK ==
    /\ txrx \in {"IDLE"} \cup TxStates \cup RxStates
    /\ status \in {"BUSY", "NONE", "LINK_LOSS", "CRC"}
    /\ rx \in Cmd \cup {None}
    /\ live \in BOOLEAN /\ taken \in BOOLEAN

RfalTypeOK == ReaderTypeOK /\ ChipTypeOK /\ ListenTypeOK /\ XcvTypeOK

\* ceStart, with no reader in front of the antenna: rfalListenStart leaves
\* the machine in POWER_OFF.
RfalInit ==
    /\ field = FALSE /\ auto = TRUE /\ pta = "sense" /\ irq = {} /\ fifo = None
    /\ pace = 0 /\ fresh = FALSE
    /\ top = "LM" /\ lm = "POWER_OFF" /\ dataFlag = FALSE
    /\ br = FALSE /\ txrx = "IDLE" /\ status = "NONE" /\ rx = None
    /\ live = FALSE /\ taken = FALSE

-----------------------------------------------------------------------------
(***************************************************************************)
(* The reader and the chip.                                                *)
(***************************************************************************)
FieldOn ==
    /\ ~field /\ pace = 0
    /\ field' = TRUE
    /\ irq' = irq \cup {"EON"}
    /\ pace' = OnPasses
    /\ UNCHANGED <<auto, pta, fifo, fresh, top, listen, xcv, rx, ghosts>>

\* The carrier goes away: the chip falls back to Sense; what it had received
\* stays in the FIFO, and its interrupts stay pending, for the firmware.
FieldOff ==
    /\ field
    /\ field' = FALSE
    /\ pta' = "sense"
    /\ irq' = irq \cup {"EOF"}
    /\ fifo' = IF fifo = None THEN None ELSE [fifo EXCEPT !.live = FALSE]
    /\ pace' = OffPasses
    /\ fresh' = FALSE
    /\ live' = FALSE
    /\ UNCHANGED <<auto, top, listen, xcv, rx, taken>>

\* REQA/WUPA: with automatic responses on the chip answers by itself.
Poll ==
    /\ field /\ auto /\ pace = 0
    /\ pta \in {"sense", "halt"}
    /\ pta' = IF pta = "sense" THEN "ready" ELSE "readyx"
    /\ irq' = irq \cup {"RXE_PTA"}
    /\ pace' = OnPasses
    /\ UNCHANGED <<field, auto, fifo, fresh, top, listen, xcv, rx, ghosts>>

\* The last SELECT of the anticollision loop, also answered by the chip.
Select ==
    /\ field /\ auto /\ pace = 0
    /\ pta \in {"ready", "readyx"}
    /\ \/ pta = "ready"  /\ pta' = "active"  /\ irq' = irq \cup {"WU_A"}
       \/ pta = "readyx" /\ pta' = "activex" /\ irq' = irq \cup {"WU_A_X"}
    /\ fresh' = TRUE
    /\ UNCHANGED <<field, auto, fifo, pace, top, listen, xcv, rx, ghosts>>

\* A frame to the selected tag, at any time, an answer pending or not.
Send(f) ==
    /\ field /\ pta \in {"active", "activex"}
    /\ fifo = None
    /\ f.live /\ (f.ok \/ Noise) /\ (f.cmd \in FirstOnly => fresh)
    /\ fifo' = f
    /\ irq' = irq \cup {"RXE"}
    /\ fresh' = FALSE
    /\ pace' = OnPasses
    /\ UNCHANGED <<field, auto, pta, top, listen, xcv, rx, ghosts>>

\* The chip has clocked the whole answer out.
TxEnd ==
    /\ txrx = "TX_WAIT_TXE" /\ "TXE" \notin irq
    /\ irq' = irq \cup {"TXE"}
    /\ UNCHANGED <<field, auto, pta, fifo, reader, top, listen, xcv, rx,
                   ghosts>>

-----------------------------------------------------------------------------
(***************************************************************************)
(* Operations of the RFAL; none of them changes field.                     *)
(***************************************************************************)
\* rfalGetTransceiveStatus
TransceiveStatus == IF txrx = "IDLE" THEN status ELSE "BUSY"

\* rfalListenSetState(RFAL_LM_STATE_POWER_OFF), pending being what is left of
\* irq when it is called: CMD_STOP empties the FIFO, every interrupt of the
\* listen mask is dropped; RXE and TXE are not in it.  With the carrier up the
\* loop goes straight on to IDLE.
SetPowerOff(pending) ==
    /\ auto' = TRUE /\ pta' = "sense" /\ fifo' = None
    /\ irq' = pending \cap {"RXE", "TXE"}
    /\ lm' = IF field THEN "IDLE" ELSE "POWER_OFF"
    /\ dataFlag' = FALSE /\ br' = FALSE

\* rfalListenSetState(RFAL_LM_STATE_IDLE): only from ACTIVE_A is the chip sent
\* back to Sense.
SetIdle(pending) ==
    /\ IF lm = "ACTIVE_A" THEN auto' = TRUE /\ pta' = "sense"
                          ELSE UNCHANGED <<auto, pta>>
    /\ fifo' = None
    /\ irq' = pending
    /\ lm' = "IDLE" /\ dataFlag' = FALSE
    /\ UNCHANGED br

\* Mutant: rfalListenStart is forgotten after rfalListenStop.
RestartListening_StopOnly ==
    /\ lm' = "NOT_INIT" /\ auto' = FALSE
    /\ rx' = None /\ taken' = FALSE
    /\ UNCHANGED <<field, pta, irq, fifo, reader, top, dataFlag, br, xcv, live>>

\* rfalListenStop(); rfalListenStart(configMask, ...).  Neither touches the
\* transceive state.
RestartListening ==
    /\ top' = "LM"
    /\ rx' = None
    /\ SetPowerOff(irq \ {"TXE"})
    /\ taken' = FALSE
    /\ UNCHANGED <<field, reader, xcv, live>>

\* Mutants: gRFAL.state is not set back to LM; *rxLen is not cleared.
SleepStart_KeepsTop(pending, length) ==
    /\ pta' = "halt" /\ auto' = field
    /\ irq' = pending \cap {"RXE", "TXE"}
    /\ lm' = IF field THEN "SLEEP_A" ELSE "NOT_INIT"
    /\ rx' = IF field THEN None ELSE length
    /\ dataFlag' = FALSE /\ UNCHANGED <<top, br>>

SleepStart_KeepsLength(pending, length) ==
    /\ pta' = "halt" /\ auto' = field
    /\ irq' = pending \cap {"RXE", "TXE"}
    /\ lm' = IF field THEN "SLEEP_A" ELSE "NOT_INIT"
    /\ top' = "LM" /\ rx' = length
    /\ dataFlag' = FALSE /\ UNCHANGED br

\* rfalListenSleepStart(SLEEP_A), length being *rxRcvdLen when it is called.
\* With the carrier gone it stops listening altogether (rfalListenStop: no
\* automatic responses, NOT_INIT) and says so only in its return value,
\* ERR_LINK_LOSS; length, dataFlag and gRFAL.state then stay as they are.
SleepStart(pending, length) ==
    /\ pta' = "halt"
    /\ IF field
       THEN /\ auto' = TRUE
            /\ irq' = pending \cap {"RXE", "TXE"}
            /\ lm' = "SLEEP_A" /\ top' = "LM"
            /\ rx' = None /\ dataFlag' = FALSE
       ELSE /\ auto' = FALSE
            /\ irq' = pending \cap {"RXE"}
            /\ lm' = "NOT_INIT"
            /\ rx' = length
            /\ UNCHANGED <<top, dataFlag>>
    /\ UNCHANGED br

\* rfalPrepareTransceive: the FIFO is emptied and these interrupts are lost.
Prepare ==
    /\ fifo' = None
    /\ irq' = irq \ {"RXE", "EOF", "TXE"}

\* rfalStartTransceive: with a payload the worker transmits first, without one
\* the receiver is armed at once and the carrier is not looked at.
StartTransceive(payload) ==
    /\ top' = "TXRX"
    /\ status' = "BUSY"
    /\ IF payload THEN txrx' = "TX_IDLE" /\ UNCHANGED <<fifo, irq>>
                  ELSE txrx' = "RX_IDLE" /\ Prepare

\* rfalIsoDepReEnableRx: a blocking transceive without payload, whose single
\* worker call takes it from RX_IDLE to RX_WAIT_RXS.
ReEnableRx ==
    /\ top' = "TXRX" /\ status' = "BUSY" /\ txrx' = "RX_WAIT_RXS"
    /\ rx' = None
    /\ Prepare

-----------------------------------------------------------------------------
(***************************************************************************)
(* rfalRunListenModeWorker, one action per state.                          *)
(***************************************************************************)
\* A frame moves from the FIFO to rxBuf.
ReadFrame ==
    /\ rx' = IF fifo = None THEN None ELSE fifo.cmd
    /\ live' = IF fifo = None THEN FALSE ELSE fifo.live
    /\ taken' = FALSE
    /\ fifo' = None

\* POWER_OFF falls through to IDLE when the carrier has come up.  There EOF
\* wins unless data is held, then RXE, then RXE_PTA; all of them are fetched, so
\* the ones that lose are forgotten.  RXE counts only once a bit rate has been
\* detected (NFCT, which comes with the first RXE_PTA).  A bad frame is dropped
\* where it lies when the chip reports it; a bad CRC of NFC-A is found only when
\* the frame is in rxBuf, and its length stays there.
LmIdle ==
    LET start == lm = "POWER_OFF"
        seen  == irq \cap {"RXE", "EOF", "RXE_PTA"}
        rate  == (br /\ ~start) \/ "RXE_PTA" \in seen
        held  == dataFlag /\ ~start
        off   == "EOF" \in seen /\ ~held
    IN  /\ top = "LM"
        /\ lm = "IDLE" \/ (start /\ "EON" \in irq)
        /\ \/ /\ off
              /\ SetPowerOff(irq \ seen)
              /\ UNCHANGED <<rx, ghosts>>
           \/ /\ ~off /\ "RXE" \in seen /\ rate
              /\ IF fifo # None /\ ~fifo.ok
                 THEN /\ ReadFrame \/ (fifo' = None /\ UNCHANGED <<rx, ghosts>>)
                      /\ dataFlag' = held
                 ELSE ReadFrame /\ dataFlag' = TRUE
              /\ lm' = "IDLE" /\ UNCHANGED <<auto, pta>>
           \/ /\ ~off /\ ~("RXE" \in seen /\ rate)
              /\ IF "RXE_PTA" \in seen /\ pta # "sense"
                 THEN lm' = "READY_A" /\ dataFlag' = FALSE
                 ELSE lm' = "IDLE" /\ dataFlag' = held
              /\ UNCHANGED <<auto, pta, fifo, rx, ghosts>>
        /\ ~off => /\ br' = rate
                   /\ irq' = irq \ (seen \cup (IF start THEN {"EON"} ELSE {}))
        /\ UNCHANGED <<field, top, xcv>>

LmPowerOff ==
    /\ top = "LM" /\ lm = "POWER_OFF" /\ "EON" \notin irq
    /\ UNCHANGED <<chip, top, listen, xcv, rx, ghosts>>

\* Mutant: entering ACTIVE_A leaves the automatic responses on.
LmReady_KeepsAuto ==
    LET wake == IF lm = "READY_A" THEN "WU_A" ELSE "WU_A_X"
    IN  /\ top = "LM" /\ lm \in {"READY_A", "READY_Ax"}
        /\ IF wake \in irq
           THEN /\ lm' = IF lm = "READY_A" THEN "ACTIVE_A" ELSE "ACTIVE_Ax"
                /\ irq' = irq \ {wake} /\ UNCHANGED <<dataFlag, br>>
           ELSE UNCHANGED <<irq, listen>>
        /\ UNCHANGED <<field, auto, pta, fifo, top, xcv, rx, ghosts>>

\* READY_A and READY_Ax: the carrier or the selection, whichever was fetched.
LmReady ==
    LET wake == IF lm = "READY_A" THEN "WU_A" ELSE "WU_A_X"
        next == IF lm = "READY_A" THEN "ACTIVE_A" ELSE "ACTIVE_Ax"
    IN  /\ top = "LM" /\ lm \in {"READY_A", "READY_Ax"}
        /\ \/ "EOF" \in irq /\ SetPowerOff(irq)
           \/ /\ "EOF" \notin irq /\ wake \in irq
              /\ lm' = next /\ auto' = FALSE /\ dataFlag' = FALSE
              /\ irq' = irq \ {wake} /\ UNCHANGED <<pta, fifo, br>>
           \/ /\ {"EOF", wake} \cap irq = {}
              /\ UNCHANGED <<auto, pta, irq, fifo, listen>>
        /\ UNCHANGED <<field, top, xcv, rx, ghosts>>

\* ACTIVE_A and ACTIVE_Ax: the carrier, then a frame.  A bad frame sends the
\* tag back to IDLE, or to SLEEP_A when that is where it woke up from.
LmActive ==
    LET good == fifo # None /\ fifo.ok
    IN  /\ top = "LM" /\ lm \in Active
        /\ \/ /\ "EOF" \in irq
              /\ SetPowerOff(irq \ {"RXE"}) /\ UNCHANGED <<top, rx, ghosts>>
           \/ /\ "EOF" \notin irq /\ "RXE" \in irq /\ good
              /\ ReadFrame /\ dataFlag' = TRUE
              /\ irq' = irq \ {"RXE"} /\ UNCHANGED <<auto, pta, lm, br, top>>
           \/ /\ "EOF" \notin irq /\ "RXE" \in irq /\ ~good
              /\ IF lm = "ACTIVE_A"
                 THEN SetIdle(irq \ {"RXE"}) /\ rx' = None /\ UNCHANGED top
                 ELSE SleepStart(irq \ {"RXE"}, None) /\ fifo' = None
              /\ UNCHANGED ghosts
           \/ /\ {"EOF", "RXE"} \cap irq = {}
              /\ UNCHANGED <<auto, pta, irq, fifo, listen, top, rx, ghosts>>
        /\ UNCHANGED <<field, xcv>>

\* SLEEP_A: the carrier, then a stray frame, then a WUPA.
LmSleep ==
    LET seen == irq \cap {"RXE", "EOF", "RXE_PTA"}
        rate == br \/ "RXE_PTA" \in seen
        off  == "EOF" \in seen
    IN  /\ top = "LM" /\ lm = "SLEEP_A"
        /\ \/ off /\ SetPowerOff(irq \ seen) /\ UNCHANGED rx
           \/ /\ ~off /\ "RXE" \in seen /\ rate
              /\ rx' = None /\ fifo' = None
              /\ UNCHANGED <<auto, pta, lm, dataFlag>>
           \/ /\ ~off /\ ~("RXE" \in seen /\ rate)
              /\ IF "RXE_PTA" \in seen /\ pta \in {"readyx", "activex"}
                 THEN lm' = "READY_Ax" /\ dataFlag' = FALSE
                 ELSE UNCHANGED <<lm, dataFlag>>
              /\ UNCHANGED <<auto, pta, fifo, rx>>
        /\ ~off => br' = rate /\ irq' = irq \ seen
        /\ UNCHANGED <<field, top, xcv, ghosts>>

\* CARDEMU_4A is left to the caller; NOT_INIT is an error nobody reads.
LmNothing ==
    /\ top = "LM" /\ lm \in {"CARDEMU_4A", "NOT_INIT"}
    /\ UNCHANGED <<chip, top, listen, xcv, rx, ghosts>>

-----------------------------------------------------------------------------
(***************************************************************************)
(* rfalRunTransceiveWorker: rfalTransceiveTx and rfalTransceiveRx.         *)
(***************************************************************************)
\* Mutants: the carrier is not looked at; a listener reports the error of a
\* poller that never got its field up.
TxStart_NoFieldCheck ==
    /\ txrx = "TX_IDLE"
    /\ Prepare
    /\ txrx' = "TX_WAIT_TXE" /\ UNCHANGED <<status, rx, ghosts>>

TxStart_PollerError ==
    /\ txrx = "TX_IDLE"
    /\ Prepare
    /\ IF field THEN txrx' = "TX_WAIT_TXE" /\ UNCHANGED status
                ELSE txrx' = "TX_FAIL" /\ status' = "RF_COLLISION"
    /\ UNCHANGED <<rx, ghosts>>

\* TX_IDLE .. TX_TRANSMIT in one call: prepare, look at the carrier, transmit.
TxStart ==
    /\ txrx = "TX_IDLE"
    /\ Prepare
    /\ IF field THEN txrx' = "TX_WAIT_TXE" /\ UNCHANGED status
                ELSE txrx' = "TX_FAIL" /\ status' = "LINK_LOSS"
    /\ UNCHANGED <<rx, ghosts>>

TxWait ==
    /\ txrx = "TX_WAIT_TXE"
    /\ IF "TXE" \in irq THEN txrx' = "RX_IDLE" /\ irq' = irq \ {"TXE"}
                        ELSE UNCHANGED <<txrx, irq>>
    /\ UNCHANGED <<fifo, status, rx, ghosts>>

RxArm ==
    /\ txrx = "RX_IDLE"
    /\ txrx' = "RX_WAIT_RXS" /\ rx' = None
    /\ UNCHANGED <<irq, fifo, status, ghosts>>

\* RX_WAIT_RXS .. RX_DONE: a carrier lost together with a good frame loses the
\* frame; a bad frame is read out on the next call.
RxWait ==
    /\ txrx = "RX_WAIT_RXS"
    /\ \/ /\ "RXE" \in irq /\ (fifo = None \/ ~fifo.ok)
          /\ txrx' = "RX_READ_DATA" /\ status' = "CRC"
          /\ UNCHANGED <<fifo, rx, ghosts>>
       \/ /\ "RXE" \in irq /\ fifo # None /\ fifo.ok /\ "EOF" \notin irq
          /\ ReadFrame /\ txrx' = "IDLE" /\ status' = "NONE"
       \/ /\ "EOF" \in irq /\ ("RXE" \in irq => fifo # None /\ fifo.ok)
          /\ txrx' = "RX_FAIL" /\ status' = "LINK_LOSS"
          /\ UNCHANGED <<fifo, rx, ghosts>>
       \/ /\ {"EOF", "RXE"} \cap irq = {}
          /\ UNCHANGED <<fifo, txrx, status, rx, ghosts>>
    /\ irq' = irq \ {"RXE", "EOF"}

RxReadBad ==
    /\ txrx = "RX_READ_DATA"
    /\ ReadFrame /\ txrx' = "RX_FAIL"
    /\ UNCHANGED <<irq, status>>

\* Mutant: RFAL_TXRX_STATE_IDLE is not set.
TxRxFail_Stays ==
    /\ txrx \in {"TX_FAIL", "RX_FAIL"}
    /\ UNCHANGED <<irq, fifo, xcv, rx, ghosts>>

TxRxFail ==
    /\ txrx \in {"TX_FAIL", "RX_FAIL"}
    /\ txrx' = "IDLE"
    /\ UNCHANGED <<irq, fifo, status, rx, ghosts>>

TxRxRest ==
    /\ txrx = "IDLE"
    /\ UNCHANGED <<irq, fifo, xcv, rx, ghosts>>

TxRxWorker ==
    /\ top = "TXRX"
    /\ TxStart \/ TxWait \/ RxArm \/ RxWait \/ RxReadBad \/ TxRxFail \/ TxRxRest
    /\ UNCHANGED <<field, auto, pta, top, listen>>

\* rfalWorker
RfalWorker ==
    \/ LmPowerOff \/ LmIdle \/ LmReady \/ LmActive \/ LmSleep \/ LmNothing
    \/ TxRxWorker
=============================================================================
