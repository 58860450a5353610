----------------------- MODULE CardConversationProofs -----------------------
(***************************************************************************)
(* Proofs that the emulator answers only the reader it heard, that it      *)
(* implements CardConversation and acts on no frame twice, for every set   *)
(* of commands: layer 3 and layer 4 for every reader CardEmulation allows, *)
(* the Mifare Ultralight for the readers it is right for.                  *)
(***************************************************************************)
EXTENDS CardEmulationProofs

-----------------------------------------------------------------------------
(***************************************************************************)
(* A reply stays in its session.  The field can be back only OffPasses     *)
(* worker passes after it went, and a frame is answered or given up within *)
(* that time of being read.                                                *)
(***************************************************************************)
\* The last frame was sent in this field period; or the field is gone, and is
\* not back before the worker has run n times.
Fresh(n) == live \/ (~field /\ pace >= n)

\* A frame that was in the chip when the field went is not read as a good one
\* in a session: the EOF is still pending with it.
LateSeen ==
    "RXE" \in irq /\ fifo # None /\ ~fifo.live
        => "EOF" \in irq \/ lm \in {"SLEEP_A", "NOT_INIT"}

\* A failed transceive has an error to report.
FailedKnown == txrx \in {"RX_READ_DATA", "TX_FAIL", "RX_FAIL"} => status # "NONE"

\* A frame lies in rxBuf_ce that ceHandler or ceGetRx would act on.
Held ==
    /\ rx # None
    /\ \/ lm \in Active /\ dataFlag /\ isFirstA3_Frame
       \/ lm \in Active /\ ~isFirstA3_Frame /\ TransceiveStatus = "NONE"
       \/ /\ lm = "CARDEMU_4A" /\ top = "TXRX" /\ TransceiveStatus = "NONE"
          /\ ~(iso = "ACT_ATS" /\ rx = "PPSRATE")

\* It is acted on in the pass in which it was read.
HeldFresh ==
    /\ Held /\ iso # "PICC_TX" => pc \notin {"worker", "nak", "sleep"} /\ Fresh(2)
    /\ pc = "getRx" /\ Held => lm \in Active \/ isActivatedA

\* In layer 3 the first frame reaches ceGetRx through rxReady, and is not
\* looked for in the transceive; later ones leave nothing behind there.
FirstReady ==
    /\ pc = "getRx" /\ isFirstA3_Frame =>
         (rxReady <=> lm \in Active /\ dataFlag /\ rx # None)
    /\ top = "TXRX" /\ lm \in Active /\ pc \notin {"nak", "sleep"} => ~isFirstA3_Frame
    /\ pc = "worker" /\ ~isFirstA3_Frame /\ TransceiveStatus = "NONE" => rx = None

\* In CARDEMU_4A the transceive runs unless the RATS was refused.
Refused ==
    lm = "CARDEMU_4A" => IF top = "LM" THEN rx = "RATSDID" ELSE iso # "IDLE"

\* The answer of processCmd, or a block to be sent again, waits one pass.
Queued ==
    iso = "PICC_TX" =>
        /\ pc \in {"worker", "handler", "getRx"}
        /\ isActivatedA /\ top = "TXRX" /\ txrx = "IDLE"
        /\ Fresh(IF pc = "worker" THEN 2 ELSE 1)

\* A command in processCmd, and an answer handed to the transceive.
Commanded ==
    pc = "process" => /\ lm \in Active \/ isActivatedA => Fresh(2)
                      /\ isActivatedA => top = "TXRX" /\ txrx = "IDLE"
Launched ==
    /\ top = "TXRX" /\ txrx = "TX_IDLE" => pc \in {"worker", "ats", "nak"} /\ Fresh(1)
    /\ pc \in {"ats", "nak"} => top = "TXRX" /\ txrx \in TxStates
    /\ pc = "ats" => lm = "CARDEMU_4A"
    /\ pc \in {"nak", "sleep"} => rx = None

Timely ==
    /\ LateSeen /\ FailedKnown /\ HeldFresh /\ FirstReady /\ Refused
    /\ Queued /\ Commanded /\ Launched

\* The reader, and the end of a transmission.
LEMMA ReaderTimely ==
  ASSUME IInv, Timely, Reader \/ ChipTx
  PROVE  Timely'
<1> USE DEF Timely, IInv, TypeOK, RfalTypeOK, ReaderTypeOK, OffPasses,
         XcvTypeOK, CeTypeOK, ListenTypeOK, Active, TxStates, RxStates,
         PiccStates
<1>1. CASE ceVars' = ceVars /\ FieldOn
  <2> USE <1>1 DEF FieldOn, ceVars, flags, listen, xcv, ghosts, OnPasses
  <2>1. LateSeen'  BY DEF LateSeen
  <2>2. FailedKnown'  BY DEF FailedKnown
  <2>3. HeldFresh'  BY DEF HeldFresh, Held, Fresh, TransceiveStatus
  <2>4. FirstReady'  BY DEF FirstReady, TransceiveStatus
  <2>5. Refused'  BY DEF Refused
  <2>6. Queued'  BY DEF Queued, Fresh
  <2>7. Commanded'  BY DEF Commanded, Fresh
  <2>8. Launched'  BY DEF Launched, Fresh
  <2> QED  BY <2>1, <2>2, <2>3, <2>4, <2>5, <2>6, <2>7, <2>8
<1>2. CASE ceVars' = ceVars /\ FieldOff
  <2> USE <1>2 DEF FieldOff, ceVars, flags, listen, xcv, ghosts, OnPasses
  <2>1. LateSeen'  BY DEF LateSeen
  <2>2. FailedKnown'  BY DEF FailedKnown
  <2>3. HeldFresh'  BY DEF HeldFresh, Held, Fresh, TransceiveStatus
  <2>4. FirstReady'  BY DEF FirstReady, TransceiveStatus
  <2>5. Refused'  BY DEF Refused
  <2>6. Queued'  BY DEF Queued, Fresh
  <2>7. Commanded'  BY DEF Commanded, Fresh
  <2>8. Launched'  BY DEF Launched, Fresh
  <2> QED  BY <2>1, <2>2, <2>3, <2>4, <2>5, <2>6, <2>7, <2>8
<1>3. CASE ceVars' = ceVars /\ Poll
  <2> USE <1>3 DEF Poll, ceVars, flags, listen, xcv, ghosts, OnPasses
  <2>1. LateSeen'  BY DEF LateSeen
  <2>2. FailedKnown'  BY DEF FailedKnown
  <2>3. HeldFresh'  BY DEF HeldFresh, Held, Fresh, TransceiveStatus
  <2>4. FirstReady'  BY DEF FirstReady, TransceiveStatus
  <2>5. Refused'  BY DEF Refused
  <2>6. Queued'  BY DEF Queued, Fresh
  <2>7. Commanded'  BY DEF Commanded, Fresh
  <2>8. Launched'  BY DEF Launched, Fresh
  <2> QED  BY <2>1, <2>2, <2>3, <2>4, <2>5, <2>6, <2>7, <2>8
<1>4. CASE ceVars' = ceVars /\ Select
  <2> USE <1>4 DEF Select, ceVars, flags, listen, xcv, ghosts, OnPasses
  <2>1. LateSeen'  BY DEF LateSeen
  <2>2. FailedKnown'  BY DEF FailedKnown
  <2>3. HeldFresh'  BY DEF HeldFresh, Held, Fresh, TransceiveStatus
  <2>4. FirstReady'  BY DEF FirstReady, TransceiveStatus
  <2>5. Refused'  BY DEF Refused
  <2>6. Queued'  BY DEF Queued, Fresh
  <2>7. Commanded'  BY DEF Commanded, Fresh
  <2>8. Launched'  BY DEF Launched, Fresh
  <2> QED  BY <2>1, <2>2, <2>3, <2>4, <2>5, <2>6, <2>7, <2>8
<1>5. CASE ceVars' = ceVars /\ \E f \in Frames : Send(f)
  <2> USE <1>5 DEF Send, ceVars, flags, listen, xcv, ghosts, OnPasses
  <2>1. LateSeen'  BY DEF LateSeen
  <2>2. FailedKnown'  BY DEF FailedKnown
  <2>3. HeldFresh'  BY DEF HeldFresh, Held, Fresh, TransceiveStatus
  <2>4. FirstReady'  BY DEF FirstReady, TransceiveStatus
  <2>5. Refused'  BY DEF Refused
  <2>6. Queued'  BY DEF Queued, Fresh
  <2>7. Commanded'  BY DEF Commanded, Fresh
  <2>8. Launched'  BY DEF Launched, Fresh
  <2> QED  BY <2>1, <2>2, <2>3, <2>4, <2>5, <2>6, <2>7, <2>8
<1>6. CASE ceVars' = ceVars /\ TxEnd
  <2> USE <1>6 DEF TxEnd, reader, ceVars, flags, listen, xcv, ghosts, OnPasses
  <2>1. LateSeen'  BY DEF LateSeen
  <2>2. FailedKnown'  BY DEF FailedKnown
  <2>3. HeldFresh'  BY DEF HeldFresh, Held, Fresh, TransceiveStatus
  <2>4. FirstReady'  BY DEF FirstReady, TransceiveStatus
  <2>5. Refused'  BY DEF Refused
  <2>6. Queued'  BY DEF Queued
  <2>7. Commanded'  BY DEF Commanded, Fresh
  <2>8. Launched'  BY DEF Launched
  <2> QED  BY <2>1, <2>2, <2>3, <2>4, <2>5, <2>6, <2>7, <2>8
<1> QED  BY <1>1, <1>2, <1>3, <1>4, <1>5, <1>6 DEF Reader, ChipTx

\* ceHandler.
LEMMA HandlerTimely ==
  ASSUME IInv, Timely, Handler
  PROVE  Timely'
<1> USE DEF Timely, IInv, TypeOK, RfalTypeOK, ReaderTypeOK, OffPasses,
         XcvTypeOK, CeTypeOK, ListenTypeOK, Active, TxStates, RxStates,
         PiccStates, InHandler
<1>1. CASE HandleRats
  <2> USE <1>1 DEF HandleRats, StartActivation, Rats, level4_enabled,
           StartTransceive, Prepare, Staged, FirstReady, chip, reader, flags,
           rfalVars, listen, xcv, ghosts
  <2>1. LateSeen'  BY DEF LateSeen
  <2>2. FailedKnown'  BY DEF FailedKnown
  <2>3. HeldFresh'  BY DEF HeldFresh, Held, TransceiveStatus
  <2>4. FirstReady'  BY DEF FirstReady
  <2>5. Refused'  BY DEF Refused
  <2>6. Queued'  BY DEF Queued
  <2>7. Commanded'  BY DEF Commanded
  <2>8. Launched'  BY NoneAssumption DEF Launched, Fresh, Held, HeldFresh,
           Queued
  <2> QED  BY <2>1, <2>2, <2>3, <2>4, <2>5, <2>6, <2>7, <2>8
<1>2. CASE IgnoreRats
  <2> USE <1>2 DEF IgnoreRats, SetIdle, SleepStart, Rats, chip, reader, flags,
           rfalVars, listen, xcv, ghosts
  <2>1. LateSeen'  BY DEF LateSeen
  <2>2. FailedKnown'  BY DEF FailedKnown
  <2>3. HeldFresh'  BY DEF HeldFresh, Held
  <2>4. FirstReady'  BY DEF FirstReady, Staged
  <2>5. Refused'  BY DEF Refused
  <2>6. Queued'  BY DEF Queued, Consistent, ActivatedConsistent
  <2>7. Commanded'  BY DEF Commanded
  <2>8. Launched'  BY DEF Launched
  <2> QED  BY <2>1, <2>2, <2>3, <2>4, <2>5, <2>6, <2>7, <2>8
<1>3. CASE Halt
  <2> USE <1>3 DEF Halt, SleepStart, chip, reader, flags, rfalVars, listen,
           xcv, ghosts
  <2>1. LateSeen'  BY DEF LateSeen
  <2>2. FailedKnown'  BY DEF FailedKnown
  <2>3. HeldFresh'  BY DEF HeldFresh, Held
  <2>4. FirstReady'  BY DEF FirstReady, Staged
  <2>5. Refused'  BY DEF Refused
  <2>6. Queued'  BY DEF Queued, Consistent, ActivatedConsistent
  <2>7. Commanded'  BY DEF Commanded
  <2>8. Launched'  BY DEF Launched
  <2> QED  BY <2>1, <2>2, <2>3, <2>4, <2>5, <2>6, <2>7, <2>8
<1>4. CASE HandleA3
  <2> USE <1>4 DEF HandleA3, Rats, chip, reader, flags, rfalVars, listen, xcv,
           ghosts
  <2>1. LateSeen'  BY DEF LateSeen
  <2>2. FailedKnown'  BY DEF FailedKnown
  <2>3. HeldFresh'  BY DEF HeldFresh, Held, Fresh, TransceiveStatus
  <2>4. FirstReady'  BY DEF FirstReady
  <2>5. Refused'  BY DEF Refused
  <2>6. Queued'  BY DEF Queued, Consistent, ActivatedConsistent
  <2>7. Commanded'  BY DEF Commanded
  <2>8. Launched'  BY DEF Launched
  <2> QED  BY <2>1, <2>2, <2>3, <2>4, <2>5, <2>6, <2>7, <2>8
<1>5. CASE HandleLinkLoss
  <2> USE <1>5 DEF HandleLinkLoss, LinkLost, RestartListening, SetPowerOff,
           chip, reader, flags, rfalVars, listen, xcv, ghosts
  <2>1. LateSeen'  BY DEF LateSeen
  <2>2. FailedKnown'  BY DEF FailedKnown
  <2>3. HeldFresh'  BY DEF HeldFresh, Held
  <2>4. FirstReady'  BY DEF FirstReady, Staged
  <2>5. Refused'  BY DEF Refused
  <2>6. Queued'  BY DEF Queued, Consistent, ActivatedConsistent
  <2>7. Commanded'  BY DEF Commanded
  <2>8. Launched'  BY DEF Launched
  <2> QED  BY <2>1, <2>2, <2>3, <2>4, <2>5, <2>6, <2>7, <2>8
<1>6. CASE Activate
  <2> USE <1>6 DEF Activate, StartTransceive, chip, reader, flags, rfalVars,
           listen, xcv, ghosts
  <2>1. LateSeen'  BY DEF LateSeen
  <2>2. FailedKnown'  BY DEF FailedKnown
  <2>3. HeldFresh'  BY DEF HeldFresh, Held, Fresh, TransceiveStatus
  <2>4. FirstReady'  BY DEF FirstReady, Staged
  <2>5. Refused'  BY DEF Refused
  <2>6. Queued'  BY DEF Queued
  <2>7. Commanded'  BY DEF Commanded
  <2>8. Launched'  BY NoneAssumption DEF Launched, Fresh, Held, HeldFresh,
           Refused
  <2> QED  BY <2>1, <2>2, <2>3, <2>4, <2>5, <2>6, <2>7, <2>8
<1>7. CASE ActivationRetry
  <2> USE <1>7 DEF ActivationRetry, ReEnableRx, Prepare, chip, reader, flags,
           rfalVars, listen, xcv, ghosts
  <2>1. LateSeen'  BY DEF LateSeen
  <2>2. FailedKnown'  BY DEF FailedKnown
  <2>3. HeldFresh'  BY DEF HeldFresh, Held
  <2>4. FirstReady'  BY DEF FirstReady, Staged
  <2>5. Refused'  BY DEF Refused
  <2>6. Queued'  BY DEF Queued
  <2>7. Commanded'  BY DEF Commanded
  <2>8. Launched'  BY DEF Launched
  <2> QED  BY <2>1, <2>2, <2>3, <2>4, <2>5, <2>6, <2>7, <2>8
<1>8. CASE HandleNothing
  <2> USE <1>8 DEF HandleNothing, chip, reader, flags, rfalVars, listen, xcv,
           ghosts
  <2>1. LateSeen'  BY DEF LateSeen
  <2>2. FailedKnown'  BY DEF FailedKnown
  <2>3. HeldFresh'  BY DEF HeldFresh, Held, Fresh, TransceiveStatus,
           Refused
  <2>4. FirstReady'  BY DEF FirstReady, Staged
  <2>5. Refused'  BY DEF Refused
  <2>6. Queued'  BY DEF Queued, Fresh
  <2>7. Commanded'  BY DEF Commanded
  <2>8. Launched'  BY DEF Launched
  <2> QED  BY <2>1, <2>2, <2>3, <2>4, <2>5, <2>6, <2>7, <2>8
<1> QED  BY <1>1, <1>2, <1>3, <1>4, <1>5, <1>6, <1>7, <1>8 DEF Handler

\* ceGetRx.
LEMMA GetRxTimely ==
  ASSUME IInv, Timely, GetRxA3 \/ GetRxA4
  PROVE  Timely'
<1> USE DEF Timely, IInv, TypeOK, RfalTypeOK, ReaderTypeOK, OffPasses,
         XcvTypeOK, CeTypeOK, ListenTypeOK, Active, TxStates, RxStates,
         PiccStates, InGetRx
<1>1. CASE /\ ~isActivatedA /\ HandOver /\ iso' = iso
           /\ IF isFirstA3_Frame THEN rxReady
                                 ELSE TransceiveStatus = "NONE" /\ rx # None
  <2> USE <1>1 DEF HandOver, chip, reader, flags, rfalVars, listen, xcv,
           ghosts
  <2>1. LateSeen'  BY DEF LateSeen
  <2>2. FailedKnown'  BY DEF FailedKnown
  <2>3. HeldFresh'  BY DEF HeldFresh, Held, Fresh, FirstReady
  <2>4. FirstReady'  BY DEF FirstReady
  <2>5. Refused'  BY DEF Refused
  <2>6. Queued'  BY DEF Queued
  <2>7. Commanded'  BY DEF Commanded, Fresh, Held, HeldFresh, FirstReady,
           Queued
  <2>8. Launched'  BY DEF Launched
  <2> QED  BY <2>1, <2>2, <2>3, <2>4, <2>5, <2>6, <2>7, <2>8
<1>2. CASE Relisten /\ iso' \in {"IDLE", iso} /\ iso # "PICC_TX"
  <2> USE <1>2 DEF Relisten, ResetFlags, RestartListening, SetPowerOff, chip,
           reader, flags, rfalVars, listen, xcv, ghosts
  <2>1. LateSeen'  BY DEF LateSeen
  <2>2. FailedKnown'  BY DEF FailedKnown
  <2>3. HeldFresh'  BY DEF HeldFresh, Held
  <2>4. FirstReady'  BY DEF FirstReady
  <2>5. Refused'  BY DEF Refused
  <2>6. Queued'  BY DEF Queued
  <2>7. Commanded'  BY DEF Commanded
  <2>8. Launched'  BY DEF Launched
  <2> QED  BY <2>1, <2>2, <2>3, <2>4, <2>5, <2>6, <2>7, <2>8
<1>3. CASE /\ ~isActivatedA /\ InGetRx("worker")
           /\ IF isFirstA3_Frame THEN ~rxReady
                                 ELSE \/ TransceiveStatus = "BUSY"
                                      \/ TransceiveStatus = "NONE" /\ rx = None
           /\ UNCHANGED <<rfalVars, flags, iso, cmd, started>>
  <2> USE <1>3 DEF chip, reader, flags, rfalVars, listen, xcv, ghosts
  <2>1. LateSeen'  BY DEF LateSeen
  <2>2. FailedKnown'  BY DEF FailedKnown
  <2>3. HeldFresh'  BY DEF HeldFresh, Held, TransceiveStatus, FirstReady
  <2>4. FirstReady'  BY DEF FirstReady, TransceiveStatus
  <2>5. Refused'  BY DEF Refused
  <2>6. Queued'  BY DEF Queued
  <2>7. Commanded'  BY DEF Commanded
  <2>8. Launched'  BY DEF Launched
  <2> QED  BY <2>1, <2>2, <2>3, <2>4, <2>5, <2>6, <2>7, <2>8
<1>4. CASE /\ isActivatedA /\ HandOver /\ iso = "PICC_RX" /\ iso' = "PICC_SWTX"
           /\ TransceiveStatus = "NONE" /\ rx = "IBLOCK"
  <2> USE <1>4 DEF HandOver, chip, reader, flags, rfalVars, listen, xcv,
           ghosts
  <2>1. LateSeen'  BY DEF LateSeen
  <2>2. FailedKnown'  BY DEF FailedKnown
  <2>3. HeldFresh'  BY DEF HeldFresh, Held, Fresh
  <2>4. FirstReady'  BY DEF FirstReady
  <2>5. Refused'  BY DEF Refused
  <2>6. Queued'  BY DEF Queued
  <2>7. Commanded'  BY NoneAssumption DEF Commanded, Fresh, Held,
           HeldFresh, TransceiveStatus, Refused, Consistent,
           ActivatedConsistent
  <2>8. Launched'  BY DEF Launched
  <2> QED  BY <2>1, <2>2, <2>3, <2>4, <2>5, <2>6, <2>7, <2>8
<1>5. CASE /\ isActivatedA /\ \E s \in {"PICC_RX", "PICC_SDSL"} : IsoSend(s)
           /\ \/ iso = "PICC_TX"
              \/ /\ iso = "PICC_RX" /\ TransceiveStatus = "NONE"
                 /\ rx \in {"CHAIN", "RNAK", "DSL"}
  <2> USE <1>5 DEF IsoSend, StartTransceive, Consistent, ActivatedConsistent,
           chip, reader, flags, rfalVars, listen, xcv, ghosts
  <2>1. LateSeen'  BY DEF LateSeen
  <2>2. FailedKnown'  BY DEF FailedKnown
  <2>3. HeldFresh'  BY DEF HeldFresh, Held, TransceiveStatus
  <2>4. FirstReady'  BY DEF FirstReady, TransceiveStatus
  <2>5. Refused'  BY DEF Refused
  <2>6. Queued'  BY DEF Queued
  <2>7. Commanded'  BY DEF Commanded
  <2>8. Launched'  BY NoneAssumption DEF Launched, Fresh, Held,
           HeldFresh, Refused, Queued
  <2> QED  BY <2>1, <2>2, <2>3, <2>4, <2>5, <2>6, <2>7, <2>8
<1>6. CASE isActivatedA /\ IsoListen /\ iso = "PICC_RX"
  <2> USE <1>6 DEF IsoListen, ReEnableRx, Prepare, chip, reader, flags,
           rfalVars, listen, xcv, ghosts
  <2>1. LateSeen'  BY DEF LateSeen
  <2>2. FailedKnown'  BY DEF FailedKnown
  <2>3. HeldFresh'  BY DEF HeldFresh, Held
  <2>4. FirstReady'  BY DEF FirstReady, Consistent, ActivatedConsistent
  <2>5. Refused'  BY DEF Refused
  <2>6. Queued'  BY DEF Queued
  <2>7. Commanded'  BY DEF Commanded
  <2>8. Launched'  BY DEF Launched
  <2> QED  BY <2>1, <2>2, <2>3, <2>4, <2>5, <2>6, <2>7, <2>8
<1>7. CASE /\ isActivatedA /\ IsoWait("PICC_TX") /\ iso = "PICC_RX"
           /\ TransceiveStatus = "NONE" /\ rx = "RETX"
  <2> USE <1>7 DEF IsoWait, chip, reader, flags, rfalVars, listen, xcv, ghosts
  <2>1. LateSeen'  BY DEF LateSeen
  <2>2. FailedKnown'  BY DEF FailedKnown
  <2>3. HeldFresh'  BY DEF HeldFresh
  <2>4. FirstReady'  BY DEF FirstReady, Staged, Consistent,
           ActivatedConsistent
  <2>5. Refused'  BY DEF Refused
  <2>6. Queued'  BY NoneAssumption DEF Queued, Fresh, Consistent,
           ActivatedConsistent, Held, HeldFresh, TransceiveStatus, Refused
  <2>7. Commanded'  BY DEF Commanded
  <2>8. Launched'  BY DEF Launched
  <2> QED  BY <2>1, <2>2, <2>3, <2>4, <2>5, <2>6, <2>7, <2>8
<1>8. CASE /\ isActivatedA /\ IsoWait(iso) /\ iso \in {"PICC_RX", "PICC_SDSL"}
           /\ TransceiveStatus # "NONE"
  <2> USE <1>8 DEF IsoWait, Consistent, ActivatedConsistent, chip, reader,
           flags, rfalVars, listen, xcv, ghosts
  <2>1. LateSeen'  BY DEF LateSeen
  <2>2. FailedKnown'  BY DEF FailedKnown
  <2>3. HeldFresh'  BY DEF HeldFresh, Held, TransceiveStatus
  <2>4. FirstReady'  BY DEF FirstReady, TransceiveStatus
  <2>5. Refused'  BY DEF Refused
  <2>6. Queued'  BY DEF Queued
  <2>7. Commanded'  BY DEF Commanded
  <2>8. Launched'  BY DEF Launched
  <2> QED  BY <2>1, <2>2, <2>3, <2>4, <2>5, <2>6, <2>7, <2>8
<1> QED  BY <1>1, <1>2, <1>3, <1>4, <1>5, <1>6, <1>7, <1>8 DEF GetRxA3,
         GetRxA4, Queued, Consistent, ActivatedConsistent, TransceiveStatus

\* processCmd with ceSetTx, the end of its reset path, and the user button.
LEMMA LoopTimely ==
  ASSUME IInv, Timely, Process \/ Sleep \/ Button \/ UNCHANGED vars
  PROVE  Timely'
<1> USE DEF Timely, IInv, TypeOK, RfalTypeOK, ReaderTypeOK, OffPasses,
         XcvTypeOK, CeTypeOK, ListenTypeOK, Active, TxStates, RxStates,
         PiccStates
<1>1. CASE Process
  <2> USE <1>1 DEF Process, StartTransceive, Prepare, Staged, Commanded,
           current_processCmdPtr, processCmd, processCmdMifUL, Answer, chip,
           reader, listen, xcv, ghosts
  <2>1. LateSeen'  BY DEF LateSeen
  <2>2. FailedKnown'  BY DEF FailedKnown
  <2>3. HeldFresh'  BY DEF HeldFresh, Held
  <2>4. FirstReady'  BY DEF FirstReady, Consistent, ActivatedConsistent
  <2>5. Refused'  BY DEF Refused
  <2>6. Queued'  BY DEF Queued, Fresh
  <2>7. Commanded'  BY DEF Commanded
  <2>8. Launched'
    <3>1. /\ pc' \in {"worker", "nak", "sleep"} /\ rx' = None
          /\ live' = live /\ field' = field /\ pace' = pace
      OBVIOUS
    <3>2. ASSUME top' = "TXRX", txrx' = "TX_IDLE"
         PROVE  Fresh(2)
      BY <3>2 DEF Launched, Consistent, ActivatedConsistent
    <3>3. pc' = "nak" => top' = "TXRX" /\ txrx' = "TX_IDLE"
      OBVIOUS
    <3>4. top' = "TXRX" /\ txrx' = "TX_IDLE" => pc' \in {"worker", "nak"}
      BY DEF Launched
    <3>5. Fresh(2) => Fresh(1)'
      BY <3>1 DEF Fresh
    <3> QED  BY <3>1, <3>2, <3>3, <3>4, <3>5 DEF Launched
  <2> QED  BY <2>1, <2>2, <2>3, <2>4, <2>5, <2>6, <2>7, <2>8
<1>2. CASE Sleep
  <2> USE <1>2 DEF Sleep, SleepStart, ResetFlags, reader, listen, xcv, ghosts
  <2>1. LateSeen'  BY DEF LateSeen
  <2>2. FailedKnown'  BY DEF FailedKnown
  <2>3. HeldFresh'  BY DEF HeldFresh, Held
  <2>4. FirstReady'  BY DEF FirstReady
  <2>5. Refused'  BY DEF Refused
  <2>6. Queued'  BY DEF Queued
  <2>7. Commanded'  BY DEF Commanded
  <2>8. Launched'  BY DEF Launched
  <2> QED  BY <2>1, <2>2, <2>3, <2>4, <2>5, <2>6, <2>7, <2>8
<1>3. CASE Button
  <2> USE <1>3 DEF Button, RestartListening, SetPowerOff, ResetFlags, reader,
           listen, xcv, ghosts
  <2>1. LateSeen'  BY DEF LateSeen
  <2>2. FailedKnown'  BY DEF FailedKnown
  <2>3. HeldFresh'  BY DEF HeldFresh, Held
  <2>4. FirstReady'  BY DEF FirstReady
  <2>5. Refused'  BY DEF Refused
  <2>6. Queued'  BY DEF Queued
  <2>7. Commanded'  BY DEF Commanded
  <2>8. Launched'  BY DEF Launched
  <2> QED  BY <2>1, <2>2, <2>3, <2>4, <2>5, <2>6, <2>7, <2>8
<1>4. CASE UNCHANGED vars
  <2> USE <1>4 DEF vars, rfalVars, ceVars
  <2>1. LateSeen'  BY DEF LateSeen
  <2>2. FailedKnown'  BY DEF FailedKnown
  <2>3. HeldFresh'  BY DEF HeldFresh, Held, Fresh, TransceiveStatus
  <2>4. FirstReady'  BY DEF FirstReady, TransceiveStatus
  <2>5. Refused'  BY DEF Refused
  <2>6. Queued'  BY DEF Queued, Fresh
  <2>7. Commanded'  BY DEF Commanded, Fresh
  <2>8. Launched'  BY DEF Launched, Fresh
  <2> QED  BY <2>1, <2>2, <2>3, <2>4, <2>5, <2>6, <2>7, <2>8
<1> QED  BY <1>1, <1>2, <1>3, <1>4

\* One call of rfalWorker(), of the loop or of a blocking transmission.
LEMMA WorkerTimely ==
  ASSUME IInv, Timely, Worker \/ BlockingTx
  PROVE  Timely'
<1> USE DEF Timely, IInv, TypeOK, RfalTypeOK, ReaderTypeOK, OffPasses,
         XcvTypeOK, CeTypeOK, ListenTypeOK, Active, TxStates, RxStates,
         PiccStates
<1>1. CASE Worker /\ LmPowerOff
  <2> USE <1>1 DEF LmPowerOff, chip, Worker, reader, flags, listen, xcv,
           ghosts
  <2>1. LateSeen'  BY DEF LateSeen
  <2>2. FailedKnown'  BY DEF FailedKnown
  <2>3. HeldFresh'  BY DEF HeldFresh, Held
  <2>4. FirstReady'  BY DEF FirstReady
  <2>5. Refused'  BY DEF Refused
  <2>6. Queued'  BY DEF Queued
  <2>7. Commanded'  BY DEF Commanded
  <2>8. Launched'  BY DEF Launched
  <2> QED  BY <2>1, <2>2, <2>3, <2>4, <2>5, <2>6, <2>7, <2>8
<1>2. CASE Worker /\ LmIdle
  <2> USE <1>2 DEF LmIdle, SetPowerOff, ReadFrame, Worker, reader, flags,
           listen, xcv, ghosts
  <2>1. LateSeen'  BY DEF LateSeen
  <2>2. FailedKnown'  BY DEF FailedKnown
  <2>3. HeldFresh'  BY DEF HeldFresh, Held
  <2>4. FirstReady'  BY DEF FirstReady
  <2>5. Refused'  BY DEF Refused
  <2>6. Queued'  BY DEF Queued
  <2>7. Commanded'  BY DEF Commanded
  <2>8. Launched'  BY DEF Launched
  <2> QED  BY <2>1, <2>2, <2>3, <2>4, <2>5, <2>6, <2>7, <2>8
<1>3. CASE Worker /\ LmReady
  <2> USE <1>3 DEF LmReady, SetPowerOff, Worker, reader, flags, listen, xcv,
           ghosts
  <2>1. LateSeen'  BY DEF LateSeen
  <2>2. FailedKnown'  BY DEF FailedKnown
  <2>3. HeldFresh'  BY DEF HeldFresh, Held, TransceiveStatus, FirstReady
  <2>4. FirstReady'  BY DEF FirstReady
  <2>5. Refused'  BY DEF Refused
  <2>6. Queued'  BY DEF Queued
  <2>7. Commanded'  BY DEF Commanded
  <2>8. Launched'  BY DEF Launched
  <2> QED  BY <2>1, <2>2, <2>3, <2>4, <2>5, <2>6, <2>7, <2>8
<1>4. CASE Worker /\ LmActive
  <2> USE <1>4 DEF LmActive, SetPowerOff, SetIdle, SleepStart, ReadFrame,
           Worker, reader, flags, listen, xcv, ghosts
  <2>1. LateSeen'  BY DEF LateSeen
  <2>2. FailedKnown'  BY DEF FailedKnown
  <2>3. HeldFresh'
    <3>1. CASE rx' = rx /\ dataFlag' = dataFlag /\ lm' = lm
      BY <3>1, NoneAssumption DEF HeldFresh, Held, TransceiveStatus
    <3>2. CASE lm' \notin Active
      BY <3>2 DEF HeldFresh, Held
    <3>3. CASE "EOF" \notin irq /\ "RXE" \in irq /\ fifo # None /\ ReadFrame
      BY <3>3 DEF HeldFresh, LateSeen, Fresh
    <3> QED  BY <3>1, <3>2, <3>3
  <2>4. FirstReady'  BY DEF FirstReady
  <2>5. Refused'  BY DEF Refused
  <2>6. Queued'  BY DEF Queued
  <2>7. Commanded'  BY DEF Commanded
  <2>8. Launched'  BY DEF Launched
  <2> QED  BY <2>1, <2>2, <2>3, <2>4, <2>5, <2>6, <2>7, <2>8
<1>5. CASE Worker /\ LmSleep
  <2> USE <1>5 DEF LmSleep, SetPowerOff, Worker, reader, flags, listen, xcv,
           ghosts
  <2>1. LateSeen'  BY DEF LateSeen
  <2>2. FailedKnown'  BY DEF FailedKnown
  <2>3. HeldFresh'  BY DEF HeldFresh, Held
  <2>4. FirstReady'  BY DEF FirstReady
  <2>5. Refused'  BY DEF Refused
  <2>6. Queued'  BY DEF Queued
  <2>7. Commanded'  BY DEF Commanded
  <2>8. Launched'  BY DEF Launched
  <2> QED  BY <2>1, <2>2, <2>3, <2>4, <2>5, <2>6, <2>7, <2>8
<1>6. CASE Worker /\ LmNothing
  <2> USE <1>6 DEF LmNothing, chip, Worker, reader, flags, listen, xcv, ghosts
  <2>1. LateSeen'  BY DEF LateSeen
  <2>2. FailedKnown'  BY DEF FailedKnown
  <2>3. HeldFresh'  BY DEF HeldFresh, Held
  <2>4. FirstReady'  BY DEF FirstReady
  <2>5. Refused'  BY DEF Refused
  <2>6. Queued'  BY DEF Queued
  <2>7. Commanded'  BY DEF Commanded
  <2>8. Launched'  BY DEF Launched
  <2> QED  BY <2>1, <2>2, <2>3, <2>4, <2>5, <2>6, <2>7, <2>8
<1>7. CASE (Worker \/ BlockingTx) /\ TxRxWorker /\ TxStart
  <2> USE <1>7 DEF TxStart, Worker, BlockingTx, TxRxWorker, Prepare, reader,
           flags, listen, xcv, ghosts
  <2>1. LateSeen'  BY DEF LateSeen
  <2>2. FailedKnown'  BY DEF FailedKnown
  <2>3. HeldFresh'  BY DEF HeldFresh, Held, TransceiveStatus, FirstReady
  <2>4. FirstReady'  BY DEF FirstReady
  <2>5. Refused'  BY DEF Refused
  <2>6. Queued'  BY DEF Queued
  <2>7. Commanded'  BY DEF Commanded
  <2>8. Launched'  BY DEF Launched
  <2> QED  BY <2>1, <2>2, <2>3, <2>4, <2>5, <2>6, <2>7, <2>8
<1>8. CASE (Worker \/ BlockingTx) /\ TxRxWorker /\ TxWait
  <2> USE <1>8 DEF TxWait, Worker, BlockingTx, TxRxWorker, Prepare, reader,
           flags, listen, xcv, ghosts
  <2>1. LateSeen'  BY DEF LateSeen
  <2>2. FailedKnown'  BY DEF FailedKnown
  <2>3. HeldFresh'  BY DEF HeldFresh, Held, TransceiveStatus, FirstReady
  <2>4. FirstReady'  BY DEF FirstReady, Staged
  <2>5. Refused'  BY DEF Refused
  <2>6. Queued'  BY DEF Queued
  <2>7. Commanded'  BY DEF Commanded
  <2>8. Launched'  BY DEF Launched
  <2> QED  BY <2>1, <2>2, <2>3, <2>4, <2>5, <2>6, <2>7, <2>8
<1>9. CASE (Worker \/ BlockingTx) /\ TxRxWorker /\ RxArm
  <2> USE <1>9 DEF RxArm, Worker, BlockingTx, TxRxWorker, Prepare, reader,
           flags, listen, xcv, ghosts
  <2>1. LateSeen'  BY DEF LateSeen
  <2>2. FailedKnown'  BY DEF FailedKnown
  <2>3. HeldFresh'  BY DEF HeldFresh, Held
  <2>4. FirstReady'  BY DEF FirstReady, Launched
  <2>5. Refused'  BY DEF Refused
  <2>6. Queued'  BY DEF Queued
  <2>7. Commanded'  BY DEF Commanded
  <2>8. Launched'  BY DEF Launched
  <2> QED  BY <2>1, <2>2, <2>3, <2>4, <2>5, <2>6, <2>7, <2>8
<1>10. CASE (Worker \/ BlockingTx) /\ TxRxWorker /\ RxWait
  <2> USE <1>10 DEF RxWait, ReadFrame, Worker, BlockingTx, TxRxWorker,
           Prepare, reader, flags, listen, xcv, ghosts
  <2>1. LateSeen'  BY DEF LateSeen
  <2>2. FailedKnown'  BY DEF FailedKnown
  <2>3. HeldFresh'
    <3>0. pc = "worker" /\ pc' = "handler" /\ ~(lm \in Active /\ isFirstA3_Frame)
      BY DEF Launched, FirstReady
    <3>1. CASE rx' = None \/ txrx' # "IDLE" \/ status' # "NONE"
      <4>1. ~Held'
        BY <3>0, <3>1 DEF Held, TransceiveStatus
      <4> QED  BY <4>1, <3>0 DEF HeldFresh
    <3>2. CASE "EOF" \notin irq /\ "RXE" \in irq /\ fifo # None /\ ReadFrame
      BY <3>2 DEF HeldFresh, Held, LateSeen, Fresh, Launched
    <3> QED  BY <3>1, <3>2
  <2>4. FirstReady'
    <3>1. pc = "worker" /\ pc' = "handler"
      BY DEF Launched
    <3> QED  BY <3>1 DEF FirstReady
  <2>5. Refused'  BY DEF Refused
  <2>6. Queued'  BY DEF Queued
  <2>7. Commanded'  BY DEF Commanded
  <2>8. Launched'  BY DEF Launched
  <2> QED  BY <2>1, <2>2, <2>3, <2>4, <2>5, <2>6, <2>7, <2>8
<1>11. CASE (Worker \/ BlockingTx) /\ TxRxWorker /\ RxReadBad
  <2> USE <1>11 DEF RxReadBad, ReadFrame, Worker, BlockingTx, TxRxWorker,
           Prepare, reader, flags, listen, xcv, ghosts
  <2>1. LateSeen'  BY DEF LateSeen
  <2>2. FailedKnown'  BY DEF FailedKnown
  <2>3. HeldFresh'  BY DEF HeldFresh, Held, TransceiveStatus, Launched,
           FirstReady
  <2>4. FirstReady'  BY DEF FirstReady, Launched
  <2>5. Refused'  BY DEF Refused
  <2>6. Queued'  BY DEF Queued
  <2>7. Commanded'  BY DEF Commanded
  <2>8. Launched'  BY DEF Launched
  <2> QED  BY <2>1, <2>2, <2>3, <2>4, <2>5, <2>6, <2>7, <2>8
<1>12. CASE (Worker \/ BlockingTx) /\ TxRxWorker /\ TxRxFail
  <2> USE <1>12 DEF TxRxFail, Worker, BlockingTx, TxRxWorker, Prepare, reader,
           flags, listen, xcv, ghosts
  <2>1. LateSeen'  BY DEF LateSeen
  <2>2. FailedKnown'  BY DEF FailedKnown
  <2>3. HeldFresh'  BY DEF HeldFresh, Held, TransceiveStatus, FirstReady,
           FailedKnown
  <2>4. FirstReady'  BY DEF FirstReady, Staged
  <2>5. Refused'  BY DEF Refused
  <2>6. Queued'  BY DEF Queued
  <2>7. Commanded'  BY DEF Commanded
  <2>8. Launched'  BY DEF Launched
  <2> QED  BY <2>1, <2>2, <2>3, <2>4, <2>5, <2>6, <2>7, <2>8
<1>13. CASE (Worker \/ BlockingTx) /\ TxRxWorker /\ TxRxRest
  <2> USE <1>13 DEF TxRxRest, Worker, BlockingTx, TxRxWorker, Prepare, reader,
           flags, listen, xcv, ghosts
  <2>1. LateSeen'  BY DEF LateSeen
  <2>2. FailedKnown'  BY DEF FailedKnown
  <2>3. HeldFresh'  BY DEF HeldFresh, Held, TransceiveStatus, Launched
  <2>4. FirstReady'  BY DEF FirstReady, Launched
  <2>5. Refused'  BY DEF Refused
  <2>6. Queued'  BY DEF Queued, Fresh
  <2>7. Commanded'  BY DEF Commanded
  <2>8. Launched'  BY DEF Launched
  <2> QED  BY <2>1, <2>2, <2>3, <2>4, <2>5, <2>6, <2>7, <2>8
<1> QED  BY <1>1, <1>2, <1>3, <1>4, <1>5, <1>6, <1>7, <1>8, <1>9, <1>10,
         <1>11, <1>12, <1>13 DEF Worker, BlockingTx, RfalWorker, TxRxWorker

LEMMA TimelyInitial == Init => Timely
<1> SUFFICES ASSUME Init PROVE Timely
  OBVIOUS
<1> USE DEF Init, RfalInit, ceInit
<1>1. LateSeen /\ FailedKnown /\ HeldFresh /\ FirstReady
  BY DEF LateSeen, FailedKnown, HeldFresh, Held, FirstReady, Active
<1>2. Refused /\ Queued /\ Commanded /\ Launched
  BY DEF Refused, Queued, Commanded, Launched
<1> QED  BY <1>1, <1>2 DEF Timely

LEMMA TimelyInductive == IInv /\ Timely /\ [Next]_vars => Timely'
<1> SUFFICES ASSUME IInv, Timely, [Next]_vars PROVE Timely'
  OBVIOUS
<1>1. CASE Worker \/ BlockingTx
  BY <1>1, WorkerTimely
<1>2. CASE Handler
  BY <1>2, HandlerTimely
<1>3. CASE GetRxA3 \/ GetRxA4
  BY <1>3, GetRxTimely
<1>4. CASE Process \/ Sleep \/ Button \/ UNCHANGED vars
  BY <1>4, LoopTimely
<1>5. CASE Reader \/ ChipTx
  BY <1>5, ReaderTimely
<1> QED  BY <1>1, <1>2, <1>3, <1>4, <1>5 DEF Next, Firmware

LEMMA TimelyInvariance == Spec => []Timely
<1>1. Init => IInv /\ Timely
  BY Initial, TimelyInitial
<1>2. IInv /\ Timely /\ [Next]_vars => (IInv /\ Timely)'
  BY Inductive, TimelyInductive
<1> QED  BY <1>1, <1>2, PTL DEF Spec

\* rfalTransceiveTx transmits only in the field period of the reader whose frame
\* is answered, on all three cards: the pending EOF that rfalPrepareTransceive
\* erases is never the only trace of a reader that has left.
THEOREM RepliesInSession == Spec => ReplyInSession
<1>1. IInv /\ Timely /\ [Next]_vars
        => [txrx = "TX_IDLE" /\ txrx' = "TX_WAIT_TXE" => live]_vars
  <2> SUFFICES ASSUME IInv, Timely, Next, txrx = "TX_IDLE", txrx' = "TX_WAIT_TXE"
               PROVE  live
    BY DEF vars
  <2>1. TxRxWorker /\ TxStart
    <3>1. CASE Worker
      BY <3>1 DEF Worker, RfalWorker, LmPowerOff, LmIdle, LmReady, LmActive, LmSleep,
         LmNothing, TxRxWorker, TxStart, TxWait, RxArm, RxWait, RxReadBad, TxRxFail,
         TxRxRest, xcv
    <3>2. CASE BlockingTx
      BY <3>2 DEF BlockingTx, TxRxWorker, TxWait, RxArm, RxWait, RxReadBad, TxRxFail,
         TxRxRest, xcv
    <3>3. CASE Handler
      BY <3>3 DEF Handler, HandleRats, StartActivation, StartTransceive, IgnoreRats, Halt,
         HandleA3, HandleLinkLoss, RestartListening, Activate, ActivationRetry,
         ReEnableRx, HandleNothing, rfalVars, xcv
    <3>4. CASE GetRxA3 \/ GetRxA4
      BY <3>4 DEF GetRxA3, GetRxA4, HandOver, Relisten, RestartListening, IsoSend,
         StartTransceive, IsoListen, ReEnableRx, IsoWait, rfalVars, xcv
    <3>5. CASE Process \/ Sleep \/ Button
      BY <3>5 DEF Process, StartTransceive, Sleep, Button, RestartListening, xcv
    <3>6. CASE Reader \/ ChipTx
      BY <3>6 DEF Reader, ChipTx, FieldOn, FieldOff, Poll, Select, Send, TxEnd, xcv
    <3> QED  BY <3>1, <3>2, <3>3, <3>4, <3>5, <3>6 DEF Next, Firmware
  <2>2. top = "TXRX" /\ field
    BY <2>1 DEF TxRxWorker, TxStart
  <2> QED  BY <2>2 DEF Timely, Launched, Fresh
<1> QED  BY <1>1, Invariance, TimelyInvariance, PTL DEF Spec, ReplyInSession

-----------------------------------------------------------------------------
(***************************************************************************)
(* Once per frame, for a card other than the Ultralight: what CardEmulation *)
(* does in one step is a step of CardConversation, or none.                *)
(***************************************************************************)
\* The transceive machine runs in layer 4 only; a frame that is acted on has not
\* been acted on before; what has been answered is not in rxBuf_ce any more.
Once ==
    /\ top = "TXRX" => lm = "CARDEMU_4A"
    /\ cmd # None <=> pc = "process"
    /\ Held /\ iso # "PICC_TX" /\ pc # "process" => ~taken
    /\ pc = "process" => top = "LM" \/ txrx = "IDLE"
    /\ pc # "nak" /\ (pc = "sleep" => top = "LM")
    /\ top = "TXRX" /\ txrx \in {"TX_IDLE", "TX_WAIT_TXE"} => taken \/ rx = None

Speaks == [Talk!TalkNext]_(Talk!talk)

\* What a step may do to the conversation.
Still == Turn' = Turn /\ live' = live

LEMMA SpeaksInTurn ==
  ASSUME \/ Talk!Hear \/ Talk!TakeUp \/ Talk!Answer \/ Talk!Finish \/ Talk!Leave
         \/ Talk!Lose \/ Still
  PROVE  Speaks
  BY DEF Speaks, Still, Talk!TalkNext, Talk!talk

\* The reader, and the end of a transmission.
LEMMA ReaderOnce ==
  ASSUME Mode # "UL", IInv, Timely, Once, Reader \/ ChipTx
  PROVE  Once' /\ Speaks
<1> USE NoneAssumption DEF IInv, TypeOK, RfalTypeOK, XcvTypeOK, CeTypeOK,
         ListenTypeOK, ReaderTypeOK, OffPasses, Active, TxStates, RxStates,
         PiccStates, Staged, Consistent, ActivatedConsistent, Timely, Once
<1>1. CASE ceVars' = ceVars /\ FieldOn
  <2> USE <1>1 DEF FieldOn, ceVars, flags, listen, xcv, ghosts, OnPasses
  <2>1. Once'  BY DEF Held, TransceiveStatus
  <2>2. Speaks
    <3>1. Still
      BY DEF Still, Turn
    <3> QED  BY <3>1, SpeaksInTurn
  <2> QED  BY <2>1, <2>2
<1>2. CASE ceVars' = ceVars /\ FieldOff
  <2> USE <1>2 DEF FieldOff, ceVars, flags, listen, xcv, ghosts, OnPasses
  <2>1. Once'  BY DEF Held, TransceiveStatus
  <2>2. Speaks
    <3>1. Talk!Lose
      BY DEF Talk!Lose, Turn
    <3> QED  BY <3>1, SpeaksInTurn
  <2> QED  BY <2>1, <2>2
<1>3. CASE ceVars' = ceVars /\ Poll
  <2> USE <1>3 DEF Poll, ceVars, flags, listen, xcv, ghosts, OnPasses
  <2>1. Once'  BY DEF Held, TransceiveStatus
  <2>2. Speaks
    <3>1. Still
      BY DEF Still, Turn
    <3> QED  BY <3>1, SpeaksInTurn
  <2> QED  BY <2>1, <2>2
<1>4. CASE ceVars' = ceVars /\ Select
  <2> USE <1>4 DEF Select, ceVars, flags, listen, xcv, ghosts, OnPasses
  <2>1. Once'  BY DEF Held, TransceiveStatus
  <2>2. Speaks
    <3>1. Still
      BY DEF Still, Turn
    <3> QED  BY <3>1, SpeaksInTurn
  <2> QED  BY <2>1, <2>2
<1>5. CASE ceVars' = ceVars /\ \E f \in Frames : Send(f)
  <2> USE <1>5 DEF Send, ceVars, flags, listen, xcv, ghosts, OnPasses
  <2>1. Once'  BY DEF Held, TransceiveStatus
  <2>2. Speaks
    <3>1. Still
      BY DEF Still, Turn
    <3> QED  BY <3>1, SpeaksInTurn
  <2> QED  BY <2>1, <2>2
<1>6. CASE ceVars' = ceVars /\ TxEnd
  <2> USE <1>6 DEF TxEnd, reader, ceVars, flags, listen, xcv, ghosts, OnPasses
  <2>1. Once'  BY DEF Held, TransceiveStatus
  <2>2. Speaks
    <3>1. Still
      BY DEF Still, Turn
    <3> QED  BY <3>1, SpeaksInTurn
  <2> QED  BY <2>1, <2>2
<1> QED  BY <1>1, <1>2, <1>3, <1>4, <1>5, <1>6 DEF Reader, ChipTx

\* ceHandler.
LEMMA HandlerOnce ==
  ASSUME Mode # "UL", IInv, Timely, Once, Handler
  PROVE  Once' /\ Speaks
<1> USE NoneAssumption DEF IInv, TypeOK, RfalTypeOK, XcvTypeOK, CeTypeOK,
         ListenTypeOK, ReaderTypeOK, OffPasses, Active, TxStates, RxStates,
         PiccStates, Staged, Consistent, ActivatedConsistent, Timely, Once,
         InHandler
<1>1. CASE HandleRats
  <2> USE <1>1 DEF HandleRats, StartActivation, Rats, level4_enabled,
           StartTransceive, Prepare, chip, reader, flags, rfalVars, listen,
           xcv, ghosts
  <2>1. Once'  BY DEF Held, TransceiveStatus
  <2>2. Speaks
    <3>1. Talk!TakeUp \/ Talk!Leave
      BY DEF Talk!TakeUp, Talk!Leave, Turn, Held, Queued
    <3> QED  BY <3>1, SpeaksInTurn
  <2> QED  BY <2>1, <2>2
<1>2. CASE IgnoreRats
  <2> USE <1>2 DEF IgnoreRats, SetIdle, SleepStart, Rats, chip, reader, flags,
           rfalVars, listen, xcv, ghosts
  <2>1. Once'  BY DEF Held
  <2>2. Speaks
    <3>1. Talk!Leave
      BY DEF Talk!Leave, Turn, Queued
    <3> QED  BY <3>1, SpeaksInTurn
  <2> QED  BY <2>1, <2>2
<1>3. CASE Halt
  <2> USE <1>3 DEF Halt, SleepStart, chip, reader, flags, rfalVars, listen,
           xcv, ghosts
  <2>1. Once'  BY DEF Held
  <2>2. Speaks
    <3>1. Talk!Leave
      BY DEF Talk!Leave, Turn, Queued
    <3> QED  BY <3>1, SpeaksInTurn
  <2> QED  BY <2>1, <2>2
<1>4. CASE HandleA3
  <2> USE <1>4 DEF HandleA3, Rats, chip, reader, flags, rfalVars, listen, xcv,
           ghosts
  <2>1. Once'  BY DEF Held
  <2>2. Speaks
    <3>1. Still
      BY DEF Still, Turn
    <3> QED  BY <3>1, SpeaksInTurn
  <2> QED  BY <2>1, <2>2
<1>5. CASE HandleLinkLoss
  <2> USE <1>5 DEF HandleLinkLoss, LinkLost, RestartListening, SetPowerOff,
           chip, reader, flags, rfalVars, listen, xcv, ghosts
  <2>1. Once'  OBVIOUS
  <2>2. Speaks
    <3>1. Talk!Leave
      BY DEF Talk!Leave, Turn
    <3> QED  BY <3>1, SpeaksInTurn
  <2> QED  BY <2>1, <2>2
<1>6. CASE Activate
  <2> USE <1>6 DEF Activate, StartTransceive, chip, reader, flags, rfalVars,
           listen, xcv, ghosts
  <2>1. Once'  BY DEF Held, TransceiveStatus
  <2>2. Speaks
    <3>1. Talk!TakeUp \/ Still
      BY DEF Talk!TakeUp, Still, Turn, Held, Refused
    <3> QED  BY <3>1, SpeaksInTurn
  <2> QED  BY <2>1, <2>2
<1>7. CASE ActivationRetry
  <2> USE <1>7 DEF ActivationRetry, ReEnableRx, Prepare, chip, reader, flags,
           rfalVars, listen, xcv, ghosts
  <2>1. Once'  OBVIOUS
  <2>2. Speaks
    <3>1. Talk!Leave
      BY DEF Talk!Leave, Turn
    <3> QED  BY <3>1, SpeaksInTurn
  <2> QED  BY <2>1, <2>2
<1>8. CASE HandleNothing
  <2> USE <1>8 DEF HandleNothing, chip, reader, flags, rfalVars, listen, xcv,
           ghosts
  <2>1. Once'  BY DEF Held, TransceiveStatus
  <2>2. Speaks
    <3>1. Still
      BY DEF Still, Turn
    <3> QED  BY <3>1, SpeaksInTurn
  <2> QED  BY <2>1, <2>2
<1> QED  BY <1>1, <1>2, <1>3, <1>4, <1>5, <1>6, <1>7, <1>8 DEF Handler

\* ceGetRx.
LEMMA GetRxOnce ==
  ASSUME Mode # "UL", IInv, Timely, Once, GetRxA3 \/ GetRxA4
  PROVE  Once' /\ Speaks
<1> USE NoneAssumption DEF IInv, TypeOK, RfalTypeOK, XcvTypeOK, CeTypeOK,
         ListenTypeOK, ReaderTypeOK, OffPasses, Active, TxStates, RxStates,
         PiccStates, Staged, Consistent, ActivatedConsistent, Timely, Once,
         InGetRx
<1>1. CASE /\ ~isActivatedA /\ HandOver /\ iso' = iso /\ rxReady
  <2> USE <1>1 DEF HandOver, chip, reader, flags, rfalVars, listen, xcv,
           ghosts
  <2>1. Once'  OBVIOUS
  <2>2. Speaks
    <3>1. Talk!TakeUp
      BY DEF Talk!TakeUp, Turn, Held, FirstReady, Queued
    <3> QED  BY <3>1, SpeaksInTurn
  <2> QED  BY <2>1, <2>2
<1>2. CASE Relisten /\ iso' \in {"IDLE", iso} /\ iso # "PICC_TX"
  <2> USE <1>2 DEF Relisten, ResetFlags, RestartListening, SetPowerOff, chip,
           reader, flags, rfalVars, listen, xcv, ghosts
  <2>1. Once'  OBVIOUS
  <2>2. Speaks
    <3>1. Talk!Leave
      BY DEF Talk!Leave, Turn
    <3> QED  BY <3>1, SpeaksInTurn
  <2> QED  BY <2>1, <2>2
<1>3. CASE /\ ~isActivatedA /\ InGetRx("worker") /\ ~rxReady
           /\ UNCHANGED <<rfalVars, flags, iso, cmd, started>>
  <2> USE <1>3 DEF chip, reader, flags, rfalVars, listen, xcv, ghosts
  <2>1. Once'  BY DEF Held, TransceiveStatus
  <2>2. Speaks
    <3>1. Still
      BY DEF Still, Turn
    <3> QED  BY <3>1, SpeaksInTurn
  <2> QED  BY <2>1, <2>2
<1>4. CASE /\ isActivatedA /\ HandOver /\ iso = "PICC_RX" /\ iso' = "PICC_SWTX"
           /\ TransceiveStatus = "NONE" /\ rx = "IBLOCK"
  <2> USE <1>4 DEF HandOver, chip, reader, flags, rfalVars, listen, xcv,
           ghosts
  <2>1. Once'  BY DEF TransceiveStatus
  <2>2. Speaks
    <3>1. Talk!TakeUp
      BY DEF Talk!TakeUp, Turn, Held, Refused
    <3> QED  BY <3>1, SpeaksInTurn
  <2> QED  BY <2>1, <2>2
<1>5. CASE /\ isActivatedA /\ iso = "PICC_TX" /\ IsoSend("PICC_RX")
  <2> USE <1>5 DEF IsoSend, StartTransceive, chip, reader, flags, rfalVars,
           listen, xcv, ghosts
  <2>1. Once'  BY DEF Held, TransceiveStatus
  <2>2. Speaks
    <3>1. Still
      BY DEF Still, Turn, Queued
    <3> QED  BY <3>1, SpeaksInTurn
  <2> QED  BY <2>1, <2>2
<1>6. CASE /\ isActivatedA /\ \E s \in {"PICC_RX", "PICC_SDSL"} : IsoSend(s)
           /\ iso = "PICC_RX" /\ TransceiveStatus = "NONE"
           /\ rx \in {"CHAIN", "RNAK", "DSL"}
  <2> USE <1>6 DEF IsoSend, StartTransceive, chip, reader, flags, rfalVars,
           listen, xcv, ghosts
  <2>1. Once'  BY DEF Held, TransceiveStatus
  <2>2. Speaks
    <3>1. Talk!TakeUp
      BY DEF Talk!TakeUp, Turn, Held, Refused
    <3> QED  BY <3>1, SpeaksInTurn
  <2> QED  BY <2>1, <2>2
<1>7. CASE isActivatedA /\ IsoListen /\ iso = "PICC_RX"
  <2> USE <1>7 DEF IsoListen, ReEnableRx, Prepare, chip, reader, flags,
           rfalVars, listen, xcv, ghosts
  <2>1. Once'  OBVIOUS
  <2>2. Speaks
    <3>1. Talk!Leave
      BY DEF Talk!Leave, Turn
    <3> QED  BY <3>1, SpeaksInTurn
  <2> QED  BY <2>1, <2>2
<1>8. CASE /\ isActivatedA /\ IsoWait("PICC_TX") /\ iso = "PICC_RX"
           /\ TransceiveStatus = "NONE" /\ rx = "RETX"
  <2> USE <1>8 DEF IsoWait, chip, reader, flags, rfalVars, listen, xcv, ghosts
  <2>1. Once'  OBVIOUS
  <2>2. Speaks
    <3>1. Talk!TakeUp
      BY DEF Talk!TakeUp, Turn, Held, Refused
    <3> QED  BY <3>1, SpeaksInTurn
  <2> QED  BY <2>1, <2>2
<1>9. CASE /\ isActivatedA /\ IsoWait(iso) /\ iso \in {"PICC_RX", "PICC_SDSL"}
           /\ TransceiveStatus # "NONE"
  <2> USE <1>9 DEF IsoWait, chip, reader, flags, rfalVars, listen, xcv, ghosts
  <2>1. Once'  BY DEF Held, TransceiveStatus
  <2>2. Speaks
    <3>1. Still
      BY DEF Still, Turn
    <3> QED  BY <3>1, SpeaksInTurn
  <2> QED  BY <2>1, <2>2
<1> QED  BY <1>1, <1>2, <1>3, <1>4, <1>5, <1>6, <1>7, <1>8, <1>9 DEF GetRxA3,
         GetRxA4, Queued, TransceiveStatus

\* processCmd with ceSetTx, the end of its reset path, and the user button.
LEMMA LoopOnce ==
  ASSUME Mode # "UL", IInv, Timely, Once, Process \/ Sleep \/ Button \/ UNCHANGED vars
  PROVE  Once' /\ Speaks
<1> USE NoneAssumption DEF IInv, TypeOK, RfalTypeOK, XcvTypeOK, CeTypeOK,
         ListenTypeOK, ReaderTypeOK, OffPasses, Active, TxStates, RxStates,
         PiccStates, Staged, Consistent, ActivatedConsistent, Timely, Once
<1>1. CASE Process
  <2> USE <1>1 DEF Process, StartTransceive, Prepare, current_processCmdPtr,
           processCmd, processCmdMifUL, Answer, chip, reader, listen, xcv,
           ghosts
  <2>1. Once'  OBVIOUS
  <2>2. Speaks
    <3>1. Still \/ Talk!Leave
      BY DEF Still, Talk!Leave, Turn
    <3> QED  BY <3>1, SpeaksInTurn
  <2> QED  BY <2>1, <2>2
<1>2. CASE Sleep
  <2> USE <1>2 DEF Sleep, SleepStart, ResetFlags, reader, listen, xcv, ghosts
  <2>1. Once'  BY DEF Held
  <2>2. Speaks
    <3>1. Still \/ Talk!Leave
      BY DEF Still, Talk!Leave, Turn
    <3> QED  BY <3>1, SpeaksInTurn
  <2> QED  BY <2>1, <2>2
<1>3. CASE Button
  <2> USE <1>3 DEF Button, RestartListening, SetPowerOff, ResetFlags, reader,
           listen, xcv, ghosts
  <2>1. Once'  OBVIOUS
  <2>2. Speaks
    <3>1. Talk!Leave
      BY DEF Talk!Leave, Turn
    <3> QED  BY <3>1, SpeaksInTurn
  <2> QED  BY <2>1, <2>2
<1>4. CASE UNCHANGED vars
  <2> USE <1>4 DEF vars, rfalVars, ceVars
  <2>1. Once'  BY DEF Held, TransceiveStatus
  <2>2. Speaks
    <3>1. Still
      BY DEF Still, Turn
    <3> QED  BY <3>1, SpeaksInTurn
  <2> QED  BY <2>1, <2>2
<1> QED  BY <1>1, <1>2, <1>3, <1>4

\* One call of rfalWorker(), of the loop or of a blocking transmission.
LEMMA WorkerOnce ==
  ASSUME Mode # "UL", IInv, Timely, Once, Worker \/ BlockingTx
  PROVE  Once' /\ Speaks
<1> USE NoneAssumption DEF IInv, TypeOK, RfalTypeOK, XcvTypeOK, CeTypeOK,
         ListenTypeOK, ReaderTypeOK, OffPasses, Active, TxStates, RxStates,
         PiccStates, Staged, Consistent, ActivatedConsistent, Timely, Once
<1>0. live' \in BOOLEAN /\ (fifo # None => fifo.cmd # None)
  <2>0. fifo # None => fifo.cmd # None
    BY CmdAssumption DEF ChipTypeOK, Frames
  <2>1. RfalTypeOK /\ AutoMatchesState /\ RfalWorker
    BY DEF Worker, BlockingTx, RfalWorker
  <2> QED  BY <2>0, <2>1, WorkerTypes DEF XcvTypeOK
<1>1. CASE Worker /\ LmPowerOff
  <2> USE <1>1 DEF LmPowerOff, chip, Worker, reader, flags, listen, xcv,
           ghosts
  <2>1. Once'  BY DEF Held
  <2>2. Speaks
    <3>1. Still
      BY DEF Still, Turn
    <3> QED  BY <3>1, SpeaksInTurn
  <2> QED  BY <2>1, <2>2
<1>2. CASE Worker /\ LmIdle
  <2> USE <1>2 DEF LmIdle, SetPowerOff, Worker, reader, flags, listen, xcv,
           ghosts
  <2>1. Once'  BY DEF Held
  <2>2. Speaks
    <3>1. pc \in {"worker", "ats"} /\ cmd = None /\ cmd' = None /\ iso' = iso
      BY DEF Launched
    <3>2. CASE ReadFrame
      <4>1. Turn \in {"reader", "heard"} /\ iso # "PICC_TX" /\ ~(top' = "TXRX"
               /\ txrx' \in {"TX_IDLE", "TX_WAIT_TXE"})
        BY <3>1, <3>2 DEF Turn, Queued, Launched
      <4>2. Turn' = IF rx' = None THEN "reader" ELSE "heard"
        BY <3>1, <3>2, <4>1 DEF Turn, ReadFrame
      <4>3. rx' = None => live' = FALSE
        BY <1>0, <3>2 DEF ReadFrame
      <4>4. Talk!Hear \/ Talk!Leave
        BY <1>0, <4>1, <4>2, <4>3 DEF Talk!Hear, Talk!Leave
      <4> QED  BY <4>4, SpeaksInTurn
    <3>3. CASE ~ReadFrame
      <4>1. live' = live /\ taken' = taken /\ rx' \in {rx, None}
        BY <3>3
      <4>2. /\ ~(top = "TXRX" /\ txrx \in {"TX_IDLE", "TX_WAIT_TXE"})
            /\ ~(top' = "TXRX" /\ txrx' \in {"TX_IDLE", "TX_WAIT_TXE"})
            /\ iso # "PICC_TX"
        BY <3>1, <3>3 DEF Queued, Launched
      <4>3. Talk!Leave \/ Still
        BY <3>1, <4>1, <4>2 DEF Talk!Leave, Still, Turn
      <4> QED  BY <4>3, SpeaksInTurn
    <3> QED  BY <3>2, <3>3
  <2> QED  BY <2>1, <2>2
<1>3. CASE Worker /\ LmReady
  <2> USE <1>3 DEF LmReady, SetPowerOff, Worker, reader, flags, listen, xcv,
           ghosts
  <2>1. Once'  BY DEF Held
  <2>2. Speaks
    <3>1. Still
      BY DEF Still, Turn
    <3> QED  BY <3>1, SpeaksInTurn
  <2> QED  BY <2>1, <2>2
<1>4. CASE Worker /\ LmActive
  <2> USE <1>4 DEF LmActive, SetPowerOff, SetIdle, SleepStart, Worker, reader,
           flags, listen, xcv, ghosts
  <2>1. Once'
    <3>1. CASE rx' = rx /\ dataFlag' = dataFlag /\ lm' = lm /\ taken' = taken
      BY <3>1 DEF Held, HeldFresh, TransceiveStatus
    <3>2. CASE lm' \notin Active
      BY <3>2 DEF Held, Launched
    <3>3. CASE ~taken' /\ lm' \in Active
      BY <3>3 DEF Held, ReadFrame
    <3> QED  BY <3>1, <3>2, <3>3 DEF ReadFrame
  <2>2. Speaks
    <3>1. pc \in {"worker", "ats"} /\ cmd = None /\ cmd' = None /\ iso' = iso
      BY DEF Launched
    <3>2. CASE ReadFrame
      <4>1. Turn \in {"reader", "heard"} /\ iso # "PICC_TX" /\ ~(top' = "TXRX"
               /\ txrx' \in {"TX_IDLE", "TX_WAIT_TXE"})
        BY <3>1, <3>2 DEF Turn, Queued, Launched
      <4>2. Turn' = IF rx' = None THEN "reader" ELSE "heard"
        BY <3>1, <3>2, <4>1 DEF Turn, ReadFrame
      <4>3. rx' = None => live' = FALSE
        BY <1>0, <3>2 DEF ReadFrame
      <4>4. Talk!Hear \/ Talk!Leave
        BY <1>0, <4>1, <4>2, <4>3 DEF Talk!Hear, Talk!Leave
      <4> QED  BY <4>4, SpeaksInTurn
    <3>3. CASE ~ReadFrame
      <4>1. live' = live /\ taken' = taken /\ rx' \in {rx, None}
        BY <3>3
      <4>2. /\ ~(top = "TXRX" /\ txrx \in {"TX_IDLE", "TX_WAIT_TXE"})
            /\ ~(top' = "TXRX" /\ txrx' \in {"TX_IDLE", "TX_WAIT_TXE"})
            /\ iso # "PICC_TX"
        BY <3>1, <3>3 DEF Queued, Launched
      <4>3. Talk!Leave \/ Still
        BY <3>1, <4>1, <4>2 DEF Talk!Leave, Still, Turn
      <4> QED  BY <4>3, SpeaksInTurn
    <3> QED  BY <3>2, <3>3
  <2> QED  BY <2>1, <2>2
<1>5. CASE Worker /\ LmSleep
  <2> USE <1>5 DEF LmSleep, SetPowerOff, Worker, reader, flags, listen, xcv,
           ghosts
  <2>1. Once'  BY DEF Held
  <2>2. Speaks
    <3>1. Talk!Leave \/ Still
      BY DEF Talk!Leave, Still, Turn
    <3> QED  BY <3>1, SpeaksInTurn
  <2> QED  BY <2>1, <2>2
<1>6. CASE Worker /\ LmNothing
  <2> USE <1>6 DEF LmNothing, chip, Worker, reader, flags, listen, xcv, ghosts
  <2>1. Once'  BY DEF Held
  <2>2. Speaks
    <3>1. Still
      BY DEF Still, Turn
    <3> QED  BY <3>1, SpeaksInTurn
  <2> QED  BY <2>1, <2>2
<1>7. CASE (Worker \/ BlockingTx) /\ TxRxWorker /\ TxStart
  <2> USE <1>7 DEF TxStart, Worker, BlockingTx, TxRxWorker, Prepare, reader,
           flags, listen, xcv, ghosts
  <2>1. Once'  BY DEF Held, TransceiveStatus
  <2>2. Speaks
    <3>1. Talk!Answer \/ Talk!Leave
      BY DEF Talk!Answer, Talk!Leave, Turn, Queued, Launched, Fresh
    <3> QED  BY <3>1, SpeaksInTurn
  <2> QED  BY <2>1, <2>2
<1>8. CASE (Worker \/ BlockingTx) /\ TxRxWorker /\ TxWait
  <2> USE <1>8 DEF TxWait, Worker, BlockingTx, TxRxWorker, Prepare, reader,
           flags, listen, xcv, ghosts
  <2>1. Once'  BY DEF Held, TransceiveStatus
  <2>2. Speaks
    <3>1. Talk!Finish \/ Still
      BY DEF Talk!Finish, Still, Turn, Queued
    <3> QED  BY <3>1, SpeaksInTurn
  <2> QED  BY <2>1, <2>2
<1>9. CASE (Worker \/ BlockingTx) /\ TxRxWorker /\ RxArm
  <2> USE <1>9 DEF RxArm, Worker, BlockingTx, TxRxWorker, Prepare, reader,
           flags, listen, xcv, ghosts
  <2>1. Once'  BY DEF Held
  <2>2. Speaks
    <3>1. Talk!Leave
      BY DEF Talk!Leave, Turn, Queued
    <3> QED  BY <3>1, SpeaksInTurn
  <2> QED  BY <2>1, <2>2
<1>10. CASE (Worker \/ BlockingTx) /\ TxRxWorker /\ RxWait
  <2> USE <1>10 DEF RxWait, Worker, BlockingTx, TxRxWorker, Prepare, reader,
           flags, listen, xcv, ghosts
  <2>1. Once'  BY DEF Held, TransceiveStatus, ReadFrame
  <2>2. Speaks
    <3>1. pc \in {"worker", "ats"} /\ cmd = None /\ cmd' = None /\ iso' = iso
      BY DEF Launched
    <3>2. CASE ReadFrame
      <4>1. Turn \in {"reader", "heard"} /\ iso # "PICC_TX" /\ ~(top' = "TXRX"
               /\ txrx' \in {"TX_IDLE", "TX_WAIT_TXE"})
        BY <3>1, <3>2 DEF Turn, Queued, Launched
      <4>2. Turn' = IF rx' = None THEN "reader" ELSE "heard"
        BY <3>1, <3>2, <4>1 DEF Turn, ReadFrame
      <4>3. rx' = None => live' = FALSE
        BY <1>0, <3>2 DEF ReadFrame
      <4>4. Talk!Hear \/ Talk!Leave
        BY <1>0, <4>1, <4>2, <4>3 DEF Talk!Hear, Talk!Leave
      <4> QED  BY <4>4, SpeaksInTurn
    <3>3. CASE ~ReadFrame
      <4>1. live' = live /\ taken' = taken /\ rx' \in {rx, None}
        BY <3>3
      <4>2. /\ ~(top = "TXRX" /\ txrx \in {"TX_IDLE", "TX_WAIT_TXE"})
            /\ ~(top' = "TXRX" /\ txrx' \in {"TX_IDLE", "TX_WAIT_TXE"})
            /\ iso # "PICC_TX"
        BY <3>1, <3>3 DEF Queued, Launched
      <4>3. Talk!Leave \/ Still
        BY <3>1, <4>1, <4>2 DEF Talk!Leave, Still, Turn
      <4> QED  BY <4>3, SpeaksInTurn
    <3> QED  BY <3>2, <3>3
  <2> QED  BY <2>1, <2>2
<1>11. CASE (Worker \/ BlockingTx) /\ TxRxWorker /\ RxReadBad
  <2> USE <1>11 DEF RxReadBad, Worker, BlockingTx, TxRxWorker, Prepare,
           reader, flags, listen, xcv, ghosts
  <2>1. Once'  BY DEF ReadFrame
  <2>2. Speaks
    <3>1. pc \in {"worker", "ats"} /\ cmd = None /\ cmd' = None /\ iso' = iso
      BY DEF Launched
    <3>2. CASE ReadFrame
      <4>1. Turn \in {"reader", "heard"} /\ iso # "PICC_TX" /\ ~(top' = "TXRX"
               /\ txrx' \in {"TX_IDLE", "TX_WAIT_TXE"})
        BY <3>1, <3>2 DEF Turn, Queued, Launched
      <4>2. Turn' = IF rx' = None THEN "reader" ELSE "heard"
        BY <3>1, <3>2, <4>1 DEF Turn, ReadFrame
      <4>3. rx' = None => live' = FALSE
        BY <1>0, <3>2 DEF ReadFrame
      <4>4. Talk!Hear \/ Talk!Leave
        BY <1>0, <4>1, <4>2, <4>3 DEF Talk!Hear, Talk!Leave
      <4> QED  BY <4>4, SpeaksInTurn
    <3> QED  BY <3>2
  <2> QED  BY <2>1, <2>2
<1>12. CASE (Worker \/ BlockingTx) /\ TxRxWorker /\ TxRxFail
  <2> USE <1>12 DEF TxRxFail, Worker, BlockingTx, TxRxWorker, Prepare, reader,
           flags, listen, xcv, ghosts
  <2>1. Once'  BY DEF Held, TransceiveStatus, FailedKnown
  <2>2. Speaks
    <3>1. Still
      BY DEF Still, Turn
    <3> QED  BY <3>1, SpeaksInTurn
  <2> QED  BY <2>1, <2>2
<1>13. CASE (Worker \/ BlockingTx) /\ TxRxWorker /\ TxRxRest
  <2> USE <1>13 DEF TxRxRest, Worker, BlockingTx, TxRxWorker, Prepare, reader,
           flags, listen, xcv, ghosts
  <2>1. Once'  BY DEF Held, TransceiveStatus
  <2>2. Speaks
    <3>1. Still
      BY DEF Still, Turn
    <3> QED  BY <3>1, SpeaksInTurn
  <2> QED  BY <2>1, <2>2
<1> QED  BY <1>1, <1>2, <1>3, <1>4, <1>5, <1>6, <1>7, <1>8, <1>9, <1>10,
         <1>11, <1>12, <1>13 DEF Worker, BlockingTx, RfalWorker, TxRxWorker

\* Every step keeps the invariant and is a step of the abstract card.
LEMMA OnceInductive ==
  ASSUME Mode # "UL", IInv, Timely, Once, [Next]_vars
  PROVE  Once' /\ Speaks
<1>1. CASE Worker \/ BlockingTx
  BY <1>1, WorkerOnce
<1>2. CASE Handler
  BY <1>2, HandlerOnce
<1>3. CASE GetRxA3 \/ GetRxA4
  BY <1>3, GetRxOnce
<1>4. CASE Process \/ Sleep \/ Button \/ UNCHANGED vars
  BY <1>4, LoopOnce
<1>5. CASE Reader \/ ChipTx
  BY <1>5, ReaderOnce
<1> QED  BY <1>1, <1>2, <1>3, <1>4, <1>5 DEF Next, Firmware

LEMMA OnceInitial == Init => Once /\ Talk!TalkInit
<1> SUFFICES ASSUME Init PROVE Once /\ Talk!TalkInit
  OBVIOUS
<1> USE DEF Init, RfalInit, ceInit
<1>1. Once
  BY DEF Once, Held, Active
<1>2. Talk!TalkInit
  BY DEF Turn, Talk!TalkInit
<1> QED  BY <1>1, <1>2

LEMMA OnceInvariance ==
  ASSUME Mode # "UL"
  PROVE  Spec => [](IInv /\ Timely /\ Once)
<1>1. Init => IInv /\ Timely /\ Once
  BY Initial, TimelyInitial, OnceInitial
<1>2. IInv /\ Timely /\ Once /\ [Next]_vars => (IInv /\ Timely /\ Once)'
  BY Inductive, TimelyInductive, OnceInductive
<1> QED  BY <1>1, <1>2, PTL DEF Spec

\* Every behaviour of the emulator, in layer 3 and in layer 4, is one of a card
\* that speaks only when spoken to: ceHandler, ceGetRx and ceSetTx act on each
\* frame once and answer it at most once, and only in its own field period.
THEOREM Implements ==
  ASSUME Mode # "UL"
  PROVE  Spec => SpeaksWhenSpokenTo
<1>1. Init => Talk!TalkInit
  BY OnceInitial
<1>2. (IInv /\ Timely /\ Once) /\ [Next]_vars => [Talk!TalkNext]_(Talk!talk)
  BY OnceInductive DEF Speaks
<1> QED
  BY <1>1, <1>2, OnceInvariance, PTL DEF Spec, SpeaksWhenSpokenTo, Talk!TalkSpec

\* A card other than the Ultralight never waits in the transceive machine for
\* what only the listen machine would see.
THEOREM MachineServed ==
  ASSUME Mode # "UL"
  PROVE  Spec => []ListenServed
<1>1. IInv /\ Timely /\ Once => ListenServed
  BY DEF IInv, TypeOK, RfalTypeOK, ListenTypeOK, Once, ListenServed, Listening
<1> QED  BY <1>1, OnceInvariance, PTL

-----------------------------------------------------------------------------
(***************************************************************************)
(* The Mifare Ultralight, whose reader sends no RATS, as a SAK without     *)
(* ISO/IEC 14443-4 asks of it.  First which machine runs, for any reader.  *)
(***************************************************************************)
\* Listen states in which rfalWorker() may run the transceive machine.
Selected == Active \cup {"NOT_INIT"}

\* ISO-DEP is never entered, and the transceive machine runs, or its frame is
\* acted on, only for a tag that was selected and not released since.
Machines ==
    /\ iso = "IDLE"
    /\ top = "TXRX" => lm \in Selected
    /\ pc = "process" => lm \in Selected
    /\ rx # None /\ TransceiveStatus = "NONE" /\ ~isFirstA3_Frame =>
         (pc \in {"handler", "getRx"} => lm \in Selected)

\* After an HLTA within a session the listen machine runs with isFirstA3_Frame
\* still FALSE.  Nothing the machine had then, nor a REQA and a frame in one
\* pass of the loop, brings it a first frame while it is POWER_OFF or IDLE: so
\* what ceGetRx finds in the transceive is never a frame of the listen machine.
Idling ==
    top = "LM" /\ ~isFirstA3_Frame =>
        /\ lm = "POWER_OFF" =>
             /\ pta = "sense" /\ fifo = None /\ "RXE_PTA" \notin irq
             /\ field => "EON" \in irq /\ pace # 0
             /\ "EOF" \in irq => "EON" \in irq
        /\ lm = "IDLE" =>
             /\ fifo = None /\ ~dataFlag /\ "RXE" \notin irq
             /\ pta = "sense" \/ (pta = "ready" /\ "RXE_PTA" \in irq /\ pace # 0)
        /\ lm # "NOT_INIT" /\ "EOF" \in irq => ~field /\ pace = OffPasses

\* What the invariants leave of layer 4: nothing.
LEMMA LayerThree ==
  ASSUME Mode = "UL", Rats \cap Cmd = {}, IInv, Timely
  PROVE  ~isActivatedA /\ lm # "CARDEMU_4A" /\ pc # "ats" /\ rx \notin Rats
<1>1. rx \notin Rats
  BY NoneAssumption DEF IInv, TypeOK, RfalTypeOK, XcvTypeOK, Rats
<1> QED  BY <1>1 DEF IInv, Staged, Consistent, ActivatedConsistent, Timely, Launched

\* The reader, and the end of a transmission.
LEMMA ReaderMachines ==
  ASSUME Mode = "UL", Rats \cap Cmd = {}, IInv, Timely, Machines, Idling,
         Reader \/ ChipTx
  PROVE  Machines' /\ Idling'
<1>0. ~isActivatedA /\ lm # "CARDEMU_4A" /\ pc # "ats" /\ rx \notin Rats
  BY LayerThree
<1> USE NoneAssumption, <1>0 DEF IInv, TypeOK, RfalTypeOK, ReaderTypeOK,
         OffPasses, XcvTypeOK, CeTypeOK, ListenTypeOK, Active, TxStates, RxStates,
         PiccStates, Staged, Timely, Machines, Selected, InHandler, InGetRx
<1>1. CASE ceVars' = ceVars /\ FieldOn
  <2> USE <1>1 DEF FieldOn, ceVars, flags, listen, xcv, ghosts, OnPasses
  <2>1. Machines'  BY DEF TransceiveStatus
  <2>2. Idling'  BY DEF Idling
  <2> QED  BY <2>1, <2>2
<1>2. CASE ceVars' = ceVars /\ FieldOff
  <2> USE <1>2 DEF FieldOff, ceVars, flags, listen, xcv, ghosts, OnPasses
  <2>1. Machines'  BY DEF TransceiveStatus
  <2>2. Idling'  BY DEF Idling
  <2> QED  BY <2>1, <2>2
<1>3. CASE ceVars' = ceVars /\ Poll
  <2> USE <1>3 DEF Poll, ceVars, flags, listen, xcv, ghosts, OnPasses
  <2>1. Machines'  BY DEF TransceiveStatus
  <2>2. Idling'  BY DEF Idling
  <2> QED  BY <2>1, <2>2
<1>4. CASE ceVars' = ceVars /\ Select
  <2> USE <1>4 DEF Select, ceVars, flags, listen, xcv, ghosts, OnPasses
  <2>1. Machines'  BY DEF TransceiveStatus
  <2>2. Idling'  BY DEF Idling
  <2> QED  BY <2>1, <2>2
<1>5. CASE ceVars' = ceVars /\ \E f \in Frames : Send(f)
  <2> USE <1>5 DEF Send, ceVars, flags, listen, xcv, ghosts, OnPasses
  <2>1. Machines'  BY DEF TransceiveStatus
  <2>2. Idling'  BY DEF Idling
  <2> QED  BY <2>1, <2>2
<1>6. CASE ceVars' = ceVars /\ TxEnd
  <2> USE <1>6 DEF TxEnd, reader, ceVars, flags, listen, xcv, ghosts, OnPasses
  <2>1. Machines'  BY DEF TransceiveStatus
  <2>2. Idling'  BY DEF Idling
  <2> QED  BY <2>1, <2>2
<1> QED BY <1>1, <1>2, <1>3, <1>4, <1>5, <1>6 DEF Reader, ChipTx

\* ceHandler.
LEMMA HandlerMachines ==
  ASSUME Mode = "UL", Rats \cap Cmd = {}, IInv, Timely, Machines, Idling,
         Handler
  PROVE  Machines' /\ Idling'
<1>0. ~isActivatedA /\ lm # "CARDEMU_4A" /\ pc # "ats" /\ rx \notin Rats
  BY LayerThree
<1> USE NoneAssumption, <1>0 DEF IInv, TypeOK, RfalTypeOK, ReaderTypeOK,
         OffPasses, XcvTypeOK, CeTypeOK, ListenTypeOK, Active, TxStates, RxStates,
         PiccStates, Staged, Timely, Machines, Selected, InHandler, InGetRx
<1>1. CASE Halt
  <2> USE <1>1 DEF Halt, SleepStart, chip, reader, flags, rfalVars, listen,
           xcv, ghosts
  <2>1. Machines'  BY DEF TransceiveStatus
  <2>2. Idling'
    <3>1. CASE field
      BY <3>1 DEF Idling
    <3>2. CASE ~field
      BY <3>2 DEF Idling
    <3> QED  BY <3>1, <3>2
  <2> QED  BY <2>1, <2>2
<1>2. CASE HandleA3
  <2> USE <1>2 DEF HandleA3, chip, reader, flags, rfalVars, listen, xcv, ghosts
  <2>1. Machines'  BY DEF TransceiveStatus
  <2>2. Idling'  BY DEF Idling
  <2> QED  BY <2>1, <2>2
<1>3. CASE HandleLinkLoss
  <2> USE <1>3 DEF HandleLinkLoss, LinkLost, RestartListening, SetPowerOff,
           chip, reader, flags, rfalVars, listen, xcv, ghosts
  <2>1. Machines'  BY DEF TransceiveStatus
  <2>2. Idling'  BY DEF Idling
  <2> QED  BY <2>1, <2>2
<1>4. CASE HandleNothing
  <2> USE <1>4 DEF HandleNothing, chip, reader, flags, rfalVars, listen, xcv,
           ghosts
  <2>1. Machines'  BY DEF TransceiveStatus
  <2>2. Idling'  BY DEF Idling
  <2> QED  BY <2>1, <2>2
<1> QED BY <1>1, <1>2, <1>3, <1>4 DEF Handler, HandleRats, IgnoreRats,
         Activate, ActivationRetry, Held

\* ceGetRx.
LEMMA GetRxMachines ==
  ASSUME Mode = "UL", Rats \cap Cmd = {}, IInv, Timely, Machines, Idling,
         GetRxA3 \/ GetRxA4
  PROVE  Machines' /\ Idling'
<1>0. ~isActivatedA /\ lm # "CARDEMU_4A" /\ pc # "ats" /\ rx \notin Rats
  BY LayerThree
<1> USE NoneAssumption, <1>0 DEF IInv, TypeOK, RfalTypeOK, ReaderTypeOK,
         OffPasses, XcvTypeOK, CeTypeOK, ListenTypeOK, Active, TxStates, RxStates,
         PiccStates, Staged, Timely, Machines, Selected, InHandler, InGetRx
<1>1. CASE /\ HandOver /\ iso' = iso
           /\ IF isFirstA3_Frame THEN rxReady
                                 ELSE TransceiveStatus = "NONE" /\ rx # None
  <2> USE <1>1 DEF HandOver, chip, reader, flags, rfalVars, listen, xcv, ghosts
  <2>1. Machines'  BY DEF TransceiveStatus
  <2>2. Idling'  BY DEF Idling
  <2> QED  BY <2>1, <2>2
<1>2. CASE Relisten /\ iso' = iso
  <2> USE <1>2 DEF Relisten, ResetFlags, RestartListening, SetPowerOff, chip,
           reader, flags, rfalVars, listen, xcv, ghosts
  <2>1. Machines'  BY DEF TransceiveStatus
  <2>2. Idling'  BY DEF Idling
  <2> QED  BY <2>1, <2>2
<1>3. CASE /\ InGetRx("worker")
           /\ IF isFirstA3_Frame THEN ~rxReady
                                 ELSE \/ TransceiveStatus = "BUSY"
                                      \/ TransceiveStatus = "NONE" /\ rx = None
           /\ UNCHANGED <<rfalVars, flags, iso, cmd, started>>
  <2> USE <1>3 DEF chip, reader, flags, rfalVars, listen, xcv, ghosts
  <2>1. Machines'  BY DEF TransceiveStatus
  <2>2. Idling'  BY DEF Idling
  <2> QED  BY <2>1, <2>2
<1> QED BY <1>1, <1>2, <1>3 DEF GetRxA3, GetRxA4

\* processCmd with ceSetTx, the end of its reset path, and the user button.
LEMMA LoopMachines ==
  ASSUME Mode = "UL", Rats \cap Cmd = {}, IInv, Timely, Machines, Idling,
         Process \/ Sleep \/ Button \/ UNCHANGED vars
  PROVE  Machines' /\ Idling'
<1>0. ~isActivatedA /\ lm # "CARDEMU_4A" /\ pc # "ats" /\ rx \notin Rats
  BY LayerThree
<1> USE NoneAssumption, <1>0 DEF IInv, TypeOK, RfalTypeOK, ReaderTypeOK,
         OffPasses, XcvTypeOK, CeTypeOK, ListenTypeOK, Active, TxStates, RxStates,
         PiccStates, Staged, Timely, Machines, Selected, InHandler, InGetRx
<1>1. CASE Process
  <2> USE <1>1 DEF Process, StartTransceive, Prepare, current_processCmdPtr,
           processCmdMifUL, Answer, chip, reader, listen, xcv, ghosts
  <2>1. Machines'  BY DEF TransceiveStatus
  <2>2. Idling'  BY DEF Idling
  <2> QED  BY <2>1, <2>2
<1>2. CASE Sleep
  <2> USE <1>2 DEF Sleep, SleepStart, ResetFlags, reader, listen, xcv, ghosts
  <2>1. Machines'  BY DEF TransceiveStatus
  <2>2. Idling'  BY DEF Idling
  <2> QED  BY <2>1, <2>2
<1>3. CASE Button
  <2> USE <1>3 DEF Button, RestartListening, SetPowerOff, ResetFlags, reader,
           listen, xcv, ghosts
  <2>1. Machines'  BY DEF TransceiveStatus
  <2>2. Idling'  BY DEF Idling
  <2> QED  BY <2>1, <2>2
<1>4. CASE UNCHANGED vars
  <2> USE <1>4 DEF vars, rfalVars, ceVars
  <2>1. Machines'  BY DEF TransceiveStatus
  <2>2. Idling'  BY DEF Idling
  <2> QED  BY <2>1, <2>2
<1> QED BY <1>1, <1>2, <1>3, <1>4

\* One call of rfalWorker(), of the loop or of a blocking transmission.
LEMMA WorkerMachines ==
  ASSUME Mode = "UL", Rats \cap Cmd = {}, IInv, Timely, Machines, Idling,
         Worker \/ BlockingTx
  PROVE  Machines' /\ Idling'
<1>0. ~isActivatedA /\ lm # "CARDEMU_4A" /\ pc # "ats" /\ rx \notin Rats
  BY LayerThree
<1> USE NoneAssumption, <1>0 DEF IInv, TypeOK, RfalTypeOK, ReaderTypeOK,
         OffPasses, XcvTypeOK, CeTypeOK, ListenTypeOK, Active, TxStates, RxStates,
         PiccStates, Staged, Timely, Machines, Selected, InHandler, InGetRx
<1>1. CASE Worker /\ LmPowerOff
  <2> USE <1>1 DEF LmPowerOff, chip, Worker, reader, flags, listen, xcv, ghosts
  <2>1. Machines'  BY DEF TransceiveStatus, FirstReady
  <2>2. Idling'  BY DEF Idling
  <2> QED  BY <2>1, <2>2
<1>2. CASE Worker /\ LmIdle
  <2> USE <1>2 DEF LmIdle, SetPowerOff, ReadFrame, Worker, reader, flags,
           listen, xcv, ghosts
  <2>1. Machines'
    <3>1. rx' \in {rx, None} \/ isFirstA3_Frame
      BY DEF Idling
    <3> QED  BY <3>1 DEF TransceiveStatus, FirstReady
  <2>2. Idling'
    <3> SUFFICES ASSUME ~isFirstA3_Frame PROVE Idling'
      BY DEF Idling
    <3>1. /\ top' = "LM" /\ field' = field /\ pace' = IF pace = 0 THEN 0 ELSE pace - 1
          /\ isFirstA3_Frame' = isFirstA3_Frame
      OBVIOUS
    <3>2. fifo = None /\ pta \in {"sense", "ready"}
      BY DEF Idling
    <3>3. CASE "EOF" \in irq
      <4>1. ~field /\ lm' = "POWER_OFF" /\ pta' = "sense" /\ fifo' = None
            /\ irq' \subseteq {"RXE", "TXE"}
        BY <3>3 DEF Idling
      <4> QED  BY <4>1, <3>1 DEF Idling
    <3>4. CASE "EOF" \notin irq
      <4>1. ~("RXE" \in irq /\ ((br /\ lm # "POWER_OFF") \/ "RXE_PTA" \in irq))
        BY DEF Idling
      <4>2. /\ lm' = IF "RXE_PTA" \in irq /\ pta # "sense" THEN "READY_A" ELSE "IDLE"
            /\ pta' = pta /\ fifo' = None
            /\ irq' \cap {"RXE", "EOF"} = {}
            /\ lm' = "IDLE" => ~dataFlag'
        BY <3>2, <3>4, <4>1 DEF Idling
      <4>3. lm' = "IDLE" => pta' = "sense"
        BY <4>2 DEF Idling
      <4> QED  BY <3>1, <4>2, <4>3 DEF Idling
    <3> QED  BY <3>3, <3>4
  <2> QED  BY <2>1, <2>2
<1>3. CASE Worker /\ LmReady
  <2> USE <1>3 DEF LmReady, SetPowerOff, Worker, reader, flags, listen, xcv,
           ghosts
  <2>1. Machines'  BY DEF TransceiveStatus, FirstReady
  <2>2. Idling'  BY DEF Idling
  <2> QED  BY <2>1, <2>2
<1>4. CASE Worker /\ LmActive
  <2> USE <1>4 DEF LmActive, SetPowerOff, SetIdle, SleepStart, ReadFrame,
           Worker, reader, flags, listen, xcv, ghosts
  <2>1. Machines'
    <3>1. lm' \in Selected \/ rx' \in {rx, None}
      OBVIOUS
    <3>2. pc' = "handler" /\ iso' = "IDLE" /\ top' = "LM" /\ txrx' = txrx
          /\ status' = status /\ isFirstA3_Frame' = isFirstA3_Frame
      OBVIOUS
    <3> QED  BY <3>1, <3>2 DEF TransceiveStatus, FirstReady
  <2>2. Idling'
    <3> SUFFICES ASSUME ~isFirstA3_Frame PROVE Idling'
      BY DEF Idling
    <3>1. field' = field /\ isFirstA3_Frame' = isFirstA3_Frame
      OBVIOUS
    <3>2. CASE "EOF" \in irq
      <4>1. ~field /\ lm' = "POWER_OFF" /\ pta' = "sense" /\ fifo' = None
            /\ irq' \subseteq {"RXE", "TXE"}
        BY <3>2 DEF Idling
      <4> QED  BY <4>1, <3>1 DEF Idling
    <3>3. CASE "EOF" \notin irq
      <4>1. "EOF" \notin irq' /\ lm' # "POWER_OFF"
        BY <3>3
      <4>2. lm' = "IDLE" =>
              fifo' = None /\ ~dataFlag' /\ "RXE" \notin irq' /\ pta' = "sense"
        BY <3>3
      <4> QED  BY <3>1, <4>1, <4>2 DEF Idling
    <3> QED  BY <3>2, <3>3
  <2> QED  BY <2>1, <2>2
<1>5. CASE Worker /\ LmSleep
  <2> USE <1>5 DEF LmSleep, SetPowerOff, Worker, reader, flags, listen, xcv,
           ghosts
  <2>1. Machines'  BY DEF TransceiveStatus, FirstReady
  <2>2. Idling'  BY DEF Idling
  <2> QED  BY <2>1, <2>2
<1>6. CASE Worker /\ LmNothing
  <2> USE <1>6 DEF LmNothing, chip, Worker, reader, flags, listen, xcv, ghosts
  <2>1. Machines'  BY DEF TransceiveStatus, FirstReady
  <2>2. Idling'  BY DEF Idling
  <2> QED  BY <2>1, <2>2
<1>7. CASE (Worker \/ BlockingTx) /\ TxRxWorker /\ TxStart
  <2> USE <1>7 DEF TxStart, Worker, BlockingTx, TxRxWorker, Prepare, reader,
           flags, listen, xcv, ghosts
  <2>1. Machines'  BY DEF TransceiveStatus
  <2>2. Idling'  BY DEF Idling
  <2> QED  BY <2>1, <2>2
<1>8. CASE (Worker \/ BlockingTx) /\ TxRxWorker /\ TxWait
  <2> USE <1>8 DEF TxWait, Worker, BlockingTx, TxRxWorker, reader, flags,
           listen, xcv, ghosts
  <2>1. Machines'  BY DEF TransceiveStatus
  <2>2. Idling'  BY DEF Idling
  <2> QED  BY <2>1, <2>2
<1>9. CASE (Worker \/ BlockingTx) /\ TxRxWorker /\ RxArm
  <2> USE <1>9 DEF RxArm, Worker, BlockingTx, TxRxWorker, reader, flags,
           listen, xcv, ghosts
  <2>1. Machines'  BY DEF TransceiveStatus
  <2>2. Idling'  BY DEF Idling
  <2> QED  BY <2>1, <2>2
<1>10. CASE (Worker \/ BlockingTx) /\ TxRxWorker /\ RxWait
  <2> USE <1>10 DEF RxWait, ReadFrame, Worker, BlockingTx, TxRxWorker, reader,
           flags, listen, xcv, ghosts
  <2>1. Machines'  BY DEF TransceiveStatus
  <2>2. Idling'  BY DEF Idling
  <2> QED  BY <2>1, <2>2
<1>11. CASE (Worker \/ BlockingTx) /\ TxRxWorker /\ RxReadBad
  <2> USE <1>11 DEF RxReadBad, ReadFrame, Worker, BlockingTx, TxRxWorker,
           reader, flags, listen, xcv, ghosts
  <2>1. Machines'  BY DEF TransceiveStatus
  <2>2. Idling'  BY DEF Idling
  <2> QED  BY <2>1, <2>2
<1>12. CASE (Worker \/ BlockingTx) /\ TxRxWorker /\ TxRxFail
  <2> USE <1>12 DEF TxRxFail, Worker, BlockingTx, TxRxWorker, reader, flags,
           listen, xcv, ghosts
  <2>1. Machines'  BY DEF TransceiveStatus
  <2>2. Idling'  BY DEF Idling
  <2> QED  BY <2>1, <2>2
<1>13. CASE (Worker \/ BlockingTx) /\ TxRxWorker /\ TxRxRest
  <2> USE <1>13 DEF TxRxRest, Worker, BlockingTx, TxRxWorker, reader, flags,
           listen, xcv, ghosts
  <2>1. Machines'  BY DEF TransceiveStatus
  <2>2. Idling'  BY DEF Idling
  <2> QED  BY <2>1, <2>2
<1> QED BY <1>1, <1>2, <1>3, <1>4, <1>5, <1>6, <1>7, <1>8, <1>9, <1>10, <1>11,
         <1>12, <1>13 DEF Worker, BlockingTx, RfalWorker, TxRxWorker

LEMMA MachinesInductive ==
  ASSUME Mode = "UL", Rats \cap Cmd = {}, IInv, Timely, Machines, Idling, [Next]_vars
  PROVE  Machines' /\ Idling'
<1>1. CASE Worker \/ BlockingTx
  BY <1>1, WorkerMachines
<1>2. CASE Handler
  BY <1>2, HandlerMachines
<1>3. CASE GetRxA3 \/ GetRxA4
  BY <1>3, GetRxMachines
<1>4. CASE Process \/ Sleep \/ Button \/ UNCHANGED vars
  BY <1>4, LoopMachines
<1>5. CASE Reader \/ ChipTx
  BY <1>5, ReaderMachines
<1> QED  BY <1>1, <1>2, <1>3, <1>4, <1>5 DEF Next, Firmware

LEMMA MachinesInitial == Init => Machines /\ Idling
  BY DEF Init, RfalInit, ceInit, Machines, Idling

LEMMA MachinesInvariance ==
  ASSUME Mode = "UL", Rats \cap Cmd = {}
  PROVE  Spec => [](IInv /\ Timely /\ Machines /\ Idling)
<1>1. Init => IInv /\ Timely /\ Machines /\ Idling
  BY Initial, TimelyInitial, MachinesInitial
<1>2. IInv /\ Timely /\ Machines /\ Idling /\ [Next]_vars
        => (IInv /\ Timely /\ Machines /\ Idling)'
  BY Inductive, TimelyInductive, MachinesInductive
<1> QED  BY <1>1, <1>2, PTL DEF Spec

\* An Ultralight whose reader sends no RATS never waits in the transceive machine
\* for what only the listen machine would see, however hasty or noisy the reader.
THEOREM UltralightServed ==
  ASSUME Mode = "UL", Rats \cap Cmd = {}
  PROVE  Spec => []ListenServed
<1>1. IInv /\ Machines => ListenServed
  BY DEF IInv, TypeOK, RfalTypeOK, ListenTypeOK, Machines, Selected, Active,
     ListenServed, Listening
<1> QED  BY <1>1, MachinesInvariance, PTL

-----------------------------------------------------------------------------
(***************************************************************************)
(* Once per frame, for an Ultralight whose reader keeps its field up while *)
(* it is served.  A hasty one makes the HLTA it sent reach processCmd as   *)
(* a command (TLC shows it), so the premise cannot be left out.            *)
(***************************************************************************)
\* What the tag holds, in the chip, in rxBuf_ce or in processCmd, is served: the
\* field is up meanwhile, and SleepStart does clear the length and the machine.
OnceServed ==
    /\ top = "TXRX" => lm \in Active
    /\ cmd # None <=> pc = "process"
    /\ Held /\ pc # "process" => ~taken /\ field
    /\ pc \in {"process", "nak", "sleep"} => field
    /\ pc = "process" => lm \in Active /\ (top = "LM" \/ txrx = "IDLE")
    /\ fifo # None => field
    /\ top = "TXRX" /\ rx # None /\ pc # "process" =>
         /\ field /\ ~taken
         /\ txrx = "RX_FAIL" \/ (txrx = "IDLE" /\ pc \in {"handler", "getRx"})
    /\ top = "LM" /\ lm \in Active /\ dataFlag /\ rx # None /\ pc # "process" =>
         ~taken /\ (field \/ (pc = "worker" /\ "EOF" \in irq))
    /\ txrx \in {"IDLE", "RX_READ_DATA", "TX_FAIL", "RX_FAIL"} => status # "BUSY"
    /\ rx # None /\ TransceiveStatus = "NONE" /\ ~isFirstA3_Frame =>
         (pc \in {"handler", "getRx"} => lm \in Active)

\* The reader, and the end of a transmission.
LEMMA ReaderServed ==
  ASSUME Mode = "UL", Rats \cap Cmd = {}, ~Hasty, IInv, Timely, Machines,
         Idling, OnceServed,
         Reader \/ ChipTx
  PROVE  OnceServed' /\ Speaks
<1>0. ~isActivatedA /\ lm # "CARDEMU_4A" /\ pc # "ats" /\ rx \notin Rats
  BY LayerThree
<1> USE NoneAssumption, <1>0 DEF IInv, TypeOK, RfalTypeOK, ReaderTypeOK,
         OffPasses, XcvTypeOK, CeTypeOK, ListenTypeOK, Active, TxStates, RxStates,
         PiccStates, Staged, Timely, Machines, OnceServed, InHandler, InGetRx
<1>1. CASE ceVars' = ceVars /\ FieldOn
  <2> USE <1>1 DEF FieldOn, ceVars, flags, listen, xcv, ghosts, OnPasses
  <2>1. OnceServed'  BY DEF Held, TransceiveStatus
  <2>2. Speaks
    <3>1. Still
      BY DEF Still, Turn
    <3> QED  BY <3>1, SpeaksInTurn
  <2> QED  BY <2>1, <2>2
<1>2. CASE ceVars' = ceVars /\ ~Serving /\ FieldOff
  <2> USE <1>2 DEF FieldOff, ceVars, flags, listen, xcv, ghosts, OnPasses,
           Serving
  <2>1. OnceServed'  BY DEF Held, TransceiveStatus, HeldFresh
  <2>2. Speaks
    <3>1. Talk!Lose
      BY DEF Talk!Lose, Turn
    <3> QED  BY <3>1, SpeaksInTurn
  <2> QED  BY <2>1, <2>2
<1>3. CASE ceVars' = ceVars /\ Poll
  <2> USE <1>3 DEF Poll, ceVars, flags, listen, xcv, ghosts, OnPasses
  <2>1. OnceServed'  BY DEF Held, TransceiveStatus
  <2>2. Speaks
    <3>1. Still
      BY DEF Still, Turn
    <3> QED  BY <3>1, SpeaksInTurn
  <2> QED  BY <2>1, <2>2
<1>4. CASE ceVars' = ceVars /\ Select
  <2> USE <1>4 DEF Select, ceVars, flags, listen, xcv, ghosts, OnPasses
  <2>1. OnceServed'  BY DEF Held, TransceiveStatus
  <2>2. Speaks
    <3>1. Still
      BY DEF Still, Turn
    <3> QED  BY <3>1, SpeaksInTurn
  <2> QED  BY <2>1, <2>2
<1>5. CASE ceVars' = ceVars /\ ~Serving /\ \E f \in Frames : Send(f)
  <2> USE <1>5 DEF Send, ceVars, flags, listen, xcv, ghosts, OnPasses, Serving
  <2>1. OnceServed'  BY DEF Held, TransceiveStatus
  <2>2. Speaks
    <3>1. Still
      BY DEF Still, Turn
    <3> QED  BY <3>1, SpeaksInTurn
  <2> QED  BY <2>1, <2>2
<1>6. CASE ceVars' = ceVars /\ TxEnd
  <2> USE <1>6 DEF TxEnd, reader, ceVars, flags, listen, xcv, ghosts, OnPasses
  <2>1. OnceServed'  BY DEF Held, TransceiveStatus
  <2>2. Speaks
    <3>1. Still
      BY DEF Still, Turn
    <3> QED  BY <3>1, SpeaksInTurn
  <2> QED  BY <2>1, <2>2
<1> QED BY <1>1, <1>2, <1>3, <1>4, <1>5, <1>6 DEF Reader, ChipTx

\* ceHandler.
LEMMA HandlerServed ==
  ASSUME Mode = "UL", Rats \cap Cmd = {}, ~Hasty, IInv, Timely, Machines,
         Idling, OnceServed,
         Handler
  PROVE  OnceServed' /\ Speaks
<1>0. ~isActivatedA /\ lm # "CARDEMU_4A" /\ pc # "ats" /\ rx \notin Rats
  BY LayerThree
<1> USE NoneAssumption, <1>0 DEF IInv, TypeOK, RfalTypeOK, ReaderTypeOK,
         OffPasses, XcvTypeOK, CeTypeOK, ListenTypeOK, Active, TxStates, RxStates,
         PiccStates, Staged, Timely, Machines, OnceServed, InHandler, InGetRx
<1>1. CASE Halt
  <2> USE <1>1 DEF Halt, SleepStart, chip, reader, flags, rfalVars, listen,
           xcv, ghosts
  <2>1. OnceServed'  BY DEF Held, TransceiveStatus
  <2>2. Speaks
    <3>1. Talk!Leave
      BY DEF Talk!Leave, Turn, Held
    <3> QED  BY <3>1, SpeaksInTurn
  <2> QED  BY <2>1, <2>2
<1>2. CASE HandleA3
  <2> USE <1>2 DEF HandleA3, chip, reader, flags, rfalVars, listen, xcv, ghosts
  <2>1. OnceServed'  BY DEF Held, TransceiveStatus
  <2>2. Speaks
    <3>1. Still
      BY DEF Still, Turn
    <3> QED  BY <3>1, SpeaksInTurn
  <2> QED  BY <2>1, <2>2
<1>3. CASE HandleLinkLoss
  <2> USE <1>3 DEF HandleLinkLoss, LinkLost, RestartListening, SetPowerOff,
           chip, reader, flags, rfalVars, listen, xcv, ghosts
  <2>1. OnceServed'  BY DEF Held, TransceiveStatus
  <2>2. Speaks
    <3>1. Talk!Leave
      BY DEF Talk!Leave, Turn
    <3> QED  BY <3>1, SpeaksInTurn
  <2> QED  BY <2>1, <2>2
<1>4. CASE HandleNothing
  <2> USE <1>4 DEF HandleNothing, chip, reader, flags, rfalVars, listen, xcv,
           ghosts
  <2>1. OnceServed'  BY DEF Held, TransceiveStatus
  <2>2. Speaks
    <3>1. Still
      BY DEF Still, Turn
    <3> QED  BY <3>1, SpeaksInTurn
  <2> QED  BY <2>1, <2>2
<1> QED BY <1>1, <1>2, <1>3, <1>4 DEF Handler, HandleRats, IgnoreRats,
         Activate, ActivationRetry, Held

\* ceGetRx.
LEMMA GetRxServed ==
  ASSUME Mode = "UL", Rats \cap Cmd = {}, ~Hasty, IInv, Timely, Machines,
         Idling, OnceServed,
         GetRxA3 \/ GetRxA4
  PROVE  OnceServed' /\ Speaks
<1>0. ~isActivatedA /\ lm # "CARDEMU_4A" /\ pc # "ats" /\ rx \notin Rats
  BY LayerThree
<1> USE NoneAssumption, <1>0 DEF IInv, TypeOK, RfalTypeOK, ReaderTypeOK,
         OffPasses, XcvTypeOK, CeTypeOK, ListenTypeOK, Active, TxStates, RxStates,
         PiccStates, Staged, Timely, Machines, OnceServed, InHandler, InGetRx
<1>1. CASE /\ HandOver /\ iso' = iso
           /\ IF isFirstA3_Frame THEN rxReady
                                 ELSE TransceiveStatus = "NONE" /\ rx # None
  <2> USE <1>1 DEF HandOver, chip, reader, flags, rfalVars, listen, xcv, ghosts
  <2>1. OnceServed'  BY DEF Held, TransceiveStatus, FirstReady
  <2>2. Speaks
    <3>1. Talk!TakeUp
      BY DEF Talk!TakeUp, Turn, Held, FirstReady
    <3> QED  BY <3>1, SpeaksInTurn
  <2> QED  BY <2>1, <2>2
<1>2. CASE Relisten /\ iso' = iso
  <2> USE <1>2 DEF Relisten, ResetFlags, RestartListening, SetPowerOff, chip,
           reader, flags, rfalVars, listen, xcv, ghosts
  <2>1. OnceServed'  BY DEF Held, TransceiveStatus
  <2>2. Speaks
    <3>1. Talk!Leave
      BY DEF Talk!Leave, Turn
    <3> QED  BY <3>1, SpeaksInTurn
  <2> QED  BY <2>1, <2>2
<1>3. CASE /\ InGetRx("worker")
           /\ IF isFirstA3_Frame THEN ~rxReady
                                 ELSE \/ TransceiveStatus = "BUSY"
                                      \/ TransceiveStatus = "NONE" /\ rx = None
           /\ UNCHANGED <<rfalVars, flags, iso, cmd, started>>
  <2> USE <1>3 DEF chip, reader, flags, rfalVars, listen, xcv, ghosts
  <2>1. OnceServed'  BY DEF Held, TransceiveStatus, FirstReady
  <2>2. Speaks
    <3>1. Still
      BY DEF Still, Turn
    <3> QED  BY <3>1, SpeaksInTurn
  <2> QED  BY <2>1, <2>2
<1> QED BY <1>1, <1>2, <1>3 DEF GetRxA3, GetRxA4

\* processCmd with ceSetTx, the end of its reset path, and the user button.
LEMMA LoopServed ==
  ASSUME Mode = "UL", Rats \cap Cmd = {}, ~Hasty, IInv, Timely, Machines,
         Idling, OnceServed,
         Process \/ Sleep \/ Button \/ UNCHANGED vars
  PROVE  OnceServed' /\ Speaks
<1>0. ~isActivatedA /\ lm # "CARDEMU_4A" /\ pc # "ats" /\ rx \notin Rats
  BY LayerThree
<1> USE NoneAssumption, <1>0 DEF IInv, TypeOK, RfalTypeOK, ReaderTypeOK,
         OffPasses, XcvTypeOK, CeTypeOK, ListenTypeOK, Active, TxStates, RxStates,
         PiccStates, Staged, Timely, Machines, OnceServed, InHandler, InGetRx
<1>1. CASE Process
  <2> USE <1>1 DEF Process, StartTransceive, Prepare, current_processCmdPtr,
           processCmdMifUL, Answer, chip, reader, listen, xcv, ghosts
  <2>1. OnceServed'  BY DEF Held, TransceiveStatus
  <2>2. Speaks
    <3>1. Still \/ Talk!Leave
      BY DEF Still, Talk!Leave, Turn
    <3> QED  BY <3>1, SpeaksInTurn
  <2> QED  BY <2>1, <2>2
<1>2. CASE Sleep
  <2> USE <1>2 DEF Sleep, SleepStart, ResetFlags, reader, listen, xcv, ghosts
  <2>1. OnceServed'  BY DEF Held, TransceiveStatus
  <2>2. Speaks
    <3>1. Still \/ Talk!Leave
      BY DEF Still, Talk!Leave, Turn, Launched
    <3> QED  BY <3>1, SpeaksInTurn
  <2> QED  BY <2>1, <2>2
<1>3. CASE Button
  <2> USE <1>3 DEF Button, RestartListening, SetPowerOff, ResetFlags, reader,
           listen, xcv, ghosts
  <2>1. OnceServed'  BY DEF Held, TransceiveStatus
  <2>2. Speaks
    <3>1. Talk!Leave
      BY DEF Talk!Leave, Turn
    <3> QED  BY <3>1, SpeaksInTurn
  <2> QED  BY <2>1, <2>2
<1>4. CASE UNCHANGED vars
  <2> USE <1>4 DEF vars, rfalVars, ceVars
  <2>1. OnceServed'  BY DEF Held, TransceiveStatus
  <2>2. Speaks
    <3>1. Still
      BY DEF Still, Turn
    <3> QED  BY <3>1, SpeaksInTurn
  <2> QED  BY <2>1, <2>2
<1> QED BY <1>1, <1>2, <1>3, <1>4

\* One call of rfalWorker(), of the loop or of a blocking transmission.
LEMMA WorkerServed ==
  ASSUME Mode = "UL", Rats \cap Cmd = {}, ~Hasty, IInv, Timely, Machines,
         Idling, OnceServed,
         Worker \/ BlockingTx
  PROVE  OnceServed' /\ Speaks
<1>0. ~isActivatedA /\ lm # "CARDEMU_4A" /\ pc # "ats" /\ rx \notin Rats
  BY LayerThree
<1> USE NoneAssumption, <1>0 DEF IInv, TypeOK, RfalTypeOK, ReaderTypeOK,
         OffPasses, XcvTypeOK, CeTypeOK, ListenTypeOK, Active, TxStates, RxStates,
         PiccStates, Staged, Timely, Machines, OnceServed, InHandler, InGetRx
<1>00. live' \in BOOLEAN /\ (fifo # None => fifo.cmd # None)
  <2>1. fifo # None => fifo.cmd # None
    BY CmdAssumption DEF ChipTypeOK, Frames
  <2>2. RfalTypeOK /\ AutoMatchesState /\ RfalWorker
    BY DEF Worker, BlockingTx, RfalWorker, Consistent
  <2> QED  BY <2>1, <2>2, WorkerTypes DEF XcvTypeOK
<1>1. CASE Worker /\ LmPowerOff
  <2> USE <1>1 DEF LmPowerOff, chip, Worker, reader, flags, listen, xcv, ghosts
  <2>1. OnceServed'  BY DEF Held, TransceiveStatus, FirstReady
  <2>2. Speaks
    <3>1. Still
      BY DEF Still, Turn
    <3> QED  BY <3>1, SpeaksInTurn
  <2> QED  BY <2>1, <2>2
<1>2. CASE Worker /\ LmIdle
  <2> USE <1>2 DEF LmIdle, SetPowerOff, Worker, reader, flags, listen, xcv,
           ghosts
  <2>1. OnceServed'
    <3>1. rx' \in {rx, None} \/ isFirstA3_Frame
      BY DEF Idling, ReadFrame
    <3>2. /\ lm' \notin Active /\ top = "LM" /\ top' = "LM" /\ pc' = "handler"
          /\ cmd' = cmd /\ xcv' = xcv /\ field' = field /\ fifo' \in {fifo, None}
      BY DEF ReadFrame
    <3> QED  BY <3>1, <3>2 DEF Held, TransceiveStatus, FirstReady
  <2>2. Speaks
    <3>1. pc = "worker" /\ cmd = None /\ cmd' = None /\ iso' = "IDLE"
      BY DEF Launched
    <3>2. CASE ReadFrame
      <4>1. Turn \in {"reader", "heard"} /\ ~(top' = "TXRX"
               /\ txrx' \in {"TX_IDLE", "TX_WAIT_TXE"})
        BY <3>1, <3>2 DEF Turn, Launched
      <4>2. Turn' = IF rx' = None THEN "reader" ELSE "heard"
        BY <3>1, <3>2, <4>1 DEF Turn, ReadFrame
      <4>3. rx' = None => live' = FALSE
        BY <1>00, <3>2 DEF ReadFrame
      <4>4. Talk!Hear \/ Talk!Leave
        BY <1>00, <4>1, <4>2, <4>3 DEF Talk!Hear, Talk!Leave
      <4> QED  BY <4>4, SpeaksInTurn
    <3>3. CASE ~ReadFrame
      <4>1. live' = live /\ taken' = taken /\ rx' \in {rx, None}
        BY <3>3
      <4>2. /\ ~(top = "TXRX" /\ txrx \in {"TX_IDLE", "TX_WAIT_TXE"})
            /\ ~(top' = "TXRX" /\ txrx' \in {"TX_IDLE", "TX_WAIT_TXE"})
        BY <3>1, <3>3 DEF Launched
      <4>3. Talk!Leave \/ Still
        BY <3>1, <4>1, <4>2 DEF Talk!Leave, Still, Turn
      <4> QED  BY <4>3, SpeaksInTurn
    <3> QED  BY <3>2, <3>3
  <2> QED  BY <2>1, <2>2
<1>3. CASE Worker /\ LmReady
  <2> USE <1>3 DEF LmReady, SetPowerOff, Worker, reader, flags, listen, xcv,
           ghosts
  <2>1. OnceServed'  BY DEF Held, TransceiveStatus, FirstReady
  <2>2. Speaks
    <3>1. Still
      BY DEF Still, Turn
    <3> QED  BY <3>1, SpeaksInTurn
  <2> QED  BY <2>1, <2>2
<1>4. CASE Worker /\ LmActive
  <2> USE <1>4 DEF LmActive, SetPowerOff, SetIdle, SleepStart, Worker, reader,
           flags, listen, xcv, ghosts
  <2>1. OnceServed'
    <3>1. /\ top = "LM" /\ top' = "LM" /\ pc = "worker" /\ pc' = "handler"
          /\ cmd' = cmd /\ field' = field /\ fifo' \in {fifo, None}
          /\ txrx' = txrx /\ status' = status /\ isFirstA3_Frame' = isFirstA3_Frame
      BY DEF ReadFrame
    <3>2. CASE lm' \notin Active
      <4>1. rx' \in {rx, None}
        BY <3>2
      <4> QED  BY <3>1, <3>2, <4>1 DEF Held, TransceiveStatus, FirstReady
    <3>3. CASE rx' = rx /\ taken' = taken /\ dataFlag' = dataFlag /\ "EOF" \notin irq
      BY <3>1, <3>3 DEF Held, HeldFresh, TransceiveStatus, FirstReady
    <3>4. CASE ~taken' /\ field /\ lm' \in Active
      BY <3>1, <3>4 DEF Held, TransceiveStatus
    <3> QED  BY <3>2, <3>3, <3>4 DEF ReadFrame
  <2>2. Speaks
    <3>1. pc = "worker" /\ cmd = None /\ cmd' = None /\ iso' = "IDLE"
      BY DEF Launched
    <3>2. CASE ReadFrame
      <4>1. Turn \in {"reader", "heard"} /\ ~(top' = "TXRX"
               /\ txrx' \in {"TX_IDLE", "TX_WAIT_TXE"})
        BY <3>1, <3>2 DEF Turn, Launched
      <4>2. Turn' = IF rx' = None THEN "reader" ELSE "heard"
        BY <3>1, <3>2, <4>1 DEF Turn, ReadFrame
      <4>3. rx' = None => live' = FALSE
        BY <1>00, <3>2 DEF ReadFrame
      <4>4. Talk!Hear \/ Talk!Leave
        BY <1>00, <4>1, <4>2, <4>3 DEF Talk!Hear, Talk!Leave
      <4> QED  BY <4>4, SpeaksInTurn
    <3>3. CASE ~ReadFrame
      <4>1. live' = live /\ taken' = taken /\ rx' \in {rx, None}
        BY <3>3
      <4>2. /\ ~(top = "TXRX" /\ txrx \in {"TX_IDLE", "TX_WAIT_TXE"})
            /\ ~(top' = "TXRX" /\ txrx' \in {"TX_IDLE", "TX_WAIT_TXE"})
        BY <3>1, <3>3 DEF Launched
      <4>3. Talk!Leave \/ Still
        BY <3>1, <4>1, <4>2 DEF Talk!Leave, Still, Turn
      <4> QED  BY <4>3, SpeaksInTurn
    <3> QED  BY <3>2, <3>3
  <2> QED  BY <2>1, <2>2
<1>5. CASE Worker /\ LmSleep
  <2> USE <1>5 DEF LmSleep, SetPowerOff, Worker, reader, flags, listen, xcv,
           ghosts
  <2>1. OnceServed'  BY DEF Held, TransceiveStatus, FirstReady
  <2>2. Speaks
    <3>1. Still \/ Talk!Leave
      BY DEF Still, Talk!Leave, Turn
    <3> QED  BY <3>1, SpeaksInTurn
  <2> QED  BY <2>1, <2>2
<1>6. CASE Worker /\ LmNothing
  <2> USE <1>6 DEF LmNothing, chip, Worker, reader, flags, listen, xcv, ghosts
  <2>1. OnceServed'  BY DEF Held, TransceiveStatus, FirstReady
  <2>2. Speaks
    <3>1. Still
      BY DEF Still, Turn
    <3> QED  BY <3>1, SpeaksInTurn
  <2> QED  BY <2>1, <2>2
<1>7. CASE (Worker \/ BlockingTx) /\ TxRxWorker /\ TxStart
  <2> USE <1>7 DEF TxStart, Worker, BlockingTx, TxRxWorker, Prepare, reader,
           flags, listen, xcv, ghosts
  <2>1. OnceServed'  BY DEF Held, TransceiveStatus
  <2>2. Speaks
    <3>1. Talk!Answer \/ Talk!Leave
      BY DEF Talk!Answer, Talk!Leave, Turn, Launched, Fresh
    <3> QED  BY <3>1, SpeaksInTurn
  <2> QED  BY <2>1, <2>2
<1>8. CASE (Worker \/ BlockingTx) /\ TxRxWorker /\ TxWait
  <2> USE <1>8 DEF TxWait, Worker, BlockingTx, TxRxWorker, reader, flags,
           listen, xcv, ghosts
  <2>1. OnceServed'  BY DEF Held, TransceiveStatus
  <2>2. Speaks
    <3>1. Talk!Finish \/ Still
      BY DEF Talk!Finish, Still, Turn
    <3> QED  BY <3>1, SpeaksInTurn
  <2> QED  BY <2>1, <2>2
<1>9. CASE (Worker \/ BlockingTx) /\ TxRxWorker /\ RxArm
  <2> USE <1>9 DEF RxArm, Worker, BlockingTx, TxRxWorker, reader, flags,
           listen, xcv, ghosts
  <2>1. OnceServed'  BY DEF Held, TransceiveStatus
  <2>2. Speaks
    <3>1. Talk!Leave
      BY DEF Talk!Leave, Turn
    <3> QED  BY <3>1, SpeaksInTurn
  <2> QED  BY <2>1, <2>2
<1>10. CASE (Worker \/ BlockingTx) /\ TxRxWorker /\ RxWait
  <2> USE <1>10 DEF RxWait, Worker, BlockingTx, TxRxWorker, reader, flags,
           listen, xcv, ghosts
  <2>1. OnceServed'
    <3>1. pc = "worker" /\ pc' = "handler" /\ lm \in Active /\ lm' = lm /\ rx = None
      BY DEF Launched
    <3> QED  BY <3>1 DEF Held, TransceiveStatus, ReadFrame
  <2>2. Speaks
    <3>1. pc = "worker" /\ cmd = None /\ cmd' = None /\ iso' = "IDLE"
      BY DEF Launched
    <3>2. CASE ReadFrame
      <4>1. Turn \in {"reader", "heard"} /\ ~(top' = "TXRX"
               /\ txrx' \in {"TX_IDLE", "TX_WAIT_TXE"})
        BY <3>1, <3>2 DEF Turn, Launched
      <4>2. Turn' = IF rx' = None THEN "reader" ELSE "heard"
        BY <3>1, <3>2, <4>1 DEF Turn, ReadFrame
      <4>3. rx' = None => live' = FALSE
        BY <1>00, <3>2 DEF ReadFrame
      <4>4. Talk!Hear \/ Talk!Leave
        BY <1>00, <4>1, <4>2, <4>3 DEF Talk!Hear, Talk!Leave
      <4> QED  BY <4>4, SpeaksInTurn
    <3>3. CASE ~ReadFrame
      <4>1. live' = live /\ taken' = taken /\ rx' \in {rx, None}
        BY <3>3
      <4>2. /\ ~(top = "TXRX" /\ txrx \in {"TX_IDLE", "TX_WAIT_TXE"})
            /\ ~(top' = "TXRX" /\ txrx' \in {"TX_IDLE", "TX_WAIT_TXE"})
        BY <3>1, <3>3 DEF Launched
      <4>3. Talk!Leave \/ Still
        BY <3>1, <4>1, <4>2 DEF Talk!Leave, Still, Turn
      <4> QED  BY <4>3, SpeaksInTurn
    <3> QED  BY <3>2, <3>3
  <2> QED  BY <2>1, <2>2
<1>11. CASE (Worker \/ BlockingTx) /\ TxRxWorker /\ RxReadBad
  <2> USE <1>11 DEF RxReadBad, Worker, BlockingTx, TxRxWorker, reader, flags,
           listen, xcv, ghosts
  <2>1. OnceServed'
    <3>1. pc = "worker" /\ pc' = "handler" /\ lm \in Active /\ lm' = lm /\ rx = None
      BY DEF Launched
    <3> QED  BY <3>1 DEF Held, TransceiveStatus, ReadFrame, FirstReady
  <2>2. Speaks
    <3>1. pc = "worker" /\ cmd = None /\ cmd' = None /\ iso' = "IDLE"
      BY DEF Launched
    <3>2. CASE ReadFrame
      <4>1. Turn \in {"reader", "heard"} /\ ~(top' = "TXRX"
               /\ txrx' \in {"TX_IDLE", "TX_WAIT_TXE"})
        BY <3>1, <3>2 DEF Turn, Launched
      <4>2. Turn' = IF rx' = None THEN "reader" ELSE "heard"
        BY <3>1, <3>2, <4>1 DEF Turn, ReadFrame
      <4>3. rx' = None => live' = FALSE
        BY <1>00, <3>2 DEF ReadFrame
      <4>4. Talk!Hear \/ Talk!Leave
        BY <1>00, <4>1, <4>2, <4>3 DEF Talk!Hear, Talk!Leave
      <4> QED  BY <4>4, SpeaksInTurn
    <3> QED  BY <3>2
  <2> QED  BY <2>1, <2>2
<1>12. CASE (Worker \/ BlockingTx) /\ TxRxWorker /\ TxRxFail
  <2> USE <1>12 DEF TxRxFail, Worker, BlockingTx, TxRxWorker, reader, flags,
           listen, xcv, ghosts
  <2>1. OnceServed'  BY DEF Held, TransceiveStatus, FailedKnown, Launched, FirstReady
  <2>2. Speaks
    <3>1. Still
      BY DEF Still, Turn
    <3> QED  BY <3>1, SpeaksInTurn
  <2> QED  BY <2>1, <2>2
<1>13. CASE (Worker \/ BlockingTx) /\ TxRxWorker /\ TxRxRest
  <2> USE <1>13 DEF TxRxRest, Worker, BlockingTx, TxRxWorker, reader, flags,
           listen, xcv, ghosts
  <2>1. OnceServed'  BY DEF Held, TransceiveStatus
  <2>2. Speaks
    <3>1. Still
      BY DEF Still, Turn
    <3> QED  BY <3>1, SpeaksInTurn
  <2> QED  BY <2>1, <2>2
<1> QED BY <1>1, <1>2, <1>3, <1>4, <1>5, <1>6, <1>7, <1>8, <1>9, <1>10, <1>11,
         <1>12, <1>13 DEF Worker, BlockingTx, RfalWorker, TxRxWorker

\* Every step keeps the invariant and is a step of the abstract card.
LEMMA ServedInductive ==
  ASSUME Mode = "UL", Rats \cap Cmd = {}, ~Hasty, IInv, Timely, Machines, Idling,
         OnceServed, [Next]_vars
  PROVE  OnceServed' /\ Speaks
<1>1. CASE Worker \/ BlockingTx
  BY <1>1, WorkerServed
<1>2. CASE Handler
  BY <1>2, HandlerServed
<1>3. CASE GetRxA3 \/ GetRxA4
  BY <1>3, GetRxServed
<1>4. CASE Process \/ Sleep \/ Button \/ UNCHANGED vars
  BY <1>4, LoopServed
<1>5. CASE Reader \/ ChipTx
  BY <1>5, ReaderServed
<1> QED  BY <1>1, <1>2, <1>3, <1>4, <1>5 DEF Next, Firmware

LEMMA ServedInitial == Init => OnceServed
  BY DEF Init, RfalInit, ceInit, OnceServed, Held, Active

LEMMA ServedInvariance ==
  ASSUME Mode = "UL", Rats \cap Cmd = {}, ~Hasty
  PROVE  Spec => [](IInv /\ Timely /\ Machines /\ Idling /\ OnceServed)
<1>1. Init => OnceServed
  BY ServedInitial
<1>2. IInv /\ Timely /\ Machines /\ Idling /\ OnceServed /\ [Next]_vars => OnceServed'
  BY ServedInductive
<1> QED  BY <1>1, <1>2, MachinesInvariance, PTL DEF Spec

\* The Ultralight, with its NAKs sent by a blocking transmission and its HLTAs in
\* the middle of a session, is a card that speaks only when spoken to, for a
\* reader that sends no RATS and waits for the answer to what it has sent.
THEOREM UltralightImplements ==
  ASSUME Mode = "UL", Rats \cap Cmd = {}, ~Hasty
  PROVE  Spec => SpeaksWhenSpokenTo
<1>1. Init => Talk!TalkInit
  BY OnceInitial
<1>2. IInv /\ Timely /\ Machines /\ Idling /\ OnceServed /\ [Next]_vars
        => [Talk!TalkNext]_(Talk!talk)
  BY ServedInductive DEF Speaks
<1> QED
  BY <1>1, <1>2, ServedInvariance, PTL DEF Spec, SpeaksWhenSpokenTo, Talk!TalkSpec

-----------------------------------------------------------------------------
\* The frame ceGetRx hands over is one the invariants speak of.
LEMMA HandedOver ==
  ASSUME IInv, Timely, Next, pc = "getRx", pc' = "process",
         rx # None /\ TransceiveStatus = "NONE" /\ ~isFirstA3_Frame => lm \in Active
  PROVE  Held /\ iso # "PICC_TX"
<1> USE NoneAssumption DEF IInv, Timely, Consistent, ActivatedConsistent
<1>1. GetRxA3 \/ GetRxA4
  BY DEF Next, Firmware, Worker, Handler, HandleRats, StartActivation, IgnoreRats, Halt,
     HandleA3, HandleLinkLoss, Activate, ActivationRetry, HandleNothing, InHandler,
     BlockingTx, Process, Sleep, Button, Reader, ChipTx, ceVars
<1>2. CASE GetRxA3
  <2>1. iso # "PICC_TX"
    BY <1>2 DEF GetRxA3, Queued
  <2>2. CASE isFirstA3_Frame
    BY <1>2, <2>1, <2>2 DEF GetRxA3, FirstReady, Held, InGetRx, HandOver, Relisten
  <2>3. CASE ~isFirstA3_Frame
    BY <1>2, <2>1, <2>3 DEF GetRxA3, Held, InGetRx, HandOver, Relisten
  <2> QED  BY <2>2, <2>3
<1>3. CASE GetRxA4
  <2>1. iso = "PICC_RX" /\ TransceiveStatus = "NONE" /\ rx = "IBLOCK"
    BY <1>3 DEF GetRxA4, IsoSend, IsoListen, IsoWait, Relisten, InGetRx
  <2>2. lm = "CARDEMU_4A" /\ top = "TXRX"
    BY <1>3, <2>1 DEF GetRxA4, Refused, TypeOK, RfalTypeOK, ListenTypeOK
  <2> QED  BY <2>1, <2>2 DEF Held
<1> QED  BY <1>1, <1>2, <1>3

\* No frame reaches processCmd twice, nor one the handler has consumed: for each
\* kind of card, and for the Ultralight under the premises it needs.
THEOREM NeverActedOnTwice ==
  ASSUME Mode = "UL" => Rats \cap Cmd = {} /\ ~Hasty
  PROVE  Spec => ActedOnce
<1>1. CASE Mode # "UL"
  <2>1. IInv /\ Timely /\ Once /\ [Next]_vars
          => [pc = "getRx" /\ pc' = "process" => ~taken]_vars
    <3> SUFFICES ASSUME IInv, Timely, Once, Next, pc = "getRx", pc' = "process"
                 PROVE  ~taken
      OBVIOUS
    <3>1. isFirstA3_Frame
      BY <1>1 DEF IInv, Staged
    <3>2. Held /\ iso # "PICC_TX"
      BY <3>1, HandedOver
    <3> QED  BY <3>2 DEF Once
  <2> QED  BY <1>1, <2>1, OnceInvariance, PTL DEF Spec, ActedOnce
<1>2. CASE Mode = "UL"
  <2>1. IInv /\ Timely /\ Machines /\ Idling /\ OnceServed /\ [Next]_vars
          => [pc = "getRx" /\ pc' = "process" => ~taken]_vars
    <3> SUFFICES ASSUME IInv, Timely, OnceServed, Next, pc = "getRx", pc' = "process"
                 PROVE  ~taken
      OBVIOUS
    <3>1. rx # None /\ TransceiveStatus = "NONE" /\ ~isFirstA3_Frame => lm \in Active
      BY DEF OnceServed
    <3>2. Held /\ iso # "PICC_TX"
      BY <3>1, HandedOver
    <3> QED  BY <3>2 DEF OnceServed
  <2> QED  BY <1>2, <2>1, ServedInvariance, PTL DEF Spec, ActedOnce
<1> QED  BY <1>1, <1>2
=============================================================================
