------------------------ MODULE CardEmulationProofs ------------------------
(***************************************************************************)
(* Proofs about CardEmulation, for every set of commands, for readers with *)
(* or without noise and haste, and for the three kinds of card.            *)
(***************************************************************************)
EXTENDS CardEmulation, TLAPS

\* The three properties about copies of one fact kept in different variables.
Consistent == AutoMatchesState /\ StatusDefined /\ ActivatedConsistent

\* Where a received command may be between the handler and processCmd.  A card
\* other than the Ultralight never leaves the first frame behind, since processCmd answers
\* nothing in layer 3 and ceSetTx then resets it: so an activation that loses
\* the link, which leaves rxReady alone, finds it FALSE.
Staged ==
  /\ pc \in {"worker", "handler", "ats"} /\ rxReady => ~isFirstA3_Frame
  /\ pc \in {"process", "nak", "sleep"} => ~rxReady
  /\ pc = "getRx" /\ rxReady /\ isFirstA3_Frame => rx # None /\ lm \in Active
  /\ pc = "process" => cmd # None /\ txReady
  /\ Mode # "UL" => isFirstA3_Frame /\ (pc = "process" /\ ~isActivatedA => lm \in Active)
  /\ lm = "CARDEMU_4A" => Mode = "T4T"

\* The inductive invariant.
IInv == TypeOK /\ Consistent /\ Staged

\* rfalWorker() neither enters nor leaves layer 4.
Layer4Kept == lm' = "CARDEMU_4A" <=> lm = "CARDEMU_4A"

\* A frame read from the FIFO is a command, and the FIFO is then empty.
LEMMA ReadFrameTypes ==
  ASSUME ChipTypeOK, ReadFrame
  PROVE  /\ rx' \in Cmd \cup {None} /\ fifo' = None
         /\ live' \in BOOLEAN /\ taken' \in BOOLEAN
  BY DEF ReadFrame, ChipTypeOK, Frames


\* One call of rfalWorker(): a step of either machine.
LEMMA WorkerTypes ==
  ASSUME RfalTypeOK, AutoMatchesState, RfalWorker
  PROVE  ChipTypeOK' /\ ListenTypeOK' /\ XcvTypeOK' /\ AutoMatchesState' /\ Layer4Kept
<1> USE DEF RfalTypeOK
<1>1. CASE LmPowerOff
  <2> USE <1>1 DEF LmPowerOff, chip, listen, xcv, ghosts
  <2>1. ChipTypeOK'  BY DEF ChipTypeOK, Irqs, Frames
  <2>2. ListenTypeOK'  BY DEF ListenTypeOK, LmStates
  <2>3. XcvTypeOK'  BY DEF XcvTypeOK, TxStates, RxStates
  <2>4. AutoMatchesState'  BY DEF AutoMatchesState, Listening, Active
  <2>5. Layer4Kept  BY DEF Layer4Kept, Active
  <2> QED  BY <2>1, <2>2, <2>3, <2>4, <2>5
<1>2. CASE LmIdle
  <2> USE <1>2 DEF LmIdle, SetPowerOff, xcv, ghosts
  <2>1. ChipTypeOK'  BY ReadFrameTypes DEF ChipTypeOK, Irqs, Frames
  <2>2. ListenTypeOK'  BY DEF ListenTypeOK, LmStates
  <2>3. XcvTypeOK'  BY ReadFrameTypes DEF XcvTypeOK, TxStates, RxStates
  <2>4. AutoMatchesState'  BY DEF AutoMatchesState, Listening, Active
  <2>5. Layer4Kept  BY DEF Layer4Kept, Active
  <2> QED  BY <2>1, <2>2, <2>3, <2>4, <2>5
<1>3. CASE LmReady
  <2> USE <1>3 DEF LmReady, SetPowerOff, listen, xcv, ghosts
  <2>1. ChipTypeOK'  BY DEF ChipTypeOK, Irqs, Frames
  <2>2. ListenTypeOK'  BY DEF ListenTypeOK, LmStates
  <2>3. XcvTypeOK'  BY DEF XcvTypeOK, TxStates, RxStates
  <2>4. AutoMatchesState'  BY DEF AutoMatchesState, Listening, Active
  <2>5. Layer4Kept  BY DEF Layer4Kept, Active
  <2> QED  BY <2>1, <2>2, <2>3, <2>4, <2>5
<1>4. CASE LmActive
  <2> USE <1>4 DEF LmActive, SetPowerOff, SetIdle, SleepStart, Active, listen,
         xcv, ghosts
  <2>1. ChipTypeOK'  BY ReadFrameTypes DEF ChipTypeOK, Irqs, Frames
  <2>2. ListenTypeOK'  BY DEF ListenTypeOK, LmStates
  <2>3. XcvTypeOK'  BY ReadFrameTypes DEF XcvTypeOK, TxStates, RxStates
  <2>4. AutoMatchesState'  BY DEF AutoMatchesState, Listening, Active
  <2>5. Layer4Kept  BY DEF Layer4Kept, Active
  <2> QED  BY <2>1, <2>2, <2>3, <2>4, <2>5
<1>5. CASE LmSleep
  <2> USE <1>5 DEF LmSleep, SetPowerOff, xcv, ghosts
  <2>1. ChipTypeOK'  BY DEF ChipTypeOK, Irqs, Frames
  <2>2. ListenTypeOK'  BY DEF ListenTypeOK, LmStates
  <2>3. XcvTypeOK'  BY DEF XcvTypeOK, TxStates, RxStates
  <2>4. AutoMatchesState'  BY DEF AutoMatchesState, Listening, Active
  <2>5. Layer4Kept  BY DEF Layer4Kept, Active
  <2> QED  BY <2>1, <2>2, <2>3, <2>4, <2>5
<1>6. CASE LmNothing
  <2> USE <1>6 DEF LmNothing, chip, listen, xcv, ghosts
  <2>1. ChipTypeOK'  BY DEF ChipTypeOK, Irqs, Frames
  <2>2. ListenTypeOK'  BY DEF ListenTypeOK, LmStates
  <2>3. XcvTypeOK'  BY DEF XcvTypeOK, TxStates, RxStates
  <2>4. AutoMatchesState'  BY DEF AutoMatchesState, Listening, Active
  <2>5. Layer4Kept  BY DEF Layer4Kept, Active
  <2> QED  BY <2>1, <2>2, <2>3, <2>4, <2>5
<1>7. CASE TxRxWorker /\ TxStart
  <2> USE <1>7 DEF TxRxWorker, TxStart, Prepare, listen, xcv, ghosts
  <2>1. ChipTypeOK'  BY DEF ChipTypeOK, Irqs, Frames
  <2>2. ListenTypeOK'  BY DEF ListenTypeOK, LmStates
  <2>3. XcvTypeOK'  BY DEF XcvTypeOK, TxStates, RxStates
  <2>4. AutoMatchesState'  BY DEF AutoMatchesState, Listening, Active
  <2>5. Layer4Kept  BY DEF Layer4Kept, Active
  <2> QED  BY <2>1, <2>2, <2>3, <2>4, <2>5
<1>8. CASE TxRxWorker /\ TxWait
  <2> USE <1>8 DEF TxRxWorker, TxWait, Prepare, listen, xcv, ghosts
  <2>1. ChipTypeOK'  BY DEF ChipTypeOK, Irqs, Frames
  <2>2. ListenTypeOK'  BY DEF ListenTypeOK, LmStates
  <2>3. XcvTypeOK'  BY DEF XcvTypeOK, TxStates, RxStates
  <2>4. AutoMatchesState'  BY DEF AutoMatchesState, Listening, Active
  <2>5. Layer4Kept  BY DEF Layer4Kept, Active
  <2> QED  BY <2>1, <2>2, <2>3, <2>4, <2>5
<1>9. CASE TxRxWorker /\ RxArm
  <2> USE <1>9 DEF TxRxWorker, RxArm, Prepare, listen, xcv, ghosts
  <2>1. ChipTypeOK'  BY DEF ChipTypeOK, Irqs, Frames
  <2>2. ListenTypeOK'  BY DEF ListenTypeOK, LmStates
  <2>3. XcvTypeOK'  BY DEF XcvTypeOK, TxStates, RxStates
  <2>4. AutoMatchesState'  BY DEF AutoMatchesState, Listening, Active
  <2>5. Layer4Kept  BY DEF Layer4Kept, Active
  <2> QED  BY <2>1, <2>2, <2>3, <2>4, <2>5
<1>10. CASE TxRxWorker /\ RxWait
  <2> USE <1>10 DEF TxRxWorker, RxWait, Prepare, listen, xcv, ghosts
  <2>1. ChipTypeOK'  BY ReadFrameTypes DEF ChipTypeOK, Irqs, Frames
  <2>2. ListenTypeOK'  BY DEF ListenTypeOK, LmStates
  <2>3. XcvTypeOK'  BY ReadFrameTypes DEF XcvTypeOK, TxStates, RxStates
  <2>4. AutoMatchesState'  BY DEF AutoMatchesState, Listening, Active
  <2>5. Layer4Kept  BY DEF Layer4Kept, Active
  <2> QED  BY <2>1, <2>2, <2>3, <2>4, <2>5
<1>11. CASE TxRxWorker /\ RxReadBad
  <2> USE <1>11 DEF TxRxWorker, RxReadBad, Prepare, listen, xcv, ghosts
  <2>1. ChipTypeOK'  BY ReadFrameTypes DEF ChipTypeOK, Irqs, Frames
  <2>2. ListenTypeOK'  BY DEF ListenTypeOK, LmStates
  <2>3. XcvTypeOK'  BY ReadFrameTypes DEF XcvTypeOK, TxStates, RxStates
  <2>4. AutoMatchesState'  BY DEF AutoMatchesState, Listening, Active
  <2>5. Layer4Kept  BY DEF Layer4Kept, Active
  <2> QED  BY <2>1, <2>2, <2>3, <2>4, <2>5
<1>12. CASE TxRxWorker /\ TxRxFail
  <2> USE <1>12 DEF TxRxWorker, TxRxFail, Prepare, listen, xcv, ghosts
  <2>1. ChipTypeOK'  BY DEF ChipTypeOK, Irqs, Frames
  <2>2. ListenTypeOK'  BY DEF ListenTypeOK, LmStates
  <2>3. XcvTypeOK'  BY DEF XcvTypeOK, TxStates, RxStates
  <2>4. AutoMatchesState'  BY DEF AutoMatchesState, Listening, Active
  <2>5. Layer4Kept  BY DEF Layer4Kept, Active
  <2> QED  BY <2>1, <2>2, <2>3, <2>4, <2>5
<1>13. CASE TxRxWorker /\ TxRxRest
  <2> USE <1>13 DEF TxRxWorker, TxRxRest, Prepare, listen, xcv, ghosts
  <2>1. ChipTypeOK'  BY DEF ChipTypeOK, Irqs, Frames
  <2>2. ListenTypeOK'  BY DEF ListenTypeOK, LmStates
  <2>3. XcvTypeOK'  BY DEF XcvTypeOK, TxStates, RxStates
  <2>4. AutoMatchesState'  BY DEF AutoMatchesState, Listening, Active
  <2>5. Layer4Kept  BY DEF Layer4Kept, Active
  <2> QED  BY <2>1, <2>2, <2>3, <2>4, <2>5
<1> QED  BY <1>1, <1>2, <1>3, <1>4, <1>5, <1>6, <1>7, <1>8, <1>9, <1>10,
         <1>11, <1>12, <1>13 DEF RfalWorker, TxRxWorker

LEMMA PaceTypes ==
  ASSUME ReaderTypeOK, FieldOn \/ FieldOff \/ Poll \/ Select \/ \E f \in Frames : Send(f)
  PROVE  ReaderTypeOK'
<1>1. pace' = 2 \/ pace' = 1 \/ pace' = pace
  BY DEF FieldOn, FieldOff, Poll, Select, Send, OffPasses, OnPasses
<1>2. fresh' \in BOOLEAN
  BY DEF FieldOn, FieldOff, Poll, Select, Send, ReaderTypeOK
<1>3. pace' \in 0..2
  BY <1>1 DEF ReaderTypeOK, OffPasses
<1> QED  BY <1>2, <1>3 DEF ReaderTypeOK, OffPasses

\* The reader, and the end of a transmission.
LEMMA EnvironmentSteps ==
  ASSUME IInv, Reader \/ ChipTx
  PROVE  ReaderTypeOK' /\ ChipTypeOK' /\ ListenTypeOK' /\ XcvTypeOK' /\ CeTypeOK' /\ Consistent' /\ Staged'
<1> USE DEF IInv, TypeOK, RfalTypeOK
<1>1. CASE ceVars' = ceVars /\ FieldOn
  <2> USE <1>1 DEF FieldOn, ceVars, flags, listen, xcv, ghosts
  <2>1. ReaderTypeOK'  BY <1>1, PaceTypes
  <2>2. ChipTypeOK'  BY DEF ChipTypeOK, Irqs, Frames
  <2>3. ListenTypeOK'  BY DEF ListenTypeOK, LmStates
  <2>4. XcvTypeOK'  BY DEF XcvTypeOK, TxStates, RxStates
  <2>5. CeTypeOK'  BY DEF CeTypeOK, PiccStates
  <2>6. Consistent'  BY DEF Consistent, AutoMatchesState, StatusDefined,
         ActivatedConsistent, Listening, Active, PiccStates
  <2>7. Staged'  BY DEF Staged, Active
  <2> QED  BY <2>1, <2>2, <2>3, <2>4, <2>5, <2>6, <2>7
<1>2. CASE ceVars' = ceVars /\ FieldOff
  <2> USE <1>2 DEF FieldOff, ceVars, flags, listen, xcv, ghosts
  <2>1. ReaderTypeOK'  BY <1>2, PaceTypes
  <2>2. ChipTypeOK'  BY DEF ChipTypeOK, Irqs, Frames
  <2>3. ListenTypeOK'  BY DEF ListenTypeOK, LmStates
  <2>4. XcvTypeOK'  BY DEF XcvTypeOK, TxStates, RxStates
  <2>5. CeTypeOK'  BY DEF CeTypeOK, PiccStates
  <2>6. Consistent'  BY DEF Consistent, AutoMatchesState, StatusDefined,
         ActivatedConsistent, Listening, Active, PiccStates
  <2>7. Staged'  BY DEF Staged, Active
  <2> QED  BY <2>1, <2>2, <2>3, <2>4, <2>5, <2>6, <2>7
<1>3. CASE ceVars' = ceVars /\ Poll
  <2> USE <1>3 DEF Poll, ceVars, flags, listen, xcv, ghosts
  <2>1. ReaderTypeOK'  BY <1>3, PaceTypes
  <2>2. ChipTypeOK'  BY DEF ChipTypeOK, Irqs, Frames
  <2>3. ListenTypeOK'  BY DEF ListenTypeOK, LmStates
  <2>4. XcvTypeOK'  BY DEF XcvTypeOK, TxStates, RxStates
  <2>5. CeTypeOK'  BY DEF CeTypeOK, PiccStates
  <2>6. Consistent'  BY DEF Consistent, AutoMatchesState, StatusDefined,
         ActivatedConsistent, Listening, Active, PiccStates
  <2>7. Staged'  BY DEF Staged, Active
  <2> QED  BY <2>1, <2>2, <2>3, <2>4, <2>5, <2>6, <2>7
<1>4. CASE ceVars' = ceVars /\ Select
  <2> USE <1>4 DEF Select, ceVars, flags, listen, xcv, ghosts
  <2>1. ReaderTypeOK'  BY <1>4, PaceTypes
  <2>2. ChipTypeOK'  BY DEF ChipTypeOK, Irqs, Frames
  <2>3. ListenTypeOK'  BY DEF ListenTypeOK, LmStates
  <2>4. XcvTypeOK'  BY DEF XcvTypeOK, TxStates, RxStates
  <2>5. CeTypeOK'  BY DEF CeTypeOK, PiccStates
  <2>6. Consistent'  BY DEF Consistent, AutoMatchesState, StatusDefined,
         ActivatedConsistent, Listening, Active, PiccStates
  <2>7. Staged'  BY DEF Staged, Active
  <2> QED  BY <2>1, <2>2, <2>3, <2>4, <2>5, <2>6, <2>7
<1>5. CASE ceVars' = ceVars /\ \E f \in Frames : Send(f)
  <2> USE <1>5 DEF Send, ceVars, flags, listen, xcv, ghosts
  <2>1. ReaderTypeOK'  BY <1>5, PaceTypes
  <2>2. ChipTypeOK'  BY DEF ChipTypeOK, Irqs, Frames
  <2>3. ListenTypeOK'  BY DEF ListenTypeOK, LmStates
  <2>4. XcvTypeOK'  BY DEF XcvTypeOK, TxStates, RxStates
  <2>5. CeTypeOK'  BY DEF CeTypeOK, PiccStates
  <2>6. Consistent'  BY DEF Consistent, AutoMatchesState, StatusDefined,
         ActivatedConsistent, Listening, Active, PiccStates
  <2>7. Staged'  BY DEF Staged, Active
  <2> QED  BY <2>1, <2>2, <2>3, <2>4, <2>5, <2>6, <2>7
<1>6. CASE ceVars' = ceVars /\ TxEnd
  <2> USE <1>6 DEF TxEnd, reader, ceVars, flags, listen, xcv, ghosts
  <2>1. ReaderTypeOK'  BY DEF ReaderTypeOK, OffPasses, OnPasses
  <2>2. ChipTypeOK'  BY DEF ChipTypeOK, Irqs, Frames
  <2>3. ListenTypeOK'  BY DEF ListenTypeOK, LmStates
  <2>4. XcvTypeOK'  BY DEF XcvTypeOK, TxStates, RxStates
  <2>5. CeTypeOK'  BY DEF CeTypeOK, PiccStates
  <2>6. Consistent'  BY DEF Consistent, AutoMatchesState, StatusDefined,
         ActivatedConsistent, Listening, Active, PiccStates
  <2>7. Staged'  BY DEF Staged, Active
  <2> QED  BY <2>1, <2>2, <2>3, <2>4, <2>5, <2>6, <2>7
<1> QED  BY <1>1, <1>2, <1>3, <1>4, <1>5, <1>6 DEF Reader, ChipTx

\* ceHandler.
LEMMA HandlerSteps ==
  ASSUME IInv, Handler
  PROVE  ReaderTypeOK' /\ ChipTypeOK' /\ ListenTypeOK' /\ XcvTypeOK' /\ CeTypeOK' /\ Consistent' /\ Staged'
<1> USE DEF IInv, TypeOK, RfalTypeOK, InHandler
<1>1. CASE HandleRats
  <2> USE <1>1 DEF HandleRats, StartActivation, Rats, level4_enabled, StartTransceive, Prepare,
         chip, reader, flags, rfalVars, listen, xcv, ghosts
  <2>1. ReaderTypeOK'  BY DEF ReaderTypeOK, OffPasses, OnPasses
  <2>2. ChipTypeOK'  BY DEF ChipTypeOK, Irqs, Frames
  <2>3. ListenTypeOK'  BY DEF ListenTypeOK, LmStates
  <2>4. XcvTypeOK'  BY DEF XcvTypeOK, TxStates, RxStates
  <2>5. CeTypeOK'  BY DEF CeTypeOK, PiccStates
  <2>6. Consistent'  BY DEF Consistent, AutoMatchesState, StatusDefined,
         ActivatedConsistent, Listening, Active, PiccStates
  <2>7. Staged'  BY DEF Staged, Active
  <2> QED  BY <2>1, <2>2, <2>3, <2>4, <2>5, <2>6, <2>7
<1>2. CASE IgnoreRats
  <2> USE <1>2 DEF IgnoreRats, SetIdle, SleepStart, chip, reader, flags,
         rfalVars, listen, xcv, ghosts
  <2>1. ReaderTypeOK'  BY DEF ReaderTypeOK, OffPasses, OnPasses
  <2>2. ChipTypeOK'  BY DEF ChipTypeOK, Irqs, Frames
  <2>3. ListenTypeOK'  BY DEF ListenTypeOK, LmStates
  <2>4. XcvTypeOK'  BY DEF XcvTypeOK, TxStates, RxStates
  <2>5. CeTypeOK'  BY DEF CeTypeOK, PiccStates
  <2>6. Consistent'  BY DEF Consistent, AutoMatchesState, StatusDefined,
         ActivatedConsistent, Listening, Active, PiccStates
  <2>7. Staged'  BY DEF Staged, Active
  <2> QED  BY <2>1, <2>2, <2>3, <2>4, <2>5, <2>6, <2>7
<1>3. CASE Halt
  <2> USE <1>3 DEF Halt, SleepStart, chip, reader, flags, rfalVars, listen,
         xcv, ghosts
  <2>1. ReaderTypeOK'  BY DEF ReaderTypeOK, OffPasses, OnPasses
  <2>2. ChipTypeOK'  BY DEF ChipTypeOK, Irqs, Frames
  <2>3. ListenTypeOK'  BY DEF ListenTypeOK, LmStates
  <2>4. XcvTypeOK'  BY DEF XcvTypeOK, TxStates, RxStates
  <2>5. CeTypeOK'  BY DEF CeTypeOK, PiccStates
  <2>6. Consistent'  BY DEF Consistent, AutoMatchesState, StatusDefined,
         ActivatedConsistent, Listening, Active, PiccStates
  <2>7. Staged'  BY DEF Staged, Active
  <2> QED  BY <2>1, <2>2, <2>3, <2>4, <2>5, <2>6, <2>7
<1>4. CASE HandleA3
  <2> USE <1>4 DEF HandleA3, chip, reader, flags, rfalVars, listen, xcv,
         ghosts
  <2>1. ReaderTypeOK'  BY DEF ReaderTypeOK, OffPasses, OnPasses
  <2>2. ChipTypeOK'  BY DEF ChipTypeOK, Irqs, Frames
  <2>3. ListenTypeOK'  BY DEF ListenTypeOK, LmStates
  <2>4. XcvTypeOK'  BY DEF XcvTypeOK, TxStates, RxStates
  <2>5. CeTypeOK'  BY DEF CeTypeOK, PiccStates
  <2>6. Consistent'  BY DEF Consistent, AutoMatchesState, StatusDefined,
         ActivatedConsistent, Listening, Active, PiccStates
  <2>7. Staged'  BY DEF Staged, Active
  <2> QED  BY <2>1, <2>2, <2>3, <2>4, <2>5, <2>6, <2>7
<1>5. CASE HandleLinkLoss
  <2> USE <1>5 DEF HandleLinkLoss, LinkLost, RestartListening, SetPowerOff, chip,
         reader, flags, rfalVars, listen, xcv, ghosts
  <2>1. ReaderTypeOK'  BY DEF ReaderTypeOK, OffPasses, OnPasses
  <2>2. ChipTypeOK'  BY DEF ChipTypeOK, Irqs, Frames
  <2>3. ListenTypeOK'  BY DEF ListenTypeOK, LmStates
  <2>4. XcvTypeOK'  BY DEF XcvTypeOK, TxStates, RxStates
  <2>5. CeTypeOK'  BY DEF CeTypeOK, PiccStates
  <2>6. Consistent'  BY DEF Consistent, AutoMatchesState, StatusDefined,
         ActivatedConsistent, Listening, Active, PiccStates
  <2>7. Staged'  BY DEF Staged, Active
  <2> QED  BY <2>1, <2>2, <2>3, <2>4, <2>5, <2>6, <2>7
<1>6. CASE Activate
  <2> USE <1>6 DEF Activate, StartTransceive, Prepare, chip, reader, flags,
         rfalVars, listen, xcv, ghosts
  <2>1. ReaderTypeOK'  BY DEF ReaderTypeOK, OffPasses, OnPasses
  <2>2. ChipTypeOK'  BY DEF ChipTypeOK, Irqs, Frames
  <2>3. ListenTypeOK'  BY DEF ListenTypeOK, LmStates
  <2>4. XcvTypeOK'  BY DEF XcvTypeOK, TxStates, RxStates
  <2>5. CeTypeOK'  BY DEF CeTypeOK, PiccStates
  <2>6. Consistent'  BY DEF Consistent, AutoMatchesState, StatusDefined,
         ActivatedConsistent, Listening, Active, PiccStates
  <2>7. Staged'  BY DEF Staged, Active
  <2> QED  BY <2>1, <2>2, <2>3, <2>4, <2>5, <2>6, <2>7
<1>7. CASE ActivationRetry
  <2> USE <1>7 DEF ActivationRetry, ReEnableRx, Prepare, chip, reader, flags,
         rfalVars, listen, xcv, ghosts
  <2>1. ReaderTypeOK'  BY DEF ReaderTypeOK, OffPasses, OnPasses
  <2>2. ChipTypeOK'  BY DEF ChipTypeOK, Irqs, Frames
  <2>3. ListenTypeOK'  BY DEF ListenTypeOK, LmStates
  <2>4. XcvTypeOK'  BY DEF XcvTypeOK, TxStates, RxStates
  <2>5. CeTypeOK'  BY DEF CeTypeOK, PiccStates
  <2>6. Consistent'  BY DEF Consistent, AutoMatchesState, StatusDefined,
         ActivatedConsistent, Listening, Active, PiccStates
  <2>7. Staged'  BY DEF Staged, Active
  <2> QED  BY <2>1, <2>2, <2>3, <2>4, <2>5, <2>6, <2>7
<1>8. CASE HandleNothing
  <2> USE <1>8 DEF HandleNothing, chip, reader, flags, rfalVars, listen, xcv,
         ghosts
  <2>1. ReaderTypeOK'  BY DEF ReaderTypeOK, OffPasses, OnPasses
  <2>2. ChipTypeOK'  BY DEF ChipTypeOK, Irqs, Frames
  <2>3. ListenTypeOK'  BY DEF ListenTypeOK, LmStates
  <2>4. XcvTypeOK'  BY DEF XcvTypeOK, TxStates, RxStates
  <2>5. CeTypeOK'  BY DEF CeTypeOK, PiccStates
  <2>6. Consistent'  BY DEF Consistent, AutoMatchesState, StatusDefined,
         ActivatedConsistent, Listening, Active, PiccStates
  <2>7. Staged'  BY DEF Staged, Active
  <2> QED  BY <2>1, <2>2, <2>3, <2>4, <2>5, <2>6, <2>7
<1> QED  BY <1>1, <1>2, <1>3, <1>4, <1>5, <1>6, <1>7, <1>8 DEF Handler

\* ceGetRx.
LEMMA GetRxSteps ==
  ASSUME IInv, GetRxA3 \/ GetRxA4
  PROVE  ReaderTypeOK' /\ ChipTypeOK' /\ ListenTypeOK' /\ XcvTypeOK' /\ CeTypeOK' /\ Consistent' /\ Staged'
<1> USE DEF IInv, TypeOK, RfalTypeOK
<1>1. CASE /\ ~isActivatedA /\ HandOver /\ iso' = iso
            /\ IF isFirstA3_Frame THEN rxReady ELSE rx # None
  <2> USE <1>1 DEF HandOver, InGetRx, chip, reader, flags, rfalVars, listen,
         xcv, ghosts
  <2>1. ReaderTypeOK'  BY DEF ReaderTypeOK, OffPasses, OnPasses
  <2>2. ChipTypeOK'  BY DEF ChipTypeOK, Irqs, Frames
  <2>3. ListenTypeOK'  BY DEF ListenTypeOK, LmStates
  <2>4. XcvTypeOK'  BY DEF XcvTypeOK, TxStates, RxStates
  <2>5. CeTypeOK'  BY DEF CeTypeOK, PiccStates, XcvTypeOK
  <2>6. Consistent'  BY DEF Consistent, AutoMatchesState, StatusDefined,
         ActivatedConsistent, Listening, Active, PiccStates
  <2>7. Staged'  BY DEF Staged, Active, Consistent, ActivatedConsistent
  <2> QED  BY <2>1, <2>2, <2>3, <2>4, <2>5, <2>6, <2>7
<1>2. CASE ~isActivatedA /\ Relisten /\ iso' = iso
  <2> USE <1>2 DEF Relisten, ResetFlags, RestartListening, SetPowerOff,
         InGetRx, chip, reader, flags, rfalVars, listen, xcv, ghosts
  <2>1. ReaderTypeOK'  BY DEF ReaderTypeOK, OffPasses, OnPasses
  <2>2. ChipTypeOK'  BY DEF ChipTypeOK, Irqs, Frames
  <2>3. ListenTypeOK'  BY DEF ListenTypeOK, LmStates
  <2>4. XcvTypeOK'  BY DEF XcvTypeOK, TxStates, RxStates
  <2>5. CeTypeOK'  BY DEF CeTypeOK, PiccStates
  <2>6. Consistent'  BY DEF Consistent, AutoMatchesState, StatusDefined,
         ActivatedConsistent, Listening, Active, PiccStates
  <2>7. Staged'  BY DEF Staged, Active, Consistent, ActivatedConsistent
  <2> QED  BY <2>1, <2>2, <2>3, <2>4, <2>5, <2>6, <2>7
<1>3. CASE /\ ~(rxReady /\ isFirstA3_Frame) /\ InGetRx("worker")
            /\ UNCHANGED <<rfalVars, flags, iso, cmd, started>>
  <2> USE <1>3 DEF InGetRx, chip, reader, flags, rfalVars, listen, xcv, ghosts
  <2>1. ReaderTypeOK'  BY DEF ReaderTypeOK, OffPasses, OnPasses
  <2>2. ChipTypeOK'  BY DEF ChipTypeOK, Irqs, Frames
  <2>3. ListenTypeOK'  BY DEF ListenTypeOK, LmStates
  <2>4. XcvTypeOK'  BY DEF XcvTypeOK, TxStates, RxStates
  <2>5. CeTypeOK'  BY DEF CeTypeOK, PiccStates
  <2>6. Consistent'  BY DEF Consistent, AutoMatchesState, StatusDefined,
         ActivatedConsistent, Listening, Active, PiccStates
  <2>7. Staged'  BY DEF Staged, Active, Consistent, ActivatedConsistent
  <2> QED  BY <2>1, <2>2, <2>3, <2>4, <2>5, <2>6, <2>7
<1>4. CASE isActivatedA /\ HandOver /\ iso' = "PICC_SWTX" /\ rx = "IBLOCK"
  <2> USE <1>4 DEF HandOver, InGetRx, chip, reader, flags, rfalVars, listen,
         xcv, ghosts
  <2>1. ReaderTypeOK'  BY DEF ReaderTypeOK, OffPasses, OnPasses
  <2>2. ChipTypeOK'  BY DEF ChipTypeOK, Irqs, Frames
  <2>3. ListenTypeOK'  BY DEF ListenTypeOK, LmStates
  <2>4. XcvTypeOK'  BY DEF XcvTypeOK, TxStates, RxStates
  <2>5. CeTypeOK'  BY DEF CeTypeOK, PiccStates, XcvTypeOK
  <2>6. Consistent'  BY DEF Consistent, AutoMatchesState, StatusDefined,
         ActivatedConsistent, Listening, Active, PiccStates
  <2>7. Staged'  BY NoneAssumption DEF Staged, Active, Consistent,
         ActivatedConsistent
  <2> QED  BY <2>1, <2>2, <2>3, <2>4, <2>5, <2>6, <2>7
<1>5. CASE isActivatedA /\ Relisten /\ iso' \in {"IDLE", iso}
  <2> USE <1>5 DEF Relisten, ResetFlags, RestartListening, SetPowerOff,
         InGetRx, chip, reader, flags, rfalVars, listen, xcv, ghosts
  <2>1. ReaderTypeOK'  BY DEF ReaderTypeOK, OffPasses, OnPasses
  <2>2. ChipTypeOK'  BY DEF ChipTypeOK, Irqs, Frames
  <2>3. ListenTypeOK'  BY DEF ListenTypeOK, LmStates
  <2>4. XcvTypeOK'  BY DEF XcvTypeOK, TxStates, RxStates
  <2>5. CeTypeOK'  BY DEF CeTypeOK, PiccStates
  <2>6. Consistent'  BY DEF Consistent, AutoMatchesState, StatusDefined,
         ActivatedConsistent, Listening, Active, PiccStates
  <2>7. Staged'  BY DEF Staged, Active, Consistent, ActivatedConsistent
  <2> QED  BY <2>1, <2>2, <2>3, <2>4, <2>5, <2>6, <2>7
<1>6. CASE isActivatedA /\ \E s \in PiccStates : IsoSend(s)
  <2> USE <1>6 DEF IsoSend, StartTransceive, Prepare, InGetRx, chip, reader,
         flags, rfalVars, listen, xcv, ghosts
  <2>1. ReaderTypeOK'  BY DEF ReaderTypeOK, OffPasses, OnPasses
  <2>2. ChipTypeOK'  BY DEF ChipTypeOK, Irqs, Frames
  <2>3. ListenTypeOK'  BY DEF ListenTypeOK, LmStates
  <2>4. XcvTypeOK'  BY DEF XcvTypeOK, TxStates, RxStates
  <2>5. CeTypeOK'  BY DEF CeTypeOK, PiccStates
  <2>6. Consistent'  BY DEF Consistent, AutoMatchesState, StatusDefined,
         ActivatedConsistent, Listening, Active, PiccStates
  <2>7. Staged'  BY DEF Staged, Active, Consistent, ActivatedConsistent
  <2> QED  BY <2>1, <2>2, <2>3, <2>4, <2>5, <2>6, <2>7
<1>7. CASE isActivatedA /\ IsoListen
  <2> USE <1>7 DEF IsoListen, ReEnableRx, Prepare, InGetRx, chip, reader,
         flags, rfalVars, listen, xcv, ghosts
  <2>1. ReaderTypeOK'  BY DEF ReaderTypeOK, OffPasses, OnPasses
  <2>2. ChipTypeOK'  BY DEF ChipTypeOK, Irqs, Frames
  <2>3. ListenTypeOK'  BY DEF ListenTypeOK, LmStates
  <2>4. XcvTypeOK'  BY DEF XcvTypeOK, TxStates, RxStates
  <2>5. CeTypeOK'  BY DEF CeTypeOK, PiccStates
  <2>6. Consistent'  BY DEF Consistent, AutoMatchesState, StatusDefined,
         ActivatedConsistent, Listening, Active, PiccStates
  <2>7. Staged'  BY DEF Staged, Active, Consistent, ActivatedConsistent
  <2> QED  BY <2>1, <2>2, <2>3, <2>4, <2>5, <2>6, <2>7
<1>8. CASE isActivatedA /\ \E s \in PiccStates : IsoWait(s)
  <2> USE <1>8 DEF IsoWait, InGetRx, chip, reader, flags, rfalVars, listen,
         xcv, ghosts
  <2>1. ReaderTypeOK'  BY DEF ReaderTypeOK, OffPasses, OnPasses
  <2>2. ChipTypeOK'  BY DEF ChipTypeOK, Irqs, Frames
  <2>3. ListenTypeOK'  BY DEF ListenTypeOK, LmStates
  <2>4. XcvTypeOK'  BY DEF XcvTypeOK, TxStates, RxStates
  <2>5. CeTypeOK'  BY DEF CeTypeOK, PiccStates
  <2>6. Consistent'  BY DEF Consistent, AutoMatchesState, StatusDefined,
         ActivatedConsistent, Listening, Active, PiccStates
  <2>7. Staged'  BY DEF Staged, Active, Consistent, ActivatedConsistent
  <2> QED  BY <2>1, <2>2, <2>3, <2>4, <2>5, <2>6, <2>7
<1> QED  BY <1>1, <1>2, <1>3, <1>4, <1>5, <1>6, <1>7, <1>8 DEF GetRxA3,
         GetRxA4, InGetRx, PiccStates

\* processCmd with ceSetTx, the end of its reset path, and the user button.
LEMMA LoopSteps ==
  ASSUME IInv, Process \/ Sleep \/ Button \/ UNCHANGED vars
  PROVE  ReaderTypeOK' /\ ChipTypeOK' /\ ListenTypeOK' /\ XcvTypeOK' /\ CeTypeOK' /\ Consistent' /\ Staged'
<1> USE DEF IInv, TypeOK, RfalTypeOK
<1>1. CASE Process
  <2> USE <1>1 DEF Process, StartTransceive, Prepare, current_processCmdPtr,
         processCmd, processCmdMifUL, Answer, Active, chip, reader, listen,
         xcv, ghosts
  <2>1. ReaderTypeOK'  BY DEF ReaderTypeOK, OffPasses, OnPasses
  <2>2. ChipTypeOK'  BY DEF ChipTypeOK, Irqs, Frames
  <2>3. ListenTypeOK'  BY DEF ListenTypeOK, LmStates
  <2>4. XcvTypeOK'  BY DEF XcvTypeOK, TxStates, RxStates
  <2>5. CeTypeOK'  BY DEF CeTypeOK, PiccStates
  <2>6. Consistent'  BY DEF Consistent, AutoMatchesState, StatusDefined,
         ActivatedConsistent, Listening, Active, PiccStates
  <2>7. Staged'
    <3>1. ~rxReady
      BY DEF Staged
    <3>2. ~rxReady'
      BY <3>1
    <3>3. pc' = "worker" \/ pc' = "nak" \/ pc' = "sleep"
      OBVIOUS
    <3>4. ASSUME Mode # "UL" PROVE isFirstA3_Frame'
      BY <3>4 DEF Staged, Consistent, ActivatedConsistent
    <3> QED  BY <3>2, <3>3, <3>4 DEF Staged
  <2> QED  BY <2>1, <2>2, <2>3, <2>4, <2>5, <2>6, <2>7
<1>2. CASE Sleep
  <2> USE <1>2 DEF Sleep, SleepStart, ResetFlags, reader, listen, xcv, ghosts
  <2>1. ReaderTypeOK'  BY DEF ReaderTypeOK, OffPasses, OnPasses
  <2>2. ChipTypeOK'  BY DEF ChipTypeOK, Irqs, Frames
  <2>3. ListenTypeOK'  BY DEF ListenTypeOK, LmStates
  <2>4. XcvTypeOK'  BY DEF XcvTypeOK, TxStates, RxStates
  <2>5. CeTypeOK'  BY DEF CeTypeOK, PiccStates
  <2>6. Consistent'  BY DEF Consistent, AutoMatchesState, StatusDefined,
         ActivatedConsistent, Listening, Active, PiccStates
  <2>7. Staged'  BY DEF Staged, Active
  <2> QED  BY <2>1, <2>2, <2>3, <2>4, <2>5, <2>6, <2>7
<1>3. CASE Button
  <2> USE <1>3 DEF Button, RestartListening, SetPowerOff, ResetFlags, reader,
         listen, xcv, ghosts
  <2>1. ReaderTypeOK'  BY DEF ReaderTypeOK, OffPasses, OnPasses
  <2>2. ChipTypeOK'  BY DEF ChipTypeOK, Irqs, Frames
  <2>3. ListenTypeOK'  BY DEF ListenTypeOK, LmStates
  <2>4. XcvTypeOK'  BY DEF XcvTypeOK, TxStates, RxStates
  <2>5. CeTypeOK'  BY DEF CeTypeOK, PiccStates
  <2>6. Consistent'  BY DEF Consistent, AutoMatchesState, StatusDefined,
         ActivatedConsistent, Listening, Active, PiccStates
  <2>7. Staged'  BY DEF Staged, Active
  <2> QED  BY <2>1, <2>2, <2>3, <2>4, <2>5, <2>6, <2>7
<1>4. CASE UNCHANGED vars
  <2> USE <1>4 DEF vars, rfalVars, ceVars
  <2>1. ReaderTypeOK'  BY DEF ReaderTypeOK, OffPasses, OnPasses
  <2>2. ChipTypeOK'  BY DEF ChipTypeOK, Irqs, Frames
  <2>3. ListenTypeOK'  BY DEF ListenTypeOK, LmStates
  <2>4. XcvTypeOK'  BY DEF XcvTypeOK, TxStates, RxStates
  <2>5. CeTypeOK'  BY DEF CeTypeOK, PiccStates
  <2>6. Consistent'  BY DEF Consistent, AutoMatchesState, StatusDefined,
         ActivatedConsistent, Listening, Active, PiccStates
  <2>7. Staged'  BY DEF Staged, Active
  <2> QED  BY <2>1, <2>2, <2>3, <2>4, <2>5, <2>6, <2>7
<1> QED  BY <1>1, <1>2, <1>3, <1>4 DEF Process

LEMMA Inductive == IInv /\ [Next]_vars => IInv'
<1> SUFFICES ASSUME IInv, [Next]_vars PROVE IInv'
  OBVIOUS
<1>1. CASE Worker
  <2>1. RfalTypeOK /\ AutoMatchesState /\ RfalWorker
    BY <1>1 DEF Worker, IInv, TypeOK, Consistent
  <2>2. ChipTypeOK' /\ ListenTypeOK' /\ XcvTypeOK' /\ AutoMatchesState' /\ Layer4Kept
    BY <2>1, WorkerTypes
  <2>3. ReaderTypeOK'
    BY <1>1, <2>1 DEF Worker, RfalTypeOK, ReaderTypeOK, OffPasses
  <2>4. CeTypeOK'
    BY <1>1 DEF Worker, IInv, TypeOK, CeTypeOK, flags, PiccStates
  <2>5. Consistent'
    BY <1>1, <2>2 DEF Worker, IInv, Consistent, StatusDefined,
       ActivatedConsistent, Layer4Kept, flags, PiccStates
  <2>6. Staged'
    BY <1>1, <2>2 DEF Worker, IInv, Staged, Layer4Kept, flags
  <2> QED  BY <2>2, <2>3, <2>4, <2>5, <2>6 DEF IInv, TypeOK, RfalTypeOK
<1>2. CASE BlockingTx
  <2>1. RfalTypeOK /\ AutoMatchesState /\ RfalWorker
    BY <1>2 DEF BlockingTx, RfalWorker, IInv, TypeOK, Consistent
  <2>2. ChipTypeOK' /\ ListenTypeOK' /\ XcvTypeOK' /\ AutoMatchesState' /\ Layer4Kept
    BY <2>1, WorkerTypes
  <2>3. ReaderTypeOK'
    BY <1>2, <2>1 DEF BlockingTx, RfalTypeOK, ReaderTypeOK, reader
  <2>4. CeTypeOK'
    BY <1>2 DEF BlockingTx, IInv, TypeOK, CeTypeOK, flags, PiccStates
  <2>5. Consistent'
    BY <1>2, <2>2 DEF BlockingTx, IInv, Consistent, StatusDefined,
       ActivatedConsistent, Layer4Kept, flags, PiccStates
  <2>6. Staged'
    BY <1>2, <2>2 DEF BlockingTx, IInv, Staged, Layer4Kept, flags
  <2> QED  BY <2>2, <2>3, <2>4, <2>5, <2>6 DEF IInv, TypeOK, RfalTypeOK
<1>3. CASE Handler \/ GetRxA3 \/ GetRxA4
  BY <1>3, HandlerSteps, GetRxSteps DEF IInv, TypeOK, RfalTypeOK
<1>4. CASE Process \/ Sleep \/ Button \/ UNCHANGED vars
  BY <1>4, LoopSteps DEF IInv, TypeOK, RfalTypeOK
<1>5. CASE Reader \/ ChipTx
  BY <1>5, EnvironmentSteps DEF IInv, TypeOK, RfalTypeOK
<1> QED  BY <1>1, <1>2, <1>3, <1>4, <1>5 DEF Next, Firmware

LEMMA Initial == Init => IInv
<1> SUFFICES ASSUME Init PROVE IInv
  OBVIOUS
<1> USE DEF Init, RfalInit, ceInit
<1>1. RfalTypeOK
  <2>0. 0 \in 0..2
    OBVIOUS
  <2>1. ReaderTypeOK /\ ChipTypeOK
    BY <2>0 DEF ReaderTypeOK, ChipTypeOK, OffPasses
  <2>2. ListenTypeOK /\ XcvTypeOK
    BY DEF ListenTypeOK, XcvTypeOK, LmStates
  <2> QED  BY <2>1, <2>2 DEF RfalTypeOK
<1>2. CeTypeOK
  BY DEF CeTypeOK
<1>3. Consistent
  BY DEF Consistent, AutoMatchesState, StatusDefined, ActivatedConsistent, Listening
<1>4. Staged
  BY DEF Staged
<1> QED  BY <1>1, <1>2, <1>3, <1>4 DEF IInv, TypeOK

LEMMA Invariance == Spec => []IInv
  BY Initial, Inductive, PTL DEF Spec

\* Every variable of the emulator and of the RFAL stays in its range.
THEOREM TypeCorrect == Spec => []TypeOK
  BY Invariance, PTL DEF IInv

\* The chip answers the anticollision exactly in the listening states, whatever
\* the reader does and whenever the field goes: rfalListenSetState,
\* rfalListenSleepStart and rfalListenStop never disagree with the chip.
THEOREM AutomaticResponses == Spec => []AutoMatchesState
  BY Invariance, PTL DEF IInv, Consistent

\* rfalGetTransceiveStatus is never asked before a transceive was started.
THEOREM StatusIsDefined == Spec => []StatusDefined
  BY Invariance, PTL DEF IInv, Consistent

\* ce.c, the listen machine and the ISO-DEP machine agree on the activation.
THEOREM ActivationAgreed == Spec => []ActivatedConsistent
  BY Invariance, PTL DEF IInv, Consistent

\* processCmd always has a command, and ceSetTx is armed for its answer.
THEOREM CommandPresent == Spec => []NoEmptyCommand
<1>1. IInv => NoEmptyCommand
  BY DEF IInv, Staged, NoEmptyCommand
<1> QED  BY <1>1, Invariance, PTL
=============================================================================
