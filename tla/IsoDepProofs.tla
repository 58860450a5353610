---------------------------- MODULE IsoDepProofs ----------------------------
(***************************************************************************)
(* Proofs about IsoDepLink, for every set of data and all retry limits.    *)
(***************************************************************************)
EXTENDS IsoDepLink, TLAPS

-----------------------------------------------------------------------------
(***************************************************************************)
(* The inductive invariant.                                                *)
(***************************************************************************)
\* The numbers of the blocks in the air, and a card that has something to repeat.
Numbered ==
    /\ to = "picc" /\ frame.k \in {"I", "ACK", "NAK"} => frame.bn = bn
    /\ to = "pcd" /\ frame.k \in {"I", "ACK"} => frame.bn = piccBn
    /\ isWait4WTX \/ (picc = "RX" /\ bn = piccBn) => piccLast # "none"
    /\ picc = "SDSL" /\ to = "pcd" => frame.k = "DSL"
    /\ picc # "DEAF"
    /\ to = "picc" /\ frame.k = "I" => frame.data = pcdData

\* The reader's last frame, as long as the session lives.
ReaderFrame ==
    /\ pcd # "WAIT_DSL"
    /\ app \in {"timeout", "proto"} => to # "picc"
    /\ pcd = "TX" /\ app = "busy" => to = "nobody" /\ bn # piccBn /\ ~isRxChaining
    /\ to = "picc" =>
        /\ app = "busy" /\ pcd = "RX" /\ frame.k = pcdLast
        /\ frame.k \in {"I", "ACK", "NAK", "WTX"}
        /\ frame.k = "I" => frame.data = pcdData /\ frame.more = isTxChaining
                            /\ bn # piccBn /\ ~isRxChaining
        /\ frame.k = "ACK" => isRxChaining
        /\ frame.k = "NAK" => ~isRxChaining

AtRest ==
    /\ picc = "RX" /\ piccLast # "WTX"
    /\ ~isWait4WTX /\ ~isTxPending /\ ~cardBusy

\* The card, by what has to happen next.
PhaseReader   == turn = "reader" =>
    AtRest /\ bn # piccBn /\ to = "nobody" /\ ~piccChaining
PhaseToCard   == turn = "toCard" =>
    AtRest /\ ~piccChaining
    /\ (to = "pcd" => frame.k = "ACK" /\ pcdLast = "NAK" /\ pcd = "RX")
PhaseConfirm  == turn = "confirm" =>
    AtRest /\ ~piccChaining /\ ~isRxChaining /\ piccLast = "ACK"
    /\ (to = "pcd" => frame.k = "ACK")
PhaseCard     == turn = "card" =>
    /\ picc \in {"RX", "SWTX"} /\ ~isTxPending
    /\ picc = "RX" => isWait4WTX /\ piccLast = "WTX"
    /\ picc = "SWTX" => ~isWait4WTX
    /\ to = "pcd" => frame.k = "WTX"
PhaseToReader == turn = "toReader" =>
    /\ picc \in {"RX", "TX"}
    /\ picc = "TX" => ~isWait4WTX
    /\ picc = "RX" => /\ isWait4WTX = isTxPending
                      /\ piccLast = IF isWait4WTX THEN "WTX" ELSE "I"
    /\ to = "pcd" => frame.k \in {"WTX", "I"}
    /\ to = "pcd" /\ frame.k = "I" =>
        /\ AtRest
        /\ frame.data = piccData /\ frame.more = piccChaining
PhaseGoOn     == turn = "goOn" =>
    AtRest /\ piccChaining /\ ~isTxChaining /\ to # "pcd" /\ piccLast = "I"

Phases ==
    /\ PhaseReader /\ PhaseToCard /\ PhaseConfirm
    /\ PhaseCard /\ PhaseToReader /\ PhaseGoOn
    /\ isRxChaining => ~isTxChaining

\* No counter runs ahead of the timeouts.
Counted ==
    /\ cntR <= timeouts /\ cntI <= timeouts /\ cntNack <= timeouts
    /\ app = "busy" /\ pcd = "RX" /\ pcdLast = "NAK"
            => cntI < timeouts /\ cntNack < timeouts
    /\ GivesUpLate

Session == ReaderFrame /\ Phases /\ Counted

IInv ==
    /\ TypeOK
    /\ Numbered
    /\ Live => Session
-----------------------------------------------------------------------------
\* The frames that are sent, and the fields of those that are heard.
LEMMA FrameTypes ==
    /\ \A n \in Bit, m \in BOOLEAN, d \in Data \cup {None} :
            IBlock(n, m, d) \in Frames
    /\ \A n \in Bit, k \in {"ACK", "NAK"} : RBlock(k, n) \in Frames
    /\ \A k \in {"WTX", "DSL", "none"} : SBlock(k) \in Frames
BY DEF Frames, IBlock, RBlock, SBlock

LEMMA FieldTypes ==
    \A f \in Frames :
        /\ f.k \in {"I", "ACK", "NAK", "WTX", "DSL", "none"}
        /\ f.k \in {"I", "ACK", "NAK"} => f.bn \in Bit
        /\ f.k = "I" => f.more \in BOOLEAN /\ f.data \in Data \cup {None}
BY DEF Frames

\* What an application is handed, and the next block number.
LEMMA HandedType ==
    \A g \in [data : Data \cup {None}, parity : BOOLEAN], d \in Data \cup {None} :
        Handed(g, d) \in [data : Data \cup {None}, parity : BOOLEAN]
BY DEF Handed

LEMMA Toggled == \A n \in Bit : Toggle(n) \in Bit /\ Toggle(n) # n
BY DEF Toggle, Bit

\* Every variable stays in its range.
LEMMA TypeStep == TypeOK /\ [Next]_linkVars => TypeOK'
<1> SUFFICES ASSUME TypeOK, [Next]_linkVars
             PROVE  AirTypeOK' /\ PcdTypeOK' /\ PiccTypeOK'
    BY DEF TypeOK
<1>1. CASE UNCHANGED linkVars
    BY <1>1, FrameTypes DEF linkVars, pcdVars, piccVars, air, counters, TypeOK,
        AirTypeOK, PcdTypeOK, PiccTypeOK, Bit
<1>2. CASE Activate
    BY <1>2, FrameTypes DEF Activate, PcdActivate, PcdInitialize,
        ClearCounters, PiccActivate, PiccInitialize, Quiet, TypeOK, AirTypeOK,
        PcdTypeOK, PiccTypeOK, Bit
<1>3. CASE Lose /\ UNCHANGED <<pcdVars, piccVars>>
    BY <1>3, FrameTypes DEF Lose, pcdVars, piccVars, counters, Quiet, TypeOK,
        AirTypeOK, PcdTypeOK, PiccTypeOK, Bit
<1>4. CASE Transmit /\ UNCHANGED piccVars
  <2>1. AirTypeOK'
      BY <1>4, FrameTypes, FieldTypes, Toggled DEF TypeOK, AirTypeOK,
          PcdTypeOK, PiccTypeOK, Transmit, Exchanging, Send
  <2>2. PcdTypeOK'
      BY <1>4, FieldTypes, HandedType, Toggled DEF TypeOK, AirTypeOK,
          PcdTypeOK, Bit, Transmit, Exchanging, Send, IBlock, counters
  <2>3. PiccTypeOK'
      BY <1>4 DEF TypeOK, PiccTypeOK, piccVars
  <2> QED BY <2>1, <2>2, <2>3
<1>5. CASE Timeout /\ UNCHANGED piccVars
  <2>1. AirTypeOK'
      BY <1>5, FrameTypes, FieldTypes, Toggled DEF TypeOK, AirTypeOK,
          PcdTypeOK, PiccTypeOK, Timeout, Waiting, Exchanging, Return, Reply,
          Quiet, Send
  <2>2. PcdTypeOK'
      BY <1>5, FieldTypes, HandedType, Toggled DEF TypeOK, AirTypeOK,
          PcdTypeOK, Bit, Timeout, Waiting, Exchanging, Return, Reply, Quiet,
          Send, RBlock, SBlock, counters
  <2>3. PiccTypeOK'
      BY <1>5 DEF TypeOK, PiccTypeOK, piccVars
  <2> QED BY <2>1, <2>2, <2>3
<1>6. CASE HearWtx /\ UNCHANGED piccVars
  <2>1. AirTypeOK'
      BY <1>6, FrameTypes, FieldTypes, Toggled DEF TypeOK, AirTypeOK,
          PcdTypeOK, PiccTypeOK, HearWtx, Hears, Waiting, Exchanging, Return,
          Reply, Quiet, Send
  <2>2. PcdTypeOK'
      BY <1>6, FieldTypes, HandedType, Toggled DEF TypeOK, AirTypeOK,
          PcdTypeOK, Bit, HearWtx, Hears, Waiting, Exchanging, Return, Reply,
          Quiet, Send, SBlock, counters
  <2>3. PiccTypeOK'
      BY <1>6 DEF TypeOK, PiccTypeOK, piccVars
  <2> QED BY <2>1, <2>2, <2>3
<1>7. CASE HearStray /\ UNCHANGED piccVars
  <2>1. AirTypeOK'
      BY <1>7, FrameTypes, FieldTypes, Toggled DEF TypeOK, AirTypeOK,
          PcdTypeOK, PiccTypeOK, HearStray, Hears, Waiting, Exchanging, Return,
          Quiet
  <2>2. PcdTypeOK'
      BY <1>7, FieldTypes, HandedType, Toggled DEF TypeOK, AirTypeOK,
          PcdTypeOK, Bit, HearStray, Hears, Waiting, Exchanging, Return, Quiet,
          SBlock, counters
  <2>3. PiccTypeOK'
      BY <1>7 DEF TypeOK, PiccTypeOK, piccVars
  <2> QED BY <2>1, <2>2, <2>3
<1>8. CASE HearAck /\ UNCHANGED piccVars
  <2>1. AirTypeOK'
      BY <1>8, FrameTypes, FieldTypes, Toggled DEF TypeOK, AirTypeOK,
          PcdTypeOK, PiccTypeOK, HearAck, Hears, Waiting, Exchanging, Return,
          ClearCounters, Quiet
  <2>2. PcdTypeOK'
      BY <1>8, FieldTypes, HandedType, Toggled DEF TypeOK, AirTypeOK,
          PcdTypeOK, Bit, HearAck, Hears, Waiting, Exchanging, Return,
          ClearCounters, Quiet, SBlock, counters
  <2>3. PiccTypeOK'
      BY <1>8 DEF TypeOK, PiccTypeOK, piccVars
  <2> QED BY <2>1, <2>2, <2>3
<1>9. CASE HearOldAck /\ UNCHANGED piccVars
  <2>1. AirTypeOK'
      BY <1>9, FrameTypes, FieldTypes, Toggled DEF TypeOK, AirTypeOK,
          PcdTypeOK, PiccTypeOK, HearOldAck, Hears, Waiting, Exchanging,
          Return, Quiet
  <2>2. PcdTypeOK'
      BY <1>9, FieldTypes, HandedType, Toggled DEF TypeOK, AirTypeOK,
          PcdTypeOK, Bit, HearOldAck, Hears, Waiting, Exchanging, Return,
          Quiet, SBlock, counters
  <2>3. PiccTypeOK'
      BY <1>9 DEF TypeOK, PiccTypeOK, piccVars
  <2> QED BY <2>1, <2>2, <2>3
<1>10. CASE HearChained /\ UNCHANGED piccVars
  <2>1. AirTypeOK'
      BY <1>10, FrameTypes, FieldTypes, Toggled DEF TypeOK, AirTypeOK,
          PcdTypeOK, PiccTypeOK, HearChained, Hears, Waiting, Exchanging,
          Return, Reply, ClearCounters, Give, Quiet, Send
  <2>2. PcdTypeOK'
      BY <1>10, FieldTypes, HandedType, Toggled DEF TypeOK, AirTypeOK,
          PcdTypeOK, Bit, HearChained, Hears, Waiting, Exchanging, Return,
          Reply, ClearCounters, Give, Quiet, Send, RBlock, SBlock, counters
  <2>3. PiccTypeOK'
      BY <1>10 DEF TypeOK, PiccTypeOK, piccVars
  <2> QED BY <2>1, <2>2, <2>3
<1>11. CASE HearLast /\ UNCHANGED piccVars
  <2>1. AirTypeOK'
      BY <1>11, FrameTypes DEF AirTypeOK, HearLast, Quiet
  <2>2. PcdTypeOK'
    <3>1. bn' \in Bit /\ reader' \in [data : Data \cup {None}, parity : BOOLEAN]
        BY <1>11, FieldTypes, HandedType, Toggled DEF TypeOK, AirTypeOK, PcdTypeOK,
            HearLast, Hears, Give
    <3>2. app' \in {"ready", "busy", "timeout", "proto", "deselect", "off"}
        BY <1>11 DEF HearLast, Return
    <3>3. /\ cntI' \in Nat /\ cntR' \in Nat /\ cntWtx' \in Nat
          /\ cntNack' \in Nat /\ cntDsl' \in Nat /\ timeouts' \in Nat
        BY <1>11 DEF TypeOK, PcdTypeOK, HearLast, ClearCounters, counters
    <3>4. /\ pcd' \in {"IDLE", "TX", "RX", "WAIT_DSL"}
          /\ pcdLast' \in {"none", "I", "ACK", "NAK", "WTX", "DSL"}
        BY <1>11 DEF TypeOK, PcdTypeOK, HearLast, Return
    <3> QED
        BY <1>11, <3>1, <3>2, <3>3, <3>4 DEF TypeOK, PcdTypeOK, HearLast
  <2>3. PiccTypeOK'
      BY <1>11 DEF TypeOK, PiccTypeOK, piccVars
  <2> QED BY <2>1, <2>2, <2>3
<1>12. CASE Deselect /\ UNCHANGED piccVars
  <2>1. AirTypeOK'
      BY <1>12, FrameTypes, FieldTypes, Toggled DEF TypeOK, AirTypeOK,
          PcdTypeOK, PiccTypeOK, Deselect, Send
  <2>2. PcdTypeOK'
      BY <1>12, FieldTypes, HandedType, Toggled DEF TypeOK, AirTypeOK,
          PcdTypeOK, Bit, Deselect, Send, SBlock, counters
  <2>3. PiccTypeOK'
      BY <1>12 DEF TypeOK, PiccTypeOK, piccVars
  <2> QED BY <2>1, <2>2, <2>3
<1>13. ASSUME NEW d \in Data, NEW m \in BOOLEAN, StartTransceive(d, m),
              UNCHANGED piccVars
      PROVE  AirTypeOK' /\ PcdTypeOK' /\ PiccTypeOK'
  <2>1. AirTypeOK'
      BY <1>13, FrameTypes, FieldTypes, Toggled DEF TypeOK, AirTypeOK,
          PcdTypeOK, PiccTypeOK, StartTransceive, ClearCounters, air
  <2>2. PcdTypeOK'
      BY <1>13, FieldTypes, HandedType, Toggled DEF TypeOK, AirTypeOK,
          PcdTypeOK, Bit, StartTransceive, ClearCounters, air, counters
  <2>3. PiccTypeOK'
      BY <1>13 DEF TypeOK, PiccTypeOK, piccVars
  <2> QED BY <2>1, <2>2, <2>3
<1>14. CASE GetWtx /\ UNCHANGED pcdVars
  <2>1. AirTypeOK'
      BY <1>14, FrameTypes, FieldTypes, Toggled DEF TypeOK, AirTypeOK,
          PcdTypeOK, PiccTypeOK, GetWtx, Hearing, Ignore, Quiet
  <2>2. PiccTypeOK'
      BY <1>14, FieldTypes, HandedType, Toggled DEF TypeOK, AirTypeOK,
          PiccTypeOK, Bit, GetWtx, Hearing, Ignore, Quiet, SBlock
  <2>3. PcdTypeOK'
      BY <1>14 DEF TypeOK, PcdTypeOK, pcdVars, counters
  <2> QED BY <2>1, <2>2, <2>3
<1>15. CASE GetDsl /\ UNCHANGED pcdVars
  <2>1. AirTypeOK'
      BY <1>15, FrameTypes, FieldTypes, Toggled DEF TypeOK, AirTypeOK,
          PcdTypeOK, PiccTypeOK, GetDsl, Hearing, Send
  <2>2. PiccTypeOK'
      BY <1>15, FieldTypes, HandedType, Toggled DEF TypeOK, AirTypeOK,
          PiccTypeOK, Bit, GetDsl, Hearing, Send, SBlock
  <2>3. PcdTypeOK'
      BY <1>15 DEF TypeOK, PcdTypeOK, pcdVars, counters
  <2> QED BY <2>1, <2>2, <2>3
<1>16. CASE Deselected /\ UNCHANGED pcdVars
  <2>1. AirTypeOK'
      BY <1>16, FrameTypes, FieldTypes, Toggled DEF TypeOK, AirTypeOK,
          PcdTypeOK, PiccTypeOK, Deselected, PiccInitialize, air
  <2>2. PiccTypeOK'
      BY <1>16, FieldTypes, HandedType, Toggled DEF TypeOK, AirTypeOK,
          PiccTypeOK, Bit, Deselected, PiccInitialize, air
  <2>3. PcdTypeOK'
      BY <1>16 DEF TypeOK, PcdTypeOK, pcdVars, counters
  <2> QED BY <2>1, <2>2, <2>3
<1>17. CASE GetRetry /\ UNCHANGED pcdVars
  <2>1. AirTypeOK'
      BY <1>17, FrameTypes, FieldTypes, Toggled DEF TypeOK, AirTypeOK,
          PcdTypeOK, PiccTypeOK, GetRetry, Hearing, Resend, Quiet, Send
  <2>2. PiccTypeOK'
      BY <1>17, FieldTypes, HandedType, Toggled DEF TypeOK, AirTypeOK,
          PiccTypeOK, Bit, GetRetry, Hearing, Resend, Quiet, Send, RBlock,
          SBlock
  <2>3. PcdTypeOK'
      BY <1>17 DEF TypeOK, PcdTypeOK, pcdVars, counters
  <2> QED BY <2>1, <2>2, <2>3
<1>18. CASE GetAck /\ UNCHANGED pcdVars
  <2>1. AirTypeOK'
      BY <1>18, FrameTypes, FieldTypes, Toggled DEF TypeOK, AirTypeOK,
          PcdTypeOK, PiccTypeOK, GetAck, Hearing, Ignore, Quiet
  <2>2. PiccTypeOK'
      BY <1>18, FieldTypes, HandedType, Toggled DEF TypeOK, AirTypeOK,
          PiccTypeOK, Bit, GetAck, Hearing, Ignore, Quiet, SBlock
  <2>3. PcdTypeOK'
      BY <1>18 DEF TypeOK, PcdTypeOK, pcdVars, counters
  <2> QED BY <2>1, <2>2, <2>3
<1>19. CASE GetNak /\ UNCHANGED pcdVars
  <2>1. AirTypeOK'
      BY <1>19, FrameTypes, FieldTypes, Toggled DEF TypeOK, AirTypeOK,
          PcdTypeOK, PiccTypeOK, GetNak, Hearing, Send
  <2>2. PiccTypeOK'
      BY <1>19, FieldTypes, HandedType, Toggled DEF TypeOK, AirTypeOK,
          PiccTypeOK, Bit, GetNak, Hearing, Send, RBlock
  <2>3. PcdTypeOK'
      BY <1>19 DEF TypeOK, PcdTypeOK, pcdVars, counters
  <2> QED BY <2>1, <2>2, <2>3
<1>20. CASE GetI /\ UNCHANGED pcdVars
  <2>1. AirTypeOK'
      BY <1>20, FrameTypes, FieldTypes, Toggled DEF TypeOK, AirTypeOK,
          PcdTypeOK, PiccTypeOK, GetI, Hearing, Ignore, Quiet, Send
  <2>2. PiccTypeOK'
      BY <1>20, FieldTypes, HandedType, Toggled DEF TypeOK, AirTypeOK,
          PiccTypeOK, Bit, GetI, Hearing, Ignore, Quiet, Send, RBlock, SBlock
  <2>3. PcdTypeOK'
      BY <1>20 DEF TypeOK, PcdTypeOK, pcdVars, counters
  <2> QED BY <2>1, <2>2, <2>3
<1>21. CASE AskWtx /\ UNCHANGED pcdVars
  <2>1. AirTypeOK'
      BY <1>21, FrameTypes, FieldTypes, Toggled DEF TypeOK, AirTypeOK,
          PcdTypeOK, PiccTypeOK, AskWtx, Send
  <2>2. PiccTypeOK'
      BY <1>21, FieldTypes, HandedType, Toggled DEF TypeOK, AirTypeOK,
          PiccTypeOK, Bit, AskWtx, Send, SBlock
  <2>3. PcdTypeOK'
      BY <1>21 DEF TypeOK, PcdTypeOK, pcdVars, counters
  <2> QED BY <2>1, <2>2, <2>3
<1>22. CASE SendI /\ UNCHANGED pcdVars
  <2>1. AirTypeOK'
      BY <1>22, FrameTypes, FieldTypes, Toggled DEF TypeOK, AirTypeOK,
          PcdTypeOK, PiccTypeOK, SendI, Send
  <2>2. PiccTypeOK'
      BY <1>22, FieldTypes, HandedType, Toggled DEF TypeOK, AirTypeOK,
          PiccTypeOK, Bit, SendI, Send, IBlock
  <2>3. PcdTypeOK'
      BY <1>22 DEF TypeOK, PcdTypeOK, pcdVars, counters
  <2> QED BY <2>1, <2>2, <2>3
<1>23. ASSUME NEW d \in Data, NEW m \in BOOLEAN, Answer(d, m), UNCHANGED pcdVars
      PROVE  AirTypeOK' /\ PcdTypeOK' /\ PiccTypeOK'
  <2>1. AirTypeOK'
      BY <1>23, FrameTypes, FieldTypes, Toggled DEF TypeOK, AirTypeOK,
          PcdTypeOK, PiccTypeOK, Answer, air
  <2>2. PiccTypeOK'
      BY <1>23, FieldTypes, HandedType, Toggled DEF TypeOK, AirTypeOK,
          PiccTypeOK, Bit, Answer, air
  <2>3. PcdTypeOK'
      BY <1>23 DEF TypeOK, PcdTypeOK, pcdVars, counters
  <2> QED BY <2>1, <2>2, <2>3
<1> QED
    BY <1>1, <1>2, <1>3, <1>4, <1>5, <1>6, <1>7, <1>8, <1>9, <1>10, <1>11,
        <1>12, <1>13, <1>14, <1>15, <1>16, <1>17, <1>18, <1>19, <1>20, <1>21,
        <1>22, <1>23 DEF Next, ReaderStep, ReaderApp, CardStep, CardApp

\* The numbers in the air.
LEMMA NumberedStep == IInv /\ [Next]_linkVars => Numbered'
<1> SUFFICES ASSUME TypeOK, Numbered, Live => Session, [Next]_linkVars
             PROVE  Numbered'
    BY DEF IInv
<1>1. CASE UNCHANGED linkVars
    BY <1>1, FieldTypes DEF linkVars, pcdVars, piccVars, air, counters, TypeOK,
        AirTypeOK, PcdTypeOK, PiccTypeOK, Bit, Numbered
<1>2. CASE Activate
    BY <1>2, FieldTypes DEF Activate, PcdActivate, PcdInitialize,
        ClearCounters, PiccActivate, PiccInitialize, Quiet, SBlock, TypeOK,
        AirTypeOK, PcdTypeOK, PiccTypeOK, Bit, Numbered
<1>3. CASE Lose /\ UNCHANGED <<pcdVars, piccVars>>
    BY <1>3, FieldTypes DEF Lose, pcdVars, piccVars, counters, Quiet, SBlock,
        TypeOK, AirTypeOK, PcdTypeOK, PiccTypeOK, Bit, Numbered
<1>4. CASE Transmit /\ UNCHANGED piccVars
    BY <1>4, FieldTypes DEF Transmit, Exchanging, Send, IBlock, piccVars,
        counters, TypeOK, AirTypeOK, PcdTypeOK, PiccTypeOK, Bit, Numbered
<1>5. CASE Timeout /\ UNCHANGED piccVars
    BY <1>5, FieldTypes DEF Timeout, Waiting, Exchanging, Return, Reply, Quiet,
        Send, RBlock, SBlock, piccVars, counters, TypeOK, AirTypeOK, PcdTypeOK,
        PiccTypeOK, Bit, Numbered
<1>6. CASE HearWtx /\ UNCHANGED piccVars
    BY <1>6, FieldTypes DEF HearWtx, Hears, Waiting, Exchanging, Return, Reply,
        Quiet, Send, SBlock, piccVars, counters, TypeOK, AirTypeOK, PcdTypeOK,
        PiccTypeOK, Bit, Numbered
<1>7. CASE HearStray /\ UNCHANGED piccVars
    BY <1>7, FieldTypes DEF HearStray, Hears, Waiting, Exchanging, Return,
        Quiet, SBlock, piccVars, counters, TypeOK, AirTypeOK, PcdTypeOK,
        PiccTypeOK, Bit, Numbered
<1>8. CASE HearAck /\ UNCHANGED piccVars
    BY <1>8, FieldTypes DEF HearAck, Hears, Waiting, Exchanging, Return,
        ClearCounters, Toggle, Quiet, SBlock, piccVars, counters, TypeOK,
        AirTypeOK, PcdTypeOK, PiccTypeOK, Bit, Numbered
<1>9. CASE HearOldAck /\ UNCHANGED piccVars
    BY <1>9, FieldTypes DEF HearOldAck, Hears, Waiting, Exchanging, Return,
        Quiet, SBlock, piccVars, counters, TypeOK, AirTypeOK, PcdTypeOK,
        PiccTypeOK, Bit, Numbered
<1>10. CASE HearChained /\ UNCHANGED piccVars
    BY <1>10, FieldTypes DEF HearChained, Hears, Waiting, Exchanging, Return,
        Reply, ClearCounters, Toggle, Give, Quiet, Send, RBlock, SBlock,
        piccVars, counters, TypeOK, AirTypeOK, PcdTypeOK, PiccTypeOK, Bit,
        Numbered
<1>11. CASE HearLast /\ UNCHANGED piccVars
    BY <1>11, FieldTypes DEF HearLast, Hears, Waiting, Exchanging, Return,
        ClearCounters, Toggle, Give, Quiet, SBlock, piccVars, counters, TypeOK,
        AirTypeOK, PcdTypeOK, PiccTypeOK, Bit, Numbered
<1>12. CASE Deselect /\ UNCHANGED piccVars
    BY <1>12, FieldTypes DEF Deselect, Send, SBlock, piccVars, counters,
        TypeOK, AirTypeOK, PcdTypeOK, PiccTypeOK, Bit, Numbered
<1>13. ASSUME NEW d \in Data, NEW m \in BOOLEAN,
             StartTransceive(d, m), UNCHANGED piccVars
      PROVE  Numbered'
    BY <1>13, FieldTypes DEF Live, Session, Phases, PhaseReader, turn,
        StartTransceive, ClearCounters, air, piccVars,
        TypeOK, AirTypeOK, PcdTypeOK, PiccTypeOK, Bit, Numbered
<1>14. CASE GetWtx /\ UNCHANGED pcdVars
    BY <1>14, FieldTypes DEF GetWtx, Hearing, Ignore, Quiet, SBlock, pcdVars,
        counters, TypeOK, AirTypeOK, PcdTypeOK, PiccTypeOK, Bit, Numbered
<1>15. CASE GetDsl /\ UNCHANGED pcdVars
    BY <1>15, FieldTypes DEF GetDsl, Hearing, Send, SBlock, pcdVars, counters,
        TypeOK, AirTypeOK, PcdTypeOK, PiccTypeOK, Bit, Numbered
<1>16. CASE Deselected /\ UNCHANGED pcdVars
    BY <1>16, FieldTypes DEF Deselected, PiccInitialize, air, pcdVars,
        counters, TypeOK, AirTypeOK, PcdTypeOK, PiccTypeOK, Bit, Numbered
<1>17. CASE GetRetry /\ UNCHANGED pcdVars
    BY <1>17, FieldTypes DEF GetRetry, Hearing, Resend, Quiet, Send, RBlock,
        SBlock, pcdVars, counters, TypeOK, AirTypeOK, PcdTypeOK, PiccTypeOK,
        Bit, Numbered
<1>18. CASE GetAck /\ UNCHANGED pcdVars
    BY <1>18, FieldTypes DEF GetAck, Hearing, Ignore, Toggle, Quiet, SBlock,
        pcdVars, counters, TypeOK, AirTypeOK, PcdTypeOK, PiccTypeOK, Bit,
        Numbered
<1>19. CASE GetNak /\ UNCHANGED pcdVars
    BY <1>19, FieldTypes DEF GetNak, Hearing, Send, RBlock, pcdVars, counters,
        TypeOK, AirTypeOK, PcdTypeOK, PiccTypeOK, Bit, Numbered
<1>20. CASE GetI /\ UNCHANGED pcdVars
    BY <1>20, FieldTypes DEF GetI, Hearing, Ignore, Quiet, Send, RBlock,
        SBlock, pcdVars, counters, TypeOK, AirTypeOK, PcdTypeOK, PiccTypeOK,
        Bit, Numbered
<1>21. CASE AskWtx /\ UNCHANGED pcdVars
    BY <1>21, FieldTypes DEF AskWtx, Send, SBlock, pcdVars, counters, TypeOK,
        AirTypeOK, PcdTypeOK, PiccTypeOK, Bit, Numbered
<1>22. CASE SendI /\ UNCHANGED pcdVars
    BY <1>22, FieldTypes DEF SendI, Send, IBlock, pcdVars, counters, TypeOK,
        AirTypeOK, PcdTypeOK, PiccTypeOK, Bit, Numbered
<1>23. ASSUME NEW d \in Data, NEW m \in BOOLEAN,
             Answer(d, m), UNCHANGED pcdVars
      PROVE  Numbered'
    BY <1>23, FieldTypes DEF Answer, air, pcdVars, counters, TypeOK, AirTypeOK,
        PcdTypeOK, PiccTypeOK, Bit, Numbered
<1> QED
    BY <1>1, <1>2, <1>3, <1>4, <1>5, <1>6, <1>7, <1>8, <1>9, <1>10, <1>11,
        <1>12, <1>13, <1>14, <1>15, <1>16, <1>17, <1>18, <1>19, <1>20, <1>21,
        <1>22, <1>23 DEF Next, ReaderStep, ReaderApp, CardStep, CardApp

\* What the phases say of a session, read the other way: from the frame in the
\* air and the state of the card to what has to happen next.
LEMMA Where ==
    ASSUME IInv, Live
    PROVE  /\ bn \in Bit /\ piccBn \in Bit /\ frame \in Frames
           /\ app \in {"ready", "busy", "timeout", "proto"}
           /\ isTxChaining \in BOOLEAN /\ isRxChaining \in BOOLEAN
           /\ cardBusy \in BOOLEAN /\ piccChaining \in BOOLEAN
           /\ isWait4WTX \in BOOLEAN /\ isTxPending \in BOOLEAN
           /\ picc \in {"RX", "TX", "SWTX"}
           /\ picc = "TX" => turn = "toReader"
           /\ picc = "SWTX" => turn = "card"
           /\ to = "picc" /\ frame.k = "I" => turn = "toCard"
           /\ to = "pcd" =>
                \/ frame.k = "WTX" /\ turn \in {"card", "toReader"}
                \/ frame.k = "I" /\ turn = "toReader"
                \/ frame.k = "ACK" /\ turn \in {"toCard", "confirm"}
           /\ turn \in {"reader", "toCard", "confirm", "card", "toReader", "goOn"}

<1>1. /\ bn \in Bit /\ piccBn \in Bit /\ frame \in Frames
      /\ isTxChaining \in BOOLEAN /\ isRxChaining \in BOOLEAN
      /\ cardBusy \in BOOLEAN /\ piccChaining \in BOOLEAN
      /\ isWait4WTX \in BOOLEAN /\ isTxPending \in BOOLEAN
      /\ app \in {"ready", "busy", "timeout", "proto"}
    BY DEF IInv, TypeOK, AirTypeOK, PcdTypeOK, PiccTypeOK, Live
<1>2. turn \in {"reader", "toCard", "confirm", "card", "toReader", "goOn"}
    BY <1>1 DEF turn
<1>3. /\ picc \in {"RX", "TX", "SWTX"}
      /\ picc = "TX" => turn = "toReader"
      /\ picc = "SWTX" => turn = "card"
      /\ to = "pcd" =>
            \/ frame.k = "WTX" /\ turn \in {"card", "toReader"}
            \/ frame.k = "I" /\ turn = "toReader"
            \/ frame.k = "ACK" /\ turn \in {"toCard", "confirm"}
    BY <1>2 DEF IInv, Session, Phases, PhaseReader, PhaseToCard, PhaseConfirm, PhaseCard,
        PhaseToReader, PhaseGoOn, AtRest
<1>4. to = "picc" /\ frame.k = "I" => turn = "toCard"
    BY DEF IInv, Session, ReaderFrame, turn, Live, Phases, PhaseGoOn, AtRest
<1> QED
    BY <1>1, <1>2, <1>3, <1>4


LEMMA TransmitSession ==
    ASSUME IInv, Live, Transmit, UNCHANGED piccVars
    PROVE  Live' => Session'

<1>1. Live' => ReaderFrame'
    BY Where DEF IInv, Session, Numbered, ReaderFrame, Phases, PhaseReader,
        PhaseToCard, PhaseConfirm, PhaseCard, PhaseToReader, PhaseGoOn, AtRest,
        turn, Live, Bit, Transmit, Exchanging, Send, IBlock, piccVars, counters
<1>2. Live' => Phases'
    BY Where DEF IInv, Session, Numbered, ReaderFrame, Phases, PhaseReader,
        PhaseToCard, PhaseConfirm, PhaseCard, PhaseToReader, PhaseGoOn, AtRest,
        turn, Live, Bit, Transmit, Exchanging, Send, IBlock, piccVars, counters
<1>3. Live' => Counted'
    BY Where, LimitsAssumption DEF IInv, Session, TypeOK, PcdTypeOK, Counted,
        ReaderFrame, Phases, PhaseReader, PhaseToCard, PhaseConfirm, PhaseCard,
        PhaseToReader, PhaseGoOn, AtRest, turn, GivesUpLate, Fewest, Live, Bit,
        Transmit, Exchanging, Send, IBlock, piccVars, counters
<1> QED BY <1>1, <1>2, <1>3 DEF Session

LEMMA TimeoutSession ==
    ASSUME IInv, Live, Timeout, UNCHANGED piccVars
    PROVE  Live' => Session'

<1>1. Live' => ReaderFrame'
    BY Where DEF IInv, Session, Numbered, ReaderFrame, Phases, PhaseReader,
        PhaseToCard, PhaseConfirm, PhaseCard, PhaseToReader, PhaseGoOn, AtRest,
        turn, Live, Bit, Timeout, Waiting, Exchanging, Return, Reply, Quiet,
        Send, RBlock, SBlock, piccVars, counters
<1>2. Live' => Phases'
    BY Where DEF IInv, Session, Numbered, ReaderFrame, Phases, PhaseReader,
        PhaseToCard, PhaseConfirm, PhaseCard, PhaseToReader, PhaseGoOn, AtRest,
        turn, Live, Bit, Timeout, Waiting, Exchanging, Return, Reply, Quiet,
        Send, RBlock, SBlock, piccVars, counters
<1>3. Live' => Counted'
  <2>1. app = "busy" /\ pcd # "WAIT_DSL"
      BY DEF IInv, Session, ReaderFrame, Live, Timeout, Waiting, Exchanging
  <2>2. cntR' = cntR + 1 /\ timeouts' = timeouts + 1 /\ UNCHANGED <<cntI, cntNack>>
      BY <2>1 DEF Timeout
  <2>3. CASE cntR > MaxR \/ (~isRxChaining /\ cntNack >= MaxNack)
      BY <2>1, <2>2, <2>3, LimitsAssumption DEF IInv, Session, TypeOK, PcdTypeOK, Live, Counted,
          GivesUpLate, Fewest, Timeout, Return
  <2>4. CASE ~(cntR > MaxR \/ (~isRxChaining /\ cntNack >= MaxNack))
      BY <2>1, <2>2, <2>4 DEF IInv, Session, TypeOK, PcdTypeOK, Live, Counted, GivesUpLate,
          Timeout, Reply, RBlock
  <2> QED BY <2>3, <2>4

<1> QED BY <1>1, <1>2, <1>3 DEF Session

LEMMA HearWtxSession ==
    ASSUME IInv, Live, HearWtx, UNCHANGED piccVars
    PROVE  Live' => Session'

<1>1. Live' => ReaderFrame'
    BY Where DEF IInv, Session, Numbered, ReaderFrame, Phases, PhaseReader,
        PhaseToCard, PhaseConfirm, PhaseCard, PhaseToReader, PhaseGoOn, AtRest,
        turn, Live, Bit, HearWtx, Hears, Waiting, Exchanging, Return, Reply,
        Quiet, Send, SBlock, piccVars, counters
<1>2. Live' => Phases'
    BY Where DEF IInv, Session, Numbered, ReaderFrame, Phases, PhaseReader,
        PhaseToCard, PhaseConfirm, PhaseCard, PhaseToReader, PhaseGoOn, AtRest,
        turn, Live, Bit, HearWtx, Hears, Waiting, Exchanging, Return, Reply,
        Quiet, Send, SBlock, piccVars, counters
<1>3. Live' => Counted'
    BY Where, LimitsAssumption DEF IInv, Session, TypeOK, PcdTypeOK, Counted,
        ReaderFrame, Phases, PhaseReader, PhaseToCard, PhaseConfirm, PhaseCard,
        PhaseToReader, PhaseGoOn, AtRest, turn, GivesUpLate, Fewest, Live, Bit,
        HearWtx, Hears, Waiting, Exchanging, Return, Reply, Quiet, Send,
        SBlock, piccVars, counters
<1> QED BY <1>1, <1>2, <1>3 DEF Session

LEMMA HearStraySession ==
    ASSUME IInv, Live, HearStray, UNCHANGED piccVars
    PROVE  Live' => Session'

<1>1. Live' => ReaderFrame'
    BY Where DEF IInv, Session, Numbered, ReaderFrame, Phases, PhaseReader,
        PhaseToCard, PhaseConfirm, PhaseCard, PhaseToReader, PhaseGoOn, AtRest,
        turn, Live, Bit, HearStray, Hears, Waiting, Exchanging, Return, Quiet,
        SBlock, piccVars, counters
<1>2. Live' => Phases'
    BY Where DEF IInv, Session, Numbered, ReaderFrame, Phases, PhaseReader,
        PhaseToCard, PhaseConfirm, PhaseCard, PhaseToReader, PhaseGoOn, AtRest,
        turn, Live, Bit, HearStray, Hears, Waiting, Exchanging, Return, Quiet,
        SBlock, piccVars, counters
<1>3. Live' => Counted'
    BY Where, LimitsAssumption DEF IInv, Session, TypeOK, PcdTypeOK, Counted,
        ReaderFrame, Phases, PhaseReader, PhaseToCard, PhaseConfirm, PhaseCard,
        PhaseToReader, PhaseGoOn, AtRest, turn, GivesUpLate, Fewest, Live, Bit,
        HearStray, Hears, Waiting, Exchanging, Return, Quiet, SBlock, piccVars,
        counters
<1> QED BY <1>1, <1>2, <1>3 DEF Session

LEMMA HearAckSession ==
    ASSUME IInv, Live, HearAck, UNCHANGED piccVars
    PROVE  Live' => Session'

<1>1. Live' => ReaderFrame'
    BY Where DEF IInv, Session, Numbered, ReaderFrame, Phases, PhaseReader,
        PhaseToCard, PhaseConfirm, PhaseCard, PhaseToReader, PhaseGoOn, AtRest,
        turn, Live, Bit, HearAck, Hears, Waiting, Exchanging, Return,
        ClearCounters, Toggle, Quiet, SBlock, piccVars, counters
<1>2. Live' => Phases'
    BY Where DEF IInv, Session, Numbered, ReaderFrame, Phases, PhaseReader,
        PhaseToCard, PhaseConfirm, PhaseCard, PhaseToReader, PhaseGoOn, AtRest,
        turn, Live, Bit, HearAck, Hears, Waiting, Exchanging, Return,
        ClearCounters, Toggle, Quiet, SBlock, piccVars, counters
<1>3. Live' => Counted'
  <2>1. isTxChaining
      BY Where DEF IInv, Session, Numbered, turn, Live, HearAck, Hears, Waiting, Exchanging
  <2> QED
      BY <2>1, Where DEF Counted, GivesUpLate, Live, HearAck, Hears, Waiting,
          Exchanging, Return, ClearCounters

<1> QED BY <1>1, <1>2, <1>3 DEF Session

LEMMA HearOldAckSession ==
    ASSUME IInv, Live, HearOldAck, UNCHANGED piccVars
    PROVE  Live' => Session'

<1>1. Live' => ReaderFrame'
    BY Where DEF IInv, Session, Numbered, ReaderFrame, Phases, PhaseReader,
        PhaseToCard, PhaseConfirm, PhaseCard, PhaseToReader, PhaseGoOn, AtRest,
        turn, Live, Bit, HearOldAck, Hears, Waiting, Exchanging, Return, Quiet,
        SBlock, piccVars, counters
<1>2. Live' => Phases'
    BY Where DEF IInv, Session, Numbered, ReaderFrame, Phases, PhaseReader,
        PhaseToCard, PhaseConfirm, PhaseCard, PhaseToReader, PhaseGoOn, AtRest,
        turn, Live, Bit, HearOldAck, Hears, Waiting, Exchanging, Return, Quiet,
        SBlock, piccVars, counters
<1>3. Live' => Counted'
  <2>1. pcdLast = "NAK" /\ pcd = "RX" /\ app = "busy"
      BY Where DEF IInv, Session, Numbered, turn, Live, Phases, PhaseToCard, HearOldAck, Hears,
          Waiting, Exchanging
  <2> QED
      BY <2>1, LimitsAssumption DEF IInv, Session, TypeOK, PcdTypeOK, Counted, GivesUpLate,
          Fewest, Live, HearOldAck, Return

<1> QED BY <1>1, <1>2, <1>3 DEF Session

LEMMA HearChainedSession ==
    ASSUME IInv, Live, HearChained, UNCHANGED piccVars
    PROVE  Live' => Session'

<1>1. Live' => ReaderFrame'
    BY Where DEF IInv, Session, Numbered, ReaderFrame, Phases, PhaseReader,
        PhaseToCard, PhaseConfirm, PhaseCard, PhaseToReader, PhaseGoOn, AtRest,
        turn, Live, Bit, HearChained, Hears, Waiting, Exchanging, Return,
        Reply, ClearCounters, Toggle, Give, Quiet, Send, RBlock, SBlock,
        piccVars, counters
<1>2. Live' => Phases'
    BY Where DEF IInv, Session, Numbered, ReaderFrame, Phases, PhaseReader,
        PhaseToCard, PhaseConfirm, PhaseCard, PhaseToReader, PhaseGoOn, AtRest,
        turn, Live, Bit, HearChained, Hears, Waiting, Exchanging, Return,
        Reply, ClearCounters, Toggle, Give, Quiet, Send, RBlock, SBlock,
        piccVars, counters
<1>3. Live' => Counted'
  <2>1. frame.bn = bn /\ app = "busy"
      BY Where DEF IInv, Session, Numbered, turn, Live, HearChained, Hears, Waiting, Exchanging
  <2> QED
      BY <2>1 DEF Counted, GivesUpLate, Live, HearChained, Reply, RBlock, Send,
          ClearCounters

<1> QED BY <1>1, <1>2, <1>3 DEF Session

LEMMA HearLastSession ==
    ASSUME IInv, Live, HearLast, UNCHANGED piccVars
    PROVE  Live' => Session'

<1>1. Live' => ReaderFrame'
    BY Where DEF IInv, Session, Numbered, ReaderFrame, Phases, PhaseReader,
        PhaseToCard, PhaseConfirm, PhaseCard, PhaseToReader, PhaseGoOn, AtRest,
        turn, Live, Bit, HearLast, Hears, Waiting, Exchanging, Return,
        ClearCounters, Toggle, Give, Quiet, SBlock, piccVars, counters
<1>2. Live' => Phases'
    BY Where DEF IInv, Session, Numbered, ReaderFrame, Phases, PhaseReader,
        PhaseToCard, PhaseConfirm, PhaseCard, PhaseToReader, PhaseGoOn, AtRest,
        turn, Live, Bit, HearLast, Hears, Waiting, Exchanging, Return,
        ClearCounters, Toggle, Give, Quiet, SBlock, piccVars, counters
<1>3. Live' => Counted'
  <2>1. frame.bn = bn /\ app = "busy"
      BY Where DEF IInv, Session, Numbered, turn, Live, HearLast, Hears, Waiting, Exchanging
  <2> QED
      BY <2>1 DEF Counted, GivesUpLate, Live, HearLast, ClearCounters

<1> QED BY <1>1, <1>2, <1>3 DEF Session

LEMMA StartTransceiveSession ==
    ASSUME NEW d \in Data, NEW m \in BOOLEAN,
           IInv, Live, StartTransceive(d, m), UNCHANGED piccVars
    PROVE  Live' => Session'

<1>1. Live' => ReaderFrame'
    BY Where DEF IInv, Session, Numbered, ReaderFrame, Phases, PhaseReader,
        PhaseToCard, PhaseConfirm, PhaseCard, PhaseToReader, PhaseGoOn, AtRest,
        turn, Live, Bit, StartTransceive, ClearCounters, air, piccVars
<1>2. Live' => Phases'
    BY Where DEF IInv, Session, Numbered, ReaderFrame, Phases, PhaseReader,
        PhaseToCard, PhaseConfirm, PhaseCard, PhaseToReader, PhaseGoOn, AtRest,
        turn, Live, Bit, StartTransceive, ClearCounters, air, piccVars
<1>3. Live' => Counted'
    BY Where, LimitsAssumption DEF IInv, Session, TypeOK, PcdTypeOK, Counted,
        ReaderFrame, Phases, PhaseReader, PhaseToCard, PhaseConfirm, PhaseCard,
        PhaseToReader, PhaseGoOn, AtRest, turn, GivesUpLate, Fewest, Live, Bit,
        StartTransceive, ClearCounters, air, piccVars
<1> QED BY <1>1, <1>2, <1>3 DEF Session

LEMMA GetWtxSession ==
    ASSUME IInv, Live, GetWtx, UNCHANGED pcdVars
    PROVE  Live' => Session'

<1>1. Live' => ReaderFrame'
    BY Where DEF IInv, Session, Numbered, ReaderFrame, Phases, PhaseReader,
        PhaseToCard, PhaseConfirm, PhaseCard, PhaseToReader, PhaseGoOn, AtRest,
        turn, Live, Bit, GetWtx, Hearing, Ignore, Quiet, SBlock, pcdVars,
        counters
<1>2. Live' => Phases'
    BY Where DEF IInv, Session, Numbered, ReaderFrame, Phases, PhaseReader,
        PhaseToCard, PhaseConfirm, PhaseCard, PhaseToReader, PhaseGoOn, AtRest,
        turn, Live, Bit, GetWtx, Hearing, Ignore, Quiet, SBlock, pcdVars,
        counters
<1>3. Live' => Counted'
    BY Where, LimitsAssumption DEF IInv, Session, TypeOK, PcdTypeOK, Counted,
        ReaderFrame, Phases, PhaseReader, PhaseToCard, PhaseConfirm, PhaseCard,
        PhaseToReader, PhaseGoOn, AtRest, turn, GivesUpLate, Fewest, Live, Bit,
        GetWtx, Hearing, Ignore, Quiet, SBlock, pcdVars, counters
<1> QED BY <1>1, <1>2, <1>3 DEF Session

LEMMA GetDslSession ==
    ASSUME IInv, Live, GetDsl, UNCHANGED pcdVars
    PROVE  Live' => Session'

<1>1. Live' => ReaderFrame'
    BY Where DEF IInv, Session, Numbered, ReaderFrame, Phases, PhaseReader,
        PhaseToCard, PhaseConfirm, PhaseCard, PhaseToReader, PhaseGoOn, AtRest,
        turn, Live, Bit, GetDsl, Hearing, Send, SBlock, pcdVars, counters
<1>2. Live' => Phases'
    BY Where DEF IInv, Session, Numbered, ReaderFrame, Phases, PhaseReader,
        PhaseToCard, PhaseConfirm, PhaseCard, PhaseToReader, PhaseGoOn, AtRest,
        turn, Live, Bit, GetDsl, Hearing, Send, SBlock, pcdVars, counters
<1>3. Live' => Counted'
    BY Where, LimitsAssumption DEF IInv, Session, TypeOK, PcdTypeOK, Counted,
        ReaderFrame, Phases, PhaseReader, PhaseToCard, PhaseConfirm, PhaseCard,
        PhaseToReader, PhaseGoOn, AtRest, turn, GivesUpLate, Fewest, Live, Bit,
        GetDsl, Hearing, Send, SBlock, pcdVars, counters
<1> QED BY <1>1, <1>2, <1>3 DEF Session

LEMMA DeselectedSession ==
    ASSUME IInv, Live, Deselected, UNCHANGED pcdVars
    PROVE  Live' => Session'

<1>1. Live' => ReaderFrame'
    BY Where DEF IInv, Session, Numbered, ReaderFrame, Phases, PhaseReader,
        PhaseToCard, PhaseConfirm, PhaseCard, PhaseToReader, PhaseGoOn, AtRest,
        turn, Live, Bit, Deselected, PiccInitialize, air, pcdVars, counters
<1>2. Live' => Phases'
    BY Where DEF IInv, Session, Numbered, ReaderFrame, Phases, PhaseReader,
        PhaseToCard, PhaseConfirm, PhaseCard, PhaseToReader, PhaseGoOn, AtRest,
        turn, Live, Bit, Deselected, PiccInitialize, air, pcdVars, counters
<1>3. Live' => Counted'
    BY Where, LimitsAssumption DEF IInv, Session, TypeOK, PcdTypeOK, Counted,
        ReaderFrame, Phases, PhaseReader, PhaseToCard, PhaseConfirm, PhaseCard,
        PhaseToReader, PhaseGoOn, AtRest, turn, GivesUpLate, Fewest, Live, Bit,
        Deselected, PiccInitialize, air, pcdVars, counters
<1> QED BY <1>1, <1>2, <1>3 DEF Session

LEMMA GetRetrySession ==
    ASSUME IInv, Live, GetRetry, UNCHANGED pcdVars
    PROVE  Live' => Session'

<1>1. Live' => ReaderFrame'
    BY Where DEF IInv, Session, Numbered, ReaderFrame, Phases, PhaseReader,
        PhaseToCard, PhaseConfirm, PhaseCard, PhaseToReader, PhaseGoOn, AtRest,
        turn, Live, Bit, GetRetry, Hearing, Resend, Quiet, Send, RBlock,
        SBlock, pcdVars, counters
<1>2. Live' => Phases'
    BY Where DEF IInv, Session, Numbered, ReaderFrame, Phases, PhaseReader,
        PhaseToCard, PhaseConfirm, PhaseCard, PhaseToReader, PhaseGoOn, AtRest,
        turn, Live, Bit, GetRetry, Hearing, Resend, Quiet, Send, RBlock,
        SBlock, pcdVars, counters
<1>3. Live' => Counted'
    BY Where, LimitsAssumption DEF IInv, Session, TypeOK, PcdTypeOK, Counted,
        ReaderFrame, Phases, PhaseReader, PhaseToCard, PhaseConfirm, PhaseCard,
        PhaseToReader, PhaseGoOn, AtRest, turn, GivesUpLate, Fewest, Live, Bit,
        GetRetry, Hearing, Resend, Quiet, Send, RBlock, SBlock, pcdVars,
        counters
<1> QED BY <1>1, <1>2, <1>3 DEF Session

LEMMA GetAckSession ==
    ASSUME IInv, Live, GetAck, UNCHANGED pcdVars
    PROVE  Live' => Session'

<1>1. Live' => ReaderFrame'
    BY Where DEF IInv, Session, Numbered, ReaderFrame, Phases, PhaseReader,
        PhaseToCard, PhaseConfirm, PhaseCard, PhaseToReader, PhaseGoOn, AtRest,
        turn, Live, Bit, GetAck, Hearing, Ignore, Toggle, Quiet, SBlock,
        pcdVars, counters
<1>2. Live' => Phases'
    BY Where DEF IInv, Session, Numbered, ReaderFrame, Phases, PhaseReader,
        PhaseToCard, PhaseConfirm, PhaseCard, PhaseToReader, PhaseGoOn, AtRest,
        turn, Live, Bit, GetAck, Hearing, Ignore, Toggle, Quiet, SBlock,
        pcdVars, counters
<1>3. Live' => Counted'
    BY Where, LimitsAssumption DEF IInv, Session, TypeOK, PcdTypeOK, Counted,
        ReaderFrame, Phases, PhaseReader, PhaseToCard, PhaseConfirm, PhaseCard,
        PhaseToReader, PhaseGoOn, AtRest, turn, GivesUpLate, Fewest, Live, Bit,
        GetAck, Hearing, Ignore, Toggle, Quiet, SBlock, pcdVars, counters
<1> QED BY <1>1, <1>2, <1>3 DEF Session

LEMMA GetNakSession ==
    ASSUME IInv, Live, GetNak, UNCHANGED pcdVars
    PROVE  Live' => Session'

<1>1. Live' => ReaderFrame'
    BY Where DEF IInv, Session, Numbered, ReaderFrame, Phases, PhaseReader,
        PhaseToCard, PhaseConfirm, PhaseCard, PhaseToReader, PhaseGoOn, AtRest,
        turn, Live, Bit, GetNak, Hearing, Send, RBlock, pcdVars, counters
<1>2. Live' => Phases'
    BY Where DEF IInv, Session, Numbered, ReaderFrame, Phases, PhaseReader,
        PhaseToCard, PhaseConfirm, PhaseCard, PhaseToReader, PhaseGoOn, AtRest,
        turn, Live, Bit, GetNak, Hearing, Send, RBlock, pcdVars, counters
<1>3. Live' => Counted'
    BY Where, LimitsAssumption DEF IInv, Session, TypeOK, PcdTypeOK, Counted,
        ReaderFrame, Phases, PhaseReader, PhaseToCard, PhaseConfirm, PhaseCard,
        PhaseToReader, PhaseGoOn, AtRest, turn, GivesUpLate, Fewest, Live, Bit,
        GetNak, Hearing, Send, RBlock, pcdVars, counters
<1> QED BY <1>1, <1>2, <1>3 DEF Session

LEMMA GetISession ==
    ASSUME IInv, Live, GetI, UNCHANGED pcdVars
    PROVE  Live' => Session'

<1>1. Live' => ReaderFrame'
    BY Where DEF IInv, Session, Numbered, ReaderFrame, Phases, PhaseReader,
        PhaseToCard, PhaseConfirm, PhaseCard, PhaseToReader, PhaseGoOn, AtRest,
        turn, Live, Bit, GetI, Hearing, Ignore, Quiet, Send, RBlock, SBlock,
        pcdVars, counters
<1>2. Live' => Phases'
    BY Where DEF IInv, Session, Numbered, ReaderFrame, Phases, PhaseReader,
        PhaseToCard, PhaseConfirm, PhaseCard, PhaseToReader, PhaseGoOn, AtRest,
        turn, Live, Bit, GetI, Hearing, Ignore, Quiet, Send, RBlock, SBlock,
        pcdVars, counters
<1>3. Live' => Counted'
    BY Where, LimitsAssumption DEF IInv, Session, TypeOK, PcdTypeOK, Counted,
        ReaderFrame, Phases, PhaseReader, PhaseToCard, PhaseConfirm, PhaseCard,
        PhaseToReader, PhaseGoOn, AtRest, turn, GivesUpLate, Fewest, Live, Bit,
        GetI, Hearing, Ignore, Quiet, Send, RBlock, SBlock, pcdVars, counters
<1> QED BY <1>1, <1>2, <1>3 DEF Session

LEMMA AskWtxSession ==
    ASSUME IInv, Live, AskWtx, UNCHANGED pcdVars
    PROVE  Live' => Session'

<1>1. Live' => ReaderFrame'
    BY Where DEF IInv, Session, Numbered, ReaderFrame, Phases, PhaseReader,
        PhaseToCard, PhaseConfirm, PhaseCard, PhaseToReader, PhaseGoOn, AtRest,
        turn, Live, Bit, AskWtx, Send, SBlock, pcdVars, counters
<1>2. Live' => Phases'
    BY Where DEF IInv, Session, Numbered, ReaderFrame, Phases, PhaseReader,
        PhaseToCard, PhaseConfirm, PhaseCard, PhaseToReader, PhaseGoOn, AtRest,
        turn, Live, Bit, AskWtx, Send, SBlock, pcdVars, counters
<1>3. Live' => Counted'
    BY Where, LimitsAssumption DEF IInv, Session, TypeOK, PcdTypeOK, Counted,
        ReaderFrame, Phases, PhaseReader, PhaseToCard, PhaseConfirm, PhaseCard,
        PhaseToReader, PhaseGoOn, AtRest, turn, GivesUpLate, Fewest, Live, Bit,
        AskWtx, Send, SBlock, pcdVars, counters
<1> QED BY <1>1, <1>2, <1>3 DEF Session

LEMMA SendISession ==
    ASSUME IInv, Live, SendI, UNCHANGED pcdVars
    PROVE  Live' => Session'

<1>1. Live' => ReaderFrame'
    BY Where DEF IInv, Session, Numbered, ReaderFrame, Phases, PhaseReader,
        PhaseToCard, PhaseConfirm, PhaseCard, PhaseToReader, PhaseGoOn, AtRest,
        turn, Live, Bit, SendI, Send, IBlock, pcdVars, counters
<1>2. Live' => Phases'
    BY Where DEF IInv, Session, Numbered, ReaderFrame, Phases, PhaseReader,
        PhaseToCard, PhaseConfirm, PhaseCard, PhaseToReader, PhaseGoOn, AtRest,
        turn, Live, Bit, SendI, Send, IBlock, pcdVars, counters
<1>3. Live' => Counted'
    BY Where, LimitsAssumption DEF IInv, Session, TypeOK, PcdTypeOK, Counted,
        ReaderFrame, Phases, PhaseReader, PhaseToCard, PhaseConfirm, PhaseCard,
        PhaseToReader, PhaseGoOn, AtRest, turn, GivesUpLate, Fewest, Live, Bit,
        SendI, Send, IBlock, pcdVars, counters
<1> QED BY <1>1, <1>2, <1>3 DEF Session

LEMMA AnswerSession ==
    ASSUME NEW d \in Data, NEW m \in BOOLEAN,
           IInv, Live, Answer(d, m), UNCHANGED pcdVars
    PROVE  Live' => Session'

<1>1. Live' => ReaderFrame'
    BY Where DEF IInv, Session, Numbered, ReaderFrame, Phases, PhaseReader,
        PhaseToCard, PhaseConfirm, PhaseCard, PhaseToReader, PhaseGoOn, AtRest,
        turn, Live, Bit, Answer, air, pcdVars, counters
<1>2. Live' => Phases'
    BY Where DEF IInv, Session, Numbered, ReaderFrame, Phases, PhaseReader,
        PhaseToCard, PhaseConfirm, PhaseCard, PhaseToReader, PhaseGoOn, AtRest,
        turn, Live, Bit, Answer, air, pcdVars, counters
<1>3. Live' => Counted'
    BY Where, LimitsAssumption DEF IInv, Session, TypeOK, PcdTypeOK, Counted,
        ReaderFrame, Phases, PhaseReader, PhaseToCard, PhaseConfirm, PhaseCard,
        PhaseToReader, PhaseGoOn, AtRest, turn, GivesUpLate, Fewest, Live, Bit,
        Answer, air, pcdVars, counters
<1> QED BY <1>1, <1>2, <1>3 DEF Session

-----------------------------------------------------------------------------
\* The reader's steps on the live session, and the card's, keep its invariant; a
\* new session starts with it.
LEMMA SessionStep ==
    ASSUME IInv, [Next]_linkVars
    PROVE  Live' => Session'
<1>1. CASE UNCHANGED linkVars
    BY <1>1 DEF IInv, Session, Live, ReaderFrame, linkVars, pcdVars, piccVars, air, counters,
        Counted, GivesUpLate, Phases,
        PhaseReader, PhaseToCard, PhaseConfirm,
        PhaseCard, PhaseToReader, PhaseGoOn, AtRest, turn
<1>2. CASE Activate
    BY <1>2 DEF Activate, PcdActivate, PcdInitialize, ClearCounters, PiccActivate,
        PiccInitialize, Quiet, SBlock, Session, ReaderFrame, Counted, GivesUpLate, Phases,
        PhaseReader, PhaseToCard, PhaseConfirm,
        PhaseCard, PhaseToReader, PhaseGoOn, AtRest, turn
<1>3. CASE ~Live /\ ~Activate
    BY <1>3 DEF Session, Live, Next, Lose, ReaderStep, ReaderApp, CardStep, CardApp,
        linkVars, pcdVars, Transmit, Exchanging, Timeout, HearWtx, HearStray, HearAck,
        HearOldAck, HearChained, HearLast, Hears, Waiting, Return, Reply, Deselect,
        StartTransceive
<1>4. CASE Live /\ Lose /\ UNCHANGED <<pcdVars, piccVars>>
    BY <1>4 DEF IInv, Session, Lose, Quiet, pcdVars, piccVars, counters, Live, ReaderFrame, Counted,
        GivesUpLate, Phases,
        PhaseReader, PhaseToCard, PhaseConfirm,
        PhaseCard, PhaseToReader, PhaseGoOn, AtRest, turn
<1>5. CASE Deselect
    BY <1>5 DEF Deselect, Live
<1>6. CASE Live /\ ReaderStep /\ UNCHANGED piccVars
    BY <1>6, TransmitSession, TimeoutSession, HearWtxSession, HearStraySession,
        HearAckSession, HearOldAckSession, HearChainedSession, HearLastSession
        DEF ReaderStep
<1>7. ASSUME Live, NEW d \in Data, NEW m \in BOOLEAN, StartTransceive(d, m),
             UNCHANGED piccVars
      PROVE  Live' => Session'
    BY <1>7, StartTransceiveSession
<1>8. CASE Live /\ CardStep /\ UNCHANGED pcdVars
    BY <1>8, GetWtxSession, GetDslSession, DeselectedSession, GetRetrySession,
        GetAckSession, GetNakSession, GetISession, AskWtxSession, SendISession
        DEF CardStep
<1>9. ASSUME Live, NEW d \in Data, NEW m \in BOOLEAN, Answer(d, m),
             UNCHANGED pcdVars
      PROVE  Live' => Session'
    BY <1>9, AnswerSession
<1>10. CASE ReaderApp /\ UNCHANGED piccVars
    BY <1>2, <1>3, <1>5, <1>7, <1>10 DEF ReaderApp
<1>11. CASE CardApp /\ UNCHANGED pcdVars
    BY <1>2, <1>3, <1>9, <1>11 DEF CardApp
<1>12. Next => (Live' => Session')
    BY <1>2, <1>3, <1>4, <1>6, <1>8, <1>10, <1>11 DEF Next
<1> QED BY <1>1, <1>12

LEMMA InvStep == IInv /\ [Next]_linkVars => IInv'
BY TypeStep, NumberedStep, SessionStep DEF IInv

LEMMA InvInit == Init => IInv
<1> SUFFICES ASSUME Init PROVE IInv
    OBVIOUS
<1>1. AirTypeOK
    BY FrameTypes DEF Init, AirTypeOK
<1>2. PcdTypeOK
    BY DEF Init, PcdInit, PcdTypeOK, Bit
<1>3. PiccTypeOK
    BY DEF Init, PiccInit, PiccTypeOK, Bit
<1>4. Numbered /\ ~Live
    BY DEF Init, PcdInit, PiccInit, Numbered, Live
<1> QED BY <1>1, <1>2, <1>3, <1>4 DEF IInv, Session, TypeOK

THEOREM Invariance == Spec => []IInv
BY InvInit, InvStep, PTL DEF Spec

\* Every variable keeps its type, for any data and any limits.
THEOREM TypeCorrect == Spec => []TypeOK
<1>1. IInv => TypeOK
    BY DEF IInv
<1> QED BY <1>1, Invariance, PTL

\* rfal_isoDep.c, card's side: a card in a session always listens again.
THEOREM Listening == Spec => []NeverDeaf
<1>1. IInv => NeverDeaf
    BY DEF IInv, Session, Numbered, NeverDeaf
<1> QED BY <1>1, Invariance, PTL

\* rfal_isoDep.c, reader's side: it gives up only after as many timeouts as the
\* smallest of its limits promises, and two such devices have no protocol error.
THEOREM Persistent == Spec => []GivesUpLate
<1>1. IInv => GivesUpLate
    BY DEF IInv, Session, Live, Counted, GivesUpLate
<1> QED BY <1>1, Invariance, PTL

-----------------------------------------------------------------------------
\* What each step is in the abstract exchange.
LEMMA StepRefines ==
    ASSUME IInv, TypeOK', [Next]_linkVars
    PROVE  [Exchange!ExchangeNext]_Exchange!exchangeVars
<1>1. CASE UNCHANGED linkVars
    BY <1>1 DEF linkVars, pcdVars, piccVars, counters, air, turn, Exchange!exchangeVars
<1>2. /\ [data |-> pcdData, more |-> isTxChaining]' \in Exchange!Blocks
      /\ [data |-> piccData, more |-> piccChaining]' \in Exchange!Blocks
    BY DEF TypeOK, PcdTypeOK, PiccTypeOK, Exchange!Blocks
<1>3. CASE Activate
  <2>1. Exchange!Start
      BY <1>2, <1>3 DEF Activate, PcdActivate, PiccActivate, turn, Exchange!Start
  <2> QED BY <2>1 DEF Exchange!ExchangeNext
<1>4. CASE ~Live /\ ~Activate /\ Next
  <2>1. turn = "down" /\ turn' = "down" /\ UNCHANGED reader
      BY <1>4 DEF Live, turn, Next, ReaderStep, ReaderApp, CardStep, CardApp, pcdVars,
          Transmit, Exchanging, Timeout, HearWtx, HearStray, HearAck, HearOldAck,
          HearChained, HearLast, Hears, Waiting, Return, Reply, Give, Deselect,
          StartTransceive
  <2>2. card' \in {card, Handed(card, pcdData)}
      BY <1>4 DEF IInv, Numbered, Next, ReaderStep, ReaderApp, CardStep, CardApp, piccVars,
          GetWtx, GetDsl, Deselected, GetRetry, GetAck, GetNak, GetI, Hearing, AskWtx,
          SendI, Answer
  <2>3. Exchange!Late
      BY <1>2, <2>1, <2>2 DEF Exchange!Late, Exchange!Handed, Handed
  <2> QED BY <2>3 DEF Exchange!ExchangeNext
<1>5. CASE Live /\ Lose /\ UNCHANGED <<pcdVars, piccVars>>
    BY <1>5 DEF pcdVars, piccVars, turn, Exchange!exchangeVars
<1>6. CASE Live /\ ReaderStep /\ UNCHANGED piccVars
  <2> USE <1>6
  <2>1. CASE Transmit \/ Timeout \/ HearWtx \/ HearStray \/ HearOldAck
    <3>1. /\ UNCHANGED <<bn, isTxChaining, isRxChaining, pcdData, reader>>
          /\ app' = app \/ (app = "busy" /\ app' \in {"timeout", "proto"})
        BY <2>1 DEF Live, Transmit, Timeout, HearWtx, HearStray, HearOldAck, Hears,
            Waiting, Exchanging, Return, Reply
    <3> QED BY <3>1 DEF piccVars, turn, Live, Exchange!exchangeVars
  <2>2. CASE HearAck
    <3>1. turn = "confirm" /\ isTxChaining
        BY <2>2, Where DEF IInv, Numbered, HearAck, Hears, Waiting, Exchanging, turn, Live
    <3>2. Exchange!Confirm
        BY <2>2, <3>1 DEF HearAck, Hears, Waiting, Exchanging, Return, Live, piccVars,
            turn, Exchange!Confirm
    <3> QED BY <3>2 DEF Exchange!ExchangeNext
  <2>3. CASE HearChained \/ HearLast
    <3>1. Hears("I") /\ app = "busy"
        BY <2>3 DEF HearChained, HearLast, Hears, Waiting, Exchanging, Live
    <3>2. frame.bn = piccBn
        BY <3>1 DEF IInv, Numbered, Hears
    <3>3. turn = "toReader"
        BY <3>1, Where DEF IInv, Session, Phases, PhaseToCard, PhaseConfirm, PhaseCard,
            PhaseToReader, PhaseGoOn, turn, Live, Hears
    <3>4. /\ bn = piccBn
          /\ frame.data = piccData /\ frame.more = piccChaining
        BY <3>1, <3>3 DEF IInv, Session, Phases, PhaseToReader, Hears, turn
    <3>5. Exchange!Hear
        BY <2>3, <3>1, <3>2, <3>3, <3>4, Toggled, Where DEF HearChained, HearLast, Give,
            Reply, piccVars, turn, Handed, Exchange!Hear, Exchange!Handed
    <3> QED BY <3>5 DEF Exchange!ExchangeNext
  <2> QED BY <2>1, <2>2, <2>3 DEF ReaderStep
<1>7. CASE Deselect /\ UNCHANGED piccVars
  <2>1. Exchange!Leave
      BY <1>2, <1>7 DEF Deselect, piccVars, turn, Exchange!Leave
  <2> QED BY <2>1 DEF Exchange!ExchangeNext
<1>8. ASSUME Live, NEW d \in Data, NEW m \in BOOLEAN, StartTransceive(d, m),
             UNCHANGED piccVars
      PROVE  Exchange!Submit
    BY <1>2, <1>8 DEF IInv, Session, Phases, PhaseReader, StartTransceive, piccVars, turn,
        Exchange!Submit
<1>9. CASE Live /\ CardStep /\ UNCHANGED pcdVars
  <2> USE <1>9
  <2>1. CASE GetWtx \/ GetRetry \/ GetNak \/ AskWtx \/ SendI
      BY <2>1 DEF GetWtx, GetRetry, GetNak, AskWtx, SendI, pcdVars, turn,
          Exchange!exchangeVars
  <2>2. ~GetDsl /\ ~Deselected
      BY Where DEF IInv, Session, ReaderFrame, GetDsl, Hearing, Deselected
  <2>3. CASE GetAck
    <3>1. CASE piccChaining
      <4>1. turn = "goOn" /\ ~isTxChaining
          BY <2>3, <3>1, Where DEF IInv, Numbered, Session, ReaderFrame, Phases, GetAck,
              Hearing, turn, Live
      <4>2. Exchange!GoOn
          BY <2>3, <3>1, <4>1, Where, Toggled DEF GetAck, pcdVars, turn, Live, Bit,
              Exchange!GoOn
      <4> QED BY <4>2 DEF Exchange!ExchangeNext
    <3>2. CASE ~piccChaining
        BY <2>3, <3>2 DEF GetAck, Ignore, pcdVars, turn, Exchange!exchangeVars
    <3> QED BY <3>1, <3>2
  <2>4. CASE GetI
    <3>1. /\ turn = "toCard" /\ ~piccChaining /\ frame.bn = bn /\ bn # piccBn
          /\ frame.data = pcdData /\ frame.more = isTxChaining /\ app = "busy"
        BY <2>4, Where DEF IInv, Numbered, Session, ReaderFrame, Phases, PhaseToCard,
            GetI, Hearing
    <3>2. Exchange!Deliver
        BY <2>4, <3>1, Where DEF IInv, Session, Phases, PhaseToCard, AtRest, GetI, pcdVars,
            turn, Handed, Exchange!Deliver, Exchange!Handed
    <3> QED BY <3>2 DEF Exchange!ExchangeNext
  <2> QED BY <2>1, <2>2, <2>3, <2>4 DEF CardStep
<1>10. ASSUME Live, NEW d \in Data, NEW m \in BOOLEAN, Answer(d, m),
              UNCHANGED pcdVars
       PROVE  Exchange!Answer
  <2>1. turn = "card"
      BY <1>10, Where DEF IInv, Session, Phases, PhaseReader, PhaseToCard, PhaseConfirm,
          PhaseGoOn, AtRest, Answer, turn
  <2> QED
      BY <1>2, <1>10, <2>1 DEF Answer, pcdVars, turn, Exchange!Answer
<1>11. CASE ReaderApp /\ UNCHANGED piccVars /\ Live
    BY <1>7, <1>8, <1>11 DEF ReaderApp, Exchange!ExchangeNext
<1>12. CASE CardApp /\ UNCHANGED pcdVars /\ Live
    BY <1>10, <1>12 DEF CardApp, Exchange!ExchangeNext
<1> QED
    BY <1>1, <1>3, <1>4, <1>5, <1>6, <1>9, <1>11, <1>12 DEF Next

\* rfal_isoDep.c on both sides: within a session each block is handed over once
\* and in order, for any data, any limits and any loss of frames.
THEOREM Refines == Spec => ExactlyOnce
<1>1. Init => Exchange!ExchangeInit
  <2> SUFFICES ASSUME Init
               PROVE  Exchange!ExchangeInit
      OBVIOUS
  <2>1. turn = "down"
      BY DEF Init, PcdInit, turn
  <2>2. TypeOK
      BY InvInit DEF IInv
  <2>3. /\ [data |-> pcdData, more |-> isTxChaining] \in Exchange!Blocks
        /\ [data |-> piccData, more |-> piccChaining] \in Exchange!Blocks
      BY <2>2 DEF TypeOK, PcdTypeOK, PiccTypeOK, Exchange!Blocks
  <2>4. card \in Exchange!Given /\ reader \in Exchange!Given
      BY <2>2 DEF TypeOK, PcdTypeOK, PiccTypeOK, Exchange!Given
  <2> QED BY <2>1, <2>3, <2>4 DEF Exchange!ExchangeInit
<1>2. IInv /\ IInv' /\ [Next]_linkVars
        => [Exchange!ExchangeNext]_Exchange!exchangeVars
    BY StepRefines DEF IInv
<1> QED
    BY <1>1, <1>2, Invariance, PTL DEF Spec, ExactlyOnce, Exchange!ExchangeSpec
=============================================================================
