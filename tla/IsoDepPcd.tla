----------------------------- MODULE IsoDepPcd ------------------------------
(***************************************************************************)
(* The reader's side of ISO-DEP: rfalIsoDepStartTransceive,                *)
(* rfalIsoDepDataExchangePCD and rfalIsoDepDeselect of rfal_isoDep.c, in   *)
(* the NFC Forum compliance mode they are initialised with.                *)
(***************************************************************************)
EXTENDS IsoDepBlocks

CONSTANTS
    MaxI, MaxR, MaxWtx, MaxNack, MaxDsl     \* the retry limits

ASSUME LimitsAssumption ==
    /\ MaxI \in Nat /\ MaxR \in Nat /\ MaxWtx \in Nat
    /\ MaxNack \in Nat /\ MaxDsl \in Nat

VARIABLES
    app,            \* the application: "ready" for its next block, "busy", or told
                    \* "timeout" or "proto"; "deselect", then "off"
    pcd,            \* gIsoDep.state: "IDLE", "TX", "RX", "WAIT_DSL"
    bn,             \* blockNumber
    isTxChaining, isRxChaining,
    pcdLast,        \* lastPCB, as far as it is looked at
    cntI, cntR, cntWtx, cntNack, cntDsl,
    pcdData,        \* txBuf
    reader,         \* ghost: what the application was given last
    timeouts        \* ghost: timeouts since the counters were cleared

counters == <<cntI, cntR, cntWtx, cntNack, cntDsl, timeouts>>
pcdVars == <<app, pcd, bn, isTxChaining, isRxChaining, pcdLast, counters,
             pcdData, reader>>

PcdTypeOK ==
    /\ app \in {"ready", "busy", "timeout", "proto", "deselect", "off"}
    /\ pcd \in {"IDLE", "TX", "RX", "WAIT_DSL"}
    /\ bn \in Bit
    /\ isTxChaining \in BOOLEAN /\ isRxChaining \in BOOLEAN
    /\ pcdLast \in {"none", "I", "ACK", "NAK", "WTX", "DSL"}
    /\ cntI \in Nat /\ cntR \in Nat /\ cntWtx \in Nat
    /\ cntNack \in Nat /\ cntDsl \in Nat /\ timeouts \in Nat
    /\ pcdData \in Data \cup {None}
    /\ reader \in [data : Data \cup {None}, parity : BOOLEAN]

PcdInit ==
    /\ app = "off" /\ pcd = "IDLE" /\ bn = 0
    /\ isTxChaining = FALSE /\ isRxChaining = FALSE /\ pcdLast = "none"
    /\ cntI = 0 /\ cntR = 0 /\ cntWtx = 0 /\ cntNack = 0 /\ cntDsl = 0
    /\ timeouts = 0
    /\ pcdData = None /\ reader = [data |-> None, parity |-> FALSE]

ClearCounters ==
    /\ cntI' = 0 /\ cntR' = 0 /\ cntWtx' = 0 /\ cntNack' = 0 /\ cntDsl' = 0
    /\ timeouts' = 0

\* rfalIsoDepInitialize.
PcdInitialize ==
    /\ pcd' = "IDLE" /\ bn' = 0 /\ pcdLast' = "none"
    /\ isTxChaining' = FALSE /\ isRxChaining' = FALSE
    /\ ClearCounters
    /\ UNCHANGED pcdData

-----------------------------------------------------------------------------
Exchanging == app \in {"busy", "deselect"}
Waiting    == Exchanging /\ pcd \in {"RX", "WAIT_DSL"}

\* rfalIsoDepDataExchangePCD returns something else than ERR_BUSY: the
\* application has the result.  rfalIsoDepDeselect initialises whatever it is;
\* nothing looks at the rest of the state before PcdActivate does so again.
Return(result) ==
    IF app = "deselect"
    THEN app' = "off" /\ pcd' = "IDLE" /\ pcdLast' = "none"
    ELSE app' = result /\ UNCHANGED <<pcd, pcdLast>>

\* An R or S block goes out; the application waits on.
Reply(f) == Send("picc", f) /\ pcdLast' = f.k /\ UNCHANGED <<app, pcd>>

\* rfalIsoDepStartTransceive: the application gives the next block of a command.
StartTransceive(d, m) ==
    /\ app = "ready" /\ app' = "busy" /\ pcd' = "TX"
    /\ isTxChaining' = m /\ pcdData' = d
    /\ isRxChaining' = FALSE /\ ClearCounters
    /\ UNCHANGED <<bn, pcdLast, reader, air>>

Transmit ==
    /\ Exchanging /\ pcd = "TX" /\ pcd' = "RX"
    /\ Send("picc", IBlock(bn, isTxChaining, pcdData)) /\ pcdLast' = "I"
    /\ UNCHANGED <<app, bn, isTxChaining, isRxChaining, counters, pcdData, reader>>

\* Nothing came, or nothing sound: R(ACK) in a chained response (rule 5), the
\* deselection once more (rule 8), else R(NAK) (rule 4), up to their limits.
Timeout ==
    /\ Waiting
    /\ timeouts' = timeouts + 1
    /\ IF ~isRxChaining /\ pcd = "WAIT_DSL"
       THEN /\ cntDsl' = cntDsl + 1 /\ UNCHANGED cntR
            /\ IF cntDsl > MaxDsl THEN Return("timeout") /\ Quiet
                                  ELSE Reply(SBlock("DSL"))
       ELSE /\ cntR' = cntR + 1 /\ UNCHANGED cntDsl
            /\ IF cntR > MaxR \/ (~isRxChaining /\ cntNack >= MaxNack)
               THEN Return("timeout") /\ Quiet
               ELSE Reply(RBlock(IF isRxChaining THEN "ACK" ELSE "NAK", bn))
    /\ UNCHANGED <<bn, isTxChaining, isRxChaining, cntI, cntWtx, cntNack,
                   pcdData, reader>>

-----------------------------------------------------------------------------
\* A frame arrives.
Hears(k) == Waiting /\ to = "pcd" /\ frame.k = k

\* A request for more time is granted, so many times (rule 3).
\* Mutant: they are not counted.
HearWtx_NotCounted ==
    /\ Hears("WTX")
    /\ cntNack' = IF pcdLast = "NAK" THEN cntNack + 1 ELSE 0
    /\ cntR' = IF pcdLast = "NAK" THEN 0 ELSE cntR
    /\ Reply(SBlock("WTX"))
    /\ UNCHANGED <<bn, isTxChaining, isRxChaining, cntI, cntWtx, cntDsl, timeouts,
                   pcdData, reader>>

HearWtx ==
    /\ Hears("WTX")
    /\ cntWtx' = cntWtx + 1
    /\ cntNack' = IF pcdLast = "NAK" THEN cntNack + 1 ELSE 0
    /\ cntR' = IF pcdLast = "NAK" THEN 0 ELSE cntR
    /\ IF cntWtx > MaxWtx THEN Return("proto") /\ Quiet ELSE Reply(SBlock("WTX"))
    /\ UNCHANGED <<bn, isTxChaining, isRxChaining, cntI, cntDsl, timeouts,
                   pcdData, reader>>

\* The answer to a deselection; at any other time an error, as is an R(NAK).
HearStray ==
    /\ Hears("DSL") \/ Hears("NAK")
    /\ Return("proto") /\ Quiet
    /\ UNCHANGED <<bn, isTxChaining, isRxChaining, counters, pcdData, reader>>

\* R(ACK) to the last block: done with it, if there are more to come (rule 7).
\* Mutant: the block number stays.
HearAck_NoToggle ==
    /\ Hears("ACK") /\ frame.bn = bn /\ Quiet
    /\ IF isTxChaining THEN Return("ready") /\ ClearCounters
                       ELSE Return("proto") /\ UNCHANGED counters
    /\ UNCHANGED <<bn, isTxChaining, isRxChaining, pcdData, reader>>

HearAck ==
    /\ Hears("ACK") /\ frame.bn = bn
    /\ bn' = Toggle(bn) /\ Quiet
    /\ IF isTxChaining THEN Return("ready") /\ ClearCounters
                       ELSE Return("proto") /\ UNCHANGED counters
    /\ UNCHANGED <<isTxChaining, isRxChaining, pcdData, reader>>

\* R(ACK) to the block before: the last one was lost, send it again (rule 6).
\* Mutant: the counter is incremented before it is compared.
HearOldAck_OneLess ==
    /\ Hears("ACK") /\ frame.bn # bn
    /\ cntI' = cntI + 1 /\ Quiet
    /\ IF cntI' < MaxI
       THEN pcd' = "TX" /\ cntR' = 0 /\ UNCHANGED <<app, pcdLast>>
       ELSE Return("timeout") /\ UNCHANGED cntR
    /\ UNCHANGED <<bn, isTxChaining, isRxChaining, cntWtx, cntNack, cntDsl,
                   timeouts, pcdData, reader>>

HearOldAck ==
    /\ Hears("ACK") /\ frame.bn # bn
    /\ cntI' = cntI + 1 /\ Quiet
    /\ IF cntI < MaxI
       THEN pcd' = "TX" /\ cntR' = 0 /\ UNCHANGED <<app, pcdLast>>
       ELSE Return("timeout") /\ UNCHANGED cntR
    /\ UNCHANGED <<bn, isTxChaining, isRxChaining, cntWtx, cntNack, cntDsl,
                   timeouts, pcdData, reader>>

\* What the application gets of a block; rfalIsoDepDeselect has no use for it.
Give(d) == reader' = IF app = "deselect" THEN reader ELSE Handed(reader, d)

\* A block of a chained response: R(ACK), and its data for the application.  The
\* other number cannot be the next block: R(ACK) again (rules 2, 5).
HearChained ==
    /\ Hears("I") /\ frame.more
    /\ isRxChaining' = TRUE
    /\ IF frame.bn = bn
       THEN /\ bn' = Toggle(bn) /\ Give(frame.data) /\ ClearCounters
            /\ IF app = "deselect"
               THEN Return("off") /\ Send("picc", RBlock("ACK", Toggle(bn)))
               ELSE Reply(RBlock("ACK", Toggle(bn)))
       ELSE /\ cntR' = cntR + 1
            /\ IF cntR > MaxR THEN Return("timeout") /\ Quiet
                              ELSE Reply(RBlock("ACK", bn))
            /\ UNCHANGED <<bn, reader, cntI, cntWtx, cntNack, cntDsl, timeouts>>
    /\ UNCHANGED <<isTxChaining, pcdData>>

\* The last or only block of a response.
HearLast ==
    /\ Hears("I") /\ ~frame.more
    /\ isRxChaining' = FALSE /\ Quiet
    /\ IF frame.bn = bn
       THEN /\ bn' = Toggle(bn) /\ Give(frame.data) /\ ClearCounters
            /\ app' = IF app = "deselect" THEN "off" ELSE "ready"
            /\ pcd' = "IDLE" /\ UNCHANGED pcdLast
       ELSE Return("proto") /\ UNCHANGED <<bn, reader, counters>>
    /\ UNCHANGED <<isTxChaining, pcdData>>

-----------------------------------------------------------------------------
\* rfalIsoDepDeselect, which may cut an exchange short, as its callers do.
Deselect ==
    /\ app \notin {"off", "deselect"} /\ app' = "deselect"
    /\ cntDsl' = cntDsl + 1 /\ pcd' = "WAIT_DSL"
    /\ Send("picc", SBlock("DSL")) /\ pcdLast' = "DSL"
    /\ UNCHANGED <<bn, isTxChaining, isRxChaining, cntI, cntR, cntWtx, cntNack,
                   timeouts, pcdData, reader>>

\* The field is switched on again and a card activated, in rfal_nfc.c and
\* rfal_poller.c always after rfalIsoDepInitialize.
PcdActivate == app' = "ready" /\ PcdInitialize /\ UNCHANGED reader
=============================================================================
