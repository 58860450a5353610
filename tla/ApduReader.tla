----------------------------- MODULE ApduReader -----------------------------
(***************************************************************************)
(* The APDU reader of the NFC console: send_apdu and the functions it      *)
(* calls (hydranfc_v2_reader.c).  It has its own block protocol and does   *)
(* not use rfal_isoDep.c: the result of a transceive is not looked at, and *)
(* whatever is in rx_buffer afterwards is parsed as the answer.            *)
(***************************************************************************)
EXTENDS IsoDepBlocks, Sequences

CONSTANTS
    BlockSize,      \* fsd: the bytes of a command that go into a block
    IndexRange,     \* the values of the index i, 256
    MaxLen,         \* bound: the bytes of a command
    MaxPieces,      \* bound: the INF fields of an answer that are kept
    Junk            \* what is copied from rx_buffer and is no INF of an I-block
                    \* received for it

\* A command is given on one line of the console, half of its characters long: i wraps
\* after its last byte or not at all.
ASSUME CommandAssumption ==
    /\ BlockSize \in Nat \ {0} /\ MaxPieces \in Nat \ {0}
    /\ IndexRange \in Nat /\ MaxLen \in 1..IndexRange

VARIABLES
    mode,           \* a card is connected
    step,           \* "idle", or in send_apdu: "send" the next block of the command,
                    \* or in send_tpdu: with a block of the "command", the reply to
                    \* a request for time ("wtx"), or asking for more "answer"
    apdu,           \* the length of the command
    left,           \* r_len; len is the same until nothing is left
    i,
    number,         \* session.iblock_pcb_number
    rxBuf,          \* rx_buffer: the block in it
    rapdu           \* rapdu_buffer: the INF fields in it

apduVars == <<mode, step, apdu, left, i, number, rxBuf, rapdu>>

\* A first byte that is no block of the protocol.
Other(m) == [k |-> "other", more |-> m]

ReaderInit ==
    /\ mode = FALSE /\ step = "idle"
    /\ apdu = 0 /\ left = 0 /\ i = 0 /\ number = 0
    /\ rxBuf = Other(FALSE) /\ rapdu = <<>>

\* connect_iso14443_a.  rx_buffer is left with the answer to PPS (0xD0), or, when
\* none came, with that to RATS.
ConnectReader ==
    /\ step = "idle" /\ mode' = TRUE
    /\ \E m \in BOOLEAN : rxBuf' = Other(m)
    /\ apdu' = 0
    /\ UNCHANGED <<step, left, i, number, rapdu>>

\* The user sends an APDU: init_iso_14443_session starts with block number 0 again,
\* whatever the card has reached.
SendApdu(n) ==
    /\ mode /\ step = "idle" /\ step' = "send"
    /\ apdu' = n /\ left' = n /\ i' = 0 /\ number' = 0
    /\ UNCHANGED <<mode, rxBuf, rapdu>>

\* The text was no hex, or empty, and buffer_len is 0: no block is sent, and what
\* tpdu still points at in rx_buffer is shown as the answer, if there was a block
\* before.  Its pcb asks for nothing more, or send_apdu would not have ended.
SendNothing ==
    /\ mode /\ step = "idle"
    /\ apdu' = 0 /\ left' = 0 /\ i' = 0 /\ number' = 0
    /\ rapdu' \in {<<>>, <<Junk>>}
    /\ UNCHANGED <<mode, step, rxBuf>>

Chunk(from, n) == [k \in 1..n |-> from + k]

\* The next block of the command.
\* Mutants: i is left where it was; it goes one byte too far.
SendBlock_Still ==
    LET n == IF left < BlockSize THEN left ELSE BlockSize IN
    /\ step = "send" /\ step' = "command"
    /\ Send("picc", IBlock(number, left > n, Chunk(i, n)))
    /\ left' = left - n /\ number' = Toggle(number)
    /\ UNCHANGED <<mode, apdu, i, rxBuf, rapdu>>

SendBlock_Far ==
    LET n == IF left < BlockSize THEN left ELSE BlockSize IN
    /\ step = "send" /\ step' = "command"
    /\ Send("picc", IBlock(number, left > n, Chunk(i, n)))
    /\ left' = left - n /\ i' = (i + n + 1) % IndexRange
    /\ number' = Toggle(number)
    /\ UNCHANGED <<mode, apdu, rxBuf, rapdu>>

SendBlock ==
    LET n == IF left < BlockSize THEN left ELSE BlockSize IN
    /\ step = "send" /\ step' = "command"
    /\ Send("picc", IBlock(number, left > n, Chunk(i, n)))
    /\ left' = left - n /\ i' = (i + n) % IndexRange
    /\ number' = Toggle(number)
    /\ UNCHANGED <<mode, apdu, rxBuf, rapdu>>

-----------------------------------------------------------------------------
InTpdu == step \in {"command", "wtx", "answer"}

\* (pcb & 0x10) == 0x10: chaining, in an I-block; R(NAK) and S(WTX) have the bit too.
\* Mutant: whatever is not the last I-block.
ChainingBit_NotLast(f) == f.k # "I" \/ f.more
ChainingBit(f) == f.k \in {"NAK", "WTX"} \/ (f.k \in {"I", "other"} /\ f.more)

\* get_rblock: 0xB2, which is R(NAK).
AskForMore ==
    /\ step' = "answer"
    /\ Send("picc", RBlock("NAK", number)) /\ number' = Toggle(number)

\* What follows in send_apdu when f is in rx_buffer, and inf is copied from it.  In
\* the middle of a command nobody looks at the answer.  One request for time is
\* granted, after the last block.
\* Mutant: rapdu_len is not cleared.
Parsed_Appends(f, inf) ==
    \/ /\ step = "command" /\ left > 0 /\ step' = "send"
       /\ Quiet /\ UNCHANGED <<number, rapdu>>
    \/ /\ step = "command" /\ left = 0 /\ f.k = "WTX" /\ step' = "wtx"
       /\ Send("picc", SBlock("WTX")) /\ UNCHANGED <<number, rapdu>>
    \/ /\ (step = "command" /\ left = 0 /\ f.k # "WTX") \/ step \in {"wtx", "answer"}
       /\ rapdu' = LET all == rapdu \o inf
                   IN  IF Len(all) > MaxPieces THEN rapdu ELSE all
       /\ IF ChainingBit(f) THEN AskForMore
                            ELSE step' = "idle" /\ Quiet /\ UNCHANGED number

Parsed(f, inf) ==
    \/ /\ step = "command" /\ left > 0 /\ step' = "send"
       /\ Quiet /\ UNCHANGED <<number, rapdu>>
    \/ /\ step = "command" /\ left = 0 /\ f.k = "WTX" /\ step' = "wtx"
       /\ Send("picc", SBlock("WTX")) /\ UNCHANGED <<number, rapdu>>
    \/ /\ (step = "command" /\ left = 0 /\ f.k # "WTX") \/ step \in {"wtx", "answer"}
       /\ rapdu' = LET all == IF step = "answer" THEN rapdu \o inf ELSE inf
                   IN  IF Len(all) > MaxPieces THEN rapdu ELSE all
       /\ IF ChainingBit(f) THEN AskForMore
                            ELSE step' = "idle" /\ Quiet /\ UNCHANGED number

\* The block in the air arrives.
Receive ==
    /\ InTpdu /\ to = "pcd" /\ rxBuf' = frame
    /\ Parsed(frame, CASE frame.k = "I"   -> <<frame.data>>
                       [] frame.k = "WTX" -> <<Junk>>
                       [] OTHER           -> <<>>)
    /\ UNCHANGED <<mode, apdu, left, i>>

\* It arrives garbled: transceive_tx_rx returns an error that send_tpdu drops.
ReceiveGarbled ==
    /\ InTpdu /\ to = "pcd"
    /\ \E f \in {Other(TRUE), Other(FALSE), SBlock("WTX")} :
           rxBuf' = f /\ Parsed(f, <<Junk>>)
    /\ UNCHANGED <<mode, apdu, left, i>>

\* Nothing arrives in the fixed waiting time.  The block before is still in
\* rx_buffer, and its length is taken for 0 minus the header, modulo 256.
NothingReceived ==
    /\ InTpdu
    /\ Parsed(rxBuf, <<Junk>>)
    /\ UNCHANGED <<mode, apdu, left, i, rxBuf>>
=============================================================================
