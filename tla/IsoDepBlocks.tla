---------------------------- MODULE IsoDepBlocks ----------------------------
(***************************************************************************)
(* The blocks of ISO-DEP (rfal_isoDep.c) and the half-duplex air between   *)
(* the two devices: one frame at a time, and a device that transmits talks *)
(* over whatever is under way.                                             *)
(***************************************************************************)
EXTENDS Integers

CONSTANTS
    Data,       \* the INF fields of I-blocks
    None        \* no data yet

ASSUME DataAssumption == None \notin Data

Bit == {0, 1}

IBlock(n, m, d) == [k |-> "I", bn |-> n, more |-> m, data |-> d]
RBlock(k, n)    == [k |-> k, bn |-> n]
SBlock(k)       == [k |-> k]

Frames == [k : {"I"}, bn : Bit, more : BOOLEAN, data : Data \cup {None}]
              \cup [k : {"ACK", "NAK"}, bn : Bit]
              \cup [k : {"WTX", "DSL", "none"}]

VARIABLES
    to,         \* who hears the frame in the air: "pcd", "picc" or "nobody"
    frame       \* the frame in the air

air == <<to, frame>>

AirTypeOK == to \in {"pcd", "picc", "nobody"} /\ frame \in Frames

Quiet == to' = "nobody" /\ frame' = SBlock("none")
Send(who, f) == to' = who /\ frame' = f

\* The frame is lost or garbled.  A garbled frame is nothing to the PICC, which
\* stays in reception, and to the PCD the same as silence.
Lose == to # "nobody" /\ Quiet

\* What an application was handed: the data, and a parity that flips each time.
Handed(g, d) == [data |-> d, parity |-> ~g.parity]

\* rfalIsoDep_ToggleBN.  Mutant: the result is not masked to one bit.
Toggle_NoMask(n) == n + 1
Toggle(n) == 1 - n
=============================================================================
