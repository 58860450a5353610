----------------------------- MODULE Ultralight -----------------------------
(***************************************************************************)
(* What a MIFARE Ultralight card promises about its memory, whatever runs  *)
(* it: sixteen pages, reads that wrap around, one-time-programmable page 3,*)
(* pages 0 and 1 that cannot be written, and a compatibility write in two  *)
(* halves.  UltralightImage implements it.                                 *)
(***************************************************************************)
EXTENDS Integers

CONSTANTS
    Bit,        \* the bits of a page; a page is the set of those that are 1
    Images,     \* the memories a card may be made with: functions from Pages to SUBSET Bit
    Ack, Nak,   \* the 4-bit answers
    NoReply

Pages  == 0..15
Locks  == 2         \* lock bytes: writes are accepted and change nothing
Otp    == 3         \* one-time programmable: bits are only ever set
NoPage == -1

VARIABLES
    mem,        \* the pages
    half,       \* the page of an accepted first half, or NoPage
    reply       \* what was last answered

tagVars == <<mem, half, reply>>

\* The four pages a read returns.
Window(p) == [i \in 0..3 |-> mem[(p + i) % 16]]

\* The memory after d was written to page p.
Stored(p, d) ==
    [mem EXCEPT ![p] = IF p = Locks THEN @ ELSE IF p = Otp THEN @ \cup d ELSE d]

TagInit == mem \in Images /\ half = NoPage /\ reply = NoReply

Read == \E p \in Pages : reply' = Window(p) /\ UNCHANGED <<mem, half>>

Write ==
    \E p \in Pages, d \in SUBSET Bit :
        /\ p >= Locks
        /\ mem' = Stored(p, d) /\ reply' = Ack /\ UNCHANGED half

FirstHalf ==
    \E p \in Pages :
        p >= Locks /\ half' = p /\ reply' = Ack /\ UNCHANGED mem

SecondHalf ==
    \E d \in SUBSET Bit :
        /\ half # NoPage
        /\ mem' = Stored(half, d) /\ half' = NoPage /\ reply' = Ack

\* A frame that is refused ends a compatibility write.
Refuse == reply' = Nak /\ half' = NoPage /\ UNCHANGED mem

\* Silence: an unknown frame, which ends it, or the end of the session, after
\* which the card may still remember it.
Keep == reply' = NoReply /\ half' \in {half, NoPage} /\ UNCHANGED mem

\* Another card is put on the reader.
Replace == mem' \in Images /\ half' = NoPage /\ reply' = NoReply

TagNext == Read \/ Write \/ FirstHalf \/ SecondHalf \/ Refuse \/ Keep \/ Replace

TagSpec == TagInit /\ [][TagNext]_tagVars
=============================================================================
