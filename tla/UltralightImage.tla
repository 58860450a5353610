-------------------------- MODULE UltralightImage --------------------------
(***************************************************************************)
(* The memory of the emulated MIFARE Ultralight: ul_image[] and            *)
(* processCmdMifUL() of hydranfc_v2/hydranfc_v2_ce.c, frame by frame, with *)
(* the image files it is loaded from.                                      *)
(*                                                                         *)
(* The array is 16 pages followed by a copy of the first three, so that a  *)
(* read near the end needs no wrap-around; nothing in the code keeps the   *)
(* copy up to date once the image is loaded.                               *)
(***************************************************************************)
EXTENDS Integers

CONSTANTS
    Bit,        \* the bits of a page; a page is the set of those that are 1
    Files,      \* the contents of the image files of the right size
    Factory,    \* ul_image_factory, without its roll-over part
    Addr,       \* the page addresses readers send
    Ack, Nak,   \* MIF_ACK, MIF_NAK
    NoReply     \* dataSize = 0

PAGES == 0..15                  \* MFC_ULTRALIGHT_DATA_SIZE / 4
Image == [0..18 -> SUBSET Bit]  \* sizeof(ul_image) / 4

ASSUME ImageAssumption ==
    /\ Files \subseteq [PAGES -> SUBSET Bit]
    /\ Factory \in [PAGES -> SUBSET Bit]
    /\ Addr \subseteq 0..255

VARIABLES
    ul_image,
    ul_cwrite_page_set, \* page + 1, or 0
    active,             \* the listen mode is in ACTIVE_A or ACTIVE_Ax
    reply               \* rspData

vars == <<ul_image, ul_cwrite_page_set, active, reply>>

\* A received frame: what its first byte says, its length, the page in its
\* second byte, and the four bytes a write takes from it.
Frames == [op : {"READ", "WRITE", "CWRITE", "HLTA", "OTHER"}, len : {2, 6, 16},
           page : Addr, data : SUBSET Bit]

Replies == {Ack, Nak, NoReply} \cup [0..3 -> SUBSET Bit]

\* Each variable stays in its range; the page set is one a write may go to.
TypeOK ==
    /\ ul_image \in Image
    /\ ul_cwrite_page_set \in {0} \cup 3..16
    /\ active \in BOOLEAN
    /\ reply \in Replies

-----------------------------------------------------------------------------
\* Mutant: the roll-over piece is not copied.
RollOver_Stale(file) == [p \in 0..18 |-> IF p < 16 THEN file[p] ELSE {}]

\* The array for a 64 byte image.
RollOver(file) == [p \in 0..18 |-> file[p % 16]]

\* hydranfc_ce_common: the image file if there is one and it is sound, else the
\* factory image, over whatever an earlier emulation left behind.
Loaded == {RollOver(f) : f \in Files \cup {Factory}}

Init ==
    /\ ul_image \in Loaded
    /\ ul_cwrite_page_set = 0 /\ active = FALSE /\ reply = NoReply

Restart ==
    /\ ul_image' \in Loaded
    /\ ul_cwrite_page_set' = 0 /\ active' = FALSE /\ reply' = NoReply

\* The reader selects the tag; deselection and loss of the field, which may or
\* may not reset a pending compatibility write (CardEmulation has the cases).
Select ==
    /\ active' = TRUE
    /\ UNCHANGED <<ul_image, ul_cwrite_page_set, reply>>

Deselect ==
    /\ active' = FALSE /\ reply' = NoReply
    /\ ul_cwrite_page_set' \in {0, ul_cwrite_page_set}
    /\ UNCHANGED ul_image

-----------------------------------------------------------------------------
\* What a write of d to page p, 2 to 15, leaves in the array.
\* Mutants: the OTP page is overwritten; the lock bytes are.
Written_OtpOverwritten(p, d) ==
    IF p = 2 THEN ul_image ELSE [ul_image EXCEPT ![p] = d]

Written_LocksWritten(p, d) ==
    IF p = 3 THEN [ul_image EXCEPT ![p] = @ \cup d] ELSE [ul_image EXCEPT ![p] = d]

Written(p, d) ==
    IF p = 2 THEN ul_image
    ELSE [ul_image EXCEPT ![p] = IF p = 3 THEN @ \cup d ELSE d]

Reject == reply' = Nak /\ ul_cwrite_page_set' = 0 /\ UNCHANGED ul_image
Silent == reply' = NoReply /\ ul_cwrite_page_set' = 0 /\ UNCHANGED ul_image

\* The rest of a command, once its page is known.
Write(p, d) ==
    IF p \in 2..15
    THEN ul_image' = Written(p, d) /\ reply' = Ack /\ ul_cwrite_page_set' = 0
    ELSE Reject

UL_READ(f) ==
    IF f.len = 2 /\ f.page \in 0..15
    THEN /\ reply' = [i \in 0..3 |-> ul_image[f.page + i]]
         /\ ul_cwrite_page_set' = 0 /\ UNCHANGED ul_image
    ELSE Reject

UL_WRITE(f) == IF f.len = 6 THEN Write(f.page, f.data) ELSE Reject

\* Mutant: the page is not checked before it is kept.
UL_CWRITE_Unchecked(f) ==
    IF f.len = 2
    THEN ul_cwrite_page_set' = f.page + 1 /\ reply' = Ack /\ UNCHANGED ul_image
    ELSE Reject

UL_CWRITE(f) ==
    IF f.len = 2 /\ f.page \in 2..15
    THEN ul_cwrite_page_set' = f.page + 1 /\ reply' = Ack /\ UNCHANGED ul_image
    ELSE Reject

\* The second half of a compatibility write, whatever its first byte says.
CwritePhase2(f) ==
    IF f.len = 16 THEN Write(ul_cwrite_page_set - 1, f.data) ELSE Reject

\* processCmdMifUL in ACTIVE_A or ACTIVE_Ax.  A pending first half is forgotten
\* before the frame is looked at.
processCmdMifUL(f) ==
    /\ active
    /\ UNCHANGED active
    /\ \/ f.op = "HLTA" /\ f.len = 2 /\ Silent
       \/ /\ ~(f.op = "HLTA" /\ f.len = 2)
          /\ \/ ul_cwrite_page_set # 0 /\ CwritePhase2(f)
             \/ ul_cwrite_page_set = 0 /\ f.op = "READ" /\ UL_READ(f)
             \/ ul_cwrite_page_set = 0 /\ f.op = "WRITE" /\ UL_WRITE(f)
             \/ ul_cwrite_page_set = 0 /\ f.op = "CWRITE" /\ UL_CWRITE(f)
             \/ ul_cwrite_page_set = 0 /\ f.op \in {"HLTA", "OTHER"} /\ Silent

\* In any other state the frame is dropped, and so is a pending first half.
processCmdMifUL_Inactive == ~active /\ Silent /\ UNCHANGED active

Next ==
    \/ Restart \/ Select \/ Deselect \/ processCmdMifUL_Inactive
    \/ \E f \in Frames : processCmdMifUL(f)

Spec == Init /\ [][Next]_vars

-----------------------------------------------------------------------------
\* The copy behind the last page always agrees with the pages it repeats, so
\* that a read at page 13 to 15 wraps around.
RollOverCurrent == \A p \in 0..2 : ul_image[16 + p] = ul_image[p]

\* The serial number and the lock bytes, pages 0 to 2, cannot be written; in
\* the one-time programmable page no bit is ever cleared.  Only a new start of
\* the emulation changes them.
ReadOnlyPages ==
    [][Restart \/ \A p \in 0..2 : ul_image'[p] = ul_image[p]]_vars
OtpOnlySets == [][Restart \/ ul_image[3] \subseteq ul_image'[3]]_vars

\* The emulator is an Ultralight: the card of module Ultralight with the first
\* sixteen pages of the array, and the page of a pending first half.
Tag == INSTANCE Ultralight WITH
           Images <- {[p \in PAGES |-> img[p]] : img \in Loaded},
           mem    <- [p \in PAGES |-> ul_image[p]],
           half   <- ul_cwrite_page_set - 1

IsUltralight == Tag!TagSpec
=============================================================================
