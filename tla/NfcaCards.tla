------------------------------ MODULE NfcaCards ------------------------------
(***************************************************************************)
(* The NFC-A cards in the field of the poller, and what the reader chip    *)
(* hears when several of them answer at once.  None of this is code of the *)
(* firmware: it is the other side of rfal_nfca.c, taken from the comments  *)
(* there and from the states of ISO 14443-3 it relies on.                  *)
(*                                                                         *)
(* A card is its UID: one code per cascade level, each of                  *)
(* CASCADE_1_UID_LEN bytes, all but the last beginning with the cascade    *)
(* tag.  A byte has BITS_IN_BYTE bits.                                     *)
(***************************************************************************)
EXTENDS Integers, Sequences, FiniteSets

CONSTANTS
    CASCADE_1_UID_LEN,  \* RFAL_NFCA_CASCADE_1_UID_LEN: bytes of a code
    BITS_IN_BYTE,       \* RFAL_BITS_IN_BYTE
    SDD_CT,             \* RFAL_NFCA_SDD_CT: the cascade tag
    Uids,               \* the cards there are
    IsoCards,           \* those whose SAK says layer 4 (RFAL_NFCA_T4T)
    MaxCards,           \* bound: the cards in the field of one scan
    Airs                \* what may go wrong in the air, see air below

UidBits == CASCADE_1_UID_LEN * BITS_IN_BYTE
Code == [1..UidBits -> {0, 1}]
FirstByte(code) == SubSeq(code, 1, BITS_IN_BYTE)

ASSUME UidAssumption ==
    /\ CASCADE_1_UID_LEN \in Nat \ {0} /\ BITS_IN_BYTE \in Nat \ {0}
    /\ \A u \in Uids :
        /\ u \in Seq(Code) /\ Len(u) \in 1..3
        /\ \A l \in 1..Len(u) : FirstByte(u[l]) = SDD_CT <=> l < Len(u)
    /\ IsFiniteSet(Uids) /\ IsoCards \subseteq Uids

ASSUME AirAssumption ==
    MaxCards \in Nat /\ Airs \subseteq {"clear", "weak", "deaf", "lossy"}

VARIABLES
    card,   \* the state of each card in the field
    air     \* "clear": every answer and every collision is noticed;
            \* "weak":  the strongest answer may drown the others, bit by bit;
            \* "deaf":  also, the reader may miss or garble an answer;
            \* "lossy": also, a card may miss a command (or be taken away)

cardVars == <<card, air>>
field == DOMAIN card

Ready == <<"READY1", "READY2", "READY3">>
CardStates == {"IDLE", "READY1", "READY2", "READY3", "ACTIVE", "HALT", "ISODEP"}

Fields == {f \in SUBSET Uids : Cardinality(f) <= MaxCards}

CardsTypeOK ==
    /\ \E f \in Fields : card \in [f -> CardStates]
    /\ air \in Airs

\* The field is off: whatever cards there are lose their state.
PowerDown == card' = [c \in field |-> "IDLE"] /\ UNCHANGED air
NewField == air' \in Airs /\ \E f \in Fields : card' = [c \in f |-> "IDLE"]

-----------------------------------------------------------------------------
(***************************************************************************)
(* A command, as the cards in `heard` take it: the state of each after it. *)
(* One that a card does not expect in READY or ACTIVE sends it to IDLE.    *)
(***************************************************************************)
Hearings == IF air = "lossy" THEN SUBSET field ELSE {field}

React(heard, after) ==
    /\ card' = [c \in field |-> IF c \in heard THEN after[c] ELSE card[c]]
    /\ UNCHANGED air

Quit(c) == IF card[c] \in {"IDLE", "HALT", "ISODEP"} THEN card[c] ELSE "IDLE"

\* REQA wakes IDLE cards, WUPA those in HALT as well.
Woken(states) == {c \in field : card[c] \in states}
AfterWake(states) ==
    [c \in field |-> IF card[c] \in states THEN "READY1" ELSE Quit(c)]

AfterHlta == [c \in field |-> IF card[c] = "ACTIVE" THEN "HALT" ELSE Quit(c)]

\* The check byte of an SDD_RES: the exclusive-or of its bytes.
Bcc(code) ==
    [b \in 1..BITS_IN_BYTE |->
        Cardinality({k \in 0..CASCADE_1_UID_LEN - 1 :
                        code[k * BITS_IN_BYTE + b] = 1}) % 2]
SddRes(code) == code \o Bcc(code)

\* SDD_REQ: the cards at this cascade level whose code and check byte begin
\* with the bits sent.
Matching(l, bits) ==
    {c \in field : /\ card[c] = Ready[l]
                   /\ SubSeq(SddRes(c[l]), 1, Len(bits)) = bits}
AfterSdd(l, bits) ==
    [c \in field |-> IF c \in Matching(l, bits) THEN card[c] ELSE Quit(c)]

\* SEL_REQ: to the next cascade level, or selected.
AfterSel(l, code) ==
    [c \in field |-> IF c \notin Matching(l, code) THEN Quit(c)
                     ELSE IF l < Len(c) THEN Ready[l + 1] ELSE "ACTIVE"]

Selected == {c \in field : card[c] = "ACTIVE"}
AfterRats ==
    [c \in field |-> IF c \in Selected \cap IsoCards THEN "ISODEP" ELSE Quit(c)]

-----------------------------------------------------------------------------
(***************************************************************************)
(* What the reader makes of the answers of a set of cards.                 *)
(***************************************************************************)
Silence(answers) == answers = {} \/ air \in {"deaf", "lossy"}
Garbled(answers) == answers # {} /\ air \in {"deaf", "lossy"}

\* The number of bits before a collision, when the answer of `strong` is read.
Conflicts(answers, strong, l, sent) ==
    {p \in sent .. (UidBits + BITS_IN_BYTE - 1) :
        \E c \in answers : SddRes(c[l])[p + 1] # SddRes(strong[l])[p + 1]}

Noticed(answers, strong, l, sent) ==
    LET ps == Conflicts(answers, strong, l, sent)
    IN  IF air = "clear" THEN {p \in ps : \A q \in ps : p <= q} ELSE ps

CanMissCollisions(answers, strong, l, sent) ==
    air # "clear" \/ Conflicts(answers, strong, l, sent) = {}
=============================================================================
