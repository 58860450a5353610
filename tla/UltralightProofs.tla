------------------------- MODULE UltralightProofs -------------------------
(***************************************************************************)
(* Proofs about UltralightImage, for every page width, every set of image  *)
(* files and every set of page addresses.                                  *)
(***************************************************************************)
EXTENDS UltralightImage, TLAPS

\* The roll-over copy makes the array periodic: one fact for both its ends.
LEMMA Wrap == \A n \in 0..18 : n % 16 = (IF n < 16 THEN n ELSE n - 16)
  BY SMT

\* A freshly loaded image is an array of the right size with a sound copy.
LEMMA LoadedImages ==
  \A img \in Loaded : img \in Image /\ \A p \in 0..2 : img[16 + p] = img[p]
<1>1. \A p \in 0..18 : p % 16 \in PAGES
  BY Wrap, SMT DEF PAGES
<1>2. \A f \in Files \cup {Factory} : f \in [PAGES -> SUBSET Bit]
  BY ImageAssumption
<1>3. ASSUME NEW f \in Files \cup {Factory}
      PROVE  /\ RollOver(f) \in Image
             /\ \A p \in 0..2 : RollOver(f)[16 + p] = RollOver(f)[p]
  <2>1. RollOver(f) \in Image
    BY <1>1, <1>2 DEF RollOver, Image
  <2>2. \A p \in 0..2 : (16 + p) % 16 = p % 16 /\ 16 + p \in 0..18 /\ p \in 0..18
    BY Wrap, SMT
  <2> QED  BY <2>1, <2>2 DEF RollOver
<1> QED  BY <1>3 DEF Loaded

\* The strengthening that is inductive: the types and the copy together.
IInv == TypeOK /\ RollOverCurrent

\* What a write to a writable page does, and does not, to the array.
LEMMA WrittenPages ==
  ASSUME TypeOK, NEW p \in 2..15, NEW d \in SUBSET Bit
  PROVE  /\ Written(p, d) \in Image
         /\ \A q \in 0..18 : q # p => Written(p, d)[q] = ul_image[q]
         /\ Written(p, d)[p] = IF p = 2 THEN ul_image[p]
                               ELSE IF p = 3 THEN ul_image[p] \cup d ELSE d
  BY DEF TypeOK, Image, Written

\* Everything a step can do to the array, the pending page and the reply.
LEMMA Steps ==
  ASSUME IInv, [Next]_vars
  PROVE  \/ /\ Restart
         \/ /\ UNCHANGED <<ul_image, ul_cwrite_page_set, reply>>
            /\ active' \in BOOLEAN
         \/ /\ UNCHANGED ul_image /\ active' \in BOOLEAN /\ reply' = NoReply
            /\ ul_cwrite_page_set' \in {0, ul_cwrite_page_set}
         \/ /\ UNCHANGED ul_image /\ active' = active /\ reply' = Nak
            /\ ul_cwrite_page_set' = 0
         \/ \E p \in 0..15 :
               /\ UNCHANGED <<ul_image, active, ul_cwrite_page_set>>
               /\ reply' = [i \in 0..3 |-> ul_image[p + i]]
         \/ \E p \in 2..15, d \in SUBSET Bit :
               /\ ul_image' = Written(p, d) /\ active' = active /\ reply' = Ack
               /\ ul_cwrite_page_set' = 0
               /\ ul_cwrite_page_set \in {0, p + 1}
         \/ \E p \in 2..15 :
               /\ UNCHANGED ul_image /\ active' = active /\ reply' = Ack
               /\ ul_cwrite_page_set' = p + 1
<1> USE DEF IInv, TypeOK
<1>1. CASE Restart
  BY <1>1
<1>2. CASE Select
  BY <1>2 DEF Select
<1>3. CASE Deselect
  BY <1>3 DEF Deselect
<1>4. CASE processCmdMifUL_Inactive
  BY <1>4 DEF processCmdMifUL_Inactive, Silent
<1>5. ASSUME NEW f \in Frames, processCmdMifUL(f)
      PROVE  \/ UNCHANGED ul_image /\ active' = active /\ reply' \in {NoReply, Nak}
                  /\ ul_cwrite_page_set' = 0
             \/ \E p \in 0..15 :
                  /\ UNCHANGED <<ul_image, active, ul_cwrite_page_set>>
                  /\ reply' = [i \in 0..3 |-> ul_image[p + i]]
             \/ \E p \in 2..15, d \in SUBSET Bit :
                  /\ ul_image' = Written(p, d) /\ active' = active /\ reply' = Ack
                  /\ ul_cwrite_page_set' = 0
                  /\ ul_cwrite_page_set \in {0, p + 1}
             \/ \E p \in 2..15 :
                  /\ UNCHANGED ul_image /\ active' = active /\ reply' = Ack
                  /\ ul_cwrite_page_set' = p + 1
  <2> USE <1>5 DEF processCmdMifUL, Silent, Reject
  <2>0. f.data \in SUBSET Bit /\ f.page \in Addr
    BY DEF Frames
  <2>1. CASE f.op = "HLTA" /\ f.len = 2 /\ Silent
    BY <2>1
  <2>2. CASE ul_cwrite_page_set # 0 /\ CwritePhase2(f)
    <3>1. CASE Reject
      BY <3>1
    <3>2. CASE Write(ul_cwrite_page_set - 1, f.data)
      BY <2>0, <2>2, <3>2 DEF Write
    <3> QED  BY <2>2, <3>1, <3>2 DEF CwritePhase2
  <2>3. CASE ul_cwrite_page_set = 0 /\ UL_READ(f)
    BY <2>3 DEF UL_READ
  <2>4. CASE ul_cwrite_page_set = 0 /\ UL_WRITE(f)
    BY <2>0, <2>4 DEF UL_WRITE, Write
  <2>5. CASE ul_cwrite_page_set = 0 /\ UL_CWRITE(f)
    BY <2>5 DEF UL_CWRITE
  <2>6. CASE ul_cwrite_page_set = 0 /\ Silent
    BY <2>6
  <2> QED  BY <2>1, <2>2, <2>3, <2>4, <2>5, <2>6
<1>6. CASE UNCHANGED vars
  BY <1>6 DEF vars
<1> QED  BY <1>1, <1>2, <1>3, <1>4, <1>5, <1>6 DEF Next

LEMMA Inductive == IInv /\ [Next]_vars => IInv'
<1> SUFFICES ASSUME IInv, [Next]_vars PROVE IInv'
  OBVIOUS
<1> USE DEF IInv, TypeOK, RollOverCurrent
<1>1. CASE Restart
  BY <1>1, LoadedImages DEF Restart, Replies
<1>2. CASE UNCHANGED ul_image /\ active' \in BOOLEAN
             /\ reply' \in {reply, NoReply, Nak, Ack}
             /\ ul_cwrite_page_set' \in {0, ul_cwrite_page_set}
  BY <1>2 DEF Replies
<1>3. ASSUME NEW p \in 0..15,
             UNCHANGED <<ul_image, active, ul_cwrite_page_set>>,
             reply' = [i \in 0..3 |-> ul_image[p + i]]
      PROVE  IInv'
  <2>1. \A i \in 0..3 : ul_image[p + i] \in SUBSET Bit
    BY DEF Image
  <2> QED  BY <1>3, <2>1 DEF Replies
<1>4. ASSUME NEW p \in 2..15, NEW d \in SUBSET Bit,
             ul_image' = Written(p, d), active' = active, reply' = Ack,
             ul_cwrite_page_set' = 0
      PROVE  IInv'
  <2>1. ul_image' \in Image
    BY <1>4, WrittenPages
  <2>2. \A q \in 0..18 : q # p => ul_image'[q] = ul_image[q]
    BY <1>4, WrittenPages
  <2>3. p = 2 => ul_image' = ul_image
    BY <1>4 DEF Written
  <2> QED  BY <1>4, <2>1, <2>2, <2>3 DEF Replies
<1>5. ASSUME NEW p \in 2..15, UNCHANGED ul_image, active' = active,
             reply' = Ack, ul_cwrite_page_set' = p + 1
      PROVE  IInv'
  BY <1>5 DEF Replies
<1> QED  BY Steps, <1>1, <1>2, <1>3, <1>4, <1>5

LEMMA Invariance == Spec => []IInv
<1>1. Init => IInv
  BY LoadedImages DEF Init, IInv, TypeOK, RollOverCurrent, Replies
<1> QED  BY <1>1, Inductive, PTL DEF Spec

\* The type invariant, and with it that a pending compatibility write always
\* names a page that may be written: the write of the second half stays inside
\* ul_image whatever was received.
THEOREM TypeCorrect == Spec => []TypeOK
  BY Invariance, PTL DEF IInv

\* The copy of the first three pages is never stale, although no line of the
\* code keeps it up to date: no write reaches pages 0 to 2.
THEOREM RollOverNeverStale == Spec => []RollOverCurrent
  BY Invariance, PTL DEF IInv

\* An action that every step takes, given the invariant, is an action property.
LEMMA StepProperties ==
  ASSUME IInv, [Next]_vars
  PROVE  /\ Restart \/ \A p \in 0..2 : ul_image'[p] = ul_image[p]
         /\ Restart \/ ul_image[3] \subseteq ul_image'[3]
<1> USE DEF IInv, TypeOK
<1>1. ASSUME NEW p \in 2..15, NEW d \in SUBSET Bit, ul_image' = Written(p, d)
      PROVE  /\ \A q \in 0..2 : ul_image'[q] = ul_image[q]
             /\ ul_image[3] \subseteq ul_image'[3]
  <2>1. \A q \in 0..18 : q # p => ul_image'[q] = ul_image[q]
    BY <1>1, WrittenPages
  <2>2. CASE p = 2
    BY <1>1, <2>2 DEF Written
  <2>3. CASE p = 3
    <3>1. ul_image'[3] = ul_image[3] \cup d
      BY <1>1, <2>3, WrittenPages
    <3>2. \A q \in 0..2 : q # p /\ q \in 0..18
      BY <2>3
    <3> QED  BY <2>1, <3>1, <3>2
  <2>4. CASE p > 3
    BY <2>1, <2>4
  <2> QED  BY <2>2, <2>3, <2>4
<1> QED  BY Steps, <1>1

\* The serial number and the lock bytes do not change while a card is emulated.
THEOREM ReadOnly == Spec => ReadOnlyPages
  BY Invariance, StepProperties, PTL DEF Spec, ReadOnlyPages

\* The one-time programmable page only ever gains bits while a card is emulated.
THEOREM OtpOnlyGains == Spec => OtpOnlySets
  BY Invariance, StepProperties, PTL DEF Spec, OtpOnlySets

\* The 76 byte array, its writes and its pending page implement the sixteen
\* page card of module Ultralight, step by step.
THEOREM Implements == Spec => IsUltralight
<1> DEFINE Mem(img) == [p \in PAGES |-> img[p]]
<1>1. Init => Tag!TagInit
  BY DEF Init, Tag!TagInit, Tag!NoPage
<1>2. ASSUME IInv, [Next]_vars
      PROVE  [Tag!TagNext]_Tag!tagVars
  <2> USE <1>2 DEF IInv, TypeOK
  <2>1. CASE Restart
    <3>1. Tag!Replace
      BY <2>1 DEF Restart, Tag!Replace, Tag!NoPage
    <3> QED  BY <3>1 DEF Tag!TagNext
  <2>2. CASE UNCHANGED <<ul_image, ul_cwrite_page_set, reply>>
    BY <2>2 DEF Tag!tagVars
  <2>3. CASE UNCHANGED ul_image /\ reply' = NoReply
               /\ ul_cwrite_page_set' \in {0, ul_cwrite_page_set}
    <3>0. 0 - 1 = -1
      OBVIOUS
    <3>1. ul_cwrite_page_set' - 1 = ul_cwrite_page_set - 1 \/ ul_cwrite_page_set' - 1 = -1
      BY <2>3, <3>0
    <3>2. Tag!Keep
      BY <2>3, <3>1 DEF Tag!Keep, Tag!NoPage
    <3> QED  BY <3>2 DEF Tag!TagNext
  <2>4. CASE UNCHANGED ul_image /\ reply' = Nak /\ ul_cwrite_page_set' = 0
    <3>1. Tag!Refuse
      BY <2>4 DEF Tag!Refuse, Tag!NoPage
    <3> QED  BY <3>1 DEF Tag!TagNext
  <2>5. ASSUME NEW p \in 0..15,
               UNCHANGED <<ul_image, active, ul_cwrite_page_set>>,
               reply' = [i \in 0..3 |-> ul_image[p + i]]
        PROVE  Tag!Read
    <3>1. ASSUME NEW i \in 0..3
          PROVE  ul_image[p + i] = Mem(ul_image)[(p + i) % 16]
      <4>1. p + i \in 0..18
        OBVIOUS
      <4>2. CASE p + i < 16
        BY <4>1, <4>2, Wrap DEF PAGES
      <4>3. CASE p + i >= 16
        <5>1. (p + i) % 16 = p + i - 16 /\ p + i - 16 \in 0..2
          BY <4>1, <4>3, Wrap
        <5>2. ul_image[16 + (p + i - 16)] = ul_image[p + i - 16]
          BY <5>1 DEF RollOverCurrent
        <5> QED  BY <5>1, <5>2 DEF PAGES
      <4> QED  BY <4>2, <4>3
    <3>2. reply' = [i \in 0..3 |-> Mem(ul_image)[(p + i) % 16]]
      BY <2>5, <3>1
    <3> QED  BY <2>5, <3>2 DEF Tag!Read, Tag!Pages, Tag!Window
  <2>6. ASSUME NEW p \in 2..15, NEW d \in SUBSET Bit,
               ul_image' = Written(p, d), reply' = Ack,
               ul_cwrite_page_set' = 0, ul_cwrite_page_set \in {0, p + 1}
        PROVE  Tag!Write \/ Tag!SecondHalf
    <3>1. Mem(ul_image') = [Mem(ul_image) EXCEPT ![p] =
             IF p = 2 THEN @ ELSE IF p = 3 THEN @ \cup d ELSE d]
      <4>1. \A q \in PAGES : Mem(ul_image')[q] = ul_image'[q] /\ Mem(ul_image)[q] = ul_image[q]
        OBVIOUS
      <4>2. \A q \in PAGES : q # p => ul_image'[q] = ul_image[q]
        BY <2>6, WrittenPages DEF PAGES
      <4>3. p \in PAGES
        BY DEF PAGES
      <4>4. ul_image'[p] = IF p = 2 THEN ul_image[p] ELSE IF p = 3 THEN ul_image[p] \cup d ELSE d
        BY <2>6, WrittenPages
      <4> QED  BY <4>1, <4>2, <4>3, <4>4
    <3>2. p \in Tag!Pages /\ p >= Tag!Locks
      BY DEF Tag!Pages, Tag!Locks
    <3>3. CASE ul_cwrite_page_set = 0
      BY <2>6, <3>1, <3>2, <3>3
         DEF Tag!Write, Tag!Stored, Tag!Locks, Tag!Otp
    <3>4. CASE ul_cwrite_page_set = p + 1
      <4>1. ul_cwrite_page_set - 1 = p /\ ul_cwrite_page_set' - 1 = -1
        BY <2>6, <3>4
      <4>2. ul_cwrite_page_set - 1 # -1
        BY <4>1
      <4>3. Tag!SecondHalf
        BY <2>6, <3>1, <4>1, <4>2
           DEF Tag!SecondHalf, Tag!Stored, Tag!Locks, Tag!Otp, Tag!NoPage
      <4> QED  BY <4>3
    <3> QED  BY <2>6, <3>3, <3>4
  <2>7. ASSUME NEW p \in 2..15, UNCHANGED ul_image,
               reply' = Ack, ul_cwrite_page_set' = p + 1
        PROVE  Tag!FirstHalf
    BY <2>7 DEF Tag!FirstHalf, Tag!Pages, Tag!Locks
  <2> QED  BY Steps, <2>1, <2>2, <2>3, <2>4, <2>5, <2>6, <2>7 DEF Tag!TagNext
<1> QED  BY <1>1, <1>2, Invariance, PTL DEF Spec, IsUltralight, Tag!TagSpec
=============================================================================
