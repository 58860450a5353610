-------------------------- MODULE NfcaPollerProofs --------------------------
(***************************************************************************)
(* Proofs about NfcaPoller: for any cards with any UIDs, any number of     *)
(* them, and any room in the device list.                                  *)
(*                                                                         *)
(* The inductive invariant says how far the two sides of the resolution    *)
(* agree: while a level is resolved, the cards that still listen there     *)
(* begin with the codes collected so far; the devices resolved before are  *)
(* asleep; and the one just resolved is the one that is selected.          *)
(***************************************************************************)
EXTENDS NfcaPoller, TLAPS, FiniteSetTheorems, SequenceTheorems

Resolving == {"SDD", "backtrack", "SEL"}
Early     == {"techDetect", "techSleep", "colAvoidance", "idle"}
Reporting == {"copy", "RATS", "deactivate"}

-----------------------------------------------------------------------------
(***************************************************************************)
(* The invariant.                                                          *)
(***************************************************************************)

\* A card is at a cascade level that its UID has.
Levels == \A c \in field, l \in 1..3 : card[c] = Ready[l] => l <= Len(c)

\* What each place of the scan leaves of the lists and of the request.
Requests ==
    /\ pc \in Resolving => Len(nfcId1) = cascadeLv - 1
    /\ pc = "backtrack" => selReq # <<>> /\ backtrackCnt # 0
    /\ pc = "SEL" => Len(selReq) = UidBits + BITS_IN_BYTE

Lists ==
    /\ pc \in Early => nfcaDevList = <<>>
    /\ pc \in Resolving \cup {"done", "devSleep", "others"} =>
            Len(nfcaDevList) < RFAL_POLLER_DEVICES
    /\ pc \in {"devSleep", "others"} => nfcaDevList # <<>>
    /\ pc \notin Reporting => gDevList = <<>>
    /\ pc = "copy" => Len(gDevList) < Len(nfcaDevList)
    /\ pc = "RATS" => gDevList # <<>> /\ gDevList[Len(gDevList)].nfca.type = "T4T"
    /\ \A i \in DOMAIN gDevList : gDevList[i].nfca = nfcaDevList[i]

\* The cards still at the level being resolved have the codes collected so far.
Agrees ==
    pc \in Resolving =>
        \A c \in field : card[c] = Ready[cascadeLv] =>
            \A k \in 1..(cascadeLv - 1) : c[k] = nfcId1[k]

\* The device just resolved is the one that is selected.
Resolved ==
    pc \in {"done", "devSleep"} =>
        nfcId1 \in field /\ card[nfcId1] = "ACTIVE" /\ selRes = TypeOf(nfcId1)

\* The devices resolved before are asleep.
Asleep ==
    /\ \A i \in Devices : nfcaDevList[i].isSleep => card[nfcaDevList[i].nfcId1] = "HALT"
    /\ pc \in Resolving \cup {"done", "others"} =>
            \A i \in Devices : nfcaDevList[i].isSleep
    /\ pc = "devSleep" =>
            /\ nfcaDevList[Len(nfcaDevList)].nfcId1 = nfcId1
            /\ \A i \in Devices : i # Len(nfcaDevList) => nfcaDevList[i].isSleep

Sound == air # "lossy" => Agrees /\ Resolved /\ Asleep

IInv == TypeOK /\ Levels /\ Requests /\ Lists /\ Sound /\ RealCards /\ NoneTwice /\ OwnAts

-----------------------------------------------------------------------------
(***************************************************************************)
(* Bits and codes.                                                         *)
(***************************************************************************)
LEMMA Widths == UidBits \in Nat /\ BITS_IN_BYTE \in Nat \ {0} /\ BITS_IN_BYTE <= UidBits
  <1>1. CASCADE_1_UID_LEN \in Nat \ {0} /\ BITS_IN_BYTE \in Nat \ {0}
    BY UidAssumption
  <1>2. ASSUME NEW a \in Nat \ {0}, NEW b \in Nat \ {0}
        PROVE  a * b \in Nat /\ b <= a * b
    BY <1>2
  <1> QED  BY <1>1, <1>2 DEF UidBits

LEMMA FrontAndLast ==
  ASSUME NEW S, NEW s \in Seq(S), s # <<>>
  PROVE  /\ Front(s) \in Seq(S) /\ Len(Front(s)) = Len(s) - 1
         /\ \A i \in 1..(Len(s) - 1) : Front(s)[i] = s[i]
         /\ Last(s) \in S /\ Len(s) \in Nat \ {0}
  <1>1. Len(s) \in Nat \ {0}
    BY EmptySeq
  <1>2. Last(s) \in S
    BY <1>1, ElementOfSeq DEF Last
  <1>3. \A i \in 1..(Len(s) - 1) : s[i] \in S
    BY <1>1, ElementOfSeq
  <1>4. Front(s) = [i \in 1..(Len(s) - 1) |-> s[i]]
    BY <1>1 DEF Front
  <1> QED  BY <1>1, <1>2, <1>3, <1>4

\* A check byte is a byte.
LEMMA BccBits ==
  ASSUME NEW code \in Code
  PROVE  Bcc(code) \in [1..BITS_IN_BYTE -> {0, 1}]
  <1> SUFFICES ASSUME NEW b \in 1..BITS_IN_BYTE
               PROVE  Cardinality({k \in 0..CASCADE_1_UID_LEN - 1 :
                                     code[k * BITS_IN_BYTE + b] = 1}) % 2 \in {0, 1}
    BY DEF Bcc
  <1> DEFINE S == {k \in 0..CASCADE_1_UID_LEN - 1 : code[k * BITS_IN_BYTE + b] = 1}
  <1>1. IsFiniteSet(0..CASCADE_1_UID_LEN - 1)
    BY FS_Interval, UidAssumption
  <1>2. IsFiniteSet(S)
    BY <1>1, FS_Subset
  <1>3. Cardinality(S) \in Nat
    BY <1>2, FS_CardinalityType
  <1> QED  BY <1>3

LEMMA SddResBits ==
  ASSUME NEW code \in Code
  PROVE  /\ SddRes(code) \in Seq({0, 1})
         /\ Len(SddRes(code)) = UidBits + BITS_IN_BYTE
         /\ SubSeq(SddRes(code), 1, UidBits) = code
  <1>1. code \in Seq({0, 1}) /\ Len(code) = UidBits
    BY Widths DEF Code
  <1>2. Bcc(code) \in Seq({0, 1}) /\ Len(Bcc(code)) = BITS_IN_BYTE
    BY Widths, BccBits
  <1>3. /\ SddRes(code) \in Seq({0, 1})
        /\ Len(SddRes(code)) = UidBits + BITS_IN_BYTE
        /\ \A i \in 1..UidBits : SddRes(code)[i] = code[i]
    BY <1>1, <1>2, Widths DEF SddRes
  <1>4. SubSeq(SddRes(code), 1, UidBits) = [i \in 1..UidBits |-> SddRes(code)[i]]
    BY <1>3, Widths
  <1>5. code = [i \in 1..UidBits |-> code[i]]
    BY DEF Code
  <1> QED  BY <1>3, <1>4, <1>5

-----------------------------------------------------------------------------
(***************************************************************************)
(* What a command does to the cards.                                       *)
(***************************************************************************)
LEMMA ReadyStates ==
  /\ \A l \in 1..3 : Ready[l] \in CardStates /\ Ready[l] \notin {"IDLE", "HALT", "ACTIVE", "ISODEP"}
  /\ \A l, k \in 1..3 : Ready[l] = Ready[k] => l = k
  BY DEF Ready, CardStates

LEMMA UidTypes ==
  ASSUME CardsTypeOK
  PROVE  /\ field \in Fields
         /\ card \in [field -> CardStates]
         /\ \A c \in field : /\ c \in Seq(Code) /\ Len(c) \in 1..3
                             /\ \A l \in 1..Len(c) : /\ c[l] \in Code
                                                     /\ FirstByte(c[l]) = SDD_CT <=> l < Len(c)
  <1>1. field \in Fields /\ card \in [field -> CardStates]
    BY DEF CardsTypeOK, field
  <1>2. field \subseteq Uids
    BY <1>1 DEF Fields
  <1>3. \A c \in field : /\ c \in Seq(Code) /\ Len(c) \in 1..3
                         /\ \A l \in 1..Len(c) : FirstByte(c[l]) = SDD_CT <=> l < Len(c)
    BY <1>2, UidAssumption
  <1>4. \A c \in field : \A l \in 1..Len(c) : c[l] \in Code
    BY <1>3, ElementOfSeq
  <1> QED  BY <1>1, <1>3, <1>4

LEMMA UidLengths ==
  ASSUME CardsTypeOK, NEW c \in field
  PROVE  Len(c) \in 1..3
  BY UidTypes

\* The common part: the states keep their type, the levels theirs, and unless
\* cards miss commands each of them reacts.
LEMMA Reaction ==
  ASSUME CardsTypeOK, Levels,
         NEW heard \in Hearings, NEW after \in [field -> CardStates],
         \A c \in field, l \in 1..3 : after[c] = Ready[l] => l <= Len(c),
         React(heard, after)
  PROVE  /\ CardsTypeOK' /\ Levels' /\ field' = field /\ air' = air
         /\ \A c \in field : card'[c] \in {card[c], after[c]}
         /\ air # "lossy" => \A c \in field : card'[c] = after[c]
  <1>1. field \in Fields /\ card \in [field -> CardStates]
    BY UidTypes
  <1>2. card' = [c \in field |-> IF c \in heard THEN after[c] ELSE card[c]] /\ air' = air
    BY DEF React
  <1>3. field' = field /\ card' \in [field -> CardStates]
    BY <1>1, <1>2 DEF field
  <1>4. \A c \in field : card'[c] = IF c \in heard THEN after[c] ELSE card[c]
    BY <1>2
  <1>5. CardsTypeOK'
    BY <1>1, <1>2, <1>3 DEF CardsTypeOK
  <1>6. Levels'
    BY <1>3, <1>4 DEF Levels
  <1>7. air # "lossy" => heard = field
    BY DEF Hearings
  <1> QED  BY <1>2, <1>3, <1>4, <1>5, <1>6, <1>7

LEMMA Quits ==
  ASSUME CardsTypeOK, NEW c \in field
  PROVE  /\ Quit(c) \in {"IDLE", "HALT", "ISODEP"}
         /\ card[c] = "HALT" => Quit(c) = "HALT"
  BY DEF Quit

LEMMA Wakes ==
  ASSUME CardsTypeOK, Levels, NEW heard \in Hearings, NEW states, CheckPresence(states, heard)
  PROVE  /\ CardsTypeOK' /\ Levels' /\ field' = field /\ air' = air
         /\ air # "lossy" =>
                \A c \in field : card'[c] = IF card[c] \in states THEN "READY1" ELSE Quit(c)
  <1> DEFINE after == AfterWake(states)
  <1>1. \A c \in field : after[c] = IF card[c] \in states THEN "READY1" ELSE Quit(c)
    BY DEF AfterWake
  <1>2. after \in [field -> CardStates]
    BY Quits DEF AfterWake, CardStates
  <1>3. \A c \in field, l \in 1..3 : after[c] = Ready[l] => l <= Len(c)
    BY <1>1, Quits, UidLengths DEF Ready
  <1>4. React(heard, after)
    BY DEF CheckPresence
  <1> HIDE DEF after
  <1> QED  BY <1>1, <1>2, <1>3, <1>4, Reaction

LEMMA Sleeps ==
  ASSUME CardsTypeOK, Levels, Sleep
  PROVE  /\ CardsTypeOK' /\ Levels' /\ field' = field /\ air' = air
         /\ air # "lossy" =>
                \A c \in field : card'[c] = IF card[c] = "ACTIVE" THEN "HALT" ELSE Quit(c)
  <1> DEFINE after == AfterHlta
  <1>1. \A c \in field : after[c] = IF card[c] = "ACTIVE" THEN "HALT" ELSE Quit(c)
    BY DEF AfterHlta
  <1>2. after \in [field -> CardStates]
    BY Quits DEF AfterHlta, CardStates
  <1>3. \A c \in field, l \in 1..3 : after[c] = Ready[l] => l <= Len(c)
    BY <1>1, Quits DEF Ready
  <1>4. PICK heard \in Hearings : React(heard, after)
    BY DEF Sleep
  <1> HIDE DEF after
  <1> QED  BY <1>1, <1>2, <1>3, <1>4, Reaction

LEMMA Anticollides ==
  ASSUME CardsTypeOK, Levels, NEW heard \in Hearings, Sdd(heard)
  PROVE  /\ CardsTypeOK' /\ Levels' /\ field' = field /\ air' = air
         /\ air # "lossy" => \A c \in field : card'[c] \in {card[c], Quit(c)}
  <1> DEFINE after == AfterSdd(cascadeLv, selReq)
  <1>1. \A c \in field : after[c] \in {card[c], Quit(c)}
    BY DEF AfterSdd
  <1>2. after \in [field -> CardStates]
    BY Quits, UidTypes DEF AfterSdd, CardStates
  <1>3. \A c \in field, l \in 1..3 : after[c] = Ready[l] => l <= Len(c)
    BY <1>1, Quits, ReadyStates DEF Levels
  <1>4. React(heard, after)
    BY DEF Sdd
  <1> HIDE DEF after
  <1> QED  BY <1>1, <1>2, <1>3, <1>4, Reaction

LEMMA Activates ==
  ASSUME CardsTypeOK, Levels, NEW heard \in Hearings, Rats(heard)
  PROVE  /\ CardsTypeOK' /\ Levels' /\ field' = field /\ air' = air
         /\ air # "lossy" => \A c \in field : card'[c] \in {"ISODEP", Quit(c)}
                                            /\ (card[c] = "HALT" => card'[c] = "HALT")
  <1> DEFINE after == AfterRats
  <1>1. \A c \in field : /\ after[c] \in {"ISODEP", Quit(c)}
                         /\ card[c] = "HALT" => after[c] = "HALT"
    BY Quits DEF AfterRats, Selected
  <1>2. after \in [field -> CardStates]
    BY Quits DEF AfterRats, CardStates
  <1>3. \A c \in field, l \in 1..3 : after[c] = Ready[l] => l <= Len(c)
    BY <1>1, Quits, ReadyStates
  <1>4. React(heard, after)
    BY DEF Rats
  <1> HIDE DEF after
  <1> QED  BY <1>1, <1>2, <1>3, <1>4, Reaction

\* A whole SDD_RES in the request: the cards that match have this code.
LEMMA Matched ==
  ASSUME CardsTypeOK, Levels, NEW l \in 1..3, NEW bits \in Seq({0, 1}),
         Len(bits) = UidBits + BITS_IN_BYTE, NEW c \in Matching(l, bits)
  PROVE  /\ c \in field /\ card[c] = Ready[l] /\ l <= Len(c)
         /\ c[l] = SubSeq(bits, 1, UidBits)
         /\ FirstByte(bits) = SDD_CT <=> l < Len(c)
  <1>1. /\ c \in field /\ card[c] = Ready[l] /\ l <= Len(c)
        /\ SubSeq(SddRes(c[l]), 1, Len(bits)) = bits
    BY DEF Matching, Levels
  <1>2. c[l] \in Code /\ (FirstByte(c[l]) = SDD_CT <=> l < Len(c))
    BY <1>1, UidTypes
  <1>3. SddRes(c[l]) = bits
    BY <1>1, <1>2, SddResBits, SubSeqFull
  <1>4. c[l] = SubSeq(bits, 1, UidBits)
    BY <1>2, <1>3, SddResBits
  <1>5. FirstByte(SubSeq(bits, 1, UidBits)) = FirstByte(bits)
    BY Widths DEF FirstByte
  <1> QED  BY <1>1, <1>2, <1>4, <1>5

LEMMA NextLevelUp ==
  ASSUME NEW l \in 1..3, NEW n \in 1..3, l < n
  PROVE  l + 1 \in 1..3 /\ l + 1 <= n
  OBVIOUS

LEMMA Selects ==
  ASSUME CardsTypeOK, Levels, cascadeLv \in 1..3, selReq \in Seq({0, 1}),
         Len(selReq) = UidBits + BITS_IN_BYTE, NEW heard \in Hearings, Sel(heard)
  PROVE  /\ CardsTypeOK' /\ Levels' /\ field' = field /\ air' = air
         /\ air # "lossy" =>
                \A c \in field : card'[c] = IF c \notin Matching(cascadeLv, selReq) THEN Quit(c)
                                            ELSE IF cascadeLv < Len(c) THEN Ready[cascadeLv + 1]
                                            ELSE "ACTIVE"
  <1> DEFINE after == AfterSel(cascadeLv, selReq)
  <1>1. \A c \in field : after[c] = IF c \notin Matching(cascadeLv, selReq) THEN Quit(c)
                                    ELSE IF cascadeLv < Len(c) THEN Ready[cascadeLv + 1]
                                    ELSE "ACTIVE"
    BY DEF AfterSel
  <1>2. \A c \in field : cascadeLv < Len(c) => cascadeLv + 1 \in 1..3 /\ cascadeLv + 1 <= Len(c)
    <2> SUFFICES ASSUME NEW c \in field, cascadeLv < Len(c)
                 PROVE  cascadeLv + 1 \in 1..3 /\ cascadeLv + 1 <= Len(c)
      OBVIOUS
    <2>1. Len(c) \in 1..3
      BY UidLengths
    <2> QED  BY <2>1, NextLevelUp
  <1>3. \A c \in field : after[c] \in CardStates
    BY <1>1, <1>2, Quits, ReadyStates DEF CardStates
  <1>4. after \in [field -> CardStates]
    BY <1>3 DEF AfterSel
  <1>5. \A c \in field, l \in 1..3 : after[c] = Ready[l] => l <= Len(c)
    BY <1>1, <1>2, Quits, ReadyStates
  <1>6. React(heard, after)
    BY DEF Sel
  <1> HIDE DEF after
  <1> QED  BY <1>1, <1>4, <1>5, <1>6, Reaction

-----------------------------------------------------------------------------
(***************************************************************************)
(* Before a device is resolved, and after the field is off.                *)
(***************************************************************************)

LEMMA NothingSent ==
  /\ <<>> \in Seq({0, 1}) /\ Len(<<>>) <= UidBits + BITS_IN_BYTE
  /\ <<>> \in Seq(Code) /\ Len(<<>>) = 0
  /\ BACKTRACKS \in 0..BACKTRACKS /\ 0 \in 0..RATS_RETRIES
  <1>1. 0 <= UidBits + BITS_IN_BYTE
    BY Widths
  <1>2. <<>> \in Seq({0, 1}) /\ <<>> \in Seq(Code) /\ Len(<<>>) = 0
    BY EmptySeq
  <1> QED  BY <1>1, <1>2, PollerAssumption

\* With no device listed there is nothing to be wrong about one.
LEMMA NoDevices ==
  ASSUME nfcaDevList = <<>>, gDevList = <<>>
  PROVE  RealCards /\ NoneTwice /\ OwnAts
  BY DEF RealCards, NoneTwice, OwnAts, Devices

\* A step that changes neither the lists nor the field.
LEMMA ListsKept ==
  ASSUME RealCards, NoneTwice, OwnAts, field' = field, air' = air,
         UNCHANGED <<nfcaDevList, gDevList>>
  PROVE  RealCards' /\ NoneTwice' /\ OwnAts'
  BY DEF RealCards, NoneTwice, OwnAts, Devices

LEMMA StartSingleTypes ==
  ASSUME TypeOK, StartSingle, pc' = "SDD", cntRRetrys' = cntRRetrys
  PROVE  ResolutionTypeOK' /\ FlagTypeOK' /\ cascadeLv' = 1 /\ Len(nfcId1') = 0
  <1>1. /\ nfcId1' = <<>> /\ selReq' = <<>> /\ cascadeLv' = 1
        /\ backtrackCnt' = BACKTRACKS /\ selRes' = selRes
    BY DEF StartSingle
  <1>2. ResolutionTypeOK'
    BY <1>1, NothingSent DEF TypeOK, ResolutionTypeOK
  <1>3. FlagTypeOK'
    BY DEF StartSingle, FlagTypeOK
  <1> QED  BY <1>1, <1>2, <1>3, NothingSent

LEMMA InitInv == Init => IInv
  <1> SUFFICES ASSUME Init PROVE IInv
    OBVIOUS
  <1>1. PICK f \in Fields : card = [c \in f |-> "IDLE"]
    BY DEF Init
  <1>2. field = f
    BY <1>1 DEF field
  <1>3. CardsTypeOK
    BY <1>1 DEF Init, CardsTypeOK, CardStates
  <1>4. ResolutionTypeOK /\ FlagTypeOK /\ ListTypeOK
    <2>1. nfcaDevList = <<>> /\ gDevList = <<>>
      BY DEF Init
    <2>2. ListTypeOK
      BY <2>1, PollerAssumption, EmptySeq DEF ListTypeOK
    <2>3. ResolutionTypeOK
      BY NothingSent DEF Init, ResolutionTypeOK, Type
    <2>4. FlagTypeOK
      BY DEF Init, FlagTypeOK
    <2> QED  BY <2>2, <2>3, <2>4
  <1>5. Levels
    BY <1>1, <1>2 DEF Levels, Ready
  <1>6. Requests /\ Lists /\ Sound
    BY DEF Init, Requests, Lists, Sound, Agrees, Resolved, Asleep, Resolving, Early, Reporting, Devices
  <1>7. RealCards /\ NoneTwice /\ OwnAts
    BY NoDevices DEF Init
  <1> QED  BY <1>3, <1>4, <1>5, <1>6, <1>7 DEF IInv, TypeOK

LEMMA FieldOffInv ==
  ASSUME IInv, FieldOff
  PROVE  IInv'
  <1>1. field \in Fields /\ card' = [c \in field |-> "IDLE"] /\ air' = air
    BY UidTypes DEF IInv, TypeOK, FieldOff, PowerDown
  <1>2. field' = field /\ \A c \in field : card'[c] = "IDLE"
    BY <1>1 DEF field
  <1>3. CardsTypeOK'
    BY <1>1 DEF IInv, TypeOK, CardsTypeOK, CardStates
  <1>4. ResolutionTypeOK' /\ FlagTypeOK' /\ ListTypeOK'
    <2>1. nfcaDevList' = <<>> /\ gDevList' = <<>>
      BY DEF FieldOff
    <2>2. ListTypeOK'
      BY <2>1, PollerAssumption, EmptySeq DEF ListTypeOK
    <2>3. ResolutionTypeOK'
      BY NothingSent DEF FieldOff, ResolutionTypeOK, Type
    <2>4. FlagTypeOK'
      BY DEF FieldOff, FlagTypeOK
    <2> QED  BY <2>2, <2>3, <2>4
  <1>5. Levels'
    BY <1>2 DEF Levels, Ready
  <1>6. Requests' /\ Lists' /\ Sound'
    BY DEF FieldOff, Requests, Lists, Sound, Agrees, Resolved, Asleep, Resolving, Early, Reporting, Devices
  <1>7. RealCards' /\ NoneTwice' /\ OwnAts'
    BY DEF FieldOff, RealCards, NoneTwice, OwnAts, Devices
  <1> QED  BY <1>3, <1>4, <1>5, <1>6, <1>7 DEF IInv, TypeOK

LEMMA ScanTagsInv ==
  ASSUME IInv, ScanTags
  PROVE  IInv'
  <1>1. PICK f \in Fields : card' = [c \in f |-> "IDLE"]
    BY DEF ScanTags, NewField
  <1>2. field' = f /\ air' \in Airs
    BY <1>1 DEF field, ScanTags, NewField
  <1>3. nfcaDevList = <<>> /\ gDevList = <<>>
    BY DEF ScanTags, IInv, Lists, Early, Reporting
  <1>4. CardsTypeOK'
    BY <1>1, <1>2 DEF CardsTypeOK, CardStates
  <1>5. ResolutionTypeOK' /\ FlagTypeOK' /\ ListTypeOK'
    <2>1. nfcaDevList' = <<>> /\ gDevList' = <<>>
      BY <1>3 DEF ScanTags, listVars
    <2>2. ListTypeOK'
      BY <2>1, PollerAssumption, EmptySeq DEF ListTypeOK
    <2>3. ResolutionTypeOK'
      BY DEF ScanTags, IInv, TypeOK, ResolutionTypeOK, crVars, listVars
    <2>4. FlagTypeOK'
      BY DEF ScanTags, IInv, TypeOK, FlagTypeOK, crVars
    <2> QED  BY <2>2, <2>3, <2>4
  <1>6. Levels'
    BY <1>1, <1>2 DEF Levels, Ready
  <1>7. Requests' /\ Lists' /\ Sound'
    BY <1>3 DEF ScanTags, Requests, Lists, Sound, Agrees, Resolved, Asleep, Resolving, Early,
           Reporting, Devices, listVars
  <1>8. RealCards' /\ NoneTwice' /\ OwnAts'
    BY <1>3 DEF ScanTags, RealCards, NoneTwice, OwnAts, Devices, listVars
  <1> QED  BY <1>4, <1>5, <1>6, <1>7, <1>8 DEF IInv, TypeOK

\* Technology detection: nothing is listed yet.
LEMMA DetectionInv ==
  ASSUME IInv, TechDetection \/ TechSleep
  PROVE  IInv'
  <1>1. CardsTypeOK' /\ Levels' /\ field' = field /\ air' = air
    BY Wakes, Sleeps DEF IInv, TypeOK, TechDetection, TechSleep
  <1>2. nfcaDevList = <<>> /\ gDevList = <<>> /\ UNCHANGED <<crVars, nfcaDevList, listVars>>
    BY DEF TechDetection, TechSleep, IInv, Lists, Early, Reporting
  <1>3. pc' \in {"techSleep", "colAvoidance", "deactivate"}
    BY DEF TechDetection, TechSleep
  <1>4. ListTypeOK'
    BY <1>1, <1>2 DEF IInv, TypeOK, ListTypeOK, Device, listVars
  <1>5. ResolutionTypeOK' /\ FlagTypeOK'
    <2>1. ResolutionTypeOK'
      BY <1>2, <1>3 DEF IInv, TypeOK, ResolutionTypeOK, crVars, listVars
    <2>2. FlagTypeOK'
      BY <1>2 DEF IInv, TypeOK, FlagTypeOK, crVars
    <2> QED  BY <2>1, <2>2
  <1>6. Requests' /\ Lists' /\ Sound'
    BY <1>2, <1>3 DEF Requests, Lists, Sound, Agrees, Resolved, Asleep, Resolving, Early,
           Reporting, Devices, listVars
  <1>7. RealCards' /\ NoneTwice' /\ OwnAts'
    BY <1>1, <1>2, ListsKept DEF IInv, listVars
  <1> QED  BY <1>1, <1>4, <1>5, <1>6, <1>7 DEF IInv, TypeOK

LEMMA StartFullInv ==
  ASSUME IInv, StartFull
  PROVE  IInv'
  <1>1. CardsTypeOK' /\ Levels' /\ field' = field /\ air' = air
    BY Wakes DEF IInv, TypeOK, StartFull
  <1>2. nfcaDevList = <<>> /\ gDevList = <<>> /\ UNCHANGED <<nfcaDevList, listVars>>
    BY DEF StartFull, IInv, Lists, Early, Reporting
  <1>3. (pc' = "SDD" /\ StartSingle) \/ (pc' = "deactivate" /\ UNCHANGED crVars)
    BY DEF StartFull
  <1>4. ListTypeOK'
    BY <1>1, <1>2 DEF IInv, TypeOK, ListTypeOK, Device, listVars
  <1>5. ResolutionTypeOK' /\ FlagTypeOK'
    <2>1. CASE pc' = "SDD" /\ StartSingle
      BY <1>2, <2>1, StartSingleTypes DEF IInv, listVars
    <2>2. CASE pc' = "deactivate" /\ UNCHANGED crVars
      <3>1. ResolutionTypeOK'
        BY <1>2, <2>2 DEF IInv, TypeOK, ResolutionTypeOK, crVars, listVars
      <3>2. FlagTypeOK'
        BY <2>2 DEF IInv, TypeOK, FlagTypeOK, crVars
      <3> QED  BY <3>1, <3>2
    <2> QED  BY <1>3, <2>1, <2>2
  <1>6. Requests' /\ Lists'
    BY <1>2, <1>3, PollerAssumption
       DEF Requests, Lists, Resolving, Early, Reporting, listVars, StartSingle
  <1>7. Sound'
    BY <1>2, <1>3 DEF Sound, Agrees, Resolved, Asleep, Resolving, Devices, StartSingle
  <1>8. RealCards' /\ NoneTwice' /\ OwnAts'
    BY <1>1, <1>2, ListsKept DEF IInv, listVars
  <1> QED  BY <1>1, <1>4, <1>5, <1>6, <1>7, <1>8 DEF IInv, TypeOK

-----------------------------------------------------------------------------
(***************************************************************************)
(* Anticollision at one cascade level.                                     *)
(***************************************************************************)

\* A device that is asleep stays so, as long as no card leaves HALT.
LEMMA StillAsleep ==
  ASSUME RealCards, air # "lossy",
         \A i \in Devices : nfcaDevList[i].isSleep => card[nfcaDevList[i].nfcId1] = "HALT",
         \A c \in field : card[c] = "HALT" => card'[c] = "HALT",
         UNCHANGED nfcaDevList
  PROVE  \A i \in Devices' : nfcaDevList'[i].isSleep => card'[nfcaDevList'[i].nfcId1] = "HALT"
  BY DEF RealCards, Devices

\* As long as the level is being resolved, no card may join those that listen at it,
\* unless it is the first.
LEMMA ResolvingSound ==
  ASSUME IInv, pc \in Resolving, pc' \in Resolving,
         UNCHANGED <<cascadeLv, nfcId1, nfcaDevList>>, field' = field, air' = air,
         air # "lossy" =>
             \A c \in field :
                 /\ card'[c] = Ready[cascadeLv] => card[c] = Ready[cascadeLv] \/ cascadeLv = 1
                 /\ card[c] = "HALT" => card'[c] = "HALT"
  PROVE  Sound'
  <1> SUFFICES ASSUME air # "lossy"
               PROVE  Agrees' /\ Resolved' /\ Asleep'
    BY DEF Sound
  <1>1. Agrees /\ Asleep /\ RealCards
    BY DEF IInv, Sound
  <1>2. \A c \in field : card'[c] = Ready[cascadeLv] =>
            \A k \in 1..(cascadeLv - 1) : c[k] = nfcId1[k]
    BY <1>1 DEF Agrees
  <1>3. Agrees'
    BY <1>2 DEF Agrees
  <1>4. \A i \in Devices' : nfcaDevList'[i].isSleep => card'[nfcaDevList'[i].nfcId1] = "HALT"
    BY <1>1, StillAsleep DEF Asleep
  <1>5. Asleep'
    BY <1>1, <1>4 DEF Asleep, Resolving, Devices
  <1> QED  BY <1>3, <1>5 DEF Resolved, Resolving

LEMMA ResolvingLists ==
  ASSUME IInv, pc \in Resolving, pc' \in Resolving, UNCHANGED <<nfcaDevList, gDevList>>,
         field' = field
  PROVE  Lists' /\ ListTypeOK'
  BY DEF IInv, TypeOK, Lists, ListTypeOK, Device, Resolving, Early, Reporting

LEMMA AnswerTypes ==
  ASSUME IInv, NEW heard \in Hearings, NEW c \in SddAnswers(heard)
  PROVE  /\ c \in field /\ card[c] = Ready[cascadeLv]
         /\ cascadeLv \in 1..Len(c) /\ c[cascadeLv] \in Code
         /\ c \in Matching(cascadeLv, selReq)
  <1>1. c \in Matching(cascadeLv, selReq) /\ c \in field /\ card[c] = Ready[cascadeLv]
    BY DEF SddAnswers, Matching
  <1>2. cascadeLv \in 1..3
    BY DEF IInv, TypeOK, ResolutionTypeOK
  <1>3. cascadeLv <= Len(c) /\ Len(c) \in 1..3
    BY <1>1, <1>2, UidLengths DEF IInv, TypeOK, Levels
  <1> QED  BY <1>1, <1>2, <1>3, UidTypes DEF IInv, TypeOK

\* Wherever the collision is, the request stays within SDD_RES.
LEMMA CollideTypes ==
  ASSUME NEW bits \in Seq({0, 1}), Len(bits) = UidBits + BITS_IN_BYTE,
         NEW p \in 0..(UidBits + BITS_IN_BYTE - 1), backtrackCnt \in 0..BACKTRACKS,
         Collide(bits, p)
  PROVE  /\ selReq' \in Seq({0, 1}) /\ Len(selReq') <= UidBits + BITS_IN_BYTE
         /\ backtrackCnt' \in 0..BACKTRACKS
  <1> DEFINE whole == UidBits + BITS_IN_BYTE
  <1>1. UidBits \in Nat /\ whole \in Nat /\ UidBits <= whole
    BY Widths
  <1>2. ASSUME NEW n \in 0..whole
        PROVE  SubSeq(bits, 1, n) \in Seq({0, 1}) /\ Len(SubSeq(bits, 1, n)) = n
    BY <1>1, SubSeqProperties
  <1>3. CASE p > UidBits /\ backtrackCnt # 0
    <2>1. selReq' = SubSeq(bits, 1, UidBits) /\ backtrackCnt' = backtrackCnt - 1
      BY <1>3 DEF Collide
    <2> QED  BY <1>1, <1>2, <1>3, <2>1, PollerAssumption
  <1>4. CASE ~(p > UidBits /\ backtrackCnt # 0)
    <2>1. selReq' = Append(SubSeq(bits, 1, p), 1) /\ backtrackCnt' = backtrackCnt
      BY <1>4 DEF Collide
    <2>2. p \in 0..whole /\ p + 1 <= whole
      BY <1>1, Widths
    <2>3. Append(SubSeq(bits, 1, p), 1) \in Seq({0, 1}) /\ Len(Append(SubSeq(bits, 1, p), 1)) = p + 1
      BY <1>2, <2>2, AppendProperties
    <2> QED  BY <2>1, <2>2, <2>3
  <1> QED  BY <1>3, <1>4

LEMMA SddCollisionInv ==
  ASSUME IInv, SddCollision
  PROVE  IInv'
  <1>0. PICK heard \in Hearings : \E strong \in SddAnswers(heard) :
            /\ Sdd(heard)
            /\ \E p \in Noticed(SddAnswers(heard), strong, cascadeLv, Len(selReq)) :
                    Collide(SddRes(strong[cascadeLv]), p)
    BY DEF SddCollision
  <1>1. PICK strong \in SddAnswers(heard) :
            /\ Sdd(heard)
            /\ \E p \in Noticed(SddAnswers(heard), strong, cascadeLv, Len(selReq)) :
                    Collide(SddRes(strong[cascadeLv]), p)
    BY <1>0
  <1>2. /\ pc = "SDD" /\ pc' = "SDD"
        /\ UNCHANGED <<cascadeLv, nfcId1, selRes, nfcaDevList, gDevList, cntRRetrys>>
    BY <1>1 DEF SddCollision, Sdd, listVars
  <1>3. /\ CardsTypeOK' /\ Levels' /\ field' = field /\ air' = air
        /\ air # "lossy" => \A c \in field : card'[c] \in {card[c], Quit(c)}
    BY <1>1, Anticollides DEF IInv, TypeOK
  <1>4. SddRes(strong[cascadeLv]) \in Seq({0, 1})
        /\ Len(SddRes(strong[cascadeLv])) = UidBits + BITS_IN_BYTE
    BY AnswerTypes, SddResBits
  <1>5. PICK p \in Noticed(SddAnswers(heard), strong, cascadeLv, Len(selReq)) :
            Collide(SddRes(strong[cascadeLv]), p)
    BY <1>1
  <1>6. p \in 0..(UidBits + BITS_IN_BYTE - 1)
    <2>1. Len(selReq) \in Nat
      BY DEF IInv, TypeOK, ResolutionTypeOK
    <2>2. p \in Len(selReq) .. (UidBits + BITS_IN_BYTE - 1)
      BY DEF Noticed, Conflicts
    <2> QED  BY <2>1, <2>2, Widths
  <1>7. ResolutionTypeOK'
    <2>1. /\ selReq' \in Seq({0, 1}) /\ Len(selReq') <= UidBits + BITS_IN_BYTE
          /\ backtrackCnt' \in 0..BACKTRACKS
      BY <1>4, <1>5, <1>6, CollideTypes DEF IInv, TypeOK, ResolutionTypeOK
    <2> QED  BY <1>2, <2>1 DEF IInv, TypeOK, ResolutionTypeOK
  <1>8. FlagTypeOK'
    BY DEF SddCollision, FlagTypeOK
  <1>9. Lists' /\ ListTypeOK'
    BY <1>2, <1>3, ResolvingLists DEF Resolving
  <1>10. Requests'
    BY <1>2 DEF IInv, Requests, Resolving
  <1>11. Sound'
    BY <1>2, <1>3, Quits, ReadyStates, ResolvingSound
       DEF IInv, TypeOK, ResolutionTypeOK, Resolving
  <1>12. RealCards' /\ NoneTwice' /\ OwnAts'
    BY <1>2, <1>3, ListsKept DEF IInv
  <1> QED  BY <1>3, <1>7, <1>8, <1>9, <1>10, <1>11, <1>12 DEF IInv, TypeOK

LEMMA SddTimeoutInv ==
  ASSUME IInv, SddTimeout
  PROVE  IInv'
  <1>1. PICK heard \in Hearings : Sdd(heard)
    BY DEF SddTimeout
  <1>2. pc = "SDD" /\ pc' = "backtrack" /\ selReq # <<>> /\ backtrackCnt # 0
    BY <1>1 DEF SddTimeout, Sdd, CanBacktrack
  <1>3. UNCHANGED crVars /\ UNCHANGED <<nfcaDevList, gDevList, cntRRetrys>>
    BY DEF SddTimeout, listVars
  <1>4. /\ CardsTypeOK' /\ Levels' /\ field' = field /\ air' = air
        /\ air # "lossy" => \A c \in field : card'[c] \in {card[c], Quit(c)}
    BY <1>1, Anticollides DEF IInv, TypeOK
  <1>5. ResolutionTypeOK'
    BY <1>2, <1>3 DEF IInv, TypeOK, ResolutionTypeOK, crVars
  <1>6. FlagTypeOK'
    BY <1>3 DEF IInv, TypeOK, FlagTypeOK, crVars
  <1>7. Lists' /\ ListTypeOK'
    BY <1>2, <1>3, <1>4, ResolvingLists DEF Resolving
  <1>8. Requests'
    BY <1>2, <1>3 DEF IInv, Requests, Resolving, crVars
  <1>9. Sound'
    BY <1>2, <1>3, <1>4, Quits, ReadyStates, ResolvingSound
       DEF IInv, TypeOK, ResolutionTypeOK, Resolving, crVars
  <1>10. RealCards' /\ NoneTwice' /\ OwnAts'
    BY <1>3, <1>4, ListsKept DEF IInv
  <1> QED  BY <1>4, <1>5, <1>6, <1>7, <1>8, <1>9, <1>10 DEF IInv, TypeOK

\* Going back one bit: REQA brings cards back to the first level only.
LEMMA BacktrackInv ==
  ASSUME IInv, Backtrack
  PROVE  IInv'
  <1>1. /\ pc = "backtrack" /\ pc' = "SDD" /\ backtrackCnt' = backtrackCnt - 1
        /\ selReq' = Append(Front(selReq), 1 - Last(selReq))
        /\ UNCHANGED <<cascadeLv, nfcId1, selRes, nfcaDevList, gDevList, cntRRetrys>>
    BY DEF Backtrack, listVars
  <1>2. PICK heard \in Hearings : CheckPresence(REQA, heard)
    BY DEF Backtrack
  <1>3. /\ CardsTypeOK' /\ Levels' /\ field' = field /\ air' = air
        /\ air # "lossy" =>
                \A c \in field : card'[c] = IF card[c] \in REQA THEN "READY1" ELSE Quit(c)
    BY <1>2, Wakes DEF IInv, TypeOK
  <1>4. selReq \in Seq({0, 1}) /\ selReq # <<>> /\ Len(selReq) <= UidBits + BITS_IN_BYTE
        /\ backtrackCnt \in 0..BACKTRACKS /\ backtrackCnt # 0
    BY <1>1 DEF IInv, TypeOK, ResolutionTypeOK, Requests
  <1>5. selReq' \in Seq({0, 1}) /\ Len(selReq') = Len(selReq)
    <2>1. /\ Front(selReq) \in Seq({0, 1}) /\ Len(Front(selReq)) = Len(selReq) - 1
          /\ Last(selReq) \in {0, 1} /\ Len(selReq) \in Nat \ {0}
      BY <1>4, FrontAndLast
    <2>2. 1 - Last(selReq) \in {0, 1}
      BY <2>1
    <2> QED  BY <1>1, <2>1, <2>2, AppendProperties
  <1>6. backtrackCnt' \in 0..BACKTRACKS
    BY <1>1, <1>4, PollerAssumption
  <1>7. ResolutionTypeOK'
    BY <1>1, <1>4, <1>5, <1>6 DEF IInv, TypeOK, ResolutionTypeOK
  <1>8. FlagTypeOK'
    BY DEF Backtrack, FlagTypeOK
  <1>9. Lists' /\ ListTypeOK'
    BY <1>1, <1>3, ResolvingLists DEF Resolving
  <1>10. Requests'
    BY <1>1 DEF IInv, Requests, Resolving
  <1>11. Sound'
    <2>1. cascadeLv \in 1..3
      BY DEF IInv, TypeOK, ResolutionTypeOK
    <2>2. ASSUME air # "lossy", NEW c \in field
          PROVE  /\ card'[c] = Ready[cascadeLv] => cascadeLv = 1
                 /\ card[c] = "HALT" => card'[c] = "HALT"
      <3>1. card'[c] = IF card[c] \in REQA THEN "READY1" ELSE Quit(c)
        BY <1>3, <2>2
      <3>2. Quit(c) \in {"IDLE", "HALT", "ISODEP"} /\ (card[c] = "HALT" => Quit(c) = "HALT")
        BY Quits DEF IInv, TypeOK
      <3> QED  BY <2>1, <3>1, <3>2, ReadyStates DEF REQA, Ready
    <2> QED  BY <1>1, <1>3, <2>2, ResolvingSound DEF Resolving
  <1>12. RealCards' /\ NoneTwice' /\ OwnAts'
    BY <1>1, <1>3, ListsKept DEF IInv
  <1> QED  BY <1>3, <1>7, <1>8, <1>9, <1>10, <1>11, <1>12 DEF IInv, TypeOK

\* The resolution ends with an error: nothing is reported.
LEMMA FailInv ==
  ASSUME IInv, pc \in Resolving, Fail, UNCHANGED <<crVars, listVars>>,
         CardsTypeOK', Levels', field' = field, air' = air
  PROVE  IInv'
  <1>1. pc' = "deactivate" /\ nfcaDevList' = <<>> /\ gDevList' = <<>> /\ cntRRetrys' = cntRRetrys
    BY DEF Fail, IInv, Lists, Resolving, Reporting, listVars
  <1>2. ResolutionTypeOK'
    BY <1>1 DEF IInv, TypeOK, ResolutionTypeOK, crVars
  <1>3. FlagTypeOK'
    BY DEF IInv, TypeOK, FlagTypeOK, crVars
  <1>4. ListTypeOK'
    BY <1>1, PollerAssumption, EmptySeq DEF ListTypeOK
  <1>5. Requests' /\ Lists' /\ Sound'
    BY <1>1 DEF Requests, Lists, Sound, Agrees, Resolved, Asleep, Resolving, Early, Reporting,
           Devices
  <1>6. RealCards' /\ NoneTwice' /\ OwnAts'
    BY <1>1 DEF RealCards, NoneTwice, OwnAts, Devices
  <1> QED  BY <1>2, <1>3, <1>4, <1>5, <1>6 DEF IInv, TypeOK

LEMMA SelHeard ==
  ASSUME IInv, NEW heard \in Hearings, Sel(heard)
  PROVE  /\ pc = "SEL" /\ cascadeLv \in 1..3
         /\ selReq \in Seq({0, 1}) /\ Len(selReq) = UidBits + BITS_IN_BYTE
         /\ CardsTypeOK' /\ Levels' /\ field' = field /\ air' = air
         /\ air # "lossy" =>
                \A c \in field : card'[c] = IF c \notin Matching(cascadeLv, selReq) THEN Quit(c)
                                            ELSE IF cascadeLv < Len(c) THEN Ready[cascadeLv + 1]
                                            ELSE "ACTIVE"
  <1>1. /\ pc = "SEL" /\ cascadeLv \in 1..3
        /\ selReq \in Seq({0, 1}) /\ Len(selReq) = UidBits + BITS_IN_BYTE
    BY DEF Sel, IInv, TypeOK, ResolutionTypeOK, Requests
  <1>2. CardsTypeOK /\ Levels
    BY DEF IInv, TypeOK
  <1> QED  BY <1>1, <1>2, Selects

LEMMA FailsInv ==
  ASSUME IInv, SddFails \/ SelFails
  PROVE  IInv'
  <1>1. CASE SddFails
    <2>1. PICK heard \in Hearings : Sdd(heard)
      BY <1>1 DEF SddFails
    <2>2. pc \in Resolving
      BY <2>1 DEF Sdd, Resolving
    <2>3. CardsTypeOK' /\ Levels' /\ field' = field /\ air' = air
      BY <2>1, Anticollides DEF IInv, TypeOK
    <2> QED  BY <1>1, <2>2, <2>3, FailInv DEF SddFails
  <1>2. CASE SelFails
    <2>1. PICK heard \in Hearings : Sel(heard)
      BY <1>2 DEF SelFails
    <2>2. pc \in Resolving
      BY <2>1 DEF Sel, Resolving
    <2>3. CardsTypeOK' /\ Levels' /\ field' = field /\ air' = air
      BY <2>1, SelHeard
    <2> QED  BY <1>2, <2>2, <2>3, FailInv DEF SelFails
  <1> QED  BY <1>1, <1>2

LEMMA SddCompleteInv ==
  ASSUME IInv, SddComplete
  PROVE  IInv'
  <1>1. PICK heard \in Hearings : \E strong \in SddAnswers(heard) :
            Sdd(heard) /\ selReq' = SddRes(strong[cascadeLv])
    BY DEF SddComplete
  <1>2. PICK strong \in SddAnswers(heard) : Sdd(heard) /\ selReq' = SddRes(strong[cascadeLv])
    BY <1>1
  <1>3. /\ pc = "SDD" /\ pc' = "SEL"
        /\ UNCHANGED <<cascadeLv, nfcId1, selRes, backtrackCnt, nfcaDevList, gDevList, cntRRetrys>>
    BY <1>2 DEF SddComplete, Sdd, listVars
  <1>4. /\ CardsTypeOK' /\ Levels' /\ field' = field /\ air' = air
        /\ air # "lossy" => \A c \in field : card'[c] \in {card[c], Quit(c)}
    BY <1>2, Anticollides DEF IInv, TypeOK
  <1>5. selReq' \in Seq({0, 1}) /\ Len(selReq') = UidBits + BITS_IN_BYTE
    BY <1>2, AnswerTypes, SddResBits
  <1>6. ResolutionTypeOK'
    BY <1>3, <1>5, Widths DEF IInv, TypeOK, ResolutionTypeOK
  <1>7. FlagTypeOK'
    BY DEF SddComplete, IInv, TypeOK, FlagTypeOK
  <1>8. Lists' /\ ListTypeOK'
    BY <1>3, <1>4, ResolvingLists DEF Resolving
  <1>9. Requests'
    BY <1>3, <1>5 DEF IInv, Requests, Resolving
  <1>10. Sound'
    BY <1>3, <1>4, Quits, ReadyStates, ResolvingSound
       DEF IInv, TypeOK, ResolutionTypeOK, Resolving
  <1>11. RealCards' /\ NoneTwice' /\ OwnAts'
    BY <1>3, <1>4, ListsKept DEF IInv
  <1> QED  BY <1>4, <1>6, <1>7, <1>8, <1>9, <1>10, <1>11 DEF IInv, TypeOK

-----------------------------------------------------------------------------
(***************************************************************************)
(* Selection.                                                              *)
(***************************************************************************)

\* The card that answers SEL_REQ adds its code to those collected.
LEMMA SelectedCode ==
  ASSUME IInv, NEW heard \in Hearings, Sel(heard), NEW c \in SddAnswers(heard),
         nfcId1' = Append(nfcId1, Code1)
  PROVE  /\ c \in field /\ c \in Matching(cascadeLv, selReq) /\ cascadeLv <= Len(c)
         /\ Len(c) \in 1..3 /\ c \in Seq(Code)
         /\ FirstByte(selReq) = SDD_CT <=> cascadeLv < Len(c)
         /\ nfcId1' \in Seq(Code) /\ Len(nfcId1') = cascadeLv
         /\ \A k \in 1..(cascadeLv - 1) : nfcId1'[k] = nfcId1[k]
         /\ nfcId1'[cascadeLv] = Code1
         /\ \A d \in Matching(cascadeLv, selReq) : d[cascadeLv] = Code1
  <1>1. /\ pc = "SEL" /\ cascadeLv \in 1..3
        /\ selReq \in Seq({0, 1}) /\ Len(selReq) = UidBits + BITS_IN_BYTE
    BY SelHeard
  <1>2. CardsTypeOK /\ Levels
    BY DEF IInv, TypeOK
  <1>3. /\ c \in field /\ c \in Matching(cascadeLv, selReq) /\ cascadeLv <= Len(c)
        /\ FirstByte(selReq) = SDD_CT <=> cascadeLv < Len(c)
    BY <1>1, <1>2, AnswerTypes, Matched
  <1>4. \A d \in Matching(cascadeLv, selReq) : d[cascadeLv] = Code1
    BY <1>1, <1>2, Matched DEF Code1
  <1>5. Code1 \in Code
    BY <1>3, <1>4, AnswerTypes
  <1>6. nfcId1 \in Seq(Code) /\ Len(nfcId1) = cascadeLv - 1
    BY <1>1 DEF IInv, TypeOK, ResolutionTypeOK, Requests, Resolving
  <1>7. /\ nfcId1' \in Seq(Code) /\ Len(nfcId1') = cascadeLv
        /\ \A k \in 1..(cascadeLv - 1) : nfcId1'[k] = nfcId1[k]
        /\ nfcId1'[cascadeLv] = Code1
    BY <1>1, <1>5, <1>6, AppendProperties
  <1>8. Len(c) \in 1..3 /\ c \in Seq(Code)
    BY <1>2, <1>3, UidTypes
  <1> QED  BY <1>3, <1>4, <1>7, <1>8

LEMMA SelResInv ==
  ASSUME IInv, SelRes
  PROVE  IInv'
  <1>1. PICK heard \in Hearings : \E c \in SddAnswers(heard) : Sel(heard) /\ selRes' = TypeOf(c)
    BY DEF SelRes
  <1>2. PICK c \in SddAnswers(heard) : Sel(heard) /\ selRes' = TypeOf(c)
    BY <1>1
  <1>3. /\ nfcId1' = Append(nfcId1, Code1)
        /\ NextLevel \/ LastLevel
        /\ UNCHANGED <<collPending, doBacktrack, backtrackCnt, nfcaDevList, gDevList, cntRRetrys>>
    BY DEF SelRes, listVars
  <1>4. /\ pc = "SEL" /\ cascadeLv \in 1..3
        /\ selReq \in Seq({0, 1}) /\ Len(selReq) = UidBits + BITS_IN_BYTE
        /\ CardsTypeOK' /\ Levels' /\ field' = field /\ air' = air
    BY <1>2, SelHeard
  <1>5. /\ c \in field /\ c \in Matching(cascadeLv, selReq) /\ cascadeLv <= Len(c)
        /\ Len(c) \in 1..3 /\ c \in Seq(Code)
        /\ FirstByte(selReq) = SDD_CT <=> cascadeLv < Len(c)
        /\ nfcId1' \in Seq(Code) /\ Len(nfcId1') = cascadeLv
        /\ \A k \in 1..(cascadeLv - 1) : nfcId1'[k] = nfcId1[k]
        /\ nfcId1'[cascadeLv] = Code1
        /\ \A d \in Matching(cascadeLv, selReq) : d[cascadeLv] = Code1
    BY <1>2, <1>3, SelectedCode
  <1>6. \/ /\ cascadeLv < Len(c) /\ cascadeLv' = cascadeLv + 1 /\ selReq' = <<>> /\ pc' = "SDD"
        \/ /\ cascadeLv = Len(c) /\ cascadeLv' = cascadeLv /\ selReq' = selReq /\ pc' = "done"
    BY <1>3, <1>4, <1>5 DEF NextLevel, LastLevel
  <1>7. cascadeLv' \in 1..3 /\ cascadeLv <= cascadeLv'
    BY <1>4, <1>5, <1>6
  <1>8. ResolutionTypeOK'
    <2>1. selReq' \in Seq({0, 1}) /\ Len(selReq') <= UidBits + BITS_IN_BYTE
      <3>1. CASE selReq' = <<>>
        BY <3>1, NothingSent
      <3>2. CASE selReq' = selReq
        BY <3>2 DEF IInv, TypeOK, ResolutionTypeOK
      <3> QED  BY <1>6, <3>1, <3>2
    <2>2. selRes' \in Type
      BY <1>2 DEF TypeOf, Type
    <2>3. pc' \in {"SDD", "done"}
      BY <1>6
    <2>4. backtrackCnt' \in 0..BACKTRACKS /\ cntRRetrys' \in 0..RATS_RETRIES
      BY <1>3 DEF IInv, TypeOK, ResolutionTypeOK
    <2> QED  BY <1>5, <1>7, <2>1, <2>2, <2>3, <2>4 DEF ResolutionTypeOK
  <1>9. FlagTypeOK'
    BY <1>3 DEF IInv, TypeOK, FlagTypeOK
  <1>10. ListTypeOK'
    BY <1>3, <1>4 DEF IInv, TypeOK, ListTypeOK, Device
  <1>11. Lists'
    BY <1>3, <1>4, <1>6 DEF IInv, Lists, Resolving, Early, Reporting
  <1>12. Requests'
    BY <1>4, <1>5, <1>6 DEF Requests, Resolving
  <1>13. RealCards' /\ NoneTwice' /\ OwnAts'
    BY <1>3, <1>4, ListsKept DEF IInv
  <1>14. Sound'
    <2> SUFFICES ASSUME air # "lossy"
                 PROVE  Agrees' /\ Resolved' /\ Asleep'
      BY <1>4 DEF Sound
    <2>1. \A d \in field :
              card'[d] = IF d \notin Matching(cascadeLv, selReq) THEN Quit(d)
                         ELSE IF cascadeLv < Len(d) THEN Ready[cascadeLv + 1] ELSE "ACTIVE"
      BY <1>2, SelHeard
    <2>2. \A d \in Matching(cascadeLv, selReq) :
              \A k \in 1..(cascadeLv - 1) : d[k] = nfcId1[k]
      BY <1>4 DEF Matching, IInv, Sound, Agrees, Resolving
    <2>3. \A d \in Matching(cascadeLv, selReq) : \A k \in 1..cascadeLv : d[k] = nfcId1'[k]
      BY <1>4, <1>5, <2>2
    <2>4. \A d \in field : /\ Quit(d) \in {"IDLE", "HALT", "ISODEP"}
                           /\ card[d] = "HALT" => Quit(d) = "HALT"
      BY Quits DEF IInv, TypeOK
    <2>5. Agrees'
      <3> SUFFICES ASSUME pc' = "SDD", NEW d \in field, card'[d] = Ready[cascadeLv + 1]
                   PROVE  \A k \in 1..cascadeLv : d[k] = nfcId1'[k]
        BY <1>4, <1>6 DEF Agrees, Resolving
      <3>1. cascadeLv + 1 \in 1..3
        BY <1>6, <1>7
      <3>2. d \in Matching(cascadeLv, selReq)
        BY <2>1, <2>4, <3>1, ReadyStates
      <3> QED  BY <2>3, <3>2
    <2>6. Resolved'
      <3> SUFFICES ASSUME pc' = "done"
                   PROVE  nfcId1' \in field /\ card'[nfcId1'] = "ACTIVE" /\ selRes' = TypeOf(nfcId1')
        BY <1>4, <1>6 DEF Resolved
      <3>1. cascadeLv = Len(c)
        BY <1>6
      <3>2. c = nfcId1'
        BY <1>5, <2>3, <3>1, SeqEqual
      <3>3. card'[c] = "ACTIVE"
        BY <1>4, <1>5, <2>1, <3>1
      <3> QED  BY <1>2, <1>5, <3>2, <3>3
    <2>7. Asleep'
      <3>1. Asleep /\ RealCards
        BY DEF IInv, Sound
      <3>2. \A d \in field : card[d] = "HALT" => card'[d] = "HALT"
        BY <1>4, <2>1, <2>4, ReadyStates DEF Matching
      <3>3. \A i \in Devices' : nfcaDevList'[i].isSleep => card'[nfcaDevList'[i].nfcId1] = "HALT"
        BY <1>3, <3>1, <3>2, StillAsleep DEF Asleep
      <3> QED  BY <1>3, <1>4, <1>6, <3>1, <3>3 DEF Asleep, Resolving, Devices
    <2> QED  BY <2>5, <2>6, <2>7
  <1> QED  BY <1>4, <1>8, <1>9, <1>10, <1>11, <1>12, <1>13, <1>14 DEF IInv, TypeOK

-----------------------------------------------------------------------------
(***************************************************************************)
(* The devices resolved.                                                   *)
(***************************************************************************)

LEMMA ListedType ==
  ASSUME IInv, NEW asleep \in BOOLEAN
  PROVE  Listed(asleep) \in NfcaDevice
  BY DEF Listed, NfcaDevice, IInv, TypeOK, ResolutionTypeOK

\* The device just resolved is another than those before: it is selected, they sleep.
LEMMA AssignInv ==
  ASSUME IInv, Assign
  PROVE  IInv'
  <1> DEFINE new == Listed(FALSE)
             n   == Len(nfcaDevList)
  <1>1. /\ pc = "done" /\ nfcaDevList' = Append(nfcaDevList, new)
        /\ UNCHANGED <<cardVars, cascadeLv, selReq, nfcId1, selRes, backtrackCnt,
                       gDevList, cntRRetrys>>
    BY DEF Assign, listVars
  <1>2. field' = field /\ card' = card /\ air' = air
    BY <1>1 DEF field, cardVars
  <1>3. new \in NfcaDevice /\ new.nfcId1 = nfcId1 /\ new.type = selRes /\ new.isSleep = FALSE
    BY ListedType DEF Listed
  <1>4. /\ nfcaDevList \in Seq(NfcaDevice) /\ n \in Nat /\ n < RFAL_POLLER_DEVICES
        /\ gDevList = <<>>
    BY <1>1 DEF IInv, TypeOK, ListTypeOK, Lists, Reporting
  <1> HIDE DEF new, n
  <1>5. /\ nfcaDevList' \in Seq(NfcaDevice) /\ Len(nfcaDevList') = n + 1
        /\ \A i \in 1..n : nfcaDevList'[i] = nfcaDevList[i]
        /\ nfcaDevList'[n + 1] = new
    BY <1>1, <1>3, <1>4, AppendProperties DEF n
  <1>6. pc' \in {"devSleep", "copy"}
    BY DEF Assign
  <1>7. CardsTypeOK' /\ Levels'
    BY <1>2 DEF IInv, TypeOK, CardsTypeOK, Levels, field
  <1>8. ResolutionTypeOK'
    BY <1>1, <1>6 DEF IInv, TypeOK, ResolutionTypeOK
  <1>9. FlagTypeOK'
    BY DEF Assign, IInv, TypeOK, FlagTypeOK
  <1>10. ListTypeOK'
    <2>1. n + 1 <= RFAL_POLLER_DEVICES
      BY <1>4, PollerAssumption
    <2> QED  BY <1>1, <1>4, <1>5, <2>1, EmptySeq DEF ListTypeOK
  <1>11. Requests'
    BY <1>6 DEF Requests, Resolving
  <1>12. pc' = "devSleep" => n + 1 < RFAL_POLLER_DEVICES
    BY <1>5 DEF Assign
  <1>13. Lists'
    BY <1>1, <1>4, <1>5, <1>6, <1>12, EmptySeq DEF Lists, Resolving, Early, Reporting
  <1>14. Devices = 1..n /\ Devices' = 1..(n + 1)
    BY <1>5 DEF Devices, n
  <1>15. ASSUME air # "lossy"
         PROVE  /\ nfcId1 \in field /\ card[nfcId1] = "ACTIVE" /\ selRes = TypeOf(nfcId1)
                /\ \A i \in 1..n : /\ nfcaDevList[i].isSleep
                                   /\ nfcaDevList[i].nfcId1 \in field
                                   /\ card[nfcaDevList[i].nfcId1] = "HALT"
                                   /\ nfcaDevList[i].type = TypeOf(nfcaDevList[i].nfcId1)
    BY <1>1, <1>14, <1>15 DEF IInv, Sound, Resolved, Asleep, RealCards
  <1>16. ASSUME NEW i \in 1..(n + 1)
         PROVE  i \in 1..n \/ (i = n + 1 /\ nfcaDevList'[i] = new)
    BY <1>4, <1>5, <1>16
  <1>17. Sound'
    <2> SUFFICES ASSUME air # "lossy" PROVE Agrees' /\ Resolved' /\ Asleep'
      BY <1>2 DEF Sound
    <2>1. Agrees'
      BY <1>6 DEF Agrees, Resolving
    <2>2. Resolved'
      BY <1>1, <1>2, <1>15 DEF Resolved
    <2>3. \A i \in 1..(n + 1) : nfcaDevList'[i].isSleep => card'[nfcaDevList'[i].nfcId1] = "HALT"
      BY <1>2, <1>3, <1>5, <1>15, <1>16
    <2>4. \A i \in 1..(n + 1) : i # n + 1 => nfcaDevList'[i].isSleep
      BY <1>5, <1>15, <1>16
    <2>5. nfcaDevList'[n + 1].nfcId1 = nfcId1'
      BY <1>1, <1>3, <1>5
    <2> QED  BY <1>5, <1>6, <1>14, <2>1, <2>2, <2>3, <2>4, <2>5 DEF Asleep, Resolving
  <1>18. RealCards'
    <2> SUFFICES ASSUME air # "lossy", NEW i \in 1..(n + 1)
                 PROVE  /\ nfcaDevList'[i].nfcId1 \in field
                        /\ nfcaDevList'[i].type = TypeOf(nfcaDevList'[i].nfcId1)
      BY <1>2, <1>14 DEF RealCards
    <2> QED  BY <1>3, <1>5, <1>15, <1>16
  <1>19. NoneTwice'
    <2> SUFFICES ASSUME air # "lossy", NEW i \in 1..(n + 1), NEW j \in 1..(n + 1),
                        nfcaDevList'[i].nfcId1 = nfcaDevList'[j].nfcId1
                 PROVE  i = j
      BY <1>2, <1>14 DEF NoneTwice
    <2>1. CASE i \in 1..n /\ j \in 1..n
      BY <1>5, <1>14, <2>1 DEF IInv, NoneTwice
    <2>2. CASE i = n + 1 /\ j \in 1..n
      BY <1>3, <1>5, <1>15, <2>2
    <2>3. CASE i \in 1..n /\ j = n + 1
      BY <1>3, <1>5, <1>15, <2>3
    <2> QED  BY <1>16, <2>1, <2>2, <2>3
  <1>20. OwnAts'
    BY <1>1, <1>4 DEF OwnAts
  <1> QED  BY <1>7, <1>8, <1>9, <1>10, <1>11, <1>13, <1>17, <1>18, <1>19, <1>20 DEF IInv, TypeOK

\* The one that was selected goes to sleep; those before sleep on.
LEMMA DevSleepInv ==
  ASSUME IInv, DevSleep
  PROVE  IInv'
  <1> DEFINE old == nfcaDevList[Len(nfcaDevList)]
             new == Listed(TRUE)
             n   == Len(nfcaDevList) - 1
  <1>1. /\ pc = "devSleep" /\ pc' = "others" /\ Sleep
        /\ nfcaDevList' = Append(Front(nfcaDevList), new)
        /\ UNCHANGED <<cascadeLv, selReq, nfcId1, selRes, backtrackCnt, gDevList, cntRRetrys>>
    BY DEF DevSleep, crVars, listVars
  <1>2. /\ CardsTypeOK' /\ Levels' /\ field' = field /\ air' = air
        /\ air # "lossy" =>
               \A c \in field : card'[c] = IF card[c] = "ACTIVE" THEN "HALT" ELSE Quit(c)
    BY <1>1, Sleeps DEF IInv, TypeOK
  <1>3. new \in NfcaDevice /\ new.nfcId1 = nfcId1 /\ new.type = selRes /\ new.isSleep = TRUE
    BY ListedType DEF Listed
  <1>4. /\ nfcaDevList \in Seq(NfcaDevice) /\ nfcaDevList # <<>> /\ gDevList = <<>>
        /\ n + 1 < RFAL_POLLER_DEVICES
    BY <1>1 DEF IInv, TypeOK, ListTypeOK, Lists, Reporting
  <1>5. /\ Front(nfcaDevList) \in Seq(NfcaDevice) /\ Len(Front(nfcaDevList)) = n
        /\ \A i \in 1..n : Front(nfcaDevList)[i] = nfcaDevList[i]
        /\ n \in Nat /\ Len(nfcaDevList) = n + 1
    BY <1>4, FrontAndLast
  <1> HIDE DEF new, n
  <1>6. /\ nfcaDevList' \in Seq(NfcaDevice) /\ Len(nfcaDevList') = n + 1
        /\ \A i \in 1..n : nfcaDevList'[i] = nfcaDevList[i]
        /\ nfcaDevList'[n + 1] = new
    BY <1>1, <1>3, <1>5, AppendProperties
  <1>7. ResolutionTypeOK'
    BY <1>1 DEF IInv, TypeOK, ResolutionTypeOK
  <1>8. FlagTypeOK'
    BY DEF DevSleep, IInv, TypeOK, FlagTypeOK, crVars
  <1>9. ListTypeOK'
    <2>1. n + 1 <= RFAL_POLLER_DEVICES
      BY <1>4, <1>5, PollerAssumption
    <2> QED  BY <1>1, <1>4, <1>5, <1>6, <2>1, EmptySeq DEF ListTypeOK
  <1>10. Requests'
    BY <1>1 DEF Requests, Resolving
  <1>11. Lists'
    BY <1>1, <1>4, <1>5, <1>6, EmptySeq DEF Lists, Resolving, Early, Reporting
  <1>12. Devices = 1..(n + 1) /\ Devices' = 1..(n + 1)
    BY <1>5, <1>6 DEF Devices
  <1>13. ASSUME air # "lossy"
         PROVE  /\ nfcId1 \in field /\ card[nfcId1] = "ACTIVE" /\ selRes = TypeOf(nfcId1)
                /\ nfcaDevList[n + 1].nfcId1 = nfcId1
                /\ \A i \in 1..n : /\ nfcaDevList[i].isSleep
                                   /\ nfcaDevList[i].nfcId1 \in field
                                   /\ card[nfcaDevList[i].nfcId1] = "HALT"
                                   /\ nfcaDevList[i].type = TypeOf(nfcaDevList[i].nfcId1)
    <2>1. \A i \in 1..n : i \in 1..(n + 1) /\ i # n + 1
      BY <1>5
    <2> QED  BY <1>1, <1>5, <1>12, <1>13, <2>1 DEF IInv, Sound, Resolved, Asleep, RealCards
  <1>14. ASSUME NEW i \in 1..(n + 1)
         PROVE  i \in 1..n \/ (i = n + 1 /\ nfcaDevList'[i] = new)
    BY <1>5, <1>6, <1>14
  <1>15. \A i \in 1..(n + 1) : air # "lossy" => nfcaDevList'[i].nfcId1 = nfcaDevList[i].nfcId1
    BY <1>3, <1>6, <1>13, <1>14
  <1>16. Sound'
    <2> SUFFICES ASSUME air # "lossy" PROVE Agrees' /\ Resolved' /\ Asleep'
      BY <1>2 DEF Sound
    <2>1. \A i \in 1..n : card'[nfcaDevList[i].nfcId1] = "HALT"
      <3> SUFFICES ASSUME NEW i \in 1..n
                   PROVE  card'[nfcaDevList[i].nfcId1] = "HALT"
        OBVIOUS
      <3>1. nfcaDevList[i].nfcId1 \in field /\ card[nfcaDevList[i].nfcId1] = "HALT"
        BY <1>13
      <3> QED  BY <1>2, <3>1, Quits DEF IInv, TypeOK
    <2>2. card'[nfcId1] = "HALT"
      BY <1>2, <1>13
    <2>3. \A i \in 1..(n + 1) : nfcaDevList'[i].isSleep /\ card'[nfcaDevList'[i].nfcId1] = "HALT"
      BY <1>3, <1>6, <1>13, <1>14, <2>1, <2>2
    <2> QED  BY <1>1, <1>12, <2>3 DEF Agrees, Resolved, Asleep, Resolving
  <1>17. RealCards'
    <2> SUFFICES ASSUME air # "lossy", NEW i \in 1..(n + 1)
                 PROVE  /\ nfcaDevList'[i].nfcId1 \in field
                        /\ nfcaDevList'[i].type = TypeOf(nfcaDevList'[i].nfcId1)
      BY <1>2, <1>12 DEF RealCards
    <2> QED  BY <1>3, <1>6, <1>13, <1>14
  <1>18. NoneTwice'
    BY <1>2, <1>12, <1>15 DEF IInv, NoneTwice
  <1>19. OwnAts'
    BY <1>1, <1>4 DEF OwnAts
  <1> QED  BY <1>2, <1>7, <1>8, <1>9, <1>10, <1>11, <1>16, <1>17, <1>18, <1>19 DEF IInv, TypeOK

LEMMA OthersInv ==
  ASSUME IInv, Others
  PROVE  IInv'
  <1>1. /\ pc = "others" /\ \E heard \in Hearings : CheckPresence(REQA, heard)
        /\ UNCHANGED <<nfcaDevList, gDevList, cntRRetrys>>
        /\ (pc' = "SDD" /\ StartSingle) \/ (pc' = "copy" /\ NoMore)
    BY DEF Others, listVars
  <1>2. PICK heard \in Hearings : CheckPresence(REQA, heard)
    BY <1>1
  <1>3. /\ CardsTypeOK' /\ Levels' /\ field' = field /\ air' = air
        /\ air # "lossy" =>
                \A c \in field : card'[c] = IF card[c] \in REQA THEN "READY1" ELSE Quit(c)
    BY <1>2, Wakes DEF IInv, TypeOK
  <1>4. /\ nfcaDevList # <<>> /\ gDevList = <<>> /\ nfcaDevList \in Seq(NfcaDevice)
        /\ Len(nfcaDevList) < RFAL_POLLER_DEVICES
    BY <1>1 DEF IInv, TypeOK, ListTypeOK, Lists, Reporting
  <1>5. ResolutionTypeOK' /\ FlagTypeOK'
    <2>1. CASE pc' = "SDD" /\ StartSingle
      BY <1>1, <2>1, StartSingleTypes DEF IInv
    <2>2. CASE pc' = "copy" /\ NoMore
      <3>1. ResolutionTypeOK'
        BY <1>1, <2>2 DEF IInv, TypeOK, ResolutionTypeOK, NoMore
      <3>2. FlagTypeOK'
        BY <2>2 DEF IInv, TypeOK, FlagTypeOK, NoMore
      <3> QED  BY <3>1, <3>2
    <2> QED  BY <1>1, <2>1, <2>2
  <1>6. ListTypeOK'
    BY <1>1, <1>3 DEF IInv, TypeOK, ListTypeOK, Device
  <1>7. Requests'
    <2>1. CASE pc' = "SDD" /\ StartSingle
      <3>1. cascadeLv' = 1 /\ Len(nfcId1') = 0
        BY <1>1, <2>1, StartSingleTypes DEF IInv
      <3> QED  BY <2>1, <3>1 DEF Requests
    <2>2. CASE pc' = "copy" /\ NoMore
      BY <2>2 DEF Requests, Resolving
    <2> QED  BY <1>1, <2>1, <2>2
  <1>8. 0 < Len(nfcaDevList) /\ Len(<<>>) = 0
    BY <1>4, EmptySeq
  <1>9. Lists'
    BY <1>1, <1>4, <1>8 DEF Lists, Resolving, Early, Reporting
  <1>10. Sound'
    <2> SUFFICES ASSUME air # "lossy" PROVE Agrees' /\ Resolved' /\ Asleep'
      BY <1>3 DEF Sound
    <2>1. Agrees'
      <3> SUFFICES ASSUME pc' = "SDD", StartSingle
                   PROVE  \A k \in 1..(cascadeLv' - 1) : FALSE
        BY <1>1 DEF Agrees, Resolving
      <3> QED  BY DEF StartSingle
    <2>2. Resolved'
      BY <1>1 DEF Resolved
    <2>3. Asleep /\ RealCards
      BY DEF IInv, Sound
    <2>4. \A d \in field : card[d] = "HALT" => card'[d] = "HALT"
      BY <1>3, Quits DEF REQA, IInv, TypeOK
    <2>5. \A i \in Devices' : nfcaDevList'[i].isSleep => card'[nfcaDevList'[i].nfcId1] = "HALT"
      BY <1>1, <2>3, <2>4, StillAsleep DEF Asleep
    <2>6. \A i \in Devices' : nfcaDevList'[i].isSleep
      BY <1>1, <2>3 DEF Asleep, Devices
    <2> QED  BY <1>1, <2>1, <2>2, <2>5, <2>6 DEF Asleep
  <1>11. RealCards' /\ NoneTwice' /\ OwnAts'
    BY <1>1, <1>3, ListsKept DEF IInv
  <1> QED  BY <1>3, <1>5, <1>6, <1>7, <1>9, <1>10, <1>11 DEF IInv, TypeOK

-----------------------------------------------------------------------------
(***************************************************************************)
(* The devices reported.                                                   *)
(***************************************************************************)

\* The part of the invariant that is not about gDevList.
ReportingInv ==
    /\ CardsTypeOK /\ ResolutionTypeOK /\ FlagTypeOK
    /\ Levels /\ Requests /\ Sound /\ RealCards /\ NoneTwice

LEMMA ReportingKept ==
  ASSUME IInv, pc \in {"copy", "RATS"}, pc' \in Reporting,
         UNCHANGED <<crVars, nfcaDevList>>, cntRRetrys' \in 0..RATS_RETRIES,
         CardsTypeOK', Levels', field' = field, air' = air,
         air # "lossy" => \A c \in field : card[c] = "HALT" => card'[c] = "HALT"
  PROVE  ReportingInv'
  <1>1. ResolutionTypeOK'
    BY DEF IInv, TypeOK, ResolutionTypeOK, crVars, Reporting
  <1>2. FlagTypeOK'
    BY DEF IInv, TypeOK, FlagTypeOK, crVars
  <1>3. Requests'
    BY DEF Requests, Resolving, Reporting
  <1>4. Sound'
    <2> SUFFICES ASSUME air # "lossy" PROVE Agrees' /\ Resolved' /\ Asleep'
      BY DEF Sound
    <2>1. \A i \in Devices' : nfcaDevList'[i].isSleep => card'[nfcaDevList'[i].nfcId1] = "HALT"
      BY StillAsleep DEF IInv, Sound, Asleep
    <2> QED  BY <2>1 DEF Agrees, Resolved, Asleep, Resolving, Reporting
  <1>5. RealCards' /\ NoneTwice'
    BY DEF IInv, RealCards, NoneTwice, Devices
  <1> QED  BY <1>1, <1>2, <1>3, <1>4, <1>5 DEF ReportingInv

LEMMA CopyInv ==
  ASSUME IInv, Copy
  PROVE  IInv'
  <1> DEFINE m   == Len(gDevList)
             new == [nfca |-> nfcaDevList[m + 1], isoDep |-> None]
  <1>1. /\ pc = "copy" /\ gDevList' = Append(gDevList, new)
        /\ pc' = IF nfcaDevList[m + 1].type = "T4T" THEN "RATS" ELSE CopyNext
        /\ cntRRetrys' = RATS_RETRIES
        /\ UNCHANGED <<cardVars, crVars, nfcaDevList>>
    BY DEF Copy
  <1>2. field' = field /\ card' = card /\ air' = air
    BY <1>1 DEF field, cardVars
  <1>3. CardsTypeOK' /\ Levels'
    BY <1>2 DEF IInv, TypeOK, CardsTypeOK, Levels, field
  <1>4. /\ gDevList \in Seq(Device) /\ nfcaDevList \in Seq(NfcaDevice)
        /\ m \in Nat /\ Len(nfcaDevList) \in Nat /\ m < Len(nfcaDevList)
        /\ Len(nfcaDevList) <= RFAL_POLLER_DEVICES
        /\ \A i \in 1..m : gDevList[i].nfca = nfcaDevList[i]
    BY <1>1 DEF IInv, TypeOK, ListTypeOK, Lists
  <1>5. m + 1 \in 1..Len(nfcaDevList)
    BY <1>4
  <1>6. nfcaDevList[m + 1] \in NfcaDevice
    BY <1>4, <1>5, ElementOfSeq
  <1>7. new \in Device /\ new.nfca = nfcaDevList[m + 1] /\ new.isoDep = None
    BY <1>6 DEF Device
  <1> HIDE DEF m, new
  <1>8. /\ gDevList' \in Seq(Device) /\ Len(gDevList') = m + 1
        /\ \A i \in 1..m : gDevList'[i] = gDevList[i]
        /\ gDevList'[m + 1] = new
        /\ DOMAIN gDevList' = 1..(m + 1)
    <2>1. /\ gDevList' \in Seq(Device) /\ Len(gDevList') = m + 1
          /\ \A i \in 1..m : gDevList'[i] = gDevList[i]
          /\ gDevList'[m + 1] = new
      BY <1>1, <1>4, <1>7, AppendProperties DEF m
    <2> QED  BY <2>1
  <1>9. ASSUME NEW i \in 1..(m + 1)
        PROVE  i \in 1..m \/ (i = m + 1 /\ gDevList'[i] = new)
    BY <1>4, <1>8, <1>9
  <1>10. /\ pc' \in {"RATS", "copy", "deactivate"}
         /\ pc' = "copy" => m + 1 < Len(nfcaDevList)
         /\ pc' = "RATS" => nfcaDevList[m + 1].type = "T4T"
    BY <1>1, <1>8 DEF CopyNext
  <1>11. ReportingInv'
    <2>1. RATS_RETRIES \in 0..RATS_RETRIES
      BY PollerAssumption
    <2> QED  BY <1>1, <1>2, <1>3, <1>10, <2>1, ReportingKept DEF Reporting
  <1>12. ListTypeOK'
    <2>1. gDevList' \in Seq(Device')
      BY <1>2, <1>8 DEF Device
    <2>2. Len(gDevList') <= Len(nfcaDevList')
      BY <1>1, <1>4, <1>8
    <2> QED  BY <1>1, <1>4, <2>1, <2>2 DEF ListTypeOK
  <1>13. Lists'
    <2>1. gDevList' # <<>> /\ gDevList'[Len(gDevList')] = new
      BY <1>4, <1>8, EmptySeq
    <2>2. \A i \in 1..(m + 1) : gDevList'[i].nfca = nfcaDevList'[i]
      BY <1>1, <1>4, <1>7, <1>8, <1>9
    <2> QED  BY <1>1, <1>7, <1>8, <1>10, <2>1, <2>2 DEF Lists, Resolving, Early, Reporting
  <1>14. OwnAts'
    <2> SUFFICES ASSUME air # "lossy", Cardinality(field \cap IsoCards) <= 1, NEW i \in 1..(m + 1)
                 PROVE  gDevList'[i].isoDep \in {None, gDevList'[i].nfca.nfcId1}
      BY <1>2, <1>8 DEF OwnAts
    <2>1. CASE i \in 1..m
      <3>1. i \in DOMAIN gDevList
        BY <1>4, <2>1 DEF m
      <3> QED  BY <1>8, <2>1, <3>1 DEF IInv, OwnAts
    <2> QED  BY <1>7, <1>9, <2>1
  <1> QED  BY <1>11, <1>12, <1>13, <1>14 DEF IInv, TypeOK, ReportingInv

LEMMA AtMostOne ==
  ASSUME NEW S, IsFiniteSet(S), Cardinality(S) <= 1, NEW a \in S, NEW b \in S
  PROVE  a = b
  <1> SUFFICES ASSUME a # b PROVE FALSE
    OBVIOUS
  <1>1. /\ IsFiniteSet(S \ {a}) /\ Cardinality(S \ {a}) = Cardinality(S) - 1
    BY FS_RemoveElement
  <1>2. /\ IsFiniteSet((S \ {a}) \ {b})
        /\ Cardinality((S \ {a}) \ {b}) = Cardinality(S \ {a}) - 1
    BY <1>1, FS_RemoveElement
  <1>3. Cardinality(S) \in Nat /\ Cardinality((S \ {a}) \ {b}) \in Nat
    BY <1>2, FS_CardinalityType
  <1> QED  BY <1>1, <1>2, <1>3

\* The device that RATS is sent for is in the field and of layer 4; when no other
\* card is, an answer to RATS is its own.
LEMMA AtsInv ==
  ASSUME IInv, Ats
  PROVE  IInv'
  <1> DEFINE m == Len(gDevList)
  <1>1. PICK heard \in Hearings : \E c \in RatsAnswers(heard) :
            /\ Rats(heard)
            /\ gDevList' = [gDevList EXCEPT ![m].isoDep = c]
    BY DEF Ats
  <1>2. PICK c \in RatsAnswers(heard) :
            /\ Rats(heard)
            /\ gDevList' = [gDevList EXCEPT ![m].isoDep = c]
    BY <1>1
  <1>3. /\ pc = "RATS" /\ pc' = CopyNext
        /\ UNCHANGED <<crVars, nfcaDevList, cntRRetrys>>
    BY <1>2 DEF Ats, Rats
  <1>4. c \in field /\ c \in IsoCards
    BY DEF RatsAnswers, Selected
  <1>5. /\ CardsTypeOK' /\ Levels' /\ field' = field /\ air' = air
        /\ air # "lossy" => \A d \in field : card[d] = "HALT" => card'[d] = "HALT"
    BY <1>2, Activates DEF IInv, TypeOK
  <1>6. /\ gDevList \in Seq(Device) /\ gDevList # <<>> /\ m <= Len(nfcaDevList)
        /\ Len(nfcaDevList) <= RFAL_POLLER_DEVICES /\ nfcaDevList \in Seq(NfcaDevice)
        /\ gDevList[m].nfca.type = "T4T"
        /\ \A i \in DOMAIN gDevList : gDevList[i].nfca = nfcaDevList[i]
    BY <1>3 DEF IInv, TypeOK, ListTypeOK, Lists
  <1>7. m \in Nat \ {0} /\ Len(nfcaDevList) \in Nat /\ DOMAIN gDevList = 1..m /\ m \in 1..m
    BY <1>6, EmptySeq
  <1>8. \A i \in 1..m : gDevList[i] \in Device
    BY <1>6, <1>7, ElementOfSeq
  <1> HIDE DEF m
  <1>9. /\ DOMAIN gDevList' = 1..m
        /\ \A i \in 1..m : i # m => gDevList'[i] = gDevList[i]
        /\ gDevList'[m] = [gDevList[m] EXCEPT !.isoDep = c]
    BY <1>2, <1>7
  <1>10. /\ gDevList'[m] \in Device /\ gDevList'[m].isoDep = c
         /\ gDevList'[m].nfca = gDevList[m].nfca
    BY <1>4, <1>7, <1>8, <1>9 DEF Device
  <1>11. gDevList' \in Seq(Device) /\ Len(gDevList') = m
    <2>1. \A i \in 1..m : gDevList'[i] \in Device
      BY <1>8, <1>9, <1>10
    <2>2. gDevList' = [i \in 1..m |-> gDevList'[i]]
      BY <1>2, <1>6, <1>7, <1>9
    <2> QED  BY <1>7, <2>1, <2>2
  <1>12. /\ pc' \in {"copy", "deactivate"}
         /\ pc' = "copy" => Len(gDevList') < Len(nfcaDevList')
    BY <1>3 DEF CopyNext
  <1>13. ReportingInv'
    <2>1. cntRRetrys' \in 0..RATS_RETRIES
      BY <1>3 DEF IInv, TypeOK, ResolutionTypeOK
    <2> QED  BY <1>3, <1>5, <1>12, <2>1, ReportingKept DEF Reporting
  <1>14. ListTypeOK'
    BY <1>3, <1>5, <1>6, <1>7, <1>11 DEF ListTypeOK, Device
  <1>15. \A i \in 1..m : gDevList'[i].nfca = nfcaDevList'[i]
    BY <1>3, <1>6, <1>7, <1>9, <1>10
  <1>16. Lists'
    BY <1>9, <1>12, <1>15 DEF Lists, Resolving, Early, Reporting
  <1>17. OwnAts'
    <2> SUFFICES ASSUME air # "lossy", Cardinality(field \cap IsoCards) <= 1, NEW i \in 1..m
                 PROVE  gDevList'[i].isoDep \in {None, gDevList'[i].nfca.nfcId1}
      BY <1>5, <1>9 DEF OwnAts
    <2>1. CASE i # m
      BY <1>7, <1>9, <2>1 DEF IInv, OwnAts
    <2>2. CASE i = m
      <3> DEFINE id == gDevList[m].nfca.nfcId1
      <3>1. m \in Devices /\ gDevList[m].nfca = nfcaDevList[m]
        BY <1>6, <1>7 DEF Devices
      <3>2. id \in field /\ "T4T" = TypeOf(id)
        BY <1>6, <3>1 DEF IInv, RealCards
      <3>3. id \in IsoCards
        BY <3>2 DEF TypeOf
      <3>4. IsFiniteSet(field \cap IsoCards)
        <4>1. IsoCards \subseteq Uids /\ IsFiniteSet(Uids)
          BY UidAssumption
        <4> QED  BY <4>1, FS_Subset
      <3>5. id = c
        BY <1>4, <3>2, <3>3, <3>4, AtMostOne
      <3> QED  BY <1>10, <2>2, <3>5
    <2> QED  BY <2>1, <2>2
  <1> QED  BY <1>13, <1>14, <1>16, <1>17 DEF IInv, TypeOK, ReportingInv

LEMMA NoAtsInv ==
  ASSUME IInv, NoAts
  PROVE  IInv'
  <1>1. PICK heard \in Hearings : Rats(heard)
    BY DEF NoAts
  <1>2. /\ pc = "RATS" /\ UNCHANGED <<crVars, nfcaDevList>> /\ gDevList' = gDevList
        /\ \/ cntRRetrys # 0 /\ cntRRetrys' = cntRRetrys - 1 /\ pc' = pc
           \/ cntRRetrys' = cntRRetrys /\ pc' = CopyNext
    BY <1>1 DEF NoAts, Rats
  <1>3. /\ CardsTypeOK' /\ Levels' /\ field' = field /\ air' = air
        /\ air # "lossy" => \A d \in field : card[d] = "HALT" => card'[d] = "HALT"
    BY <1>1, Activates DEF IInv, TypeOK
  <1>4. /\ pc' \in {"RATS", "copy", "deactivate"}
        /\ pc' = "copy" => Len(gDevList') < Len(nfcaDevList')
    BY <1>2 DEF CopyNext
  <1>5. ReportingInv'
    <2>1. cntRRetrys \in 0..RATS_RETRIES
      BY DEF IInv, TypeOK, ResolutionTypeOK
    <2>2. cntRRetrys' \in 0..RATS_RETRIES
      BY <1>2, <2>1, PollerAssumption
    <2> QED  BY <1>2, <1>3, <1>4, <2>2, ReportingKept DEF Reporting
  <1>6. ListTypeOK'
    BY <1>2, <1>3 DEF IInv, TypeOK, ListTypeOK, Device
  <1>7. Lists'
    BY <1>2, <1>4 DEF IInv, Lists, Resolving, Early, Reporting
  <1>8. OwnAts'
    BY <1>2, <1>3 DEF IInv, OwnAts
  <1> QED  BY <1>5, <1>6, <1>7, <1>8 DEF IInv, TypeOK, ReportingInv

-----------------------------------------------------------------------------
(***************************************************************************)
(* The theorems.                                                           *)
(***************************************************************************)

LEMMA Inductive == IInv /\ [Next]_vars => IInv'
  <1> SUFFICES ASSUME IInv, [Next]_vars PROVE IInv'
    OBVIOUS
  <1>1. CASE UNCHANGED vars
    <2>1. /\ UNCHANGED <<pc, card, air, crVars, nfcaDevList, gDevList, cntRRetrys>>
          /\ field' = field
      BY <1>1 DEF vars, cardVars, listVars, field
    <2>2. CardsTypeOK' /\ Levels' /\ RealCards' /\ NoneTwice' /\ OwnAts'
      BY <2>1 DEF IInv, TypeOK, CardsTypeOK, Levels, RealCards, NoneTwice, OwnAts, Devices, field
    <2>3. ResolutionTypeOK' /\ ListTypeOK'
      BY <2>1 DEF IInv, TypeOK, ResolutionTypeOK, ListTypeOK, Device, crVars
    <2>4. FlagTypeOK'
      BY <2>1 DEF IInv, TypeOK, FlagTypeOK, crVars
    <2>5. Requests' /\ Lists'
      BY <2>1 DEF IInv, Requests, Lists, crVars
    <2>6. Sound'
      BY <2>1 DEF IInv, Sound, Agrees, Resolved, Asleep, Devices, crVars
    <2> QED  BY <2>2, <2>3, <2>4, <2>5, <2>6 DEF IInv, TypeOK
  <1>2. CASE TechDetection \/ TechSleep
    BY <1>2, DetectionInv
  <1>3. CASE StartFull
    BY <1>3, StartFullInv
  <1>4. CASE SddCollision \/ SddTimeout \/ Backtrack \/ SddComplete
    BY <1>4, SddCollisionInv, SddTimeoutInv, BacktrackInv, SddCompleteInv
  <1>5. CASE SddFails \/ SelFails
    BY <1>5, FailsInv
  <1>6. CASE SelRes
    BY <1>6, SelResInv
  <1>7. CASE Assign \/ DevSleep \/ Others
    BY <1>7, AssignInv, DevSleepInv, OthersInv
  <1>8. CASE Copy \/ Ats \/ NoAts
    BY <1>8, CopyInv, AtsInv, NoAtsInv
  <1>9. CASE Deactivate \/ Button
    BY <1>9, FieldOffInv DEF Deactivate, Button
  <1>10. CASE ScanTags
    BY <1>10, ScanTagsInv
  <1> QED
    BY <1>1, <1>2, <1>3, <1>4, <1>5, <1>6, <1>7, <1>8, <1>9, <1>10 DEF Next, Scan

\* Every reachable state satisfies the inductive invariant.
THEOREM Invariance == Spec => []IInv
  <1> QED  BY InitInv, Inductive, PTL DEF Spec

\* Each variable keeps its range: three cascade levels are enough for the UIDs of
\* rfal_nfca.c, the SDD request never outgrows SDD_RES, and neither device list the
\* room there is.
THEOREM TypeCorrect == Spec => []TypeOK
  <1>1. IInv => TypeOK
    BY DEF IInv
  <1> QED  BY Invariance, <1>1, PTL

\* However the answers collide, whatever collisions go unnoticed and wherever the
\* resolution backtracks, it makes up no card, and no card has the type of another.
THEOREM RealDevices == Spec => []RealCards
  <1>1. IInv => RealCards
    BY DEF IInv
  <1> QED  BY Invariance, <1>1, PTL

\* A card is resolved once by a scan.
THEOREM ResolvedOnce == Spec => []NoneTwice
  <1>1. IInv => NoneTwice
    BY DEF IInv
  <1> QED  BY Invariance, <1>1, PTL

\* A device marked as asleep is in HALT as long as its fellows are being resolved.
THEOREM SleepersKnown == Spec => []SleepKnown
  <1>1. IInv => SleepKnown
    BY DEF IInv, Sound, Asleep, SleepKnown
  <1> QED  BY Invariance, <1>1, PTL

\* With one layer-4 card in the field, no ATS is kept with a device that did not
\* send it.
THEOREM AtsOwned == Spec => []OwnAts
  <1>1. IInv => OwnAts
    BY DEF IInv
  <1> QED  BY Invariance, <1>1, PTL
=============================================================================
