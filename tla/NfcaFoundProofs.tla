--------------------------- MODULE NfcaFoundProofs ---------------------------
(***************************************************************************)
(* Proofs about NfcaPoller: what a scan finds.  In clear air every card    *)
(* there is room for, for any cards with any UIDs; in weak air, where      *)
(* collisions go unnoticed, at least one card of up to BACKTRACKS + 1.     *)
(*                                                                         *)
(* The resolution halves the cards at each collision, so there is nothing  *)
(* to count in the proof of the first: the request always has a card that  *)
(* begins with it, and without a collision it has all of them.  In weak    *)
(* air the request may have none, and what is kept is a budget: each       *)
(* collision leaves out one card at least, and may cost one backtrack.     *)
(***************************************************************************)
EXTENDS NfcaPollerProofs

\* Every card hears every command, and an answer is heard.
Audible == air \in {"clear", "weak"}

IsListed(c) == \E i \in Devices : nfcaDevList[i].nfcId1 = c

-----------------------------------------------------------------------------
(***************************************************************************)
(* The first part of the invariant: where the cards are at each place of   *)
(* the scan.                                                               *)
(***************************************************************************)
Pending == Resolving \cup {"done", "devSleep", "others"}

Placed ==
    /\ pc \in {"techDetect", "colAvoidance"} => \A c \in field : card[c] = "IDLE"
    /\ pc = "techSleep" => \A c \in field : card[c] \in {"IDLE", "READY1"}
    /\ pc = "others" => \A c \in field : card[c] \in {"IDLE", "HALT"}
    /\ pc \in Pending =>
            \A c \in field : card[c] # "ISODEP" /\ (card[c] = "HALT" => IsListed(c))
    /\ pc \in {"done", "devSleep"} => \A c \in field : card[c] = "ACTIVE" => c = nfcId1

Copied == pc = "deactivate" => Len(gDevList) = Len(nfcaDevList)

PlacedInv == Copied /\ (Audible => Placed)

\* In the air that is audible every card reacts to a command as it should.
LEMMA AllReact ==
  ASSUME CardsTypeOK, Audible, NEW heard \in Hearings, NEW after, React(heard, after)
  PROVE  /\ heard = field /\ field' = field /\ air' = air
         /\ \A c \in field : card'[c] = after[c]
  <1>1. heard = field
    BY DEF Hearings, Audible
  <1>2. card' = [c \in field |-> IF c \in heard THEN after[c] ELSE card[c]] /\ air' = air
    BY DEF React
  <1> QED  BY <1>1, <1>2 DEF field

LEMMA AllWake ==
  ASSUME IInv, Audible, NEW heard \in Hearings, NEW states, CheckPresence(states, heard)
  PROVE  /\ heard = field /\ field' = field /\ air' = air
         /\ \A c \in field : card'[c] = IF card[c] \in states THEN "READY1" ELSE Quit(c)
         /\ Absent(states, heard) <=> \A c \in field : card[c] \notin states
         /\ Present(states, heard) <=> \E c \in field : card[c] \in states
  <1>1. React(heard, AfterWake(states))
    BY DEF CheckPresence
  <1>2. heard = field /\ field' = field /\ air' = air
        /\ \A c \in field : card'[c] = AfterWake(states)[c]
    BY <1>1, AllReact DEF IInv, TypeOK
  <1>3. Woken(states) \cap heard = Woken(states)
    BY <1>2 DEF Woken
  <1>4. Absent(states, heard) <=> Woken(states) = {}
    BY <1>3 DEF Absent, Silence, Audible
  <1> QED  BY <1>2, <1>3, <1>4 DEF AfterWake, Present, Woken

LEMMA AllSleep ==
  ASSUME IInv, Audible, Sleep
  PROVE  /\ field' = field /\ air' = air
         /\ \A c \in field : card'[c] = IF card[c] = "ACTIVE" THEN "HALT" ELSE Quit(c)
  <1>1. PICK heard \in Hearings : React(heard, AfterHlta)
    BY DEF Sleep
  <1>2. field' = field /\ air' = air /\ \A c \in field : card'[c] = AfterHlta[c]
    BY <1>1, AllReact DEF IInv, TypeOK
  <1> QED  BY <1>2 DEF AfterHlta

\* Those that match answer and stay where they are.
LEMMA AllCollide ==
  ASSUME IInv, Audible, NEW heard \in Hearings, Sdd(heard)
  PROVE  /\ pc = "SDD" /\ field' = field /\ air' = air
         /\ SddAnswers(heard) = Matching(cascadeLv, selReq)
         /\ \A c \in field : card'[c] = IF c \in Matching(cascadeLv, selReq)
                                        THEN card[c] ELSE Quit(c)
  <1>1. pc = "SDD" /\ React(heard, AfterSdd(cascadeLv, selReq))
    BY DEF Sdd
  <1>2. heard = field /\ field' = field /\ air' = air
        /\ \A c \in field : card'[c] = AfterSdd(cascadeLv, selReq)[c]
    BY <1>1, AllReact DEF IInv, TypeOK
  <1>3. SddAnswers(heard) = Matching(cascadeLv, selReq)
    BY <1>2 DEF SddAnswers, Matching
  <1> QED  BY <1>1, <1>2, <1>3 DEF AfterSdd

LEMMA AllSelect ==
  ASSUME IInv, Audible, NEW heard \in Hearings, Sel(heard)
  PROVE  /\ pc = "SEL" /\ field' = field /\ air' = air
         /\ SddAnswers(heard) = Matching(cascadeLv, selReq)
         /\ \A c \in field : card'[c] = IF c \notin Matching(cascadeLv, selReq) THEN Quit(c)
                                        ELSE IF cascadeLv < Len(c) THEN Ready[cascadeLv + 1]
                                        ELSE "ACTIVE"
  <1>1. pc = "SEL" /\ React(heard, AfterSel(cascadeLv, selReq))
    BY DEF Sel
  <1>2. heard = field /\ field' = field /\ air' = air
        /\ \A c \in field : card'[c] = AfterSel(cascadeLv, selReq)[c]
    BY <1>1, AllReact DEF IInv, TypeOK
  <1>3. SddAnswers(heard) = Matching(cascadeLv, selReq)
    BY <1>2 DEF SddAnswers, Matching
  <1> QED  BY <1>1, <1>2, <1>3 DEF AfterSel

\* An answer of somebody is neither silence nor garbled.
LEMMA AnswersHeard ==
  ASSUME Audible, NEW answers
  PROVE  (Silence(answers) <=> answers = {}) /\ ~Garbled(answers)
  BY DEF Audible, Silence, Garbled

\* Steps that put nobody to sleep and list nobody.
LEMMA PendingKept ==
  ASSUME Placed, pc \in Pending, pc' \in Resolving \cup {"done"} \cup Reporting,
         field' = field, nfcaDevList' = nfcaDevList,
         \A c \in field : /\ card'[c] = "HALT" => card[c] = "HALT"
                          /\ card'[c] = "ISODEP" => card[c] = "ISODEP",
         pc' = "done" => \A c \in field : card'[c] = "ACTIVE" => c = nfcId1'
  PROVE  Placed'
  <1>1. \A c \in field : card'[c] # "ISODEP" /\ (card'[c] = "HALT" => IsListed(c))
    BY DEF Placed
  <1>2. \A c \in field : IsListed(c) => IsListed(c)'
    BY DEF IsListed, Devices
  <1> QED  BY <1>1, <1>2 DEF Placed, Pending, Resolving, Reporting


-----------------------------------------------------------------------------
(***************************************************************************)
(* Each action keeps the cards where the place says.                       *)
(***************************************************************************)

\* Copying ends when the lists are equally long.
LEMMA CopyEnds ==
  ASSUME IInv', pc' \in {"RATS", CopyNext}, UNCHANGED nfcaDevList
  PROVE  Copied'
  <1> SUFFICES ASSUME pc' = "deactivate" PROVE Len(gDevList') = Len(nfcaDevList')
    BY DEF Copied
  <1>1. ~(Len(gDevList') < Len(nfcaDevList'))
    BY DEF CopyNext
  <1>2. Len(gDevList') <= Len(nfcaDevList') /\ Len(gDevList') \in Nat /\ Len(nfcaDevList') \in Nat
    BY DEF IInv, TypeOK, ListTypeOK
  <1> QED  BY <1>1, <1>2

LEMMA CopiedKept ==
  ASSUME IInv, IInv', Copied, [Next]_vars
  PROVE  Copied'
  <1>1. CASE UNCHANGED vars
    BY <1>1 DEF vars, listVars, Copied
  <1>2. CASE TechDetection \/ StartFull
    <2>1. nfcaDevList' = <<>> /\ gDevList' = <<>>
      BY <1>2 DEF TechDetection, StartFull, IInv, Lists, Early, Reporting, listVars
    <2> QED  BY <2>1 DEF Copied
  <1>3. CASE SddFails \/ SelFails
    <2>1. pc \in {"SDD", "SEL"} /\ nfcaDevList' = <<>> /\ gDevList' = gDevList
      BY <1>3 DEF SddFails, SelFails, Sdd, Sel, Fail, listVars
    <2>2. gDevList = <<>>
      BY <2>1 DEF IInv, Lists, Reporting
    <2> QED  BY <2>1, <2>2 DEF Copied
  <1>4. CASE Copy \/ Ats
    <2>1. pc' \in {"RATS", CopyNext} /\ nfcaDevList' = nfcaDevList
      BY <1>4 DEF Copy, Ats
    <2> QED  BY <2>1, CopyEnds
  <1>5. CASE NoAts
    <2>1. pc' \in {"RATS", CopyNext} /\ nfcaDevList' = nfcaDevList
      BY <1>5 DEF NoAts, Rats
    <2> QED  BY <2>1, CopyEnds
  <1>6. CASE SddCollision \/ SddTimeout \/ Backtrack \/ SddComplete \/ SelRes
    <2>1. pc' # "deactivate"
      BY <1>6 DEF SddCollision, SddTimeout, Backtrack, SddComplete, SelRes, NextLevel, LastLevel, Sdd
    <2> QED  BY <2>1 DEF Copied
  <1>7. CASE TechSleep \/ Assign \/ DevSleep \/ Others \/ Deactivate \/ Button \/ ScanTags
    <2>1. pc' # "deactivate"
      BY <1>7 DEF TechSleep, Assign, DevSleep, Others, Deactivate, Button, FieldOff, ScanTags
    <2> QED  BY <2>1 DEF Copied
  <1> QED  BY <1>1, <1>2, <1>3, <1>4, <1>5, <1>6, <1>7 DEF Next, Scan

LEMMA DetectionPlaces ==
  ASSUME IInv, Audible, Placed, TechDetection \/ TechSleep
  PROVE  Placed' /\ air' = air
  <1>1. CASE TechDetection
    <2>1. PICK heard \in Hearings : CheckPresence(REQA, heard)
      BY <1>1 DEF TechDetection
    <2>2. pc = "techDetect" /\ pc' \in {"techSleep", "deactivate"}
      BY <1>1 DEF TechDetection
    <2>3. /\ field' = field /\ air' = air
          /\ \A c \in field : card'[c] = "READY1"
      BY <2>1, <2>2, AllWake DEF Placed, REQA
    <2> QED  BY <2>2, <2>3 DEF Placed, Pending, Resolving
  <1>2. CASE TechSleep
    <2>1. pc = "techSleep" /\ pc' = "colAvoidance" /\ Sleep
      BY <1>2 DEF TechSleep
    <2>2. field' = field /\ air' = air /\ \A c \in field : card'[c] = "IDLE"
      BY <2>1, AllSleep DEF Placed, Quit
    <2> QED  BY <2>1, <2>2 DEF Placed, Pending, Resolving
  <1> QED  BY <1>1, <1>2

\* With the first command of the resolution, and with each that looks for others.
LEMMA StartPlaces ==
  ASSUME IInv, Audible, Placed, StartFull \/ Others
  PROVE  /\ Placed' /\ field' = field /\ air' = air
         /\ pc' = "SDD" => /\ StartSingle
                           /\ \A c \in field : card'[c] \in {"READY1", "HALT"}
                           /\ \E c \in field : card'[c] = "READY1"
         /\ pc' = "deactivate" => field = {}
         /\ pc' = "copy" => \A c \in field : IsListed(c)
         /\ pc' \in {"SDD", "deactivate", "copy"} /\ nfcaDevList' = nfcaDevList
  <1>1. CASE StartFull
    <2>1. PICK heard \in Hearings :
              /\ CheckPresence(WUPA, heard)
              /\ \/ Present(WUPA, heard) /\ pc' = "SDD" /\ StartSingle
                 \/ Absent(WUPA, heard) /\ pc' = "deactivate"
      BY <1>1 DEF StartFull
    <2>2. pc = "colAvoidance" /\ nfcaDevList' = nfcaDevList
      BY <1>1 DEF StartFull
    <2>3. /\ field' = field /\ air' = air
          /\ \A c \in field : card'[c] = "READY1"
          /\ Absent(WUPA, heard) => field = {}
          /\ Present(WUPA, heard) => field # {}
      BY <2>1, <2>2, AllWake DEF Placed, WUPA
    <2>4. Placed'
      BY <2>1, <2>3 DEF Placed, Pending, Resolving
    <2> QED  BY <2>1, <2>2, <2>3, <2>4
  <1>2. CASE Others
    <2>1. PICK heard \in Hearings :
              /\ CheckPresence(REQA, heard)
              /\ \/ Present(REQA, heard) /\ pc' = "SDD" /\ StartSingle
                 \/ Absent(REQA, heard) /\ pc' = "copy" /\ NoMore
      BY <1>2 DEF Others
    <2>2. pc = "others" /\ nfcaDevList' = nfcaDevList
      BY <1>2 DEF Others
    <2>3. /\ field' = field /\ air' = air
          /\ \A c \in field : card'[c] = IF card[c] \in REQA THEN "READY1" ELSE Quit(c)
          /\ Absent(REQA, heard) <=> \A c \in field : card[c] \notin REQA
          /\ Present(REQA, heard) <=> \E c \in field : card[c] \in REQA
      BY <2>1, AllWake
    <2>4. \A c \in field : /\ card[c] \in {"IDLE", "HALT"}
                           /\ card[c] = "HALT" => IsListed(c)
      BY <2>2 DEF Placed, Pending
    <2>5. \A c \in field : /\ card[c] = "IDLE" => card'[c] = "READY1"
                           /\ card[c] = "HALT" => card'[c] = "HALT"
      BY <2>3 DEF REQA, Quit
    <2>6. \A c \in field : IsListed(c)' <=> IsListed(c)
      BY <2>2 DEF IsListed, Devices
    <2>7. \A c \in field : /\ card'[c] \in {"READY1", "HALT"}
                           /\ card'[c] = "HALT" => IsListed(c)'
      BY <2>4, <2>5, <2>6
    <2>8. Placed'
      BY <2>1, <2>3, <2>7 DEF Placed, Pending, Resolving
    <2>9. Absent(REQA, heard) => \A c \in field : IsListed(c)
      BY <2>3, <2>4 DEF REQA
    <2>10. Present(REQA, heard) => \E c \in field : card'[c] = "READY1"
      BY <2>3, <2>5 DEF REQA
    <2> QED  BY <2>1, <2>2, <2>3, <2>7, <2>8, <2>9, <2>10
  <1> QED  BY <1>1, <1>2

LEMMA ResolvingPlaces ==
  ASSUME IInv, Audible, Placed,
         SddCollision \/ SddTimeout \/ Backtrack \/ SddComplete
  PROVE  Placed' /\ air' = air
  <1>1. /\ pc \in Resolving /\ pc' \in Resolving
        /\ nfcaDevList' = nfcaDevList
        /\ (\E heard \in Hearings : Sdd(heard))
             \/ (\E heard \in Hearings : CheckPresence(REQA, heard))
    BY DEF SddCollision, SddTimeout, Backtrack, SddComplete, Sdd, Resolving
  <1>2. /\ field' = field /\ air' = air
        /\ \A c \in field : card'[c] \in {card[c], Quit(c), "READY1"}
    BY <1>1, AllCollide, AllWake
  <1>3. \A c \in field : /\ card'[c] = "HALT" => card[c] = "HALT"
                         /\ card'[c] = "ISODEP" => card[c] = "ISODEP"
    BY <1>2 DEF Quit
  <1> QED  BY <1>1, <1>2, <1>3, PendingKept DEF Pending, Resolving

\* The codes of the card that is selected are those collected.
LEMMA SelectedIs ==
  ASSUME IInv, Audible, NEW heard \in Hearings, Sel(heard), LastLevel,
         nfcId1' = Append(nfcId1, Code1), NEW d \in Matching(cascadeLv, selReq)
  PROVE  d = nfcId1' /\ Len(d) = cascadeLv
  <1>1. d \in SddAnswers(heard) /\ pc = "SEL"
    BY AllSelect
  <1>2. /\ d \in field /\ cascadeLv <= Len(d) /\ Len(d) \in 1..3 /\ d \in Seq(Code)
        /\ FirstByte(selReq) = SDD_CT <=> cascadeLv < Len(d)
        /\ nfcId1' \in Seq(Code) /\ Len(nfcId1') = cascadeLv
        /\ \A k \in 1..(cascadeLv - 1) : nfcId1'[k] = nfcId1[k]
        /\ nfcId1'[cascadeLv] = d[cascadeLv]
    BY <1>1, SelectedCode
  <1>3. \A k \in 1..(cascadeLv - 1) : d[k] = nfcId1[k]
    <2>1. card[d] = Ready[cascadeLv]
      BY DEF Matching
    <2>2. Agrees
      BY DEF IInv, Sound, Audible
    <2> QED  BY <1>1, <1>2, <2>1, <2>2 DEF Agrees, Resolving
  <1>4. cascadeLv \in 1..3 /\ Len(d) = cascadeLv
    BY <1>2 DEF LastLevel, IInv, TypeOK, ResolutionTypeOK
  <1>5. \A k \in 1..cascadeLv : d[k] = nfcId1'[k]
    <2> SUFFICES ASSUME NEW k \in 1..cascadeLv PROVE d[k] = nfcId1'[k]
      OBVIOUS
    <2>1. k \in 1..(cascadeLv - 1) \/ k = cascadeLv
      BY <1>4
    <2> QED  BY <1>2, <1>3, <2>1
  <1> QED  BY <1>2, <1>4, <1>5, SeqEqual

\* A card has a state of its own at each level, and another when selected.
LEMMA SelectPlaces ==
  ASSUME IInv, Audible, Placed, SelRes
  PROVE  Placed' /\ air' = air
  <1>1. PICK heard \in Hearings : \E c \in SddAnswers(heard) : Sel(heard) /\ selRes' = TypeOf(c)
    BY DEF SelRes
  <1>2. Sel(heard) /\ pc' \in {"SDD", "done"} /\ nfcaDevList' = nfcaDevList
    BY <1>1 DEF SelRes, NextLevel, LastLevel
  <1>3. /\ pc = "SEL" /\ field' = field /\ air' = air
        /\ \A c \in field : card'[c] = IF c \notin Matching(cascadeLv, selReq) THEN Quit(c)
                                       ELSE IF cascadeLv < Len(c) THEN Ready[cascadeLv + 1]
                                       ELSE "ACTIVE"
    BY <1>2, AllSelect
  <1>4. cascadeLv \in 1..3 /\ \A c \in field : Len(c) \in 1..3
    BY UidLengths DEF IInv, TypeOK, ResolutionTypeOK
  <1>5. ASSUME pc' = "done", NEW c \in field, card'[c] = "ACTIVE"
        PROVE  c = nfcId1'
    <2>1. LastLevel /\ nfcId1' = Append(nfcId1, Code1)
      BY <1>5 DEF SelRes, NextLevel
    <2>2. c \in Matching(cascadeLv, selReq)
      BY <1>3, <1>5 DEF Quit
    <2> QED  BY <1>2, <2>1, <2>2, SelectedIs
  <1>6. \A c \in field : /\ card'[c] = "HALT" => card[c] = "HALT"
                         /\ card'[c] = "ISODEP" => card[c] = "ISODEP"
    <2> SUFFICES ASSUME NEW c \in field
                 PROVE  /\ card'[c] = "HALT" => card[c] = "HALT"
                        /\ card'[c] = "ISODEP" => card[c] = "ISODEP"
      OBVIOUS
    <2>1. cascadeLv < Len(c) => Ready[cascadeLv + 1] \notin {"HALT", "ISODEP"}
      BY <1>4, NextLevelUp, ReadyStates
    <2> QED  BY <1>3, <2>1 DEF Quit
  <1> QED  BY <1>2, <1>3, <1>5, <1>6, PendingKept DEF Pending, Resolving

\* The one that is put to sleep is listed.
LEMMA ListingPlaces ==
  ASSUME IInv, Audible, Placed, Assign \/ DevSleep
  PROVE  /\ Placed' /\ field' = field /\ air' = air
         /\ \A c \in field : IsListed(c) \/ c = nfcId1 => IsListed(c)'
  <1>1. /\ pc \in {"done", "devSleep"}
        /\ nfcId1 \in field /\ card[nfcId1] = "ACTIVE"
        /\ \A c \in field : card[c] # "ISODEP" /\ (card[c] = "HALT" => IsListed(c))
    <2>1. pc \in {"done", "devSleep"}
      BY DEF Assign, DevSleep
    <2>2. Sound /\ air # "lossy"
      BY DEF IInv, Audible
    <2> QED  BY <2>1, <2>2 DEF Sound, Resolved, Placed, Pending
  <1>2. CASE Assign
    <2>1. /\ pc' \in {"devSleep", "copy"} /\ nfcaDevList' = Append(nfcaDevList, Listed(FALSE))
          /\ field' = field /\ card' = card /\ air' = air
      BY <1>2 DEF Assign, cardVars, field
    <2>2. /\ Len(nfcaDevList') = Len(nfcaDevList) + 1 /\ Len(nfcaDevList) \in Nat
          /\ \A i \in 1..Len(nfcaDevList) : nfcaDevList'[i] = nfcaDevList[i]
          /\ nfcaDevList'[Len(nfcaDevList) + 1].nfcId1 = nfcId1
      <3> DEFINE new == Listed(FALSE)
      <3>1. nfcaDevList \in Seq(NfcaDevice) /\ new \in NfcaDevice
        BY ListedType DEF IInv, TypeOK, ListTypeOK
      <3>2. nfcaDevList' = Append(nfcaDevList, new) /\ new.nfcId1 = nfcId1
        BY <2>1 DEF Listed
      <3> HIDE DEF new
      <3>3. /\ Len(nfcaDevList') = Len(nfcaDevList) + 1 /\ Len(nfcaDevList) \in Nat
            /\ \A i \in 1..Len(nfcaDevList) : nfcaDevList'[i] = nfcaDevList[i]
            /\ nfcaDevList'[Len(nfcaDevList) + 1] = new
        BY <3>1, <3>2, AppendProperties
      <3> QED  BY <3>2, <3>3
    <2>3. \A c \in field : IsListed(c) \/ c = nfcId1 => IsListed(c)'
      BY <2>2 DEF IsListed, Devices
    <2>4. \A c \in field : card'[c] # "ISODEP" /\ (card'[c] = "HALT" => IsListed(c)')
      BY <1>1, <2>1, <2>3
    <2>5. \A c \in field : card'[c] = "ACTIVE" => c = nfcId1'
      BY <1>2, <2>1 DEF Assign, Placed
    <2> QED  BY <2>1, <2>3, <2>4, <2>5 DEF Placed, Pending, Resolving
  <1>3. CASE DevSleep
    <2>1. /\ pc = "devSleep" /\ pc' = "others" /\ Sleep
          /\ nfcaDevList' = Append(Front(nfcaDevList), Listed(TRUE))
      BY <1>3 DEF DevSleep
    <2>2. /\ field' = field /\ air' = air
          /\ \A c \in field : card'[c] = IF card[c] = "ACTIVE" THEN "HALT" ELSE Quit(c)
      BY <2>1, AllSleep
    <2> DEFINE n == Len(nfcaDevList)
    <2>3. /\ nfcaDevList \in Seq(NfcaDevice) /\ nfcaDevList # <<>>
          /\ nfcaDevList[n].nfcId1 = nfcId1
      BY <2>1 DEF IInv, TypeOK, ListTypeOK, Lists, Sound, Asleep, Audible
    <2>4. /\ Front(nfcaDevList) \in Seq(NfcaDevice) /\ Len(Front(nfcaDevList)) = n - 1
          /\ n \in Nat \ {0}
          /\ \A i \in 1..(n - 1) : Front(nfcaDevList)[i] = nfcaDevList[i]
      BY <2>3, FrontAndLast
    <2> HIDE DEF n
    <2>5. /\ Len(nfcaDevList') = n /\ nfcaDevList'[n].nfcId1 = nfcId1
          /\ \A i \in 1..(n - 1) : nfcaDevList'[i] = nfcaDevList[i]
      <3> DEFINE new == Listed(TRUE)
      <3>1. new \in NfcaDevice
        BY ListedType
      <3>2. nfcaDevList' = Append(Front(nfcaDevList), new) /\ new.nfcId1 = nfcId1
        BY <2>1 DEF Listed
      <3> HIDE DEF new
      <3>3. /\ Len(nfcaDevList') = n /\ nfcaDevList'[n] = new
            /\ \A i \in 1..(n - 1) : nfcaDevList'[i] = Front(nfcaDevList)[i]
        BY <2>4, <3>1, <3>2, AppendProperties
      <3> QED  BY <2>4, <3>2, <3>3
    <2>6. \A i \in 1..n : nfcaDevList'[i].nfcId1 = nfcaDevList[i].nfcId1
      <3> SUFFICES ASSUME NEW i \in 1..n
                   PROVE  nfcaDevList'[i].nfcId1 = nfcaDevList[i].nfcId1
        OBVIOUS
      <3>1. CASE i = n
        BY <2>3, <2>5, <3>1 DEF n
      <3>2. CASE i \in 1..(n - 1)
        BY <2>5, <3>2
      <3> QED  BY <2>4, <3>1, <3>2
    <2>7. \A c \in field : IsListed(c) \/ c = nfcId1 => IsListed(c)'
      BY <2>3, <2>4, <2>5, <2>6 DEF IsListed, Devices, n
    <2>8. ASSUME NEW c \in field
          PROVE  card'[c] \in {"IDLE", "HALT"} /\ (card'[c] = "HALT" => IsListed(c)')
      <3>1. card[c] = "ACTIVE" => c = nfcId1
        BY <2>1 DEF Placed
      <3> QED  BY <1>1, <2>2, <2>7, <3>1 DEF Quit
    <2> QED  BY <2>1, <2>2, <2>7, <2>8 DEF Placed, Pending, Resolving
  <1> QED  BY <1>2, <1>3

LEMMA PlacedKept ==
  ASSUME IInv, IInv', PlacedInv, [Next]_vars
  PROVE  PlacedInv'
  <1>1. Copied'
    BY CopiedKept DEF PlacedInv
  <1>2. ASSUME Audible'
        PROVE  Placed'
    <2>1. CASE UNCHANGED vars
      <3>1. UNCHANGED <<pc, card, air, field, nfcId1, nfcaDevList>>
        BY <2>1 DEF vars, cardVars, crVars, field
      <3>2. Placed
        BY <1>2, <3>1 DEF PlacedInv, Audible
      <3> QED  BY <3>1, <3>2 DEF Placed, IsListed, Devices
    <2>2. CASE pc' \in Reporting \cup {"idle"}
      BY <2>2 DEF Placed, Reporting, Pending, Resolving
    <2>3. CASE ScanTags
      <3>1. pc' = "techDetect" /\ \A c \in field' : card'[c] = "IDLE"
        BY <2>3 DEF ScanTags, NewField, field
      <3> QED  BY <3>1 DEF Placed, Pending, Resolving
    <2>4. CASE SddFails \/ SelFails \/ Deactivate \/ Button
      <3>1. pc' \in Reporting \cup {"idle"}
        BY <2>4 DEF SddFails, SelFails, Fail, Deactivate, Button, FieldOff, Reporting
      <3> QED  BY <2>2, <3>1
    <2>5. CASE Copy \/ Ats \/ NoAts
      <3>1. pc' \in Reporting
        BY <2>5 DEF Copy, Ats, NoAts, Rats, CopyNext, Reporting
      <3> QED  BY <2>2, <3>1
    <2>6. ASSUME TechDetection \/ TechSleep \/ StartFull \/ SddCollision \/ SddTimeout
                   \/ Backtrack \/ SddComplete \/ SelRes \/ Assign \/ DevSleep \/ Others
          PROVE  Placed'
      <3>1. air' = air
        BY <2>6 DEF TechDetection, TechSleep, Sleep, StartFull, CheckPresence, SddCollision,
               SddTimeout, Backtrack, SddComplete, Sdd, SelRes, Sel, Assign, DevSleep, Others,
               React, cardVars
      <3>2. Audible /\ Placed
        BY <1>2, <3>1 DEF Audible, PlacedInv
      <3> QED  BY <2>6, <3>2, DetectionPlaces, StartPlaces, ResolvingPlaces, SelectPlaces,
                  ListingPlaces
    <2> QED  BY <2>1, <2>2, <2>3, <2>4, <2>5, <2>6 DEF Next, Scan
  <1> QED  BY <1>1, <1>2 DEF PlacedInv

LEMMA Placement == Spec => []PlacedInv
  <1>1. Init => PlacedInv
    <2> SUFFICES ASSUME Init PROVE PlacedInv
      OBVIOUS
    <2>1. pc = "techDetect" /\ \A c \in field : card[c] = "IDLE"
      BY DEF Init, field
    <2> QED  BY <2>1 DEF PlacedInv, Placed, Copied, Pending, Resolving
  <1>2. IInv /\ IInv' /\ PlacedInv /\ [Next]_vars => PlacedInv'
    BY PlacedKept
  <1> QED  BY <1>1, <1>2, Invariance, PTL DEF Spec

-----------------------------------------------------------------------------
(***************************************************************************)
(* Bits of a request and of an answer.                                     *)
(***************************************************************************)
Begins(c, l, bits) == SubSeq(SddRes(c[l]), 1, Len(bits)) = bits

LEMMA BitByBit ==
  ASSUME NEW S, NEW s \in Seq(S), NEW b \in Seq(S), Len(b) <= Len(s)
  PROVE  SubSeq(s, 1, Len(b)) = b <=> \A i \in 1..Len(b) : s[i] = b[i]
  <1> DEFINE t == SubSeq(s, 1, Len(b))
  <1>1. Len(b) \in Nat /\ Len(s) \in Nat
    OBVIOUS
  <1>2. t = [i \in 1..Len(b) |-> s[i]]
    BY <1>1
  <1>3. b = [i \in 1..Len(b) |-> b[i]]
    BY <1>1
  <1> HIDE DEF t
  <1>4. \A i \in 1..Len(b) : t[i] = s[i]
    BY <1>2
  <1>5. ASSUME \A i \in 1..Len(b) : s[i] = b[i]
        PROVE  t = b
    BY <1>2, <1>3, <1>5
  <1> QED  BY <1>4, <1>5 DEF t

LEMMA UidBitsType ==
  ASSUME NEW u \in Uids, NEW l \in 1..Len(u)
  PROVE  /\ u[l] \in Code /\ SddRes(u[l]) \in Seq({0, 1})
         /\ Len(SddRes(u[l])) = UidBits + BITS_IN_BYTE
         /\ \A i \in 1..(UidBits + BITS_IN_BYTE) : SddRes(u[l])[i] \in {0, 1}
  <1>1. u \in Seq(Code)
    BY UidAssumption
  <1>2. u[l] \in Code
    BY <1>1, ElementOfSeq
  <1>3. SddRes(u[l]) \in Seq({0, 1}) /\ Len(SddRes(u[l])) = UidBits + BITS_IN_BYTE
    BY <1>2, SddResBits
  <1>4. \A i \in 1..(UidBits + BITS_IN_BYTE) : SddRes(u[l])[i] \in {0, 1}
    BY <1>3, ElementOfSeq
  <1> QED  BY <1>2, <1>3, <1>4

LEMMA BeginsBits ==
  ASSUME NEW u \in Uids, NEW l \in 1..Len(u),
         NEW bits \in Seq({0, 1}), Len(bits) <= UidBits + BITS_IN_BYTE
  PROVE  Begins(u, l, bits) <=> \A i \in 1..Len(bits) : SddRes(u[l])[i] = bits[i]
  BY UidBitsType, BitByBit DEF Begins

\* The bits that are sent after a collision behind p bits of s.
LEMMA OneBitMore ==
  ASSUME NEW s \in Seq({0, 1}), NEW p \in Nat, p < Len(s), NEW v \in {0, 1}
  PROVE  /\ Append(SubSeq(s, 1, p), v) \in Seq({0, 1})
         /\ Len(Append(SubSeq(s, 1, p), v)) = p + 1
         /\ \A i \in 1..p : Append(SubSeq(s, 1, p), v)[i] = s[i]
         /\ Append(SubSeq(s, 1, p), v)[p + 1] = v
         /\ Append(SubSeq(s, 1, p), v) # <<>>
         /\ Front(Append(SubSeq(s, 1, p), v)) = SubSeq(s, 1, p)
         /\ Last(Append(SubSeq(s, 1, p), v)) = v
  <1> DEFINE t == SubSeq(s, 1, p)
             r == Append(t, v)
  <1>1. /\ t \in Seq({0, 1}) /\ Len(t) = p /\ \A i \in 1..p : t[i] = s[i]
        /\ t = [i \in 1..p |-> s[i]]
    BY SubSeqProperties
  <1> HIDE DEF t
  <1>2. /\ r \in Seq({0, 1}) /\ Len(r) = p + 1 /\ r # <<>>
        /\ \A i \in 1..p : r[i] = t[i]
        /\ r[p + 1] = v
    BY <1>1, AppendProperties
  <1> HIDE DEF r
  <1>3. Front(r) = [i \in 1..p |-> r[i]]
    BY <1>2 DEF Front
  <1>4. Front(r) = t
    BY <1>1, <1>2, <1>3
  <1>5. Last(r) = v
    BY <1>2 DEF Last
  <1> QED  BY <1>1, <1>2, <1>4, <1>5 DEF r, t

LEMMA BeginsMore ==
  ASSUME NEW u \in Uids, NEW d \in Uids, NEW l \in Nat, l \in 1..Len(u), l \in 1..Len(d),
         NEW p \in 0..(UidBits + BITS_IN_BYTE - 1), NEW v \in {0, 1}
  PROVE  Begins(d, l, Append(SubSeq(SddRes(u[l]), 1, p), v)) <=>
            /\ \A i \in 1..p : SddRes(d[l])[i] = SddRes(u[l])[i]
            /\ SddRes(d[l])[p + 1] = v
  <1> DEFINE s == SddRes(u[l])
             r == Append(SubSeq(s, 1, p), v)
             t == SddRes(d[l])
  <1>1. s \in Seq({0, 1}) /\ Len(s) = UidBits + BITS_IN_BYTE
    BY UidBitsType
  <1>2. p \in Nat /\ p < UidBits + BITS_IN_BYTE
    BY Widths
  <1> HIDE DEF s
  <1>3. /\ r \in Seq({0, 1}) /\ Len(r) = p + 1
        /\ \A i \in 1..p : r[i] = s[i]
        /\ r[p + 1] = v
    BY <1>1, <1>2, OneBitMore
  <1> HIDE DEF r
  <1>4. p + 1 <= UidBits + BITS_IN_BYTE
    BY <1>2, Widths
  <1>5. Begins(d, l, r) <=> \A i \in 1..(p + 1) : t[i] = r[i]
    BY <1>3, <1>4, BeginsBits
  <1> HIDE DEF t
  <1>6. (\A i \in 1..(p + 1) : t[i] = r[i]) <=> (\A i \in 1..p : t[i] = r[i]) /\ t[p + 1] = r[p + 1]
    <2>1. \A i \in 1..(p + 1) : i \in 1..p \/ i = p + 1
      BY <1>2
    <2>2. p + 1 \in 1..(p + 1) /\ \A i \in 1..p : i \in 1..(p + 1)
      BY <1>2
    <2> QED  BY <2>1, <2>2
  <1> QED  BY <1>3, <1>5, <1>6 DEF r, s, t

\* A code is known by its bits.
LEMMA SameCode ==
  ASSUME NEW a \in Code, NEW d \in Code,
         \A i \in 1..UidBits : SddRes(a)[i] = SddRes(d)[i]
  PROVE  a = d
  <1>1. \A e \in Code : /\ Len(SddRes(e)) = UidBits + BITS_IN_BYTE
                        /\ SddRes(e) \in Seq({0, 1})
                        /\ SubSeq(SddRes(e), 1, UidBits) = e
    BY SddResBits
  <1>2. \A e \in Code : SubSeq(SddRes(e), 1, UidBits) = [i \in 1..UidBits |-> SddRes(e)[i]]
    BY <1>1, Widths
  <1> QED  BY <1>1, <1>2

\* The cards at the level being resolved, with what is known of their bits.
LEMMA MatchingBits ==
  ASSUME IInv
  PROVE  /\ cascadeLv \in 1..3 /\ selReq \in Seq({0, 1})
         /\ Len(selReq) \in Nat /\ Len(selReq) <= UidBits + BITS_IN_BYTE
         /\ \A c \in Matching(cascadeLv, selReq) :
                /\ c \in field /\ c \in Uids /\ card[c] = Ready[cascadeLv]
                /\ cascadeLv \in 1..Len(c) /\ c[cascadeLv] \in Code
                /\ \A i \in 1..Len(selReq) : SddRes(c[cascadeLv])[i] = selReq[i]
  <1>1. /\ cascadeLv \in 1..3 /\ selReq \in Seq({0, 1})
        /\ Len(selReq) <= UidBits + BITS_IN_BYTE
    BY DEF IInv, TypeOK, ResolutionTypeOK
  <1>2. ASSUME NEW c \in Matching(cascadeLv, selReq)
        PROVE  /\ c \in field /\ c \in Uids /\ card[c] = Ready[cascadeLv]
               /\ cascadeLv \in 1..Len(c) /\ c[cascadeLv] \in Code
               /\ \A i \in 1..Len(selReq) : SddRes(c[cascadeLv])[i] = selReq[i]
    <2>1. c \in field /\ card[c] = Ready[cascadeLv] /\ Begins(c, cascadeLv, selReq)
      BY DEF Matching, Begins
    <2>2. c \in Uids
      BY <2>1, UidTypes DEF IInv, TypeOK, Fields
    <2>3. cascadeLv <= Len(c) /\ Len(c) \in 1..3
      BY <1>1, <2>1, UidLengths DEF IInv, TypeOK, Levels
    <2>4. cascadeLv \in 1..Len(c)
      BY <1>1, <2>3
    <2> QED  BY <1>1, <2>1, <2>2, <2>4, UidBitsType, BeginsBits
  <1> QED  BY <1>1, <1>2

\* The request after a step is met by a card that stayed at the level.
LEMMA StillMatching ==
  ASSUME field' = field, NEW c \in field, card'[c] = Ready[cascadeLv'],
         Begins(c, cascadeLv', selReq')
  PROVE  c \in Matching(cascadeLv, selReq)'
  BY DEF Matching, Begins

\* What a collision is: the bits before it come from a card that answers, and
\* another that answers has another bit there.
LEMMA Collision ==
  ASSUME IInv, Audible, SddCollision
  PROVE  \E a, d \in Matching(cascadeLv, selReq), p \in 0..(UidBits + BITS_IN_BYTE - 1) :
            /\ p >= Len(selReq)
            /\ SddRes(a[cascadeLv])[p + 1] # SddRes(d[cascadeLv])[p + 1]
            /\ Collide(SddRes(a[cascadeLv]), p)
            /\ p \in Noticed(Matching(cascadeLv, selReq), a, cascadeLv, Len(selReq))
  <1>1. PICK heard \in Hearings : \E strong \in SddAnswers(heard) :
            /\ Sdd(heard)
            /\ \E p \in Noticed(SddAnswers(heard), strong, cascadeLv, Len(selReq)) :
                    Collide(SddRes(strong[cascadeLv]), p)
    BY DEF SddCollision
  <1>2. PICK a \in SddAnswers(heard) :
            /\ Sdd(heard)
            /\ \E p \in Noticed(SddAnswers(heard), a, cascadeLv, Len(selReq)) :
                    Collide(SddRes(a[cascadeLv]), p)
    BY <1>1
  <1>3. SddAnswers(heard) = Matching(cascadeLv, selReq)
    BY <1>2, AllCollide
  <1>4. PICK p \in Noticed(Matching(cascadeLv, selReq), a, cascadeLv, Len(selReq)) :
            Collide(SddRes(a[cascadeLv]), p)
    BY <1>2, <1>3
  <1>5. p \in Conflicts(Matching(cascadeLv, selReq), a, cascadeLv, Len(selReq))
    BY DEF Noticed
  <1>6. /\ p \in Len(selReq) .. (UidBits + BITS_IN_BYTE - 1)
        /\ \E d \in Matching(cascadeLv, selReq) :
               SddRes(d[cascadeLv])[p + 1] # SddRes(a[cascadeLv])[p + 1]
    BY <1>5 DEF Conflicts
  <1>7. PICK d \in Matching(cascadeLv, selReq) :
            SddRes(d[cascadeLv])[p + 1] # SddRes(a[cascadeLv])[p + 1]
    BY <1>6
  <1>8. Len(selReq) \in Nat
    BY MatchingBits
  <1>9. p \in 0..(UidBits + BITS_IN_BYTE - 1) /\ p >= Len(selReq)
    BY <1>6, <1>8, Widths
  <1> QED  BY <1>2, <1>3, <1>4, <1>7, <1>9

-----------------------------------------------------------------------------
(***************************************************************************)
(* Clear air: the request has a card, and without a collision it has all.  *)
(***************************************************************************)
AllCovered == (\A c \in field : IsListed(c)) \/ Len(nfcaDevList) = RFAL_POLLER_DEVICES

ClearSky ==
    /\ pc # "backtrack"
    /\ pc \in {"SDD", "SEL"} =>
            /\ Matching(cascadeLv, selReq) # {}
            /\ ~collPending => \A c \in field : card[c] = "HALT" \/ c \in Matching(cascadeLv, selReq)
    /\ pc = "done" /\ ~collPending => \A c \in field : card[c] = "HALT" \/ c = nfcId1
    /\ pc \in Reporting => AllCovered

ClearInv == air = "clear" => ClearSky

\* The first bits that collide belong to the code: cards whose codes agree have the
\* same check byte as well.  One of the two cards has the bit that is sent next.
LEMMA ClearCollision ==
  ASSUME IInv, air = "clear", SddCollision
  PROVE  /\ Matching(cascadeLv, selReq)' # {} /\ air' = air
         /\ pc' = "SDD" /\ collPending' = TRUE
  <1> DEFINE l == cascadeLv
             M == Matching(cascadeLv, selReq)
             R(c) == SddRes(c[l])
  <1>1. PICK a \in M, d \in M, p \in 0..(UidBits + BITS_IN_BYTE - 1) :
            /\ p >= Len(selReq) /\ R(a)[p + 1] # R(d)[p + 1]
            /\ Collide(R(a), p)
            /\ p \in Noticed(M, a, l, Len(selReq))
    BY Collision DEF Audible
  <1>2. \A c \in M : /\ c \in field /\ c \in Uids /\ card[c] = Ready[l]
                     /\ l \in 1..Len(c) /\ c[l] \in Code
                     /\ \A i \in 1..Len(selReq) : R(c)[i] = selReq[i]
    BY MatchingBits
  <1>3. /\ l \in 1..3 /\ Len(selReq) \in Nat
        /\ p \in Nat /\ UidBits \in Nat /\ BITS_IN_BYTE \in Nat
    BY MatchingBits, Widths
  <1>4. \A i \in 1..p : R(d)[i] = R(a)[i]
    <2> SUFFICES ASSUME NEW i \in 1..p, i > Len(selReq)
                 PROVE  R(d)[i] = R(a)[i]
      BY <1>2, <1>3
    <2>1. \A q \in Conflicts(M, a, l, Len(selReq)) : p <= q
      BY <1>1 DEF Noticed
    <2>2. i - 1 \in Len(selReq) .. (UidBits + BITS_IN_BYTE - 1) /\ ~(p <= i - 1) /\ (i - 1) + 1 = i
      BY <1>3
    <2>3. i - 1 \notin Conflicts(M, a, l, Len(selReq))
      BY <2>1, <2>2
    <2> QED  BY <2>2, <2>3 DEF Conflicts
  <1>5. p < UidBits
    <2> SUFFICES ASSUME p >= UidBits PROVE FALSE
      BY <1>3
    <2>1. \A i \in 1..UidBits : R(d)[i] = R(a)[i]
      BY <1>3, <1>4
    <2>2. d[l] = a[l]
      BY <1>2, <2>1, SameCode
    <2> QED  BY <1>1, <2>2
  <1>6. selReq' = Append(SubSeq(R(a), 1, p), 1)
    BY <1>1, <1>3, <1>5 DEF Collide
  <1>7. p + 1 \in 1..(UidBits + BITS_IN_BYTE)
    BY <1>3
  <1>8. PICK e \in {a, d} : R(e)[p + 1] = 1
    <2>1. R(a)[p + 1] \in {0, 1} /\ R(d)[p + 1] \in {0, 1}
      BY <1>2, <1>7, UidBitsType
    <2> QED  BY <1>1, <2>1
  <1>9. e \in M /\ \A i \in 1..p : R(e)[i] = R(a)[i]
    BY <1>4
  <1>10. Begins(e, l, selReq')
    <2>1. 1 \in {0, 1} /\ l \in Nat
      BY <1>3
    <2> QED  BY <1>2, <1>6, <1>8, <1>9, <2>1, BeginsMore
  <1>11. /\ field' = field /\ air' = air /\ cascadeLv' = l /\ pc' = "SDD"
         /\ \A c \in M : card'[c] = card[c]
    <2>1. PICK heard \in Hearings : Sdd(heard)
      BY DEF SddCollision
    <2>2. pc' = pc /\ cascadeLv' = l
      BY DEF SddCollision
    <2> QED  BY <1>2, <2>1, <2>2, AllCollide DEF Audible
  <1>12. e \in Matching(cascadeLv, selReq)'
    BY <1>2, <1>9, <1>10, <1>11, StillMatching
  <1> QED  BY <1>11, <1>12 DEF SddCollision

\* Without a collision all that answer have the same code.
LEMMA Complete ==
  ASSUME IInv, Audible, SddComplete
  PROVE  /\ Matching(cascadeLv, selReq)' # {}
         /\ air = "clear" => \A c \in Matching(cascadeLv, selReq) : c \in Matching(cascadeLv, selReq)'
         /\ pc = "SDD" /\ pc' = "SEL" /\ air' = air /\ field' = field
         /\ \A c \in field : card[c] = "HALT" => card'[c] = "HALT"
         /\ UNCHANGED <<cascadeLv, collPending, nfcaDevList>>
  <1> DEFINE l == cascadeLv
             M == Matching(cascadeLv, selReq)
             R(c) == SddRes(c[l])
  <1>1. PICK heard \in Hearings : \E strong \in SddAnswers(heard) :
            /\ Sdd(heard)
            /\ CanMissCollisions(SddAnswers(heard), strong, cascadeLv, Len(selReq))
            /\ selReq' = SddRes(strong[cascadeLv])
    BY DEF SddComplete
  <1>2. SddAnswers(heard) = M
    BY <1>1, AllCollide
  <1>3. PICK a \in M : /\ Sdd(heard)
                       /\ CanMissCollisions(M, a, l, Len(selReq))
                       /\ selReq' = R(a)
    BY <1>1, <1>2
  <1>4. \A c \in M : /\ c \in field /\ c \in Uids /\ card[c] = Ready[l]
                     /\ l \in 1..Len(c) /\ c[l] \in Code
                     /\ R(c) \in Seq({0, 1}) /\ Len(R(c)) = UidBits + BITS_IN_BYTE
                     /\ \A i \in 1..Len(selReq) : R(c)[i] = selReq[i]
    BY MatchingBits, UidBitsType
  <1>5. /\ pc = "SDD" /\ pc' = "SEL" /\ field' = field /\ air' = air
        /\ UNCHANGED <<cascadeLv, collPending, nfcaDevList>>
        /\ \A c \in field : card'[c] = IF c \in M THEN card[c] ELSE Quit(c)
    BY <1>3, AllCollide DEF SddComplete
  <1>6. \A c \in M : R(c) = R(a) => c \in Matching(cascadeLv, selReq)'
    <2> SUFFICES ASSUME NEW c \in M, R(c) = R(a)
                 PROVE  c \in Matching(cascadeLv, selReq)'
      OBVIOUS
    <2>1. Begins(c, l, selReq')
      BY <1>3, <1>4, SubSeqFull DEF Begins
    <2>2. card'[c] = Ready[l] /\ c \in field
      BY <1>4, <1>5
    <2> QED  BY <1>5, <2>1, <2>2, StillMatching
  <1>7. ASSUME air = "clear", NEW c \in M
        PROVE  R(c) = R(a)
    <2>1. Conflicts(M, a, l, Len(selReq)) = {}
      BY <1>3, <1>7 DEF CanMissCollisions
    <2>2. UidBits \in Nat /\ BITS_IN_BYTE \in Nat /\ Len(selReq) \in Nat
      BY Widths, MatchingBits
    <2>3. \A i \in 1..(UidBits + BITS_IN_BYTE) : R(c)[i] = R(a)[i]
      <3> SUFFICES ASSUME NEW i \in 1..(UidBits + BITS_IN_BYTE), i > Len(selReq)
                   PROVE  R(c)[i] = R(a)[i]
        BY <1>4, <2>2
      <3>1. i - 1 \in Len(selReq) .. (UidBits + BITS_IN_BYTE - 1) /\ (i - 1) + 1 = i
        BY <2>2
      <3> QED  BY <2>1, <3>1 DEF Conflicts
    <2> HIDE DEF R
    <2>4. R(c) \in Seq({0, 1}) /\ R(a) \in Seq({0, 1}) /\ Len(R(c)) = UidBits + BITS_IN_BYTE
          /\ Len(R(a)) = UidBits + BITS_IN_BYTE
      BY <1>4, <1>7
    <2> QED  BY <2>3, <2>4, SeqEqual
  <1> QED  BY <1>5, <1>6, <1>7 DEF Quit

\* Whoever has the code of a level is on the next one, or selected.
LEMMA SelectedNext ==
  ASSUME IInv, Audible, SelRes
  PROVE  /\ pc = "SEL" /\ air' = air /\ field' = field
         /\ UNCHANGED <<collPending, nfcaDevList>>
         /\ \A c \in field : card[c] = "HALT" => card'[c] = "HALT"
         /\ \/ /\ pc' = "SDD" /\ cascadeLv' = cascadeLv + 1
               /\ \A c \in Matching(cascadeLv, selReq) : c \in Matching(cascadeLv, selReq)'
            \/ /\ pc' = "done"
               /\ \A c \in Matching(cascadeLv, selReq) : c = nfcId1'
  <1> DEFINE l == cascadeLv
             M == Matching(cascadeLv, selReq)
  <1>1. PICK heard \in Hearings : \E c \in SddAnswers(heard) : Sel(heard) /\ selRes' = TypeOf(c)
    BY DEF SelRes
  <1>2. Sel(heard)
    BY <1>1
  <1>3. /\ pc = "SEL" /\ field' = field /\ air' = air
        /\ SddAnswers(heard) = M
        /\ \A c \in field : card'[c] = IF c \notin M THEN Quit(c)
                                       ELSE IF l < Len(c) THEN Ready[l + 1] ELSE "ACTIVE"
    BY <1>2, AllSelect
  <1>4. /\ UNCHANGED <<collPending, nfcaDevList>>
        /\ nfcId1' = Append(nfcId1, Code1)
        /\ NextLevel \/ LastLevel
    BY DEF SelRes
  <1>5. \A c \in field : card[c] = "HALT" => card'[c] = "HALT"
    <2> SUFFICES ASSUME NEW c \in field, card[c] = "HALT" PROVE card'[c] = "HALT"
      OBVIOUS
    <2>1. c \notin M
      BY MatchingBits, ReadyStates
    <2> QED  BY <1>3, <2>1 DEF Quit
  <1>6. CASE NextLevel
    <2>1. /\ pc' = "SDD" /\ cascadeLv' = l + 1 /\ selReq' = <<>>
          /\ FirstByte(selReq) = SDD_CT
      BY <1>6 DEF NextLevel
    <2>2. ASSUME NEW c \in M
          PROVE  c \in Matching(cascadeLv, selReq)'
      <3>1. c \in field /\ l < Len(c)
        BY <1>2, <1>3, <1>4, <2>1, SelectedCode
      <3>2. card'[c] = Ready[cascadeLv']
        BY <1>3, <2>1, <3>1
      <3>3. Begins(c, cascadeLv', selReq')
        BY <2>1 DEF Begins
      <3> QED  BY <1>3, <3>1, <3>2, <3>3, StillMatching
    <2> QED  BY <1>3, <1>4, <1>5, <2>1, <2>2
  <1>7. CASE LastLevel
    <2>1. pc' = "done"
      BY <1>7 DEF LastLevel
    <2>2. \A c \in M : c = nfcId1'
      BY <1>2, <1>4, <1>7, SelectedIs
    <2> QED  BY <1>3, <1>4, <1>5, <2>1, <2>2
  <1> QED  BY <1>4, <1>6, <1>7

\* Nothing is silent or garbled as long as the request is met by a card.
LEMMA NoFailure ==
  ASSUME IInv, Audible, Matching(cascadeLv, selReq) # {}
  PROVE  ~SddTimeout /\ ~SddFails /\ ~SelFails
  <1>1. ASSUME NEW heard \in Hearings, Sdd(heard) \/ Sel(heard)
        PROVE  ~Silence(SddAnswers(heard)) /\ ~Garbled(SddAnswers(heard))
    <2>1. SddAnswers(heard) = Matching(cascadeLv, selReq)
      BY <1>1, AllCollide, AllSelect
    <2> QED  BY <2>1, AnswersHeard
  <1>2. ~SddTimeout
    BY <1>1 DEF SddTimeout
  <1>3. ~SddFails
    BY <1>1 DEF SddFails
  <1>4. ~SelFails
    BY <1>1 DEF SelFails
  <1> QED  BY <1>2, <1>3, <1>4

\* Copying and activating change neither the devices resolved nor who is there.
LEMMA CopyKeeps ==
  ASSUME IInv, Copy \/ Ats \/ NoAts
  PROVE  /\ pc \in Reporting /\ pc' \in Reporting
         /\ field' = field /\ nfcaDevList' = nfcaDevList
         /\ air' = air
  <1>1. CASE Copy
    BY <1>1 DEF Copy, cardVars, field, CopyNext, Reporting
  <1>2. CASE Ats \/ NoAts
    <2>1. PICK heard \in Hearings : Rats(heard)
      BY <1>2 DEF Ats, NoAts
    <2>2. pc = "RATS" /\ pc' \in {"RATS", CopyNext} /\ nfcaDevList' = nfcaDevList
      BY <1>2, <2>1 DEF Ats, NoAts, Rats
    <2>3. field' = field /\ air' = air
      BY <2>1, Activates DEF IInv, TypeOK
    <2> QED  BY <2>2, <2>3 DEF CopyNext, Reporting
  <1> QED  BY <1>1, <1>2

\* Among all cards either none has the bits of a first request, or some.
LEMMA FirstRequest ==
  ASSUME IInv, StartSingle, field' = field
  PROVE  /\ cascadeLv' = 1 /\ selReq' = <<>> /\ backtrackCnt' = BACKTRACKS
         /\ \A c \in field : card'[c] = "READY1" => c \in Matching(cascadeLv, selReq)'
  <1>1. cascadeLv' = 1 /\ selReq' = <<>> /\ backtrackCnt' = BACKTRACKS
    BY DEF StartSingle
  <1>2. ASSUME NEW c \in field, card'[c] = "READY1"
        PROVE  c \in Matching(cascadeLv, selReq)'
    <2>1. card'[c] = Ready[cascadeLv']
      BY <1>1, <1>2 DEF Ready
    <2>2. Begins(c, cascadeLv', selReq')
      BY <1>1 DEF Begins
    <2> QED  BY <2>1, <2>2, StillMatching
  <1> QED  BY <1>1, <1>2

\* The device just resolved joins the list; when it is the last one, the list is
\* full or has everybody.
LEMMA LastListed ==
  ASSUME IInv, IInv', Placed, air = "clear", ClearSky, Assign, pc' = "copy"
  PROVE  AllCovered'
  <1>1. /\ field' = field
        /\ \A c \in field : IsListed(c) \/ c = nfcId1 => IsListed(c)'
    BY ListingPlaces DEF Audible
  <1>2. pc = "done" /\ (collPending => ~(Len(nfcaDevList') < RFAL_POLLER_DEVICES))
    BY DEF Assign
  <1>3. CASE collPending
    <2>1. Len(nfcaDevList') \in Nat /\ Len(nfcaDevList') <= RFAL_POLLER_DEVICES
      BY DEF IInv, TypeOK, ListTypeOK
    <2> QED  BY <1>2, <1>3, <2>1, PollerAssumption DEF AllCovered
  <1>4. CASE ~collPending
    <2>1. \A c \in field : card[c] = "HALT" \/ c = nfcId1
      BY <1>2, <1>4 DEF ClearSky
    <2>2. \A c \in field : card[c] = "HALT" => IsListed(c)
      BY <1>2 DEF Placed, Pending
    <2> QED  BY <1>1, <2>1, <2>2 DEF AllCovered
  <1> QED  BY <1>3, <1>4

LEMMA ClearKept ==
  ASSUME IInv, IInv', PlacedInv, ClearInv, [Next]_vars
  PROVE  ClearInv'
  <1> SUFFICES ASSUME air' = "clear" PROVE ClearSky'
    BY DEF ClearInv
  <1>1. CASE UNCHANGED vars
    <2>1. UNCHANGED <<pc, card, air, field, crVars, nfcaDevList>>
      BY <1>1 DEF vars, cardVars, field
    <2>2. ClearSky
      BY <2>1 DEF ClearInv
    <2>3. /\ UNCHANGED <<cascadeLv, selReq, nfcId1, pc, nfcaDevList, field, card>>
          /\ collPending' = collPending
      BY <2>1 DEF crVars
    <2>4. Matching(cascadeLv, selReq)' = Matching(cascadeLv, selReq)
      BY <2>3 DEF Matching
    <2>5. AllCovered' = AllCovered
      BY <2>3 DEF AllCovered, IsListed, Devices
    <2> QED  BY <2>2, <2>3, <2>4, <2>5 DEF ClearSky
  <1>2. CASE pc' \in {"techSleep", "colAvoidance", "techDetect", "idle", "devSleep", "others"}
    BY <1>2 DEF ClearSky, Reporting
  <1>3. CASE TechSleep \/ DevSleep \/ Deactivate \/ Button \/ ScanTags
    BY <1>2, <1>3 DEF TechSleep, DevSleep, Deactivate, Button, FieldOff, ScanTags
  <1> SUFFICES ASSUME ~(UNCHANGED vars), ~(TechSleep \/ DevSleep \/ Deactivate \/ Button \/ ScanTags)
               PROVE  ClearSky'
    BY <1>1, <1>3
  <1>4. air' = air
    <2>1. \/ UNCHANGED cardVars
          \/ \E heard \in Hearings, after \in {AfterWake(REQA), AfterWake(WUPA), AfterHlta,
                 AfterSdd(cascadeLv, selReq), AfterSel(cascadeLv, selReq), AfterRats} :
                 React(heard, after)
      BY DEF Next, Scan, TechDetection, StartFull, SddCollision, SddTimeout, Backtrack, SddFails,
             SddComplete, SelRes, SelFails, Assign, Others, Copy, Ats, NoAts,
             CheckPresence, Sdd, Sel, Rats
    <2> QED  BY <2>1 DEF React, cardVars
  <1>5. Audible /\ Placed /\ ClearSky
    BY <1>4 DEF Audible, PlacedInv, ClearInv
  <1>6. CASE TechDetection
    <2>1. PICK heard \in Hearings :
              /\ CheckPresence(REQA, heard)
              /\ pc' = "techSleep" \/ (Absent(REQA, heard) /\ pc' = "deactivate")
      BY <1>6 DEF TechDetection
    <2>2. \A c \in field : card[c] = "IDLE"
      BY <1>5, <1>6 DEF TechDetection, Placed
    <2>3. field' = field /\ (Absent(REQA, heard) => field = {})
      BY <1>5, <2>1, <2>2, AllWake DEF REQA
    <2>4. CASE pc' = "deactivate"
      <3>1. field' = {}
        BY <2>1, <2>3, <2>4
      <3> QED  BY <2>4, <3>1 DEF ClearSky, AllCovered, Reporting
    <2> QED  BY <1>2, <2>1, <2>4
  <1>7. CASE StartFull \/ Others
    <2>1. /\ field' = field /\ nfcaDevList' = nfcaDevList
          /\ pc' = "SDD" => /\ StartSingle
                            /\ \A c \in field : card'[c] \in {"READY1", "HALT"}
                            /\ \E c \in field : card'[c] = "READY1"
          /\ pc' = "deactivate" => field = {}
          /\ pc' = "copy" => \A c \in field : IsListed(c)
          /\ pc' \in {"SDD", "deactivate", "copy"}
      BY <1>5, <1>7, StartPlaces
    <2>2. CASE pc' = "SDD"
      <3>1. \A c \in field : card'[c] = "READY1" => c \in Matching(cascadeLv, selReq)'
        BY <2>1, <2>2, FirstRequest
      <3> QED  BY <2>1, <2>2, <3>1 DEF ClearSky, Reporting
    <2>3. CASE pc' \in {"deactivate", "copy"}
      <3>1. \A c \in field' : IsListed(c)'
        BY <2>1, <2>3 DEF IsListed, Devices
      <3> QED  BY <2>3, <3>1 DEF ClearSky, AllCovered
    <2> QED  BY <2>1, <2>2, <2>3
  <1>8. CASE SddCollision
    BY <1>4, <1>8, ClearCollision DEF ClearSky, Reporting
  <1>9. CASE SddTimeout \/ SddFails \/ SelFails \/ Backtrack
    <2>1. pc \in {"SDD", "SEL", "backtrack"}
      BY <1>9 DEF SddTimeout, SddFails, SelFails, Backtrack, Sdd, Sel
    <2>2. pc # "backtrack" /\ Matching(cascadeLv, selReq) # {}
      BY <1>5, <2>1 DEF ClearSky
    <2>3. ~Backtrack
      BY <2>2 DEF Backtrack
    <2> QED  BY <1>5, <1>9, <2>2, <2>3, NoFailure
  <1>10. CASE SddComplete
    BY <1>4, <1>5, <1>10, Complete DEF ClearSky, Reporting
  <1>11. CASE SelRes
    BY <1>5, <1>11, SelectedNext DEF ClearSky, Reporting
  <1>12. CASE Assign
    <2>1. pc' \in {"devSleep", "copy"}
      BY <1>12 DEF Assign
    <2>2. pc' = "copy" => AllCovered'
      BY <1>4, <1>5, <1>12, LastListed
    <2> QED  BY <2>1, <2>2 DEF ClearSky, Reporting
  <1>13. CASE Copy \/ Ats \/ NoAts
    <2>1. /\ pc \in Reporting /\ pc' \in Reporting
          /\ field' = field /\ nfcaDevList' = nfcaDevList
      BY <1>13, CopyKeeps
    <2>2. AllCovered'
      BY <1>5, <2>1 DEF ClearSky, AllCovered, IsListed, Devices
    <2> QED  BY <2>1, <2>2 DEF ClearSky, Reporting
  <1> QED  BY <1>6, <1>7, <1>8, <1>9, <1>10, <1>11, <1>12, <1>13 DEF Next, Scan

LEMMA ClearAlways == Spec => []ClearInv
  <1>1. Init => ClearInv
    BY DEF Init, ClearInv, ClearSky, Reporting
  <1>2. IInv /\ IInv' /\ PlacedInv /\ ClearInv /\ [Next]_vars => ClearInv'
    BY ClearKept
  <1> QED  BY <1>1, <1>2, Invariance, Placement, PTL DEF Spec

-----------------------------------------------------------------------------
(***************************************************************************)
(* Counting the devices of the list.                                       *)
(***************************************************************************)
LEMMA FieldFinite ==
  ASSUME CardsTypeOK
  PROVE  IsFiniteSet(field) /\ Cardinality(field) \in Nat
  <1>1. field \subseteq Uids /\ IsFiniteSet(Uids)
    BY UidTypes, UidAssumption DEF Fields
  <1>2. IsFiniteSet(field)
    BY <1>1, FS_Subset
  <1> QED  BY <1>2, FS_CardinalityType

LEMMA Counted ==
  ASSUME IInv, air # "lossy"
  PROVE  /\ Len(nfcaDevList) <= Cardinality(field)
         /\ (\A c \in field : IsListed(c)) => Len(nfcaDevList) = Cardinality(field)
         /\ Len(nfcaDevList) \in Nat /\ Cardinality(field) \in Nat
  <1> DEFINE f == [i \in Devices |-> nfcaDevList[i].nfcId1]
  <1>1. /\ \A i \in Devices : nfcaDevList[i].nfcId1 \in field
        /\ \A i, j \in Devices : nfcaDevList[i].nfcId1 = nfcaDevList[j].nfcId1 => i = j
    BY DEF IInv, RealCards, NoneTwice
  <1>2. Len(nfcaDevList) \in Nat
    BY DEF IInv, TypeOK, ListTypeOK
  <1>3. IsFiniteSet(Devices) /\ Cardinality(Devices) = Len(nfcaDevList)
    <2>1. \A n \in Nat : 1 \in Int /\ n \in Int /\ n - 1 + 1 = n /\ (1 > n => n = 0)
      OBVIOUS
    <2> QED  BY <1>2, <2>1, FS_Interval DEF Devices
  <1>4. IsFiniteSet(field) /\ Cardinality(field) \in Nat
    BY FieldFinite DEF IInv, TypeOK
  <1>5. f \in Injection(Devices, field)
    BY <1>1 DEF Injection, IsInjective
  <1>6. (\A c \in field : IsListed(c)) => f \in Surjection(Devices, field)
    BY <1>1 DEF IsListed, Surjection
  <1> HIDE DEF f
  <1>7. /\ Cardinality(Devices) <= Cardinality(field)
        /\ Cardinality(Devices) = Cardinality(field) <=> f \in Surjection(Devices, field)
    BY <1>4, <1>5, FS_Injection
  <1> QED  BY <1>2, <1>3, <1>4, <1>6, <1>7

\* In clear air a scan reports every card there is room for: with fewer cards than
\* RFAL_POLLER_DEVICES all of them, otherwise as many as the list takes.
THEOREM EveryCardFound == Spec => []AllFound
  <1>1. IInv /\ PlacedInv /\ ClearInv => AllFound
    <2> SUFFICES ASSUME IInv, PlacedInv, ClearInv, Over, air = "clear", field # {}
                 PROVE  Len(gDevList) = IF Cardinality(field) < RFAL_POLLER_DEVICES
                                        THEN Cardinality(field) ELSE RFAL_POLLER_DEVICES
      BY DEF AllFound
    <2>1. Len(gDevList) = Len(nfcaDevList) /\ AllCovered
      BY DEF PlacedInv, Copied, ClearInv, ClearSky, Over, Reporting
    <2>2. Len(nfcaDevList) <= RFAL_POLLER_DEVICES
      BY DEF IInv, TypeOK, ListTypeOK
    <2>3. air # "lossy"
      OBVIOUS
    <2>4. /\ Len(nfcaDevList) <= Cardinality(field)
          /\ (\A c \in field : IsListed(c)) => Len(nfcaDevList) = Cardinality(field)
          /\ Len(nfcaDevList) \in Nat /\ Cardinality(field) \in Nat
      BY <2>3, Counted
    <2>5. RFAL_POLLER_DEVICES \in Nat
      BY PollerAssumption
    <2>6. Len(nfcaDevList) \in {Cardinality(field), RFAL_POLLER_DEVICES}
      BY <2>1, <2>4 DEF AllCovered
    <2> QED  BY <2>1, <2>2, <2>4, <2>5, <2>6
  <1> QED  BY <1>1, Invariance, Placement, ClearAlways, PTL

-----------------------------------------------------------------------------
(***************************************************************************)
(* Weak air: the budget of backtracks.                                     *)
(***************************************************************************)
Unlisted == {c \in field : card[c] # "HALT"}
Candidates(bits) == {c \in Unlisted : Begins(c, 1, bits)}

\* The request with its last bit turned, which is what a backtrack sends.
Flipped == Append(Front(selReq), 1 - Last(selReq))

\* There are cards for the request, or for the one a backtrack leads to; a backtrack
\* is left for each of them but the first.
OnTrack ==
    /\ Candidates(selReq) # {}
    /\ \A c \in Candidates(selReq) : card[c] = "READY1"
    /\ Cardinality(Candidates(selReq)) <= backtrackCnt + 1

Redeemable ==
    /\ selReq # <<>> /\ Candidates(Flipped) # {}
    /\ Cardinality(Candidates(Flipped)) <= backtrackCnt

Astray == Candidates(selReq) = {} /\ ~doBacktrack /\ Redeemable

Distinct == \A c, d \in field : c[1] = d[1] => c = d
Few == air = "weak" /\ Distinct /\ Cardinality(field) <= BACKTRACKS + 1

Budget ==
    /\ pc = "SDD" /\ cascadeLv = 1 => OnTrack \/ Astray
    /\ pc = "backtrack" => cascadeLv = 1 /\ Redeemable /\ \A c \in field : card[c] \in {"IDLE", "HALT"}
    /\ pc = "SDD" /\ cascadeLv # 1 => Matching(cascadeLv, selReq) # {}
    /\ pc = "SEL" => Matching(cascadeLv, selReq) # {}
    /\ pc = "deactivate" => gDevList # <<>> \/ field = {}

BudgetInv == Few => Budget

\* A set that leaves out an element has one less at least.
LEMMA OneLess ==
  ASSUME NEW S, IsFiniteSet(S), NEW T, T \subseteq S, NEW x \in S, x \notin T
  PROVE  /\ IsFiniteSet(T) /\ Cardinality(T) \in Nat /\ Cardinality(S) \in Nat
         /\ Cardinality(T) + 1 <= Cardinality(S)
  <1>1. IsFiniteSet(S \ {x}) /\ Cardinality(S \ {x}) = Cardinality(S) - 1
    BY FS_RemoveElement
  <1>2. T \subseteq S \ {x}
    OBVIOUS
  <1>3. IsFiniteSet(T) /\ Cardinality(T) <= Cardinality(S \ {x})
    BY <1>1, <1>2, FS_Subset
  <1>4. Cardinality(T) \in Nat /\ Cardinality(S) \in Nat
    BY <1>3, FS_CardinalityType
  <1> QED  BY <1>1, <1>3, <1>4

LEMMA SomeMembers ==
  ASSUME NEW S, IsFiniteSet(S), S # {}
  PROVE  Cardinality(S) \in Nat /\ Cardinality(S) >= 1
  <1>1. Cardinality(S) \in Nat
    BY FS_CardinalityType
  <1>2. Cardinality(S) # 0
    BY FS_EmptySet
  <1> QED  BY <1>1, <1>2

LEMMA CandidatesFinite ==
  ASSUME CardsTypeOK, NEW bits
  PROVE  /\ IsFiniteSet(Candidates(bits)) /\ Cardinality(Candidates(bits)) \in Nat
         /\ Cardinality(Candidates(bits)) <= Cardinality(field)
  <1>1. IsFiniteSet(field)
    BY FieldFinite
  <1>2. Candidates(bits) \subseteq field
    BY DEF Candidates, Unlisted
  <1> QED  BY <1>1, <1>2, FS_Subset, FS_CardinalityType

\* An SDD_REQ puts nobody to sleep and wakes nobody.
LEMMA SddCards ==
  ASSUME IInv, Audible, NEW heard \in Hearings, Sdd(heard)
  PROVE  /\ pc = "SDD" /\ field' = field /\ air' = air
         /\ Unlisted' = Unlisted
         /\ SddAnswers(heard) = Matching(cascadeLv, selReq)
         /\ \A c \in Matching(cascadeLv, selReq) : card'[c] = card[c]
         /\ \A c \in field : c \notin Matching(cascadeLv, selReq) => card'[c] = Quit(c)
  <1>1. /\ pc = "SDD" /\ field' = field /\ air' = air
        /\ SddAnswers(heard) = Matching(cascadeLv, selReq)
        /\ \A c \in field : card'[c] = IF c \in Matching(cascadeLv, selReq)
                                       THEN card[c] ELSE Quit(c)
    BY AllCollide
  <1>2. \A c \in field : card'[c] # "HALT" <=> card[c] # "HALT"
    BY <1>1 DEF Quit
  <1>3. Unlisted' = Unlisted
    BY <1>1, <1>2 DEF Unlisted
  <1> QED  BY <1>1, <1>3 DEF Matching

\* At the first level the cards that answer are the candidates.
LEMMA AnswerOfCandidates ==
  /\ Matching(1, selReq) \subseteq Candidates(selReq)
  /\ OnTrack => Matching(1, selReq) = Candidates(selReq)
  <1>1. \A c : c \in Matching(1, selReq) <=> c \in field /\ card[c] = "READY1" /\ Begins(c, 1, selReq)
    BY DEF Matching, Begins, Ready
  <1>2. \A c : c \in Candidates(selReq) <=> c \in field /\ card[c] # "HALT" /\ Begins(c, 1, selReq)
    BY DEF Candidates, Unlisted
  <1> QED  BY <1>1, <1>2 DEF OnTrack

\* A collision at the first level.  Of the two cards with another bit there one is
\* left out, and may be one of those the reader has lost; the backtrack that was kept
\* for it is the one it costs to come back.
LEMMA CollisionCosts ==
  ASSUME IInv, air = "weak", Distinct, cascadeLv = 1, OnTrack, SddCollision
  PROVE  (OnTrack \/ Astray)'
  <1> DEFINE C == Candidates(selReq)
             R(c) == SddRes(c[1])
             cnt == backtrackCnt
             Bit(p, v, a) == Append(SubSeq(R(a), 1, p), v)
  <1>1. PICK a \in Matching(1, selReq), d \in Matching(1, selReq),
             p \in 0..(UidBits + BITS_IN_BYTE - 1) :
            /\ p >= Len(selReq) /\ R(a)[p + 1] # R(d)[p + 1]
            /\ Collide(R(a), p)
    BY Collision DEF Audible
  <1>2. /\ a \in C /\ d \in C /\ a # d
        /\ card[a] = "READY1" /\ card[d] = "READY1"
        /\ a \in field /\ d \in field
    BY <1>1, AnswerOfCandidates DEF OnTrack, Candidates, Unlisted
  <1>3. \A c \in field : /\ c \in Uids /\ 1 \in 1..Len(c) /\ c[1] \in Code
                         /\ R(c) \in Seq({0, 1}) /\ Len(R(c)) = UidBits + BITS_IN_BYTE
                         /\ \A i \in 1..(UidBits + BITS_IN_BYTE) : R(c)[i] \in {0, 1}
    <2> SUFFICES ASSUME NEW c \in field
                 PROVE  /\ c \in Uids /\ 1 \in 1..Len(c) /\ c[1] \in Code
                        /\ R(c) \in Seq({0, 1}) /\ Len(R(c)) = UidBits + BITS_IN_BYTE
                        /\ \A i \in 1..(UidBits + BITS_IN_BYTE) : R(c)[i] \in {0, 1}
      OBVIOUS
    <2>1. c \in Uids /\ Len(c) \in 1..3
      BY UidTypes DEF IInv, TypeOK, Fields
    <2>2. 1 \in 1..Len(c)
      BY <2>1
    <2> QED  BY <2>1, <2>2, UidBitsType
  <1>4. /\ p \in Nat /\ UidBits \in Nat /\ BITS_IN_BYTE \in Nat /\ Len(selReq) \in Nat
        /\ p + 1 \in 1..(UidBits + BITS_IN_BYTE) /\ cnt \in Nat
    <2>1. UidBits \in Nat /\ BITS_IN_BYTE \in Nat /\ Len(selReq) \in Nat /\ cnt \in Nat
      BY Widths, MatchingBits, PollerAssumption DEF IInv, TypeOK, ResolutionTypeOK
    <2> QED  BY <2>1
  <1>5. /\ field' = field /\ Unlisted' = Unlisted /\ cascadeLv' = 1 /\ doBacktrack' = FALSE
        /\ \A c \in C : card'[c] = "READY1"
    <2>1. PICK heard \in Hearings : Sdd(heard)
      BY DEF SddCollision
    <2>2. \A c \in Matching(1, selReq) : card'[c] = card[c]
      BY <2>1, SddCards DEF Audible
    <2>3. \A c \in C : c \in Matching(1, selReq) /\ card[c] = "READY1"
      BY AnswerOfCandidates DEF OnTrack
    <2>4. cascadeLv' = 1 /\ doBacktrack' = FALSE
      BY DEF SddCollision
    <2> QED  BY <2>1, <2>2, <2>3, <2>4, SddCards DEF Audible
  <1>6. IsFiniteSet(C) /\ Cardinality(C) \in Nat /\ Cardinality(C) <= cnt + 1
    BY CandidatesFinite DEF IInv, TypeOK, OnTrack
  <1>7. cnt >= 1
    <2>1. IsFiniteSet({a}) /\ Cardinality({a}) = 1
      BY FS_Singleton
    <2>2. {a} \subseteq C /\ d \notin {a}
      BY <1>2
    <2>3. Cardinality({a}) + 1 <= Cardinality(C)
      BY <1>2, <1>6, <2>2, OneLess
    <2> QED  BY <1>4, <1>6, <2>1, <2>3
  <1>8. CASE p > UidBits
    <2>1. selReq' = a[1] /\ backtrackCnt' = cnt - 1
      <3>1. selReq' = SubSeq(R(a), 1, UidBits) /\ backtrackCnt' = cnt - 1
        BY <1>1, <1>4, <1>7, <1>8 DEF Collide
      <3> QED  BY <1>2, <1>3, <3>1, SddResBits
    <2>2. \A c \in Unlisted : Begins(c, 1, selReq') <=> c = a
      <3> SUFFICES ASSUME NEW c \in Unlisted PROVE Begins(c, 1, selReq') <=> c = a
        OBVIOUS
      <3>1. c \in field
        BY DEF Unlisted
      <3>2. Len(selReq') = UidBits
        BY <1>2, <1>3, <1>4, <2>1 DEF Code
      <3>3. SubSeq(R(c), 1, UidBits) = c[1]
        BY <1>3, <3>1, SddResBits
      <3>4. Begins(c, 1, selReq') <=> c[1] = a[1]
        BY <2>1, <3>2, <3>3 DEF Begins
      <3> QED  BY <1>2, <3>1, <3>4 DEF Distinct
    <2>3. a \in Unlisted
      BY <1>2 DEF Candidates
    <2>4. Candidates(selReq)' = {a}
      BY <1>5, <2>2, <2>3 DEF Candidates, Begins
    <2>5. Cardinality({a}) = 1
      BY FS_Singleton
    <2>6. 1 <= backtrackCnt' + 1
      BY <1>4, <1>7, <2>1
    <2>7. card'[a] = "READY1"
      BY <1>2, <1>5
    <2> QED  BY <2>4, <2>5, <2>6, <2>7 DEF OnTrack
  <1>9. CASE ~(p > UidBits)
    <2> DEFINE D(v) == {c \in Unlisted : Begins(c, 1, Bit(p, v, a))}
    <2>1. selReq' = Bit(p, 1, a) /\ backtrackCnt' = cnt
      BY <1>1, <1>9 DEF Collide
    <2>2. \A v \in {0, 1} : \A c \in Unlisted :
            c \in D(v) <=> (\A i \in 1..p : R(c)[i] = R(a)[i]) /\ R(c)[p + 1] = v
      <3> SUFFICES ASSUME NEW v \in {0, 1}, NEW c \in Unlisted
                   PROVE  c \in D(v) <=> (\A i \in 1..p : R(c)[i] = R(a)[i]) /\ R(c)[p + 1] = v
        OBVIOUS
      <3>1. c \in field
        BY DEF Unlisted
      <3>2. c \in Uids /\ a \in Uids /\ 1 \in 1..Len(c) /\ 1 \in 1..Len(a) /\ 1 \in Nat
        BY <1>2, <1>3, <3>1
      <3> QED  BY <3>2, BeginsMore
    <2>3. \A v \in {0, 1} : D(v) \subseteq C
      <3> SUFFICES ASSUME NEW v \in {0, 1}, NEW c \in D(v) PROVE c \in C
        OBVIOUS
      <3>1. c \in Unlisted /\ c \in field /\ c \in Uids /\ 1 \in 1..Len(c)
        BY <1>3 DEF Unlisted
      <3>2. \A i \in 1..p : R(c)[i] = R(a)[i]
        BY <2>2, <3>1
      <3>3. \A i \in 1..Len(selReq) : R(a)[i] = selReq[i]
        BY MatchingBits
      <3>4. \A i \in 1..Len(selReq) : R(c)[i] = selReq[i]
        BY <1>1, <1>4, <3>2, <3>3
      <3>5. Begins(c, 1, selReq)
        BY <3>1, <3>4, MatchingBits, BeginsBits
      <3> QED  BY <3>1, <3>5 DEF Candidates
    <2>4. \A v \in {0, 1} : Cardinality(D(v)) \in Nat /\ Cardinality(D(v)) <= cnt
      <3> SUFFICES ASSUME NEW v \in {0, 1}
                   PROVE  Cardinality(D(v)) \in Nat /\ Cardinality(D(v)) <= cnt
        OBVIOUS
      <3>1. PICK x \in {a, d} : R(x)[p + 1] # v
        BY <1>1
      <3>2. x \in C /\ x \notin D(v)
        BY <1>2, <2>2, <3>1
      <3>3. D(v) \subseteq C
        BY <2>3
      <3> HIDE DEF D, C
      <3>4. Cardinality(D(v)) \in Nat /\ Cardinality(D(v)) + 1 <= Cardinality(C)
        BY <1>6, <3>2, <3>3, OneLess
      <3> QED  BY <1>4, <1>6, <3>4
    <2>5. /\ selReq' # <<>> /\ Front(selReq') = SubSeq(R(a), 1, p) /\ Last(selReq') = 1
      <3>1. R(a) \in Seq({0, 1}) /\ p < Len(R(a)) /\ 1 \in {0, 1}
        BY <1>2, <1>3, <1>4
      <3> QED  BY <1>4, <2>1, <3>1, OneBitMore
    <2>6. Candidates(selReq)' = D(1)
      BY <1>5, <2>1 DEF Candidates, Begins
    <2>7. CASE D(1) # {}
      <3>1. \A c \in D(1) : card'[c] = "READY1"
        BY <1>5, <2>3
      <3>2. Cardinality(D(1)) <= backtrackCnt' + 1
        BY <1>4, <2>1, <2>4
      <3> HIDE DEF D
      <3> QED  BY <2>6, <2>7, <3>1, <3>2 DEF OnTrack
    <2>8. CASE D(1) = {}
      <3>1. a \in D(0)
        <4>1. a \in Unlisted /\ R(a)[p + 1] \in {0, 1}
          BY <1>2, <1>3, <1>4 DEF Candidates
        <4> QED  BY <2>2, <2>8, <4>1
      <3>2. Flipped' = Bit(p, 0, a)
        BY <2>5 DEF Flipped
      <3>3. Candidates(Flipped)' = D(0)
        BY <1>5, <3>2 DEF Candidates, Begins
      <3>4. Redeemable'
        BY <2>1, <2>4, <2>5, <3>1, <3>3 DEF Redeemable
      <3> QED  BY <1>5, <2>6, <2>8, <3>4 DEF Astray
    <2> QED  BY <2>7, <2>8
  <1> QED  BY <1>8, <1>9

\* Past the first level one card is left, and nothing can collide with it.
LEMMA NoCollisionAbove ==
  ASSUME IInv, Audible, Distinct, cascadeLv # 1, SddCollision
  PROVE  FALSE
  <1>1. PICK a \in Matching(cascadeLv, selReq), d \in Matching(cascadeLv, selReq),
             p \in 0..(UidBits + BITS_IN_BYTE - 1) :
            SddRes(a[cascadeLv])[p + 1] # SddRes(d[cascadeLv])[p + 1]
    BY Collision
  <1>2. pc = "SDD"
    BY DEF SddCollision, Sdd
  <1>3. /\ a \in field /\ d \in field
        /\ card[a] = Ready[cascadeLv] /\ card[d] = Ready[cascadeLv]
        /\ cascadeLv \in 1..3
    BY MatchingBits
  <1>4. 1 \in 1..(cascadeLv - 1)
    BY <1>3
  <1>5. Agrees
    BY DEF IInv, Sound, Audible
  <1>6. a[1] = nfcId1[1] /\ d[1] = nfcId1[1]
    BY <1>2, <1>3, <1>4, <1>5 DEF Agrees, Resolving
  <1>7. a = d
    BY <1>3, <1>6 DEF Distinct
  <1> QED  BY <1>1, <1>7

\* All the cards of a new round are candidates, and there are backtracks for them.
LEMMA NewRound ==
  ASSUME IInv, field' = field, CardsTypeOK', Cardinality(field) <= BACKTRACKS + 1, StartSingle,
         \A c \in field : card'[c] \in {"READY1", "HALT"},
         \E c \in field : card'[c] = "READY1"
  PROVE  cascadeLv' = 1 /\ OnTrack'
  <1>1. cascadeLv' = 1 /\ selReq' = <<>> /\ backtrackCnt' = BACKTRACKS
    BY DEF StartSingle
  <1> DEFINE C == {c \in field : card'[c] # "HALT"}
  <1>2. Candidates(selReq)' = C
    BY <1>1 DEF Candidates, Unlisted, Begins
  <1>3. C # {} /\ \A c \in C : card'[c] = "READY1"
    OBVIOUS
  <1>4. IsFiniteSet(field) /\ Cardinality(field) \in Nat
    BY FieldFinite DEF IInv, TypeOK
  <1>5. C \subseteq field
    OBVIOUS
  <1> HIDE DEF C
  <1>6. Cardinality(C) \in Nat /\ Cardinality(C) <= Cardinality(field)
    BY <1>4, <1>5, FS_Subset, FS_CardinalityType
  <1>7. Cardinality(C) <= backtrackCnt' + 1
    BY <1>1, <1>4, <1>6, PollerAssumption
  <1> QED  BY <1>1, <1>2, <1>3, <1>7 DEF OnTrack

\* Nobody answers: then the request has no candidate, and a backtrack leads to some.
LEMMA TimeoutRedeemed ==
  ASSUME IInv, air = "weak", Placed, Budget, SddTimeout
  PROVE  /\ pc' = "backtrack" /\ field' = field
         /\ cascadeLv' = 1 /\ Redeemable'
         /\ \A c \in field : card'[c] \in {"IDLE", "HALT"}
  <1>1. PICK heard \in Hearings : Sdd(heard) /\ Silence(SddAnswers(heard))
    BY DEF SddTimeout
  <1>2. /\ pc' = "backtrack"
        /\ UNCHANGED <<cascadeLv, selReq, backtrackCnt>>
    BY DEF SddTimeout, crVars
  <1>3. /\ pc = "SDD" /\ field' = field /\ Unlisted' = Unlisted
        /\ \A c \in field : c \notin Matching(cascadeLv, selReq) => card'[c] = Quit(c)
    BY <1>1, SddCards DEF Audible
  <1>4. Matching(cascadeLv, selReq) = {}
    BY NoFailure DEF Audible
  <1>5. cascadeLv = 1
    BY <1>3, <1>4 DEF Budget
  <1>6. ~OnTrack
    BY <1>4, <1>5, AnswerOfCandidates DEF OnTrack
  <1>7. Redeemable
    BY <1>3, <1>5, <1>6 DEF Budget, Astray
  <1>8. Redeemable'
    <2>1. Flipped' = Flipped
      BY <1>2 DEF Flipped
    <2>2. Candidates(Flipped)' = Candidates(Flipped)
      BY <1>3, <2>1 DEF Candidates, Begins
    <2> QED  BY <1>2, <1>7, <2>2 DEF Redeemable
  <1>9. \A c \in field : card'[c] \in {"IDLE", "HALT"}
    <2>1. \A c \in field : card[c] # "ISODEP"
      BY <1>3 DEF Placed, Pending, Resolving
    <2> QED  BY <1>3, <1>4, <2>1 DEF Quit
  <1> QED  BY <1>2, <1>3, <1>5, <1>8, <1>9

LEMMA BackOnTrack ==
  ASSUME IInv, air = "weak", Budget, Backtrack
  PROVE  /\ pc' = "SDD" /\ cascadeLv' = 1 /\ OnTrack' /\ field' = field
  <1>1. PICK heard \in Hearings : CheckPresence(REQA, heard)
    BY DEF Backtrack
  <1>2. /\ pc = "backtrack" /\ pc' = "SDD"
        /\ selReq' = Flipped /\ backtrackCnt' = backtrackCnt - 1
        /\ cascadeLv' = cascadeLv
    BY DEF Backtrack, Flipped
  <1>3. /\ cascadeLv = 1 /\ Redeemable
        /\ \A c \in field : card[c] \in {"IDLE", "HALT"}
    BY <1>2 DEF Budget
  <1>4. /\ field' = field
        /\ \A c \in field : card'[c] = IF card[c] \in REQA THEN "READY1" ELSE Quit(c)
    BY <1>1, AllWake DEF Audible
  <1>5. \A c \in field : card'[c] = IF card[c] = "HALT" THEN "HALT" ELSE "READY1"
    BY <1>3, <1>4 DEF REQA, Quit
  <1>6. Unlisted' = Unlisted
    BY <1>4, <1>5 DEF Unlisted
  <1>7. Candidates(selReq)' = Candidates(Flipped)
    BY <1>2, <1>6 DEF Candidates, Begins
  <1>8. \A c \in Candidates(Flipped) : card'[c] = "READY1"
    BY <1>5 DEF Candidates, Unlisted
  <1>9. Cardinality(Candidates(Flipped)) <= backtrackCnt' + 1
    <2>1. backtrackCnt \in Nat
      BY PollerAssumption DEF IInv, TypeOK, ResolutionTypeOK
    <2>2. Cardinality(Candidates(Flipped)) <= backtrackCnt
      BY <1>3 DEF Redeemable
    <2> QED  BY <1>2, <2>1, <2>2
  <1> QED  BY <1>2, <1>3, <1>4, <1>7, <1>8, <1>9 DEF OnTrack, Redeemable

\* With the budget kept the resolution does not fail.
LEMMA NeverFails ==
  ASSUME IInv, air = "weak", Budget
  PROVE  ~SddFails /\ ~SelFails
  <1>1. CASE Matching(cascadeLv, selReq) # {}
    BY <1>1, NoFailure DEF Audible
  <1>2. CASE Matching(cascadeLv, selReq) = {}
    <2>1. ~SelFails
      BY <1>2 DEF SelFails, Sel, Budget
    <2>2. ASSUME SddFails PROVE FALSE
      <3>1. PICK heard \in Hearings :
                /\ Sdd(heard)
                /\ \/ Silence(SddAnswers(heard)) /\ ~CanBacktrack
                   \/ Garbled(SddAnswers(heard))
        BY <2>2 DEF SddFails
      <3>2. pc = "SDD" /\ ~CanBacktrack
        BY <3>1, AnswersHeard DEF Sdd, Audible
      <3>3. cascadeLv = 1 /\ ~OnTrack
        BY <1>2, <3>2, AnswerOfCandidates DEF Budget, OnTrack
      <3>4. Astray
        BY <3>2, <3>3 DEF Budget
      <3>5. backtrackCnt # 0
        <4>1. Cardinality(Candidates(Flipped)) \in Nat /\ Cardinality(Candidates(Flipped)) >= 1
          BY <3>4, CandidatesFinite, SomeMembers DEF Astray, Redeemable, IInv, TypeOK
        <4>2. Cardinality(Candidates(Flipped)) <= backtrackCnt
          BY <3>4 DEF Astray, Redeemable
        <4> QED  BY <4>1, <4>2
      <3> QED  BY <3>2, <3>4, <3>5 DEF CanBacktrack, Astray, Redeemable
    <2> QED  BY <2>1, <2>2
  <1> QED  BY <1>1, <1>2

LEMMA BudgetKept ==
  ASSUME IInv, IInv', PlacedInv, PlacedInv', BudgetInv, [Next]_vars
  PROVE  BudgetInv'
  <1> SUFFICES ASSUME Few' PROVE Budget'
    BY DEF BudgetInv
  <1>1. CASE UNCHANGED vars
    <2>1. /\ UNCHANGED <<pc, card, air, cascadeLv, selReq, doBacktrack, backtrackCnt, gDevList>>
          /\ field' = field
      BY <1>1 DEF vars, cardVars, crVars, listVars, field
    <2>2. Budget
      BY <2>1 DEF BudgetInv, Few, Distinct
    <2>3. OnTrack' = OnTrack /\ Astray' = Astray /\ Redeemable' = Redeemable
      BY <2>1 DEF OnTrack, Astray, Redeemable, Flipped, Candidates, Unlisted, Begins
    <2>4. Matching(cascadeLv, selReq)' = Matching(cascadeLv, selReq)
      BY <2>1 DEF Matching
    <2> QED  BY <2>1, <2>2, <2>3, <2>4 DEF Budget
  <1>2. CASE pc' \notin {"SDD", "backtrack", "SEL", "deactivate"}
    BY <1>2 DEF Budget
  <1>3. CASE TechSleep \/ Assign \/ DevSleep \/ Deactivate \/ Button \/ ScanTags
    BY <1>2, <1>3 DEF TechSleep, Assign, DevSleep, Deactivate, Button, FieldOff, ScanTags
  <1> SUFFICES ASSUME ~(UNCHANGED vars),
                      ~(TechSleep \/ Assign \/ DevSleep \/ Deactivate \/ Button \/ ScanTags)
               PROVE  Budget'
    BY <1>1, <1>3
  <1>4. air' = air /\ field' = field
    <2>1. \/ UNCHANGED cardVars
          \/ \E heard \in Hearings, after \in {AfterWake(REQA), AfterWake(WUPA),
                 AfterSdd(cascadeLv, selReq), AfterSel(cascadeLv, selReq), AfterRats} :
                 React(heard, after)
      BY DEF Next, Scan, TechDetection, StartFull, SddCollision, SddTimeout, Backtrack, SddFails,
             SddComplete, SelRes, SelFails, Others, Copy, Ats, NoAts, CheckPresence, Sdd, Sel, Rats
    <2> QED  BY <2>1 DEF React, cardVars, field
  <1>5. /\ air = "weak" /\ Audible /\ Distinct /\ Cardinality(field) <= BACKTRACKS + 1
        /\ Placed /\ Budget
    BY <1>4 DEF Few, Distinct, Audible, PlacedInv, BudgetInv
  <1>6. CASE TechDetection
    <2>1. PICK heard \in Hearings :
              /\ CheckPresence(REQA, heard)
              /\ pc' = "techSleep" \/ (Absent(REQA, heard) /\ pc' = "deactivate")
      BY <1>6 DEF TechDetection
    <2>2. \A c \in field : card[c] = "IDLE"
      BY <1>5, <1>6 DEF TechDetection, Placed
    <2>3. Absent(REQA, heard) => field = {}
      BY <1>5, <2>1, <2>2, AllWake DEF REQA
    <2> QED  BY <1>2, <1>4, <2>1, <2>3 DEF Budget
  <1>7. CASE StartFull \/ Others
    <2>1. /\ pc' = "SDD" => /\ StartSingle
                            /\ \A c \in field : card'[c] \in {"READY1", "HALT"}
                            /\ \E c \in field : card'[c] = "READY1"
          /\ pc' = "deactivate" => field = {}
          /\ pc' \in {"SDD", "deactivate", "copy"}
      BY <1>5, <1>7, StartPlaces
    <2>2. CardsTypeOK'
      BY DEF IInv, TypeOK
    <2>3. pc' = "SDD" => cascadeLv' = 1 /\ OnTrack'
      BY <1>4, <1>5, <2>1, <2>2, NewRound
    <2> QED  BY <1>4, <2>1, <2>3 DEF Budget
  <1>8. CASE SddCollision
    <2>1. pc = "SDD" /\ pc' = "SDD" /\ cascadeLv' = cascadeLv
      BY <1>8 DEF SddCollision, Sdd
    <2>2. cascadeLv = 1
      BY <1>5, <1>8, NoCollisionAbove
    <2>3. Candidates(selReq) # {}
      <3>1. Matching(1, selReq) # {}
        BY <1>5, <1>8, <2>2, Collision
      <3> QED  BY <3>1, AnswerOfCandidates
    <2>4. OnTrack
      BY <1>5, <2>1, <2>2, <2>3 DEF Budget, Astray
    <2>5. (OnTrack \/ Astray)'
      BY <1>5, <1>8, <2>2, <2>4, CollisionCosts
    <2> QED  BY <2>1, <2>2, <2>5 DEF Budget
  <1>9. CASE SddTimeout
    <2>1. /\ pc' = "backtrack" /\ cascadeLv' = 1 /\ Redeemable'
          /\ \A c \in field : card'[c] \in {"IDLE", "HALT"}
      BY <1>5, <1>9, TimeoutRedeemed
    <2> QED  BY <1>4, <2>1 DEF Budget
  <1>10. CASE Backtrack
    <2>1. pc' = "SDD" /\ cascadeLv' = 1 /\ OnTrack'
      BY <1>5, <1>10, BackOnTrack
    <2> QED  BY <2>1 DEF Budget
  <1>11. CASE SddFails \/ SelFails
    BY <1>5, <1>11, NeverFails
  <1>12. CASE SddComplete
    <2>1. pc' = "SEL" /\ Matching(cascadeLv, selReq)' # {}
      BY <1>5, <1>12, Complete
    <2> QED  BY <2>1 DEF Budget
  <1>13. CASE SelRes
    <2>1. /\ pc = "SEL"
          /\ \/ /\ pc' = "SDD" /\ cascadeLv' = cascadeLv + 1
                /\ \A c \in Matching(cascadeLv, selReq) : c \in Matching(cascadeLv, selReq)'
             \/ pc' = "done"
      BY <1>5, <1>13, SelectedNext
    <2>2. Matching(cascadeLv, selReq) # {} /\ cascadeLv \in 1..3
      BY <1>5, <2>1, MatchingBits DEF Budget
    <2>3. CASE pc' = "SDD"
      <3>1. cascadeLv' # 1 /\ Matching(cascadeLv, selReq)' # {}
        BY <2>1, <2>2, <2>3
      <3> QED  BY <2>3, <3>1 DEF Budget
    <2> QED  BY <1>2, <2>1, <2>3
  <1>14. CASE Copy \/ Ats \/ NoAts
    <2>1. pc' \in Reporting /\ nfcaDevList' = nfcaDevList
      BY <1>14, CopyKeeps
    <2>2. nfcaDevList # <<>>
      <3>1. CASE Copy
        <4>1. Len(gDevList) < Len(nfcaDevList)
          BY <3>1 DEF Copy, IInv, Lists
        <4>2. Len(gDevList) \in Nat
          BY DEF IInv, TypeOK, ListTypeOK
        <4> QED  BY <4>1, <4>2
      <3>2. CASE Ats \/ NoAts
        <4>1. gDevList # <<>>
          BY <3>2 DEF Ats, NoAts, Rats, IInv, Lists
        <4>2. /\ gDevList \in Seq(Device) /\ nfcaDevList \in Seq(NfcaDevice)
              /\ Len(gDevList) <= Len(nfcaDevList)
          BY DEF IInv, TypeOK, ListTypeOK
        <4>3. Len(gDevList) # 0 /\ Len(gDevList) \in Nat
          BY <4>1, <4>2, EmptySeq
        <4> QED  BY <4>2, <4>3
      <3> QED  BY <1>14, <3>1, <3>2
    <2>3. pc' = "deactivate" => gDevList' # <<>>
      <3> SUFFICES ASSUME pc' = "deactivate" PROVE gDevList' # <<>>
        OBVIOUS
      <3>1. Len(gDevList') = Len(nfcaDevList)
        BY <2>1 DEF PlacedInv, Copied
      <3>2. nfcaDevList \in Seq(NfcaDevice)
        BY DEF IInv, TypeOK, ListTypeOK
      <3>3. Len(nfcaDevList) # 0
        BY <2>2, <3>2, EmptySeq
      <3> QED  BY <3>1, <3>3
    <2> QED  BY <2>1, <2>3 DEF Budget, Reporting
  <1> QED  BY <1>6, <1>7, <1>8, <1>9, <1>10, <1>11, <1>12, <1>13, <1>14 DEF Next, Scan

LEMMA BudgetAlways == Spec => []BudgetInv
  <1>1. Init => BudgetInv
    BY DEF Init, BudgetInv, Budget
  <1>2. IInv /\ IInv' /\ PlacedInv /\ PlacedInv' /\ BudgetInv /\ [Next]_vars => BudgetInv'
    BY BudgetKept
  <1> QED  BY <1>1, <1>2, Invariance, Placement, PTL DEF Spec

\* With collisions that go unnoticed a scan still reports a card of up to
\* BACKTRACKS + 1 whose first codes differ; in clear air it reports one anyway.
THEOREM SomeCardFound == Spec => []WeakFound
  <1>1. IInv /\ AllFound /\ BudgetInv => WeakFound
    <2> SUFFICES ASSUME IInv, AllFound, BudgetInv, Over, air \in {"clear", "weak"}, field # {},
                        Distinct, Cardinality(field) <= BACKTRACKS + 1
                 PROVE  gDevList # <<>>
      BY DEF WeakFound, Distinct
    <2>1. CASE air = "weak"
      BY <2>1 DEF BudgetInv, Few, Budget, Over
    <2>2. CASE air = "clear"
      <3>1. Len(gDevList) = IF Cardinality(field) < RFAL_POLLER_DEVICES
                            THEN Cardinality(field) ELSE RFAL_POLLER_DEVICES
        BY <2>2 DEF AllFound
      <3>2. Cardinality(field) >= 1 /\ Cardinality(field) \in Nat
        BY FieldFinite, SomeMembers DEF IInv, TypeOK
      <3>3. RFAL_POLLER_DEVICES \in Nat \ {0}
        BY PollerAssumption
      <3>4. Len(gDevList) # 0
        BY <3>1, <3>2, <3>3
      <3> QED  BY <3>4
    <2> QED  BY <2>1, <2>2
  <1> QED  BY <1>1, Invariance, EveryCardFound, BudgetAlways, PTL
=============================================================================
