----------------------------- MODULE NfcaPoller -----------------------------
(***************************************************************************)
(* A scan for NFC-A cards: RfalPollerRun() of hydranfc_v2/rfal_poller.c    *)
(* with nfc_technology NFC_A, and the collision resolution of              *)
(* rfal/src/rfal_nfca.c that it runs with compliance mode NFC.             *)
(*                                                                         *)
(* Every call that talks to the cards blocks, so a step is one exchange    *)
(* and what the code does with its result; pc names the exchange that      *)
(* comes next.  The NFC-A poller starts from an empty device list, so the  *)
(* limit it gives is RFAL_POLLER_DEVICES and never 0: what rfal_nfca.c     *)
(* does for a limit of 0 only (report a collision and stop, repeat what    *)
(* was not answered) cannot run here and is left out.                      *)
(***************************************************************************)
EXTENDS NfcaCards

CONSTANTS
    RFAL_POLLER_DEVICES,    \* room in gDevList
    BACKTRACKS,             \* backtrackCnt to begin with
    RATS_RETRIES,           \* RFAL_ISODEP_RATS_RETRIES
    None

ASSUME PollerAssumption ==
    /\ RFAL_POLLER_DEVICES \in Nat \ {0}
    /\ BACKTRACKS \in Nat /\ RATS_RETRIES \in Nat
    /\ None \notin Uids

VARIABLES
    pc,             \* gState, gNfca.CR.state and the exchange under way
    cascadeLv,      \* gNfca.CR.cascadeLv, from 1
    selReq,         \* the valid bits of selReq.nfcid1 and selReq.bcc
    nfcId1,         \* the codes of the cascade levels selected so far
    selRes,         \* the type in the last SEL_RES
    collPending, doBacktrack, backtrackCnt,
    nfcaDevList,    \* the devices resolved; its length is devCnt
    gDevList,       \* the devices reported; its length is gDevCnt
    cntRRetrys      \* RATS still to be repeated

crVars == <<cascadeLv, selReq, nfcId1, selRes, collPending, doBacktrack, backtrackCnt>>
listVars == <<gDevList, cntRRetrys>>
vars == <<cardVars, pc, crVars, nfcaDevList, listVars>>

Type == {"T2T", "T4T"}

TypeOf(c) == IF c \in IsoCards THEN "T4T" ELSE "T2T"
Front(s) == SubSeq(s, 1, Len(s) - 1)
Last(s) == s[Len(s)]

Init ==
    /\ \E f \in Fields : card = [c \in f |-> "IDLE"]
    /\ air \in Airs
    /\ pc = "techDetect"
    /\ cascadeLv = 1 /\ selReq = <<>> /\ nfcId1 = <<>> /\ selRes = "T2T"
    /\ collPending = FALSE /\ doBacktrack = FALSE /\ backtrackCnt = BACKTRACKS
    /\ nfcaDevList = <<>> /\ gDevList = <<>> /\ cntRRetrys = 0

-----------------------------------------------------------------------------
(***************************************************************************)
(* Technology detection: REQA, then HLTA.                                  *)
(***************************************************************************)

\* rfalNfcaPollerCheckPresence, and the two results: any answer, a collision as
\* well, is a presence.
REQA == {"IDLE"}
WUPA == {"IDLE", "HALT"}
CheckPresence(cmd, heard) == React(heard, AfterWake(cmd))
Present(cmd, heard) == Woken(cmd) \cap heard # {}
Absent(cmd, heard) == Silence(Woken(cmd) \cap heard)

\* rfalNfcaPollerTechnologyDetection
TechDetection ==
    /\ pc = "techDetect"
    /\ \E heard \in Hearings :
        /\ CheckPresence(REQA, heard)
        /\ \/ Present(REQA, heard) /\ pc' = "techSleep"
           \/ Absent(REQA, heard) /\ pc' = "deactivate"
    /\ UNCHANGED <<crVars, nfcaDevList, listVars>>

\* rfalNfcaPollerSleep: HLTA; no answer is looked for.
Sleep == \E heard \in Hearings : React(heard, AfterHlta)

TechSleep ==
    /\ pc = "techSleep"
    /\ Sleep
    /\ pc' = "colAvoidance"
    /\ UNCHANGED <<crVars, nfcaDevList, listVars>>

-----------------------------------------------------------------------------
(***************************************************************************)
(* Full collision resolution.                                              *)
(***************************************************************************)

\* Mutant: nfcId1Len is not reset, the UID is added to the one before.
StartSingleKeepsId ==
    /\ collPending' = FALSE
    /\ selReq' = <<>>
    /\ cascadeLv' = 1
    /\ doBacktrack' = FALSE /\ backtrackCnt' = BACKTRACKS
    /\ UNCHANGED <<nfcId1, selRes>>

\* rfalNfcaPollerStartSingleCollisionResolution, and the first half of
\* RFAL_NFCA_CR_CL.
StartSingle ==
    /\ collPending' = FALSE
    /\ nfcId1' = <<>> /\ selReq' = <<>>
    /\ cascadeLv' = 1
    /\ doBacktrack' = FALSE /\ backtrackCnt' = BACKTRACKS
    /\ UNCHANGED selRes

\* The resolution ends with an error: RfalPollerCollResolution reports none of
\* the devices it had found.
Fail == pc' = "deactivate" /\ nfcaDevList' = <<>>

\* rfalNfcaPollerStartFullCollisionResolution: ALL_REQ, as a sleep came before.
StartFull ==
    /\ pc = "colAvoidance"
    /\ \E heard \in Hearings :
        /\ CheckPresence(WUPA, heard)
        /\ \/ Present(WUPA, heard) /\ pc' = "SDD" /\ StartSingle
           \/ Absent(WUPA, heard) /\ pc' = "deactivate" /\ UNCHANGED crVars
    /\ UNCHANGED <<nfcaDevList, listVars>>

(***************************************************************************)
(* RFAL_NFCA_CR_SDD: the cards that begin with the bits of selReq answer   *)
(* with the rest of their code and check byte.                             *)
(***************************************************************************)
Sdd(heard) == pc = "SDD" /\ React(heard, AfterSdd(cascadeLv, selReq))
SddAnswers(heard) == Matching(cascadeLv, selReq) \cap heard

\* A collision after p bits.  The bit there is taken to be one; in the check
\* byte, past its first bit, it only says that bits of the code collided
\* unnoticed, and the code alone is sent again.
Collide(bits, p) ==
    IF p > UidBits /\ backtrackCnt # 0
    THEN /\ selReq' = SubSeq(bits, 1, UidBits)
         /\ backtrackCnt' = backtrackCnt - 1
    ELSE /\ selReq' = Append(SubSeq(bits, 1, p), 1)
         /\ UNCHANGED backtrackCnt

\* Mutant: the collision is resolved but not remembered.
SddCollisionForgotten ==
    /\ \E heard \in Hearings : \E strong \in SddAnswers(heard) :
        /\ Sdd(heard)
        /\ \E p \in Noticed(SddAnswers(heard), strong, cascadeLv, Len(selReq)) :
            Collide(SddRes(strong[cascadeLv]), p)
    /\ doBacktrack' = FALSE
    /\ UNCHANGED <<pc, cascadeLv, nfcId1, selRes, collPending, nfcaDevList, listVars>>

SddCollision ==
    /\ \E heard \in Hearings : \E strong \in SddAnswers(heard) :
        /\ Sdd(heard)
        /\ \E p \in Noticed(SddAnswers(heard), strong, cascadeLv, Len(selReq)) :
            Collide(SddRes(strong[cascadeLv]), p)
    /\ collPending' = TRUE /\ doBacktrack' = FALSE
    /\ UNCHANGED <<pc, cascadeLv, nfcId1, selRes, nfcaDevList, listVars>>

\* Nobody has the bits that were sent: go back to the last of them and try the
\* other value, once REQA has woken the cards again.
CanBacktrack == backtrackCnt # 0 /\ ~doBacktrack /\ selReq # <<>>

SddTimeout ==
    /\ \E heard \in Hearings : Sdd(heard) /\ Silence(SddAnswers(heard))
    /\ CanBacktrack
    /\ pc' = "backtrack"
    /\ UNCHANGED <<crVars, nfcaDevList, listVars>>

\* Mutant: the other value is tried on cards that have gone back to IDLE.
BacktrackNoReqa ==
    /\ pc = "backtrack"
    /\ selReq' = Append(Front(selReq), 1 - Last(selReq))
    /\ doBacktrack' = TRUE /\ backtrackCnt' = backtrackCnt - 1
    /\ collPending' = TRUE
    /\ pc' = "SDD"
    /\ UNCHANGED <<cardVars, cascadeLv, nfcId1, selRes, nfcaDevList, listVars>>

\* The branch for a collision in the check byte, which follows in the code, is not
\* met: while backtrackCnt is not 0 selReq ends with its first bit at the latest.
Backtrack ==
    /\ pc = "backtrack"
    /\ \E heard \in Hearings : CheckPresence(REQA, heard)
    /\ selReq' = Append(Front(selReq), 1 - Last(selReq))
    /\ doBacktrack' = TRUE /\ backtrackCnt' = backtrackCnt - 1
    /\ collPending' = TRUE
    /\ pc' = "SDD"
    /\ UNCHANGED <<cascadeLv, nfcId1, selRes, nfcaDevList, listVars>>

SddFails ==
    /\ \E heard \in Hearings :
        /\ Sdd(heard)
        /\ \/ Silence(SddAnswers(heard)) /\ ~CanBacktrack
           \/ Garbled(SddAnswers(heard))
    /\ Fail
    /\ UNCHANGED <<crVars, listVars>>

\* An SDD_RES with no collision in it, and the right check byte.
SddComplete ==
    /\ \E heard \in Hearings : \E strong \in SddAnswers(heard) :
        /\ Sdd(heard)
        /\ CanMissCollisions(SddAnswers(heard), strong, cascadeLv, Len(selReq))
        /\ selReq' = SddRes(strong[cascadeLv])
    /\ doBacktrack' = FALSE
    /\ pc' = "SEL"
    /\ UNCHANGED <<cascadeLv, nfcId1, selRes, collPending, backtrackCnt, nfcaDevList, listVars>>

(***************************************************************************)
(* RFAL_NFCA_CR_SEL: the next cascade level after a cascade tag, or done.  *)
(***************************************************************************)
Sel(heard) == pc = "SEL" /\ React(heard, AfterSel(cascadeLv, selReq))

Code1 == SubSeq(selReq, 1, UidBits)

NextLevel ==
    /\ FirstByte(selReq) = SDD_CT
    /\ cascadeLv' = cascadeLv + 1 /\ selReq' = <<>>
    /\ pc' = "SDD"

LastLevel ==
    /\ FirstByte(selReq) # SDD_CT
    /\ pc' = "done"
    /\ UNCHANGED <<cascadeLv, selReq>>

SelRes ==
    /\ \E heard \in Hearings : \E c \in SddAnswers(heard) :
        Sel(heard) /\ selRes' = TypeOf(c)
    /\ nfcId1' = Append(nfcId1, Code1)
    /\ NextLevel \/ LastLevel
    /\ UNCHANGED <<collPending, doBacktrack, backtrackCnt, nfcaDevList, listVars>>

SelFails ==
    /\ \E heard \in Hearings :
        Sel(heard) /\ (Silence(SddAnswers(heard)) \/ Garbled(SddAnswers(heard)))
    /\ Fail
    /\ UNCHANGED <<crVars, listVars>>

(***************************************************************************)
(* rfalNfcaPollerGetFullCollisionResolutionStatus, with a device resolved. *)
(***************************************************************************)
Listed(sleep) == [nfcId1 |-> nfcId1, type |-> selRes, isSleep |-> sleep]

\* Mutant: the limit is not looked at.
AssignUnlimited ==
    /\ pc = "done"
    /\ nfcaDevList' = Append(nfcaDevList, Listed(FALSE))
    /\ pc' = IF collPending THEN "devSleep" ELSE "copy"
    /\ UNCHANGED <<cardVars, crVars, listVars>>

Assign ==
    /\ pc = "done"
    /\ nfcaDevList' = Append(nfcaDevList, Listed(FALSE))
    /\ collPending' = (collPending /\ Len(nfcaDevList') < RFAL_POLLER_DEVICES)
    /\ pc' = IF collPending' THEN "devSleep" ELSE "copy"
    /\ UNCHANGED <<cardVars, cascadeLv, selReq, nfcId1, selRes, doBacktrack, backtrackCnt, listVars>>

\* Mutant: the flag is set, SLP_REQ is not sent.
DevSleepSilent ==
    /\ pc = "devSleep"
    /\ nfcaDevList' = Append(Front(nfcaDevList), Listed(TRUE))
    /\ pc' = "others"
    /\ UNCHANGED <<cardVars, crVars, listVars>>

DevSleep ==
    /\ pc = "devSleep"
    /\ Sleep
    /\ nfcaDevList' = Append(Front(nfcaDevList), Listed(TRUE))
    /\ pc' = "others"
    /\ UNCHANGED <<crVars, listVars>>

\* SENS_REQ, for other cards.
NoMore ==
    /\ collPending' = FALSE
    /\ UNCHANGED <<cascadeLv, selReq, nfcId1, selRes, doBacktrack, backtrackCnt>>

\* Mutant: ALL_REQ instead of SENS_REQ.
OthersAll ==
    /\ pc = "others"
    /\ \E heard \in Hearings :
        /\ CheckPresence(WUPA, heard)
        /\ \/ Present(WUPA, heard) /\ pc' = "SDD" /\ StartSingle
           \/ Absent(WUPA, heard) /\ pc' = "copy" /\ NoMore
    /\ UNCHANGED <<nfcaDevList, listVars>>

Others ==
    /\ pc = "others"
    /\ \E heard \in Hearings :
        /\ CheckPresence(REQA, heard)
        /\ \/ Present(REQA, heard) /\ pc' = "SDD" /\ StartSingle
           \/ Absent(REQA, heard) /\ pc' = "copy" /\ NoMore
    /\ UNCHANGED <<nfcaDevList, listVars>>

-----------------------------------------------------------------------------
(***************************************************************************)
(* RfalPollerCollResolution: the devices are copied to gDevList, and those *)
(* of type T4T are activated.                                              *)
(***************************************************************************)
CopyNext == IF Len(gDevList') < Len(nfcaDevList) THEN "copy" ELSE "deactivate"

\* Mutant: RATS whatever the type of the device.
CopyAll ==
    /\ pc = "copy"
    /\ LET dev == nfcaDevList[Len(gDevList) + 1]
       IN  /\ gDevList' = Append(gDevList, [nfca |-> dev, isoDep |-> None])
           /\ pc' = "RATS"
    /\ cntRRetrys' = RATS_RETRIES
    /\ UNCHANGED <<cardVars, crVars, nfcaDevList>>

Copy ==
    /\ pc = "copy"
    /\ LET dev == nfcaDevList[Len(gDevList) + 1]
       IN  /\ gDevList' = Append(gDevList, [nfca |-> dev, isoDep |-> None])
           /\ pc' = IF dev.type = "T4T" THEN "RATS" ELSE CopyNext
    /\ cntRRetrys' = RATS_RETRIES
    /\ UNCHANGED <<cardVars, crVars, nfcaDevList>>

\* rfalIsoDepPollAHandleActivation; a PPS changes nothing that is modelled.
Rats(heard) == pc = "RATS" /\ React(heard, AfterRats)
RatsAnswers(heard) == Selected \cap IsoCards \cap heard

Ats ==
    /\ \E heard \in Hearings : \E c \in RatsAnswers(heard) :
        /\ Rats(heard)
        /\ gDevList' = [gDevList EXCEPT ![Len(gDevList)].isoDep = c]
    /\ pc' = CopyNext
    /\ UNCHANGED <<crVars, nfcaDevList, cntRRetrys>>

\* Mutant: the repetitions are not counted.
NoAtsForever ==
    /\ \E heard \in Hearings : Rats(heard) /\ Silence(RatsAnswers(heard))
    /\ \/ cntRRetrys # 0 /\ UNCHANGED <<pc, gDevList, cntRRetrys>>
       \/ cntRRetrys = 0 /\ pc' = CopyNext /\ UNCHANGED <<gDevList, cntRRetrys>>
    /\ UNCHANGED <<crVars, nfcaDevList>>

NoAts ==
    /\ \E heard \in Hearings : Rats(heard) /\ Silence(RatsAnswers(heard))
    /\ \/ /\ cntRRetrys # 0 /\ cntRRetrys' = cntRRetrys - 1
          /\ UNCHANGED <<pc, gDevList>>
       \/ /\ cntRRetrys = 0
          /\ UNCHANGED <<gDevList, cntRRetrys>>
          /\ pc' = CopyNext
    /\ UNCHANGED <<crVars, nfcaDevList>>

-----------------------------------------------------------------------------
\* The field goes off.  What the scan leaves in gNfca and gDevList is forgotten
\* here: the next one overwrites it before it reads it.
FieldOff ==
    /\ PowerDown
    /\ pc' = "idle"
    /\ cascadeLv' = 1 /\ selReq' = <<>> /\ nfcId1' = <<>> /\ selRes' = "T2T"
    /\ collPending' = FALSE /\ doBacktrack' = FALSE /\ backtrackCnt' = BACKTRACKS
    /\ nfcaDevList' = <<>> /\ gDevList' = <<>> /\ cntRRetrys' = 0

\* RFAL_POLLER_STATE_DEACTIVATION: no device is active, none is to be deselected.
Deactivate == pc = "deactivate" /\ FieldOff

\* manageInput, between the states of RfalPollerRun: the button ends the scan.
Button == pc \in {"colAvoidance", "deactivate"} /\ FieldOff

\* Another scan, of whatever cards are there by then.
ScanTags ==
    /\ pc = "idle"
    /\ NewField
    /\ pc' = "techDetect"
    /\ UNCHANGED <<crVars, nfcaDevList, listVars>>

Scan ==
    \/ TechDetection \/ TechSleep \/ StartFull
    \/ SddCollision \/ SddTimeout \/ Backtrack \/ SddFails \/ SddComplete
    \/ SelRes \/ SelFails \/ Assign \/ DevSleep \/ Others
    \/ Copy \/ Ats \/ NoAts \/ Deactivate

Next == Scan \/ Button \/ ScanTags

\* A scan runs on; nobody has to press the button or to ask for another scan.
Spec == Init /\ [][Next]_vars /\ WF_vars(Scan)

-----------------------------------------------------------------------------
ResolutionTypeOK ==
    /\ pc \in {"techDetect", "techSleep", "colAvoidance", "SDD", "backtrack", "SEL",
              "done", "devSleep", "others", "copy", "RATS", "deactivate", "idle"}
    /\ cascadeLv \in 1..3
    /\ selReq \in Seq({0, 1}) /\ Len(selReq) <= UidBits + BITS_IN_BYTE
    /\ nfcId1 \in Seq(Code) /\ Len(nfcId1) <= cascadeLv
    /\ selRes \in Type
    /\ backtrackCnt \in 0..BACKTRACKS /\ cntRRetrys \in 0..RATS_RETRIES

FlagTypeOK == collPending \in BOOLEAN /\ doBacktrack \in BOOLEAN

NfcaDevice == [nfcId1 : Seq(Code), type : Type, isSleep : BOOLEAN]
Device == [nfca : NfcaDevice, isoDep : field \cup {None}]

ListTypeOK ==
    /\ nfcaDevList \in Seq(NfcaDevice) /\ Len(nfcaDevList) <= RFAL_POLLER_DEVICES
    /\ gDevList \in Seq(Device) /\ Len(gDevList) <= Len(nfcaDevList)

\* The ranges of the variables: three cascade levels suffice, the request stays
\* within SDD_RES, and the device list within its limit.
TypeOK == CardsTypeOK /\ ResolutionTypeOK /\ FlagTypeOK /\ ListTypeOK

Devices == 1..Len(nfcaDevList)
Over == pc = "deactivate"

\* Unless cards miss commands, every device resolved is a card in the field, with
\* its own type, whatever collisions went unnoticed and wherever it was backtracked.
RealCards ==
    air # "lossy" =>
        \A i \in Devices : /\ nfcaDevList[i].nfcId1 \in field
                           /\ nfcaDevList[i].type = TypeOf(nfcaDevList[i].nfcId1)

\* A card that was put to sleep is not resolved again by the same scan.
NoneTwice ==
    air # "lossy" =>
        \A i, j \in Devices : nfcaDevList[i].nfcId1 = nfcaDevList[j].nfcId1 => i = j

\* isSleep tells the state of the card: asleep, or the one that is selected.
SleepKnown ==
    air # "lossy" /\ pc \in {"others", "SDD", "backtrack", "SEL", "done", "copy"} =>
        \A i \in Devices : nfcaDevList[i].isSleep => card[nfcaDevList[i].nfcId1] = "HALT"

\* In clear air a scan reports every card there is room for.
AllFound ==
    Over /\ air = "clear" /\ field # {} =>
        Len(gDevList) = IF Cardinality(field) < RFAL_POLLER_DEVICES
                        THEN Cardinality(field) ELSE RFAL_POLLER_DEVICES

\* Collisions that go unnoticed lead the reader to bits that no card has, at the cost
\* of a backtrack each; it still finds a card, as long as the first codes of the cards
\* differ and there are backtracks enough for all of them but one.
WeakFound ==
    Over /\ air \in {"clear", "weak"} /\ field # {}
         /\ (\A c, d \in field : c[1] = d[1] => c = d)
         /\ Cardinality(field) <= BACKTRACKS + 1
        => gDevList # <<>>

\* An ATS kept with a device was sent by that device, if there is only one card of
\* layer 4 in the field.
OwnAts ==
    air # "lossy" /\ Cardinality(field \cap IsoCards) <= 1 =>
        \A i \in DOMAIN gDevList : gDevList[i].isoDep \in {None, gDevList[i].nfca.nfcId1}

\* Every scan comes to an end.
Ends == pc # "idle" ~> pc = "idle"
=============================================================================
