----------------------------- MODULE SumpProofs -----------------------------
(***************************************************************************)
(* Proofs about Sump, for a ring of any size, any probes and any trigger.  *)
(***************************************************************************)
EXTENDS Sump, TLAPS

\* While sampling, the ring ends at INDEX; while reading back, INDEX is as far
\* behind that end as slots have been sent.
ReadPoint ==
  /\ pc \in {"armed", "delay"} => top = INDEX /\ sent = 0
  /\ pc = "delay" => left > 0
  /\ pc = "send" /\ sent <= depth => INDEX = IF sent = 0 THEN top ELSE Back(top, sent)

\* RingHolds alone is not inductive: a sample is stored at INDEX, and that this
\* is the end of the ring is what ReadPoint says.
IInv == TypeOK /\ RingHolds /\ ReadPoint

\* Walking back through the ring: one slot before the k-th is the k+1-st, the
\* slot just left is the first behind the next, and only the last slot of a full
\* turn is the one that is written.
LEMMA RingArithmetic ==
  ASSUME NEW i \in Slots, NEW k \in 1..STATES_LEN
  PROVE  /\ Back(i, k) \in Slots
         /\ k < STATES_LEN => Back(i, k) # i /\ Before(Back(i, k)) = Back(i, k + 1)
         /\ Before(i) = Back(i, 1)
         /\ LET j == IF i = STATES_LEN - 1 THEN 0 ELSE i + 1
            IN  /\ j \in Slots /\ Back(j, 1) = i
                /\ k < STATES_LEN => Back(j, k + 1) = Back(i, k)
  BY SumpAssumption DEF Slots, Back, Before

\* A sample stored and kept: the ring holds it as the newest.
LEMMA StoreKeep ==
  ASSUME TypeOK, RingHolds, top = INDEX, NEW s \in Samples,
         Store(s), Advance, Keep(s)
  PROVE  /\ buffer' \in [Slots -> Samples] /\ INDEX' \in Slots /\ top' \in Slots
         /\ depth' \in 0..STATES_LEN /\ kept' \in [1..depth' -> Samples]
         /\ RingHolds'
<1> USE DEF TypeOK
<1>1. buffer' \in [Slots -> Samples]
  BY DEF Store
<1>2. INDEX' \in Slots /\ top' = INDEX'
  BY RingArithmetic, SumpAssumption DEF Advance, Slots
<1>3. depth' \in 1..STATES_LEN /\ depth' <= depth + 1
  BY SumpAssumption DEF Keep
<1>4. \A k \in 1..depth' : k # 1 => k - 1 \in 1..depth
  BY <1>3
<1>5. kept' \in [1..depth' -> Samples]
  BY <1>4 DEF Keep
<1>6. ASSUME NEW k \in 1..depth' PROVE buffer'[Back(top', k)] = kept'[k]
  <2>1. kept'[k] = IF k = 1 THEN s ELSE kept[k - 1]
    BY DEF Keep
  <2>2. CASE k = 1
    <3>1. Back(top', 1) = INDEX
      BY <1>2, RingArithmetic, SumpAssumption DEF Advance
    <3> QED  BY <2>1, <2>2, <3>1 DEF Store
  <2>3. CASE k # 1
    <3>1. k - 1 \in 1..depth /\ k - 1 < STATES_LEN /\ k - 1 \in 1..STATES_LEN
      BY <1>3, <1>4, <2>3, SumpAssumption
    <3>2. Back(top', (k - 1) + 1) = Back(top, k - 1)
      BY <1>2, <3>1, RingArithmetic DEF Advance
    <3>3. (k - 1) + 1 = k
      BY <1>3
    <3>4. Back(top, k - 1) # INDEX /\ Back(top, k - 1) \in Slots
      BY <3>1, RingArithmetic
    <3>5. buffer[Back(top, k - 1)] = kept[k - 1]
      BY <3>1 DEF RingHolds
    <3> QED  BY <2>1, <2>3, <3>2, <3>3, <3>4, <3>5 DEF Store
  <2> QED  BY <2>2, <2>3
<1> QED  BY <1>1, <1>2, <1>3, <1>5, <1>6 DEF RingHolds

\* The sample that triggers overwrites the oldest of a full ring only.
LEMMA StoreTrigger ==
  ASSUME TypeOK, RingHolds, top = INDEX, top' = top, NEW s \in Samples, Store(s),
         depth' = IF depth = STATES_LEN THEN depth - 1 ELSE depth,
         kept' = [k \in 1..depth' |-> kept[k]]
  PROVE  /\ buffer' \in [Slots -> Samples]
         /\ depth' \in 0..STATES_LEN /\ kept' \in [1..depth' -> Samples]
         /\ RingHolds'
<1> USE DEF TypeOK
<1>1. buffer' \in [Slots -> Samples]
  BY DEF Store
<1>2. depth' \in 0..STATES_LEN /\ depth' < STATES_LEN /\ depth' <= depth
  BY SumpAssumption
<1>3. \A k \in 1..depth' : k \in 1..depth /\ k \in 1..STATES_LEN /\ k < STATES_LEN
  BY <1>2, SumpAssumption
<1>4. kept' \in [1..depth' -> Samples]
  BY <1>3
<1>5. ASSUME NEW k \in 1..depth' PROVE buffer'[Back(top', k)] = kept'[k]
  <2>1. Back(top, k) # INDEX /\ Back(top, k) \in Slots
    BY <1>3, RingArithmetic
  <2>2. buffer[Back(top, k)] = kept[k]
    BY <1>3 DEF RingHolds
  <2> QED  BY <2>1, <2>2 DEF Store
<1> QED  BY <1>1, <1>2, <1>4, <1>5 DEF RingHolds

\* One slot is sent: the next older one.
LEMMA SendOne ==
  ASSUME IInv, Send
  PROVE  /\ INDEX' \in Slots
         /\ sent' <= depth' => INDEX' = Back(top, sent')
         /\ sent < depth => last' = Shown(kept[sent + 1])
<1> USE DEF IInv, TypeOK, Send
<1>1. INDEX' = Before(INDEX) /\ INDEX' \in Slots
  BY SumpAssumption DEF Before, Slots
<1>2. ASSUME sent < depth PROVE INDEX' = Back(top, sent + 1)
  <2>1. CASE sent = 0
    BY <1>1, <1>2, <2>1, RingArithmetic DEF ReadPoint
  <2>2. CASE sent # 0
    <3>1. sent \in 1..STATES_LEN /\ sent < STATES_LEN /\ INDEX = Back(top, sent)
      BY <1>2, <2>2, SumpAssumption DEF ReadPoint
    <3> QED  BY <1>1, <3>1, RingArithmetic
  <2> QED  BY <2>1, <2>2
<1>3. ASSUME sent < depth PROVE last' = Shown(kept[sent + 1])
  <2>1. sent + 1 \in 1..depth
    BY <1>3
  <2>2. last' = Shown(buffer[INDEX'])
    BY <1>1
  <2> QED  BY <1>2, <1>3, <2>1, <2>2 DEF RingHolds
<1>4. sent' <= depth' => sent < depth /\ sent' = sent + 1
  BY DEF run
<1> QED  BY <1>1, <1>2, <1>3, <1>4

LEMMA Initial == Init => IInv
<1> SUFFICES ASSUME Init PROVE IInv
  OBVIOUS
<1> USE DEF Init, TypeOK
<1>1. INDEX \in Slots /\ top \in Slots /\ 0 \in 0..STATES_LEN
  BY SumpAssumption DEF Slots
<1>2. buffer \in [Slots -> Samples]
  BY SumpAssumption DEF Slots
<1>3. kept \in [1..depth -> Samples]
  OBVIOUS
<1>4. TypeOK
  BY <1>1, <1>2, <1>3
<1>5. RingHolds /\ ReadPoint
  BY DEF RingHolds, ReadPoint
<1> QED  BY <1>4, <1>5 DEF IInv

LEMMA Inductive == IInv /\ [Next]_vars => IInv'
<1> SUFFICES ASSUME IInv, [Next]_vars PROVE IInv'
  OBVIOUS
<1> USE DEF IInv, TypeOK, ring, config, run
<1>1. CASE Leave \/ SetTrigger \/ SUMP_FLAGS \/ Sent \/ Press \/ UNCHANGED vars
  BY <1>1 DEF Leave, SetTrigger, SUMP_FLAGS, Sent, Press, Command, vars,
     RingHolds, ReadPoint
<1>2. CASE Enter
  <2>1. buffer' \in [Slots -> Samples]
    BY <1>2, SumpAssumption DEF Enter, Slots
  <2>2. mask' \in Masks /\ value' \in Values /\ channels' \in Channels
        /\ delay_count' \in Nat /\ read_count' \in Nat
    BY <1>2, SumpAssumption DEF Enter, AnyConfig
  <2>3. depth' = 0 /\ depth' \in 0..STATES_LEN /\ kept' \in [1..depth' -> Samples]
    BY <1>2, SumpAssumption DEF Enter
  <2>4. TypeOK'
    BY <1>2, <2>1, <2>2, <2>3 DEF Enter
  <2>5. RingHolds'
    BY <2>3 DEF RingHolds
  <2>6. ReadPoint'
    BY <1>2 DEF Enter, ReadPoint
  <2> QED  BY <2>4, <2>5, <2>6
<1>3. CASE SUMP_CNT
  <2>1. delay_count' \in Nat /\ read_count' \in Nat
    BY <1>3, SumpAssumption DEF SUMP_CNT
  <2> QED  BY <1>3, <2>1 DEF SUMP_CNT, Command, RingHolds, ReadPoint
<1>4. CASE SUMP_RUN
  <2>1. INDEX' \in Slots /\ depth' \in 0..STATES_LEN /\ kept' \in [1..depth' -> Samples]
    BY <1>4, SumpAssumption DEF SUMP_RUN, Slots
  <2> QED  BY <1>4, <2>1 DEF SUMP_RUN, Command, RingHolds, ReadPoint
<1>5. ASSUME NEW s \in Samples, Sample(s) PROVE IInv'
  <2>1. top = INDEX
    BY <1>5 DEF Sample, ReadPoint
  <2>2. /\ buffer' \in [Slots -> Samples] /\ INDEX' \in Slots /\ top' \in Slots
        /\ depth' \in 0..STATES_LEN /\ kept' \in [1..depth' -> Samples]
        /\ RingHolds'
    BY <1>5, <2>1, StoreKeep DEF Sample
  <2>3. ReadPoint'
    BY <1>5 DEF Sample, Advance, ReadPoint
  <2> QED  BY <1>5, <2>2, <2>3 DEF Sample
<1>6. ASSUME NEW s \in Samples, Trigger(s) PROVE IInv'
  <2>1. top = INDEX /\ top' = top
    BY <1>6 DEF Trigger, ReadPoint
  <2>2. /\ buffer' \in [Slots -> Samples]
        /\ depth' \in 0..STATES_LEN /\ kept' \in [1..depth' -> Samples]
        /\ RingHolds'
    BY <1>6, <2>1, StoreTrigger DEF Trigger
  <2>3. ReadPoint'
    BY <1>6 DEF Trigger, ReadPoint
  <2> QED  BY <1>6, <2>1, <2>2, <2>3 DEF Trigger
<1>7. ASSUME NEW s \in Samples, Delay(s) PROVE IInv'
  <2>1. top = INDEX /\ left > 0
    BY <1>7 DEF Delay, ReadPoint
  <2>2. /\ buffer' \in [Slots -> Samples] /\ INDEX' \in Slots /\ top' \in Slots
        /\ depth' \in 0..STATES_LEN /\ kept' \in [1..depth' -> Samples]
        /\ RingHolds'
    BY <1>7, <2>1, StoreKeep DEF Delay
  <2>3. left' \in Nat
    BY <1>7, <2>1 DEF Delay
  <2>4. ReadPoint'
    BY <1>7, <2>3 DEF Delay, Advance, ReadPoint
  <2> QED  BY <1>7, <2>2, <2>3, <2>4 DEF Delay
<1>8. CASE Send
  <2>1. INDEX' \in Slots /\ (sent' <= depth' => INDEX' = Back(top, sent'))
    BY <1>8, SendOne
  <2>2. read_count' \in Nat /\ sent' \in Nat /\ sent' # 0
    BY <1>8 DEF Send
  <2>3. RingHolds'
    BY <1>8 DEF Send, RingHolds
  <2>4. ReadPoint'
    BY <1>8, <2>1, <2>2 DEF Send, ReadPoint, Back
  <2> QED  BY <1>8, <2>1, <2>2, <2>3, <2>4 DEF Send
<1> QED  BY <1>1, <1>2, <1>3, <1>4, <1>5, <1>6, <1>7, <1>8 DEF Next, Board

LEMMA Invariance == Spec => []IInv
  BY Initial, Inductive, PTL DEF Spec

\* INDEX and every slot number computed from it stay inside the ring.
THEOREM TypeCorrect == Spec => []TypeOK
  BY Invariance, PTL DEF IInv

\* For a ring of any size and any number of turns, the k-th slot behind the end
\* holds the k-th newest of the samples kept.
THEOREM Ring == Spec => []RingHolds
  BY Invariance, PTL DEF IInv

\* What the host is sent is what was sampled, newest first.
THEOREM ReadBack == Spec => NewestFirst
<1>1. IInv /\ [Next]_vars
         => [sent' = sent + 1 /\ sent < depth => last' = Shown(kept[sent + 1])]_vars
  <2> SUFFICES ASSUME IInv, [Next]_vars, sent' = sent + 1, sent < depth
               PROVE  last' = Shown(kept[sent + 1])
    OBVIOUS
  <2>1. sent' # sent
    BY DEF IInv, TypeOK
  <2>2. CASE Send
    BY <2>2, SendOne
  <2>3. CASE sent' = 0
    BY <2>3 DEF IInv, TypeOK
  <2>4. Send \/ sent' = 0 \/ sent' = sent
    BY DEF Next, Board, vars, Leave, SetTrigger, SUMP_FLAGS, Sent, Press, Enter,
       SUMP_CNT, SUMP_RUN, Sample, Trigger, Delay
  <2> QED  BY <2>1, <2>2, <2>3, <2>4
<1> QED  BY <1>1, Invariance, PTL DEF Spec, NewestFirst
=============================================================================
