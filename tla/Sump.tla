-------------------------------- MODULE Sump --------------------------------
(***************************************************************************)
(* The SUMP logic analyzer: sump() and get_samples() of                    *)
(* hydrabus/hydrabus_sump.c.  Samples go round the ring `buffer' until one *)
(* matches the trigger, then for delay_count more; the samples are sent    *)
(* back newest first, by walking INDEX backwards through the ring.         *)
(*                                                                         *)
(* A sample is the set of probes that are high.  The ghost `kept' is what  *)
(* the ring should hold of the current run, newest first.                  *)
(***************************************************************************)
EXTENDS Integers

CONSTANTS
    STATES_LEN,     \* slots of the ring (8192)
    Probes,         \* the pins of port C
    Samples,        \* the samples the pins may give
    Low,            \* the probes of the low byte, channel group 1
    Masks, Values,  \* trigger masks and values hosts configure
    Counts,         \* the two parameters of SUMP_CNT
    UNIT,           \* what SUMP_CNT multiplies them by (4)
    Channels,       \* channel groups hosts enable, as sets of group numbers
    Stale,          \* what other commands of the console leave in the buffer
    Nothing         \* no sample sent

ASSUME SumpAssumption ==
    /\ STATES_LEN \in Nat \ {0, 1} /\ UNIT \in Nat \ {0}
    /\ Samples \subseteq SUBSET Probes
    /\ Masks \subseteq SUBSET Probes /\ Values \subseteq SUBSET Probes
    /\ Counts \subseteq Nat
    /\ Stale \subseteq [0..(STATES_LEN - 1) -> Samples]

VARIABLES
    pc,             \* "console", "command", "armed", "delay", "send"
    buffer, INDEX,
    mask, value,    \* trigger_masks[0], trigger_values[0]; the others are never used
    delay_count, read_count, channels,
    left,           \* config_delay_count
    button,         \* hydrabus_ubtn()
    depth, kept,    \* ghosts: how many samples of this run are in the ring, and which
    top,            \* ghost: INDEX, or where it stood when sampling ended
    sent,           \* ghost: how many slots were read back in this run
    last            \* ghost: the last sample sent

config == <<mask, value, delay_count, read_count, channels>>
ring   == <<buffer, INDEX>>
run    == <<depth, kept, top>>
vars   == <<pc, ring, config, left, button, run, sent, last>>

Slots == 0..(STATES_LEN - 1)

\* Every variable keeps its type; INDEX never leaves the ring.
TypeOK ==
    /\ pc \in {"console", "command", "armed", "delay", "send"}
    /\ buffer \in [Slots -> Samples] /\ INDEX \in Slots
    /\ mask \in Masks /\ value \in Values
    /\ delay_count \in Nat /\ read_count \in Nat /\ channels \in Channels
    /\ left \in Nat /\ button \in BOOLEAN
    /\ depth \in 0..STATES_LEN /\ kept \in [1..depth -> Samples]
    /\ top \in Slots /\ sent \in Nat

\* The configuration is a member of a union that every mode of the console
\* shares: it is whatever the last one left there.
AnyConfig ==
    /\ mask' \in Masks /\ value' \in Values /\ channels' \in Channels
    /\ \E d, r \in Counts : delay_count' = d * UNIT /\ read_count' = r * UNIT

Init ==
    /\ pc = "console"
    /\ buffer \in Stale /\ INDEX = 0
    /\ mask \in Masks /\ value \in Values /\ channels \in Channels
    /\ delay_count = 0 /\ read_count = 0
    /\ left = 0 /\ button = FALSE
    /\ depth = 0 /\ kept = <<>> /\ top = 0 /\ sent = 0 /\ last = Nothing

-----------------------------------------------------------------------------
(***************************************************************************)
(* The command loop of sump().                                             *)
(***************************************************************************)
\* The buffer is g_sbuf: other commands of the console have used it since.
Enter ==
    /\ pc = "console" /\ pc' = "command"
    /\ AnyConfig
    /\ buffer' \in Stale
    /\ button' = FALSE
    /\ depth' = 0 /\ kept' = <<>> /\ top' = INDEX /\ sent' = 0
    /\ UNCHANGED <<INDEX, left, last>>

Leave ==
    /\ pc = "command" /\ button /\ pc' = "console"
    /\ UNCHANGED <<ring, config, left, button, run, sent, last>>

Command == pc = "command" /\ ~button

\* SUMP_TRIG_1 and SUMP_TRIG_VALS_1.
SetTrigger ==
    /\ Command
    /\ \/ mask' \in Masks /\ UNCHANGED value
       \/ value' \in Values /\ UNCHANGED mask
    /\ UNCHANGED <<pc, ring, delay_count, read_count, channels, left, button,
                   run, sent, last>>

SUMP_CNT ==
    /\ Command
    /\ \E d, r \in Counts : delay_count' = d * UNIT /\ read_count' = (r + 1) * UNIT
    /\ UNCHANGED <<pc, ring, mask, value, channels, left, button, run, sent, last>>

SUMP_FLAGS ==
    /\ Command
    /\ channels' \in Channels
    /\ UNCHANGED <<pc, ring, mask, value, delay_count, read_count, left, button,
                   run, sent, last>>

SUMP_RUN ==
    /\ Command /\ pc' = "armed"
    /\ INDEX' = 0
    /\ depth' = 0 /\ kept' = <<>> /\ top' = 0 /\ sent' = 0
    /\ UNCHANGED <<buffer, config, left, button, last>>

-----------------------------------------------------------------------------
(***************************************************************************)
(* get_samples(): the kernel is locked, nothing else runs.                 *)
(***************************************************************************)
\* !((sample ^ value) & mask)
Matches(s) == \A p \in mask : p \in s <=> p \in value

Store(s) == buffer' = [buffer EXCEPT ![INDEX] = s]

\* INDEX++, INDEX &= STATES_LEN-1.
\* Mutant: the mask is forgotten.
Advance_NoMask == INDEX' = INDEX + 1 /\ top' = INDEX'

Advance ==
    /\ INDEX' = IF INDEX = STATES_LEN - 1 THEN 0 ELSE INDEX + 1
    /\ top' = INDEX'

\* The sample joins the ones already there; in a full ring the oldest goes.
Keep(s) ==
    /\ depth' = IF depth = STATES_LEN THEN depth ELSE depth + 1
    /\ kept' = [k \in 1..depth' |-> IF k = 1 THEN s ELSE kept[k - 1]]

\* A sample before the trigger.
Sample(s) ==
    /\ pc = "armed" /\ ~Matches(s)
    /\ Store(s) /\ Advance /\ Keep(s)
    /\ UNCHANGED <<pc, config, left, button, sent, last>>

\* The sample that triggers goes into the ring, but INDEX does not move on: the
\* next one takes its place, and if there is none the read-back starts behind
\* it.  So it is not kept, and only takes the room of the oldest one.
Trigger(s) ==
    /\ pc = "armed" /\ Matches(s)
    /\ Store(s)
    /\ left' = delay_count
    /\ depth' = IF depth = STATES_LEN THEN depth - 1 ELSE depth
    /\ kept' = [k \in 1..depth' |-> kept[k]]
    /\ pc' = IF delay_count > 0 THEN "delay" ELSE "send"
    /\ UNCHANGED <<INDEX, config, button, top, sent, last>>

\* Mutant: the ring is not closed.
Delay_NoWrap(s) ==
    /\ pc = "delay"
    /\ Store(s) /\ Keep(s)
    /\ INDEX' = IF INDEX + 1 < STATES_LEN THEN INDEX + 1 ELSE INDEX
    /\ top' = INDEX'
    /\ left' = left - 1
    /\ pc' = IF left' > 0 THEN "delay" ELSE "send"
    /\ UNCHANGED <<config, button, sent, last>>

\* A sample after the trigger.
Delay(s) ==
    /\ pc = "delay"
    /\ Store(s) /\ Advance /\ Keep(s)
    /\ left' = left - 1
    /\ pc' = IF left' > 0 THEN "delay" ELSE "send"
    /\ UNCHANGED <<config, button, sent, last>>

-----------------------------------------------------------------------------
(***************************************************************************)
(* The read-back of SUMP_RUN.                                              *)
(***************************************************************************)
\* What the host is sent of a sample: one of the bytes, or both; nothing when
\* it enabled any other combination of groups.
Shown(s) ==
    IF channels = {1} THEN s \cap Low
    ELSE IF channels = {2} THEN s \ Low
    ELSE IF channels = {1, 2} THEN s
    ELSE Nothing

\* The slot before slot i.
Before(i) == IF i = 0 THEN STATES_LEN - 1 ELSE i - 1

\* Mutant: INDEX is taken back after the sample is sent.
Send_PostDecrement ==
    /\ pc = "send" /\ read_count > 0
    /\ INDEX' = Before(INDEX)
    /\ last' = Shown(buffer[INDEX])
    /\ read_count' = read_count - 1 /\ sent' = sent + 1
    /\ UNCHANGED <<pc, buffer, mask, value, delay_count, channels, left, button, run>>

\* read_count counts the configuration itself down.
Send ==
    /\ pc = "send" /\ read_count > 0
    /\ INDEX' = Before(INDEX)
    /\ last' = Shown(buffer[Before(INDEX)])
    /\ read_count' = read_count - 1 /\ sent' = sent + 1
    /\ UNCHANGED <<pc, buffer, mask, value, delay_count, channels, left, button, run>>

Sent ==
    /\ pc = "send" /\ read_count = 0 /\ pc' = "command"
    /\ UNCHANGED <<ring, config, left, button, run, sent, last>>

-----------------------------------------------------------------------------
Press ==
    /\ pc # "console" /\ ~button /\ button' = TRUE
    /\ UNCHANGED <<pc, ring, config, left, run, sent, last>>

\* What the board does by itself.
Board ==
    \/ Leave \/ Send \/ Sent
    \/ \E s \in Samples : Sample(s) \/ Trigger(s) \/ Delay(s)

Next ==
    \/ Board \/ Enter \/ SetTrigger \/ SUMP_CNT \/ SUMP_FLAGS \/ SUMP_RUN \/ Press

Spec == Init /\ [][Next]_vars

\* The timer ticks, the host reads what it is sent, the loop goes round.
FairSpec == Spec /\ WF_vars(Board)

-----------------------------------------------------------------------------
\* The slot k places before slot i, for k of 1 to STATES_LEN.
Back(i, k) == IF k <= i THEN i - k ELSE i - k + STATES_LEN

\* Going back k slots from where sampling stopped finds the k-th newest of the
\* samples kept, over any number of turns of the ring, during and after the run.
RingHolds == \A k \in 1..depth : buffer[Back(top, k)] = kept[k]

\* The host is sent the samples kept, newest first, without gap or repetition,
\* for as long as it asks for no more than there are.
NewestFirst ==
    [][sent' = sent + 1 /\ sent < depth => last' = Shown(kept[sent + 1])]_vars

\* cmd_sump prints "Interrupt by pressing user button."
ButtonInterrupts == button ~> pc = "console"
=============================================================================
