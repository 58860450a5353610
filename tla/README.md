# Verification of the HydraNFC Shield v2 firmware

TLA+ models of the firmware in `src/src`, the TLC runs that check them, and the
theorems TLAPS proves about them. `PROJECT.json` lists the runs, the source lines each
definition stands for, the hazards and the theorems.

    tlc -workers 2 -config CardEmulation_UL.cfg CardEmulation     # a run
    tlapm CardEmulationProofs.tla                                 # a proof

## 1. The system

HydraBus is an STM32F4 board running ChibiOS; the shield adds an ST25R3916 NFC chip
driven by ST's RFAL library. One main thread polls the consoles and buttons, each USB
console runs its own thread, and NFC work is done by calling `rfalWorker()` over and over
from the thread of the console that asked for it.

| Component | State | Operations | Talks to |
|---|---|---|---|
| Card emulator session: `ce.c`, `hydranfc_v2_ce.c` | `rxReady`, `txReady`, `isActivatedA`, `isFirstA3_Frame`, `ul_cwrite_page_set`, the receive buffer and its length | `ceStart`/`ceStop`, `ceHandler`, `ceGetRx`, `processCmd*`, `ceSetTx`, one after the other in `ceRun` | RFAL listen mode and ISO-DEP, by calls; both keep a pointer to the same buffer and length |
| RFAL listen mode and transceive: `rfal_rfst25r3916.c`, `st25r3916_irq.c` | `gRFAL.state`, `gRFAL.Lm`, `gRFAL.TxRx`, the accumulated interrupt word | `rfalWorker`, `rfalListenStart/Stop/SleepStart/SetState`, `rfalStartTransceive`, `rfalGetTransceiveStatus`; the ISR | the chip, by SPI and an interrupt line |
| ISO-DEP, both sides: `rfal_isoDep.c` | `gIsoDep`: state, block number, chaining and waiting flags, the last PCB sent, five retry counters | start and poll an activation, start and poll a data exchange, deselect | RFAL transceive; the application above |
| Mifare Ultralight memory: `hydranfc_v2_ce.c` | `ul_image`, `ul_cwrite_page_set` | load an image; READ, WRITE, COMPATIBILITY WRITE, HLTA | card emulator session |
| SUMP logic analyzer: `hydrabus_sump.c` | the sample ring in `g_sbuf`, `INDEX`, the configuration union of the console | configure, run, read back | the host over USB; port C |
| Main loop and consoles: `main.c`, `console_cfg.c` | per console: thread, `insize`, the NUL counter; console configuration | start threads, detect BBIO and SUMP entry, K1/K4 buttons | every mode; the shield |
| Shield ownership: `hydranfc_v2.c` | SPI and RFAL initialisation, the interrupt callback | init, cleanup | both consoles and the main loop, no lock |
| Binary mode: `hydrabus_bbio*.c`, `hydranfc_v2_bbio_*.c` | current mode, its SPI/pin settings | mode entry and exit, commands | shield |
| ISO 14443-4 reader: `hydranfc_v2_reader.c` | `session`, `tpdu`, `rx_buffer`, `rapdu_buffer`, `mode` | connect, `send_apdu` | RFAL transceive |
| NFC poller: `rfal_poller.c` | `gState`, `gDevList`, `gDevCnt`, the technologies found | detection, collision resolution, activation, deactivation, the button in between | the collision resolution of each technology, ISO-DEP |
| NFC-A collision resolution: `rfal_nfca.c` | `gNfca.CR`: cascade level, the request so far, backtracking, collision pending; the caller's device list | detect, resolve one card, resolve all, sleep | the cards, by blocking transceives |
| Command line, scripts, logging, SD card, pins | text | straight-line | console |

### What is hard

* **Everything is seen late.** The ISR only adds bits to a status word. A state of one of
  two machines fetches some of them when it is next called; others are erased by
  `rfalPrepareTransceive` or by a change of state. Field lost, field back and a new frame
  can all be waiting when the worker gets round to them.
* **One fact in several places.** Whether a reader is being talked to is kept in
  `isActivatedA` and `isFirstA3_Frame` (`ce.c`), in `gRFAL.Lm.state`, in `gRFAL.state`,
  in `gIsoDep.state` and in the chip, and reset at some ten different points.
* **Errors nobody reads**: the results of `rfalListenSleepStart` and of
  `rfalIsoDepListenStartActivation`.
* **Two machines that repeat themselves.** Both sides of ISO-DEP send again what may have
  arrived; only a one-bit number tells a repetition from the next block, and a timeout may
  race the answer it gave up on.
* **Many cards on one wire.** Cards answer at once; a collision that goes unnoticed, or a
  card that misses a command, leaves the reader's picture of them wrong.
* **Buffers that outlive their use**: the received length, `g_sbuf`, the configuration union.
* **No lock around the shield**, and a sampling loop that runs with the kernel locked.

### What makes each component correct

* Emulator: a reply belongs to the session its command came in; a frame is acted on once;
  frames that ask for an answer get one; after any session the next reader is served; the
  copies of the session state agree.
* Ultralight: it is an Ultralight — read-only pages, OTP page, compatibility write, wrap-around.
* SUMP: what the host reads is what was sampled, newest first.
* Consoles and shield: enabled consoles run, one user of the shield at a time, mode entry
  only by the documented sequences. (Not yet modelled.)
* ISO-DEP: within a session each block is handed over once and in order, whatever is lost;
  the card always listens again; the reader gives up neither too early nor never.
* Poller and collision resolution: the devices reported are cards that are there, none
  twice, all of them when the air is clear, no more than there is room for; what is recorded
  of a device (asleep, ATS) is true of it; a scan ends.
* APDU reader: the card is given each byte of a command once and in order; the answer
  shown is the card's answer to this command; sending an APDU ends.

## 2. The modules

    RfalListen ── CardEmulation ── CardEmulationProofs ── CardConversationProofs
                      ··(implements)·· CardConversation
    Ultralight ··(refined by)·· UltralightImage ─┬─ MCUltralightImage
                                                 └─ UltralightProofs
    IsoDepBlocks ─┬─ IsoDepPcd  ─┬─ IsoDepLink ── IsoDepProofs
                  │                     ··(implements)·· IsoDepExchange
                  ├─ IsoDepPicc ─┘
                  │      └───────┐
                  └─ ApduReader ─┴─ ApduLink ─┬─ MCApduLink
                                              └─ ApduLinkProofs
    NfcaCards ── NfcaPoller ─┬─ MCNfcaPoller
                             └─ NfcaPollerProofs ── NfcaFoundProofs
    Sump ─┬─ MCSump
          └─ SumpProofs

### RfalListen

The RFAL and its environment. `field`, `auto`, `pta`, `irq` and `fifo` are the chip as the
firmware sees it: the carrier, the automatic anticollision responses, the passive target
state, the accumulated interrupts, and the frame in the FIFO. `top`, `lm`, `dataFlag`,
`br`, `txrx`, `status` and `rx` are the variables of `gRFAL` named beside them. A frame is
a command (as far as the firmware tells frames apart), whether its CRC was good, and a ghost
that says whether it belongs to the field period that is still going on.

`RfalWorker` is one call of `rfalWorker()`: it runs either the listen machine, one action
per state (`LmPowerOff` ... `LmNothing`), or the transceive machine (`TxStart` ...
`TxRxFail`). Interrupts are cleared exactly where the code fetches or drops them.
States the code passes through within one call are merged (`RX_WAIT_RXS` to `RX_DONE`).
`SetPowerOff`, `SetIdle`, `SleepStart`, `RestartListening`, `Prepare`, `StartTransceive`
and `ReEnableRx` are the library's operations and are conjoined into the handlers that
call them. The chip (`FieldOn`, `FieldOff`, `Poll`, `Select`, `Send`, `TxEnd`) is outside
`src` and taken from how the driver uses it.

### CardEmulation

`ceRun` on top of that. `pc` is the place in the pass: `worker`, `handler`, `getRx`,
`process`, and, in the middle of the busy-waiting transmissions, `ats` and `nak`, then
`sleep`. Every call made within one of them is one action; the reader and the chip act in
between. The actions of `Handler` are the branches of `ceHandler`; `GetRxA3` and `GetRxA4`
are the two halves of `ceGetRx`; `Process` is `processCmd` or `processCmdMifUL` with
`ceSetTx`; `Sleep` is the end of the path of `ceSetTx` that sends a NAK; `Button` ends the
emulation and starts it again.
ISO-DEP appears as `iso` (`gIsoDep.state`) and as what each kind of block makes the PICC do.

`CardConversation` is what the emulator promises, without layers or buffers: a card speaks only
when spoken to. It has two variables, whose turn it is and whether the reader that sent the frame still
holds the field. `Turn` reads the first off `gRFAL.state`, the transceive state, the command
in `processCmd`, `gIsoDep.state` and the received length; the other is the ghost `live`.
`SpeaksWhenSpokenTo` says the emulator implements it. With layer 4, and in layer 3 without
Ultralight, it holds for every reader. For the Ultralight it holds, with or without noise, for a
patient reader that sends no RATS; a *hasty* one breaks it in one harmless way: an HLTA whose
sleep fails, the field being gone, is acted on again by `processCmdMifUL`, which does not answer
it. `ActedOnce` holds and fails with it; `ListenServed` bears haste, but not RATS.

### Ultralight and UltralightImage

`UltralightImage` is the 76 byte array with its copy of pages 0 to 2 behind page 15, and
one frame at a time of `processCmdMifUL`. A page is the set of its bits. `Ultralight` is
the abstract card: sixteen pages, wrap-around, OTP, halves of a compatibility write.
`IsUltralight` says the one implements the other: the memory is the first sixteen pages of
the array, the half is `ul_cwrite_page_set - 1`.

`CardEmulation` keeps only whether `ul_cwrite_page_set` is set; `UltralightImage` keeps the
page and leaves open when a lost session resets it. Each has what the other abstracts.

### IsoDepExchange, IsoDepBlocks, IsoDepPcd, IsoDepPicc, IsoDepLink

`IsoDepExchange` is what the protocol is for: a turn-taking exchange in which a block is
submitted, delivered once, confirmed or answered, heard once. It knows no frames.
`IsoDepBlocks` has the frames and the air: half-duplex, one frame at a time, a transmission
talks over whatever is under way. `IsoDepPcd` is `rfalIsoDepDataExchangePCD` with
`rfalIsoDepStartTransceive` and `rfalIsoDepDeselect`, one action per block heard, transmission
and timeout; `IsoDepPicc` is `rfalIsoDepDataExchangePICC`, one action per block heard, the WTX
timer, the application's answer. The variables are the fields of `gIsoDep` named beside them;
`reader` and `card` are ghosts that hold what each application was handed last.
`IsoDepLink` composes the two over air that loses frames (`Lose`; a garbled frame is lost to
both sides) and lets timeouts come at any time, also with the answer on its way.
`turn`, the refinement mapping, reads what has to happen next off the two block numbers.

The length of blocks, DID and NAD are left out, and so is the EMV and ISO compliance modes'
variant of some rules: `rfalIsoDepInitialize` sets NFC mode, and nothing in the firmware
changes it. The PICC clears its counters with each frame, so they limit nothing. A session
begins with `Activate` on both sides, at any time: the reader's way out of an error is to
switch the field off and on. The firmware runs one side at a time, against a foreign
partner; the composition shows that the two halves of this code fit each other, and the
abstract exchange is what either promises a partner of the same protocol.

### ApduReader and ApduLink

`ApduReader` is `send_apdu`: the console's own, second implementation of the reader's side,
which calls the blocking transceive and nothing of `rfal_isoDep.c`. `step` is the place in it.
`SendBlock` is a turn of the loop over the command, `AskForMore` is `get_rblock`, and `Parsed` is
everything `send_apdu` does once `send_tpdu` has returned, with what was then in
`rx_buffer`: the block that came (`Receive`), something else (`ReceiveGarbled`), or what was
there before (`NothingReceived`), because the result of the transceive is dropped.
`SendNothing` is a command of no bytes, for which only `Parsed`'s last part is left to do.
The bytes of a command are numbered, so a chunk is a run of numbers; an answer is one
value, and `Junk` stands for bytes copied from the buffer that are no answer to anything. The CID
every block carries is left out: the RATS sent by `connect_iso14443_a` assigns CID 0, and the
card of `IsoDepPicc` then uses one whenever the reader does.

`ApduLink` puts it in front of `IsoDepPicc`. `clean` says that the card is ready for block number
0 and nothing has disturbed the air since the command was given.

### NfcaCards and NfcaPoller

`NfcaCards` is the other side: the cards in the field, each a UID of one to three codes
with the states of ISO 14443-3, and what the reader makes of several answers at once. It is
external, read off what `rfal_nfca.c` sends and expects. `air` says how reliable it is:
*clear*; *weak* (the strongest answer may drown the others, bit by bit, so that collisions go
unnoticed); *deaf* (also, answers may be missed or garbled); *lossy* (also, cards may miss
commands). Cards do not arrive during a scan; leaving is the same as missing every command.

`NfcaPoller` is one scan after another: `RfalPollerRun` for NFC-A around `rfal_nfca.c`. Its
calls block, so an action is one exchange and all the code does with its result; `pc` names
the next exchange. Technology detection is `TechDetection` and `TechSleep`; full collision
resolution starts in `StartFull`; `SddCollision`, `SddTimeout`, `Backtrack`, `SddFails` and
`SddComplete` are the outcomes of an SDD_REQ, `SelRes` and `SelFails` of a SEL_REQ; `Assign`,
`DevSleep` and `Others` are the loop over the cards; `Copy`, `Ats` and `NoAts` fill
`gDevList` and activate; `Deactivate` and `Button` switch the field off.
`selReq` is the bits of NFCID1 and BCC known so far, as in the code; `nfcId1` keeps whole codes,
cascade tag included, where the code drops the tag. What a scan leaves in
`gNfca` and `gDevList` is forgotten when the field goes off: the next scan writes it before it reads it.
The poller always calls with a device limit that is not 0, so the branches for 0 are
left out, as are Topaz cards.

### Sump

The ring, trigger, delay and read-back of `get_samples` and of `SUMP_RUN`, and the commands
that configure them. A sample is the set of probes that are high. The ghost `kept` is the
history the ring should hold. The sample that triggers is *not* in it: the code stores it
at `INDEX` without moving on, so the next sample overwrites it, and when the delay is 0 the
read-back starts behind it. What the host gets has a one-sample gap at the trigger.

## 3. The runs

| Run | Instance | Shows |
|---|---|---|
| `ce_ul` | Ultralight, patient reader, no noise, five kinds of frame | each frame is acted on once (`ActedOnce`) and answered at most once (`SpeaksWhenSpokenTo`), intact frames are answered (`Answered`), the right machine runs (`ListenServed`), the card rearms after every session (`Rearm`) |
| `ce_ul_hasty` | Ultralight, hasty and noisy reader, also RATS | no empty command, no status read too early, no reply across a loss of the field |
| `ce_t4t` | Type 4, patient reader with noise, PPS, chaining, R-blocks, DESELECT | `Rearm` and `Answered`; no frame or answer is stuck for good (`Served`), so the patient reader is never kept waiting |
| `ce_t4t_hasty` | Type 4, hasty and noisy reader, RATS with a DID and unsupported PPS too | types, agreement of the copies (`ActivatedConsistent`, `AutoMatchesState`); through all layers an answer is given once and only to the reader that asked (`SpeaksWhenSpokenTo`) |
| `ce_cwrite` (violated) | Ultralight | half a compatibility write survives loss of power |
| `ce_lost` (violated) | Ultralight, hasty reader | a field lost while the tag is being put to sleep leaves it deaf |
| `ultralight` | one bit a page, addresses at the edges | the Ultralight's promises and the refinement |
| `isodep` | two data values, limits of 1 (deselection 0) | both machines implement the exchange (`ExactlyOnce`); the card never stops listening (`NeverDeaf`); the reader gives up neither early (`GivesUpLate`) nor never (`Settled`) |
| `apdu` | commands of up to 5 bytes in blocks of 2, two requests for time, lost, late and garbled frames | whatever the air does, the card is given no byte twice or out of order (`InOrder`); in clean air the command arrives whole (`Delivered`), an answer of one block is shown exactly (`Shown`), and `send_apdu` ends (`Ends`) |
| `poller` | up to 3 of 6 cards, 1 or 2 cascade levels, two of layer 4, all four kinds of air | devices are real (`RealCards`), found once (`NoneTwice`), all of them in clear air (`AllFound`) and at least one in weak air, where three cards cost both backtracks (`WeakFound`); `SleepKnown` and `OwnAts`: what is recorded of them is true; `Ends` |
| `sump` | ring of 4, two probes | ring contents and read-back over several turns and runs |
| `sump_button` (violated) | same, with fairness | a trigger that never comes cannot be interrupted |

**The reader.** With `Hasty = FALSE` it sends a frame, or drops the field, only when what it
sent before has been served and the answer heard; with `Hasty = TRUE` at any time. `Noise`
adds frames with bad CRC or parity. `FirstOnly` are frames it sends only right after a
selection. ISO 14443-3 makes a reader keep the field off, and wait after switching it on,
for 5 ms; a pass of the loop that finds nothing to do takes some 0.13 ms. `pace` therefore
lets `OffPasses = 2` worker calls go by before the field is back and `OnPasses = 1` before the next
polling. Both are far below the real ratio, so the model has more behaviours than the device;
with 0 the reader would change the field several times between two lines of code.

**Bounds.** The emulator has no counters: apart from the set of commands and `pace` its state
is what the code has, and the runs are exhaustive for one reader. Every kind of command the code
distinguishes in a mode appears in some run of that mode; layer 3 without Ultralight
(`Mode = "3A"`) is not run, but the proofs cover it. In the `ultralight` run a page has one bit, because writes treat bits
alike, and the addresses 1, 2, 3, 4, 15 and 16 are one of each kind with both ends of
each range. In `sump` a ring of 4 with units of 2 gives delays of none, half and all of the
ring and read-backs up to one and a half turns; sampling before the trigger may go on for ever,
so every position of INDEX meets every depth.

In `apdu` commands of 1 to 5 bytes are one, two or three blocks, the last one full or not, and
the index wraps exactly after the last byte, as it does for 256; a line of the console
holds no longer command (`CommandAssumption`). Two requests for time are one more than is honoured.

In `isodep` each limit is the smallest that lets the counter go below, to and past it; the
proofs cover all limits. Two data values tell a block from the one before it. In `poller`
the codes have two bytes of two bits and the check byte two: enough for collisions in the
first bit, in the middle, in the check byte, and for an unnoticed collision to lead to a code no card
has. Room for two devices, where the code has four, with up to three cards makes the list full in
many ways; three cards and room for three was run as well (304,171 states) and
is only too slow for every day. `RATS_RETRIES` is the code's. `BACKTRACKS` is 2 where the
code has 3: that is what three cards can use up, and with 1 TLC finds a scan that
reports none of them.
The theorems cover cards, codes, list and counters of any size.

**Deadlock** is checked in every run.

**Fairness.** `CardEmulation!FairSpec` has weak fairness of the firmware (`ceRun` is called
in an endless loop; the model has no action of it that blocks) and of the end of a
transmission by the chip. Nothing is assumed of the reader or of the button. `Sump!FairSpec`
has weak fairness of the board's own steps: samples are taken by a timer, the loop goes round, and the
host reads what it is sent. Which sample is taken is not fair: a trigger need never come.
`ApduLink!Spec` has weak fairness of the console thread in `send_apdu`, whose transceives end
by a frame or a timeout. `IsoDepLink!Spec` has weak fairness of the reader's worker alone (its users poll it in a
loop, as `t4tSendCommand` of `st25r.c` does, and its timeouts are the chip's timers): nothing
is asked of the card, the air or the applications. `NfcaPoller!Spec` has weak fairness of the scan, whose exchanges all end by an answer
or a timeout; pressing the button and asking for another scan are not fair.

### What the violated runs show

* `ce_cwrite`: select, CWRITE, HLTA, field off. `ceHandler` answers HLTA itself
  and resets no flag, so `ul_cwrite_page_set` is still there in `POWER_OFF`; the todo at
  `hydranfc_v2_ce.c:370` asks for the opposite.
* `ce_lost`: a frame is refused, the field goes while it is processed or the NAK is sent;
  `rfalListenSleepStart` then stops listening, and its result is not looked at
  (`ce.c:654`, and `ce.c:208` for HLTA).
* `sump_button`: `cmd_sump` promises that the button interrupts; the sampling loop
  never looks at it.

### Other behaviours met while modelling

They contradict no text of the repository; the runs are chosen around them, and most are
hazards in `PROJECT.json` where they bite. Such a hazard names only properties that
a run checks with the behaviour in it; its note says which others would fail.

* Ultralight, noise: a failed reception leaves the transceive machine in `RX_FAIL` for one
  more call. If the bad frame reads as HLTA, `ceHandler` takes it meanwhile, and
  `rfalListenSleepStart` sets `gRFAL.state` to LM. The transceive machine never leaves `RX_FAIL`, its status is BUSY, and
  `ceGetRx`, which still has `isFirstA3_Frame` FALSE, waits for it through all later sessions.
  `ce_ul` has no noise for this reason.
* Ultralight, RATS after a first command: `ceHandler` puts the tag to sleep or IDLE with
  `isFirstA3_Frame` still FALSE; a stale status and length can then be taken for a frame.
  `ce_ul` has no RATS for this reason.
* Type 4, hasty reader: arming the receiver again erases a pending EOF. The loss of the field is
  then noticed only at the next one. A PPS that asks for another bit rate fails the
  activation with an error that is only logged; the receiver is not armed again, and the
  loss of the field is never noticed. `Rearm` is checked for the patient reader, without that PPS.
* Type 4, RATS with a DID: `ceHandler` sets CARDEMU_4A before the activation and ignores that it is
  refused (`ce.c:171`, `ce.c:181`; `didSupport` is false). No transceive is started, ISO-DEP stays
  idle, the listen worker does nothing in CARDEMU_4A and automatic responses are off: the card
  answers no reader until the button is pressed. Adding RATSDID to `CardEmulation_T4T.cfg` shows it:
  `Rearm` fails.
* `ceHandler`'s own test for LINK_LOSS in layer 3 (`ce.c:234`) finds nothing in any of the
  runs: `ceGetRx` looks at the status in the pass in which it appears. Only the layer 4
  half of `HandleLinkLoss` is ever taken.
* SUMP: more samples may be asked for than were taken, and older contents are sent;
  `read_count` is counted down in the configuration itself, so a second RUN without a new
  CNT sends nothing; channel groups other than {1}, {2} and {1,2} send nothing.
* ISO-DEP: the block numbers start apart (reader 0, card 1) and `NeverDeaf` depends on it:
  with both 0 the first block is ignored, and the card then asked to repeat what it never
  sent, which leaves its receiver off. The emulator of `ce.c` initialises ISO-DEP only when
  it starts, not at each RATS, so the last PCB sent survives a session; its card neither chains
  nor asks for time, the two flags that would matter.
* APDU reader, chained answers: `get_rblock` sends 0xB2, which is R(NAK), where rule 2 of
  `rfal_isoDep.c:976` sends R(ACK). Its number is the reader's next, not the card's, so a card with
  this code takes rule 12 (`rfal_isoDep.c:1965`) and answers R(ACK), whose PCB has no chaining bit: the
  answer is cut after its first block, also in clean air, and the card, still chaining, ignores
  the commands that follow.
* APDU reader, block numbers: every APDU starts with number 0 (`init_iso_14443_session`). After
  a command of an odd number of blocks the card expects 1 and ignores it; the user is
  shown the buffer the previous answer is still in. Until a new `connect`, APDUs of one block are all lost.
* APDU reader, nothing received: the old `rx_buffer` is parsed as an answer, its length taken for
  0 - 2 modulo 256. After `connect` the answer to PPS (0xD0) is there, which has the chaining bit:
  with the card taken away, `send_apdu` asks for more for ever.
* APDU reader, R(NAK) as the very first block a card hears: `IsoDepPicc` has nothing to repeat and
  stays deaf (see `NeverDeaf`, which this reader can break and the one of `rfal_isoDep.c` cannot).
* APDU reader, no bytes: the result of `buf_ascii2hex` is not looked at either. When a text that is
  no hex comes first, `buffer_len` is 0 and what `tpdu` still points at is shown
  as an answer; later, as many bytes are sent as the command before had.
* APDU reader: a second S(WTX) is taken for a chained answer; requests for time in the middle of
  a chained command are not looked at.
* Poller, two layer 4 cards: of the cards of a scan only the last is still selected when the
  devices are copied. RATS is sent for every T4T of the list (`rfal_poller.c:1200`), but the
  cards put to sleep do not hear it: the selected card's ATS is recorded with the first T4T
  of the list, and its own RATS goes unanswered. `OwnAts` is therefore stated for one layer 4 card.
* Poller: an error while a later card is resolved discards the devices already found
  (`rfal_poller.c:1178`); a single lost answer hides all cards of the scan.
* Collision resolution: backtracking past the first cascade level cannot work. REQA, sent
  to wake the cards for another try (`rfal_nfca.c:306`), takes them back to level 1, while
  the request is for a deeper one; `WeakFound` is stated for cards whose first codes differ.
* Collision resolution: where answers drown each other, a collision left unnoticed costs one of
  the 3 backtracks (`rfal_nfca.c:296`), and then the next card may drown what is left: five cards
  can use all of them up, and the scan, which ends with an error, reports no card.
  `WeakFound` is stated for one card more than there are backtracks.
* `rfal_nfca.h` speaks of the higher NFCID1 being selected; bits go out least significant
  first, so it is the code with a one at the first bit that differs.
* Poller, several technologies: when the list is full the next one is polled with a limit of
  0, and NFC-B and NFC-V return one device then: it is written behind `gDevList[3]` (`rfal_poller.c:1177`).
  One technology at a time, as modelled, cannot get there.
* `get_char` returns 0 for ever once USB is unplugged (`exec.c:42`): a command waits for a button.
* `nfc_mode`'s `exec` clears the interrupt callback when it ends (`hydranfc_v2_nfc_mode.c:429`), also
  under a scan of the other console.

## 4. The proofs

All are for every value of the constants under the assumptions named in the modules.

**CardEmulationProofs** (`CmdAssumption`, `ReaderAssumption`, `ModeAssumption`,
`NoneAssumption`: "no frame" is not a frame, the modes are those there are). None of the
invariants is inductive alone. `IInv` is the conjunction of

* `TypeOK`;
* `Consistent`: `AutoMatchesState`, `StatusDefined` and `ActivatedConsistent`, the three
  about copies of one fact;
* `Staged`: where a received command may be at each place of the pass, and that a card with
  layer 4 never leaves its first layer 3 frame behind. `NoEmptyCommand` is part of it.

`Inductive` is proved in five lemmas: `WorkerTypes` for a call of `rfalWorker` (it neither
enters nor leaves layer 4, and keeps automatic responses and listen state together),
`EnvironmentSteps` for the reader and the chip, `HandlerSteps`, `GetRxSteps` and
`LoopSteps` for the firmware, each with one step per action.
From it follow `TypeCorrect`, `AutomaticResponses`, `StatusIsDefined`, `ActivationAgreed`
and `CommandPresent`.

**CardConversationProofs**, on top of it. `RepliesInSession` holds for all three cards. It
rests on the field being away for at least `OffPasses` worker calls (`pace`), and on every frame being
answered or given up within as many. `Timely` says so place by place: `Fresh(n)`, that the reader is
there or will not be back before the worker has run n times, holds with n = 2 for a
frame just read (`HeldFresh`), in `processCmd` (`Commanded`) and for a queued ISO-DEP answer,
and with n = 1 for what was handed to the transceive (`Launched`). `LateSeen` is why a frame left in the chip
by a reader that has gone is not read as a good one. `FirstReady` and `Refused` tie `rxReady`,
`isFirstA3_Frame` and the listen state to each other.
`Implements` is the refinement of `CardConversation`, `MachineServed` is `ListenServed`, for
every card but the Ultralight and for every reader. They add `Once`: outside layer 4 the
transceive machine does not run, a frame in rxBuf_ce that would be acted on has not been, and
none is left there while an answer is under way.

The Ultralight is the harder one, since it stays in layer 3 while the transceive machine runs, and
HLTA hands over to the listen machine with `isFirstA3_Frame` still FALSE. Its theorems suppose
that no RATS is sent (a SAK without layer 4 tells the reader so), and all but the first a
patient reader; TLC finds counterexamples without. `UltralightServed` is `ListenServed`:
`Machines` says that the transceive machine runs, or its frame is acted on, only for a tag that is
selected or, after a failed `rfalListenSleepStart`, not listening at all; `Idling` is why the
listen machine, in a session after such an HLTA, never finds a first frame in POWER_OFF or IDLE,
which `ceGetRx` would take for one of the transceive. `UltralightImplements` adds `OnceServed`: while
anything of a frame is held, by the chip, rxBuf_ce or processCmd, the field is up, so the
sleep does not fail and does clear the length. `NeverActedOnTwice` is `ActedOnce`, from `Once`
and `OnceServed`.

**UltralightProofs** (`ImageAssumption`), for pages of any width. `TypeOK /\ RollOverCurrent`
is inductive: `TypeOK` says that a pending page is writable, and so at least 2; pages 0
to 2 are never changed, so their copy is never stale. `Steps` lists all a step can do;
`ReadOnly`, `OtpOnlyGains` and the refinement `Implements` follow by cases of it.

**SumpProofs** (`SumpAssumption`), for a ring of any length. `RingHolds` needs `ReadPoint`,
that samples are stored where the ring ends and read back from `sent` slots behind it.
`RingArithmetic` is the walk through the ring, `StoreKeep`, `StoreTrigger` and `SendOne`
what each step does; `Ring` and `ReadBack` follow.

**IsoDepProofs** (`DataAssumption`, `LimitsAssumption`), for any data and any retry limits.
`IInv` is `TypeOK`, `Numbered` and, while a session lives, `Session`. `Numbered` is about the
numbers of the blocks in the air, and needs no session. `Session` has `ReaderFrame` (the
reader's last frame, by its state), `Phases` (what the card is doing, by `turn`: one conjunct
for each of the six) and `Counted` (no retry counter runs ahead of the timeouts). There is one lemma per
action. `TypeCorrect`, `Listening` and `Persistent` follow, and `Refines`:
`StepRefines` shows that each step is one of `IsoDepExchange` or a stutter.

**ApduLinkProofs** (`CommandAssumption`), for blocks, commands and answers of any length. `InOrder` needs
no block numbers: `Fresh`, a block on its way has only bytes the card was not given, and
`Progress`, `i` is where the command goes on, carry it (`Sending`, `Taking`). `Delivered` and
`Shown` rest on `InCleanAir`, which says for each place of `send_apdu` what the card and the air are doing:
`Between` two blocks, a block `OnItsWay`, `Confirmed`; afterwards `AfterCommand`,
`AfterWtx`, `AfterAnswer`, `AtEnd`, in which the card is `Preparing` its answer, has `Answered`, or is
`Waiting` for time. `RestKept` and `CleanKept` are the two halves of the induction. `BytesInOrder`,
`CommandDelivered` and `AnswerShown` follow.

**NfcaPollerProofs** (`UidAssumption`, `AirAssumption`, `PollerAssumption`), for any finite set of
cards with UIDs of up to three codes, of any width. None of the properties is inductive. `IInv` adds

* `Levels`: a card is at no cascade level that its UID has not;
* `Requests` and `Lists`: what each place of the scan leaves of the request and the lists;
* `Agrees`: the cards still at the level being resolved have the codes collected so far,
  which is why the codes of two cards are never mixed;
* `Resolved`: the UID just resolved is the card that is selected;
* `Asleep`: the devices before it are in HALT, which REQA does not leave. Hence the next
  card is another one.

`Agrees`, `Resolved` and `Asleep` hold as long as cards hear every command (`Sound`). The lemmas
`Wakes`, `Sleeps`, `Anticollides`, `Selects` and `Activates` say what a command does to the cards,
and there is one lemma per action or pair of actions. `TypeCorrect`, `RealDevices`, `ResolvedOnce`,
`SleepersKnown` and `AtsOwned` follow.

**NfcaFoundProofs**, on top of it, is about what a scan finds. `Placement` says where the cards are
at each place of the scan when they hear everything: all awake when a round begins, the resolved
ones in HALT, one selected.

* `EveryCardFound`: in clear air a collision is always noticed, and the stronger bit is one that some
  card has. So (`ClearSky`) there is always a card that begins with the request; resolution
  neither fails nor backtracks (`NoFailure`), and when no collision was seen the card selected is
  the only one awake (`Complete`, `SelectedNext`). What is reported when the scan ends is therefore
  everything, or as much as there is room for (`Counted`).
* `SomeCardFound`: in weak air the request may be one that no card begins with. `Budget` counts: the
  cards that still may answer (`Candidates`) are never more than the backtracks left plus one, as
  each collision, noticed or not, leaves out at least one card (`CollisionCosts`), and only what a
  collision led to can cost a backtrack. `OnTrack` says a card begins with the request, `Astray` that
  the last bit is the wrong one, so that going back one step finds the cards again
  (`TimeoutRedeemed`, `BackOnTrack`). Hence `NeverFails`.

**Only model-checked:** the liveness properties `Rearm`, `Answered`, `Served`, `Settled` and both `Ends`
(liveness under fairness is out of the prover's reach). All the others the passing runs check
are theorems. `ButtonInterrupts` is refuted by a run.

## 5. What is not modelled

In the emulator: NFC-B and FeliCa (disabled by `hydranfc_ce_common`), the NDEF
application behind layer 4 (every command is answered; its file selection survives
sessions), replies longer than the reader's frame size (which make ISO-DEP
fail and the emulator restart), FIFO refills, the parsing of image files beyond
their size. The emulator's own view of ISO-DEP has no block numbers; `IsoDepPicc` has them. In ISO-DEP: DID, NAD,
lengths, EMV and ISO modes, ATS and ATTRIB parameters, the splitting of APDUs
(`rfalIsoDepStartApduTransceive`, which only the unused `rfal_nfc.c` calls). In the poller: the other technologies and scans of
several of them, the wake-up mode, which no command selects. In SUMP: the divider, the texts, commands cut
short by the host.

In the APDU reader: `connect` for NFC-B and NFC-V and one that fails, commands that are not
hexadecimal, what is printed on the way.

The consoles, the binary modes and the ownership of the shield are in the plan.
Most of the `hydrabus_bbio_*.c` and `hydrabus_mode_*.c` files are commented out of `hydrabus.mk` and not
built. By far the largest part of the repository is third-party: the STM32 HAL, ChibiOS ports, FatFs,
ST's RFAL for technologies the firmware does not drive. Nothing of it is modelled except where the
firmware's own behaviour is decided there (listen mode, ISO-DEP, NFC-A resolution).

## 6. Plan

1. *(done)* RfalListen, CardEmulation, its proofs; Ultralight, UltralightImage, proofs; Sump, proofs.
2. *(done)* ISO-DEP: both sides composed over a lossy link, the exchange they
   implement, refinement and invariants proved.
3. *(done)* NFC-A collision resolution and the poller's scan; all invariants proved for any cards.
4. *(done)* CardConversation, the abstract card the emulator implements; refinement, `ReplyInSession`,
   `ActedOnce` and `ListenServed` proved, for the Ultralight too.
5. **Consoles**: main loop, two console threads, NUL/SUMP/BBIO entry, K1, shield
   ownership. Abstract specification: a mutual exclusion of shield users. Properties: a
   console runs when it is enabled (the test at `main.c:285` looks at `consoles[0]` for
   both), the shield is not initialised under a running transceive, mode entry only by a
   complete sequence, every exit cleans up. Two consoles, counters up to 20.
6. *(done)* ApduReader: `send_apdu` against the card's side of ISO-DEP. It does not implement
   `IsoDepExchange`, not even in clean air; `InOrder`, and in clean air `Delivered` and
   `Shown`, are what it keeps; proved.
7. **CardEmulation, BBIO variant**: `processCmd` that takes time while the reader acts.
8. **Poller**: the other technologies and the list they share.

Runs stay within seconds to a few minutes each: two actors, queues of one frame, three cards.
