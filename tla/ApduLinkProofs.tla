--------------------------- MODULE ApduLinkProofs ---------------------------
(***************************************************************************)
(* Proofs about ApduLink, for blocks and commands of any length.           *)
(***************************************************************************)
EXTENDS ApduLink, SequenceTheorems, TLAPS

-----------------------------------------------------------------------------
(***************************************************************************)
(* The inductive invariant.                                                *)
(***************************************************************************)
Steps == {"idle", "send", "command", "wtx", "answer"}

Types ==
    /\ step \in Steps
    /\ apdu \in 0..MaxLen /\ left \in 0..apdu /\ i \in Nat
    /\ number \in Bit /\ piccBn \in Bit
    /\ got \in Seq(Nat) /\ asked \in Nat
    /\ {piccChaining, cardBusy, isWait4WTX, isTxPending, clean} \subseteq BOOLEAN

\* Nothing the application was given lies beyond byte n of the command.
UpTo(n) == \A k \in 1..Len(got) : got[k] <= n

\* i is where the command goes on, as long as it does.
Progress ==
    /\ step = "send" => left > 0
    /\ step \in {"idle", "wtx", "answer"} => left = 0
    /\ left > 0 => i = apdu - left /\ UpTo(i)

\* A block on its way to the card has bytes the card has not seen.
Fresh ==
    to = "picc" /\ frame.k = "I" =>
        /\ frame.bn \in Bit
        /\ \E b \in Nat, n \in Nat :
            /\ frame.data = Chunk(b, n) /\ UpTo(b)
            /\ left > 0 => b + n <= i

\* An answer that waits for the reader waits for its leave, too.
Pending == isTxPending => isWait4WTX \/ picc = "TX"

Rest == Types /\ Progress /\ Fresh /\ InOrder /\ Pending

\* The card waits for the rest of a command.
AtRest ==
    /\ asked = 0 /\ picc = "RX"
    /\ ~piccChaining /\ ~cardBusy /\ ~isWait4WTX /\ ~isTxPending

\* A command under way in clean air: between two blocks, a block on its way to the
\* card, its confirmation on the way back.
Between == AtRest /\ piccBn # number /\ to = "nobody" /\ got = Chunk(0, i)

OnItsWay ==
    \E b \in 0..(apdu - left) :
        /\ AtRest /\ piccBn = number /\ got = Chunk(0, b)
        /\ frame = IBlock(Toggle(number), left > 0, Chunk(b, apdu - left - b))

Confirmed == AtRest /\ piccBn # number /\ to = "pcd" /\ got = Chunk(0, i)

\* After the last block: the card prepares its answer, has sent it, or has asked
\* for time.
Preparing ==
    /\ ~isWait4WTX /\ to = "nobody"
    /\ \/ picc = "SWTX" /\ cardBusy /\ ~isTxPending
       \/ picc = "TX" /\ ~cardBusy

Answered ==
    /\ picc = "RX" /\ ~cardBusy /\ ~isWait4WTX /\ ~isTxPending
    /\ to = "pcd" /\ frame = IBlock(piccBn, piccChaining, piccData)

Waiting ==
    /\ picc = "RX" /\ isWait4WTX /\ piccLast = "WTX"
    /\ cardBusy = ~isTxPending
    /\ frame = SBlock("WTX")

\* No part of the command is on its way any more, and all of it has arrived.
Arrived == got = Chunk(0, apdu) /\ left = 0 /\ (to = "picc" => frame.k # "I")

AfterCommand ==
    /\ Arrived
    /\ asked = 0 => Preparing \/ Answered
    /\ asked = 1 => Waiting /\ to = "pcd"

AfterWtx ==
    /\ Arrived /\ asked > 0
    /\ asked = 1 => Preparing \/ Answered \/ (Waiting /\ to = "picc")

AfterAnswer == Arrived /\ (asked <= 1 => piccChaining /\ ~cardBusy)

AtEnd ==
    /\ Arrived
    /\ asked <= 1 => ~cardBusy /\ (~piccChaining => rapdu = <<piccData>>)

InCleanAir ==
    /\ step = "send" => Between
    /\ step = "command" /\ to = "picc" => OnItsWay
    /\ step = "command" /\ to # "picc" =>
        IF left > 0 THEN Confirmed ELSE AfterCommand
    /\ step = "wtx" => AfterWtx
    /\ step = "answer" => AfterAnswer
    /\ step = "idle" => AtEnd

IInv == Rest /\ (clean => InCleanAir)
-----------------------------------------------------------------------------
(***************************************************************************)
(* Chunks.                                                                 *)
(***************************************************************************)
\* A chunk is a sequence of bytes, in their order.
LEMMA ChunkIs ==
    ASSUME NEW b \in Nat, NEW n \in Nat
    PROVE  /\ Chunk(b, n) \in Seq(Nat) /\ Len(Chunk(b, n)) = n
           /\ \A k \in 1..n : Chunk(b, n)[k] = b + k
<1>1. Chunk(b, n) \in [1..n -> Nat]
    BY SMT DEF Chunk
<1> QED
    BY <1>1, SMT DEF Chunk

\* A chunk that goes on where the other ends makes one of both.
LEMMA ChunkJoin ==
    ASSUME NEW b \in Nat, NEW n \in Nat
    PROVE  Chunk(0, b) \o Chunk(b, n) = Chunk(0, b + n)
<1> DEFINE s == Chunk(0, b)  c == Chunk(b, n)  t == Chunk(0, b + n)
<1>1. s \in Seq(Nat) /\ Len(s) = b /\ \A k \in 1..b : s[k] = k
    <2>1. s \in Seq(Nat) /\ Len(s) = b /\ \A k \in 1..b : s[k] = 0 + k
        BY ChunkIs, 0 \in Nat
    <2> HIDE DEF s
    <2> QED
        BY <2>1
<1>2. c \in Seq(Nat) /\ Len(c) = n /\ \A k \in 1..n : c[k] = b + k
    BY ChunkIs
<1>3. t \in Seq(Nat) /\ Len(t) = b + n /\ \A k \in 1..(b + n) : t[k] = k
    <2>1. t \in Seq(Nat) /\ Len(t) = b + n /\ \A k \in 1..(b + n) : t[k] = 0 + k
        BY ChunkIs, 0 \in Nat, b + n \in Nat
    <2> HIDE DEF t
    <2> QED
        BY <2>1
<1> HIDE DEF s, c, t
<1>4. /\ s \o c \in Seq(Nat) /\ Len(s \o c) = b + n
      /\ \A k \in 1..(b + n) : (s \o c)[k] = IF k <= b THEN s[k] ELSE c[k - b]
    BY <1>1, <1>2, ConcatProperties
<1>5. ASSUME NEW k \in 1..(b + n) PROVE (s \o c)[k] = t[k]
    BY <1>1, <1>2, <1>3, <1>4
<1>6. s \o c = t
    BY <1>3, <1>4, <1>5, SeqEqual
<1> QED
    BY <1>6 DEF s, c, t

\* There is one empty chunk, wherever it begins.
LEMMA ChunkEmpty == Chunk(0, 0) = <<>>
    BY ChunkIs, SMT

\* Bytes that go on behind a sequence leave it in order.
LEMMA Appended ==
    ASSUME NEW s \in Seq(Nat), NEW b \in Nat, NEW n \in Nat,
           \A k \in 1..Len(s) : s[k] <= b,
           \A m, k \in 1..Len(s) : m < k => s[m] < s[k]
    PROVE  LET t == s \o Chunk(b, n)
           IN  /\ t \in Seq(Nat)
               /\ \A k \in 1..Len(t) : t[k] <= b + n
               /\ \A m, k \in 1..Len(t) : m < k => t[m] < t[k]
<1> DEFINE c == Chunk(b, n)  t == s \o c
<1>1. c \in Seq(Nat) /\ Len(c) = n /\ \A k \in 1..n : c[k] = b + k
    BY ChunkIs
<1>2. Len(s) \in Nat /\ \A k \in 1..Len(s) : s[k] \in Nat
    OBVIOUS
<1> HIDE DEF c
<1>3. /\ t \in Seq(Nat) /\ Len(t) = Len(s) + n
      /\ \A k \in 1..(Len(s) + n) : t[k] = IF k <= Len(s) THEN s[k] ELSE c[k - Len(s)]
    BY <1>1, ConcatProperties
<1> HIDE DEF t
<1>4. ASSUME NEW k \in 1..Len(t), k <= Len(s)
      PROVE  k \in 1..Len(s) /\ t[k] = s[k] /\ t[k] \in Nat /\ t[k] <= b
    BY <1>2, <1>3, <1>4
<1>5. ASSUME NEW k \in 1..Len(t), ~(k <= Len(s))
      PROVE  k - Len(s) \in 1..n /\ t[k] = b + (k - Len(s))
    BY <1>1, <1>2, <1>3, <1>5
<1>6. ASSUME NEW k \in 1..Len(t) PROVE t[k] <= b + n
    BY <1>2, <1>4, <1>5
<1>7. ASSUME NEW m \in 1..Len(t), NEW k \in 1..Len(t), m < k
      PROVE  t[m] < t[k]
    <2>1. CASE k <= Len(s)
        <3>1. m <= Len(s)
            BY <1>2, <1>3, <1>7, <2>1
        <3> QED
            BY <1>4, <1>7, <2>1, <3>1
    <2>2. CASE m <= Len(s) /\ ~(k <= Len(s))
        <3>1. t[m] \in Nat /\ t[m] <= b
            BY <1>4, <2>2
        <3>2. t[k] = b + (k - Len(s)) /\ k - Len(s) \in 1..n
            BY <1>5, <2>2
        <3> QED
            BY <3>1, <3>2
    <2>3. CASE ~(m <= Len(s))
        <3>1. ~(k <= Len(s))
            BY <1>2, <1>3, <1>7, <2>3
        <3>2. t[m] = b + (m - Len(s)) /\ t[k] = b + (k - Len(s))
            BY <1>5, <2>3, <3>1
        <3> QED
            BY <1>2, <1>3, <1>7, <3>2
    <2> QED
        BY <2>1, <2>2, <2>3
<1> QED
    BY <1>3, <1>6, <1>7 DEF t, c

-----------------------------------------------------------------------------
(***************************************************************************)
(* Order: what holds whatever the air does.                                *)
(***************************************************************************)
\* A step that gives the card no bytes, and puts none on the air, keeps the order.
LEMMA Apart ==
    ASSUME Rest, UNCHANGED <<apdu, left, i, got>>,
           step' \in Steps, number' \in Bit, piccBn' \in Bit, asked' \in Nat,
           {piccChaining', cardBusy', isWait4WTX', isTxPending', clean'} \subseteq BOOLEAN,
           step' = "send" => left > 0,
           step' \in {"idle", "wtx", "answer"} => left = 0,
           UNCHANGED air \/ (to' = "picc" => frame'.k # "I"),
           Pending'
    PROVE  Rest'
<1>1. Types' /\ Progress'
    BY DEF Rest, Types, Progress, UpTo
<1>2. Fresh' /\ InOrder'
    BY DEF Rest, Fresh, InOrder, UpTo, air
<1> QED
    BY <1>1, <1>2 DEF Rest

\* So does a step that changes none of the two devices.
LEMMA Parsing ==
    ASSUME Rest, NEW f, NEW inf, InTpdu, Parsed(f, inf),
           UNCHANGED <<apdu, left, i, got, piccVars>>,
           asked' \in Nat, clean' \in BOOLEAN
    PROVE  Rest'
<1>1. /\ step' \in Steps /\ number' \in Bit
      /\ step' = "send" => left > 0
      /\ step' \in {"idle", "wtx", "answer"} => left = 0
    BY DEF Rest, Types, Steps, Progress, InTpdu, Parsed, AskForMore, Toggle, Bit
<1>2. to' = "picc" => frame'.k # "I"
    BY DEF Parsed, AskForMore, Send, Quiet, RBlock, SBlock
<1>3. Pending'
    BY DEF Rest, Pending, piccVars
<1> QED
    BY <1>1, <1>2, <1>3, Apart DEF Rest, Types, piccVars

\* The next block of the command has only bytes the card was not given.
LEMMA Sending ==
    ASSUME Rest, SendBlock, UNCHANGED <<piccVars, ghosts>>
    PROVE  Rest' /\ left' < left /\ (left' > 0 => i' = i + (left - left'))
<1> DEFINE n == IF left < BlockSize THEN left ELSE BlockSize
<1> USE CommandAssumption
<1>1. /\ left > 0 /\ i = apdu - left /\ UpTo(i) /\ i \in Nat /\ left \in 0..apdu
      /\ apdu \in 0..MaxLen /\ n \in 1..left
    <2>1. /\ left > 0 /\ i = apdu - left /\ UpTo(i) /\ i \in Nat /\ left \in 0..apdu
          /\ apdu \in 0..MaxLen
        BY DEF Rest, Types, Progress, SendBlock
    <2>2. n \in 1..left
        BY <2>1
    <2> QED
        BY <2>1, <2>2
<1>2. left' = left - n /\ i' = (i + n) % IndexRange /\ apdu' = apdu
    BY DEF SendBlock
<1> HIDE DEF n
<1>3. /\ left' \in 0..apdu /\ left' < left /\ i' \in Nat
      /\ left' > 0 => i' = i + n /\ i' = apdu' - left'
    BY <1>1, <1>2
<1>4. Types'
    BY <1>2, <1>3 DEF Rest, Types, Steps, SendBlock, Toggle, Bit, piccVars, ghosts
<1>5. got' = got /\ got \in Seq(Nat) /\ step' = "command"
    BY DEF Rest, Types, SendBlock, ghosts
<1>6. Progress'
    <2>1. left' > 0 => UpTo(i)'
        BY <1>1, <1>3, <1>5 DEF UpTo
    <2> QED
        BY <1>3, <1>5, <2>1 DEF Progress
<1>7. Fresh'
    <2>1. frame'.data = Chunk(i, n)
        BY DEF SendBlock, Send, IBlock, n
    <2>4. frame'.bn \in Bit
        BY DEF Rest, Types, SendBlock, Send, IBlock
    <2>2. left' > 0 => i + n <= i'
        BY <1>1, <1>3
    <2>3. \A k \in 1..Len(got') : got'[k] <= i
        BY <1>1, <1>5 DEF UpTo
    <2> QED
        BY <1>1, <2>1, <2>2, <2>3, <2>4 DEF Fresh, UpTo
<1>8. InOrder' /\ Pending'
    BY <1>5 DEF Rest, InOrder, Pending, piccVars, ghosts
<1>9. left' > 0 => i' = i + (left - left')
    BY <1>1, <1>2, <1>3
<1> QED
    BY <1>3, <1>4, <1>6, <1>7, <1>8, <1>9 DEF Rest

\* A block the card takes goes behind all it was given before.
LEMMA Taking ==
    ASSUME Rest, GetI, UNCHANGED <<apduVars, clean, asked>>,
           got' = IF piccBn' = piccBn THEN got ELSE got \o frame.data
    PROVE  Rest'
<1>1. CASE piccBn' = piccBn
    <2>1. /\ piccBn' \in Bit /\ to' # "picc"
          /\ {piccChaining', cardBusy', isWait4WTX', isTxPending', clean'} \subseteq BOOLEAN
        BY DEF Rest, Types, Bit, GetI, Send, Quiet, Ignore, Hearing, Fresh
    <2>2. Pending'
        BY DEF Rest, Pending, GetI, Hearing, Ignore
    <2> QED
        BY <1>1, <2>1, <2>2, Apart DEF Rest, Types, Progress, apduVars
<1>2. CASE piccBn' # piccBn
    <2>1. /\ Hearing("I") /\ frame.bn # piccBn
          /\ piccBn' = frame.bn
          /\ to' # "picc" /\ (cardBusy' = cardBusy \/ cardBusy' = TRUE)
        BY <1>2 DEF GetI, Send, Quiet
    <2>2. PICK b \in Nat, n \in Nat :
              /\ frame.data = Chunk(b, n) /\ UpTo(b)
              /\ left > 0 => b + n <= i
        BY <2>1 DEF Rest, Fresh, Hearing
    <2>3. got' = got \o Chunk(b, n)
        BY <1>2, <2>2
    <2>4. got' \in Seq(Nat) /\ UpTo(b + n)' /\ InOrder'
        BY <2>2, <2>3, Appended DEF Rest, Types, InOrder, UpTo
    <2>5. \A k \in 1..Len(got') : got'[k] \in Nat
        BY <2>4
    <2>6. Progress'
        <3>1. left > 0 => UpTo(i)'
            <4> SUFFICES ASSUME left > 0, NEW k \in 1..Len(got')
                         PROVE  got'[k] <= i
                BY DEF UpTo, apduVars
            <4>1. got'[k] <= b + n /\ got'[k] \in Nat
                BY <2>4, <2>5 DEF UpTo
            <4> QED
                BY <2>2, <4>1 DEF Rest, Types
        <3> QED
            BY <3>1 DEF Rest, Progress, apduVars
    <2>7. piccBn' \in Bit
        BY <2>1 DEF Rest, Fresh, Hearing
    <2>8. Types'
        BY <2>1, <2>4, <2>7 DEF Rest, Types, GetI, apduVars
    <2>9. Fresh' /\ Pending'
        BY <2>1 DEF Rest, Fresh, Pending, GetI, Hearing
    <2> QED
        BY <2>4, <2>6, <2>8, <2>9 DEF Rest
<1> QED
    BY <1>1, <1>2

\* The other steps of the card.
LEMMA CardApart ==
    ASSUME Rest, UNCHANGED <<apduVars, clean, got>>, asked' \in Nat,
           \/ GetWtx \/ GetRetry \/ GetNak \/ SendI \/ AskWtx
           \/ \E d \in Answers, m \in BOOLEAN : Answer(d, m)
    PROVE  Rest'
<1> USE DEF Quiet, Send, IBlock, RBlock, SBlock
<1>1. UNCHANGED air \/ (to' = "picc" => frame'.k # "I")
    <2>1. CASE GetWtx
        BY <2>1 DEF GetWtx, Ignore
    <2>2. CASE GetRetry
        BY <2>2 DEF GetRetry, Resend, Hearing
    <2>3. CASE GetNak \/ SendI \/ AskWtx
        BY <2>3 DEF GetNak, SendI, AskWtx
    <2>4. CASE \E d \in Answers, m \in BOOLEAN : Answer(d, m)
        BY <2>4 DEF Answer
    <2> QED
        BY <2>1, <2>2, <2>3, <2>4
<1>2. /\ piccBn' = piccBn
      /\ {piccChaining', cardBusy', isWait4WTX', isTxPending'} \subseteq BOOLEAN
    <2>1. CASE GetWtx
        BY <2>1 DEF Rest, Types, GetWtx
    <2>2. CASE GetRetry \/ GetNak
        BY <2>2 DEF Rest, Types, GetRetry, GetNak
    <2>3. CASE SendI \/ AskWtx
        BY <2>3 DEF Rest, Types, SendI, AskWtx
    <2>4. CASE \E d \in Answers, m \in BOOLEAN : Answer(d, m)
        BY <2>4 DEF Rest, Types, Answer
    <2> QED
        BY <2>1, <2>2, <2>3, <2>4
<1>3. Pending'
    <2>1. CASE GetWtx
        BY <2>1 DEF Rest, Pending, GetWtx, Ignore, Hearing
    <2>2. CASE GetRetry
        <3>1. isTxPending => isWait4WTX
            BY <2>2 DEF Rest, Pending, GetRetry, Hearing
        <3> QED
            BY <2>2, <3>1 DEF Pending, GetRetry
    <2>3. CASE GetNak
        BY <2>3 DEF Rest, Pending, GetNak
    <2>4. CASE SendI
        BY <2>4 DEF Pending, SendI
    <2>5. CASE AskWtx
        <3>1. isWait4WTX' = TRUE
            BY <2>5 DEF AskWtx
        <3> QED
            BY <3>1, Zenon DEF Pending
    <2>6. CASE \E d \in Answers, m \in BOOLEAN : Answer(d, m)
        <3>1. isWait4WTX' = isWait4WTX /\ (isWait4WTX \/ picc' = "TX")
            BY <2>6 DEF Answer
        <3> QED
            BY <3>1, Zenon DEF Pending
    <2> QED
        BY <2>1, <2>2, <2>3, <2>4, <2>5, <2>6
<1>4. UNCHANGED <<apdu, left, i, step, number, clean>>
    BY DEF apduVars
<1> QED
    BY <1>1, <1>2, <1>3, <1>4, Apart DEF Rest, Types, Progress

\* A command, or a new session, starts from nothing.
LEMMA Starting ==
    ASSUME Rest, Connect \/ Command
    PROVE  Rest'
<1> USE CommandAssumption
<1>1. got' = <<>> /\ to' = "nobody" /\ left = 0
    BY DEF Connect, Command, ConnectReader, SendApdu, Quiet, Rest, Progress
<1>2. got' \in Seq(Nat) /\ Len(got') = 0
    BY <1>1
<1>3. UpTo(0)' /\ InOrder' /\ Fresh'
    BY <1>1, <1>2 DEF UpTo, InOrder, Fresh
<1>4. CASE Connect
    <2>1. Types'
        <3>1. /\ apdu' = 0 /\ left' = 0 /\ asked' = 0 /\ piccBn' = 1
              /\ UNCHANGED <<step, i, number>>
            BY <1>1, <1>4 DEF Connect, ConnectReader, PiccActivate
        <3>2. /\ clean' = FALSE /\ piccChaining' = FALSE /\ cardBusy' = FALSE
              /\ isWait4WTX' = FALSE /\ isTxPending' = FALSE
            BY <1>4 DEF Connect, PiccActivate, PiccInitialize
        <3>3. {piccChaining', cardBusy', isWait4WTX', isTxPending', clean'} \subseteq BOOLEAN
            BY <3>2
        <3>4. /\ step' \in Steps /\ i' \in Nat /\ number' \in Bit /\ piccBn' \in Bit
              /\ apdu' \in 0..MaxLen /\ left' \in 0..apdu' /\ asked' \in Nat
            BY <3>1 DEF Rest, Types, Bit
        <3> QED
            BY <1>2, <3>3, <3>4 DEF Types
    <2>2. Progress' /\ Pending'
        BY <1>1, <1>4 DEF Connect, ConnectReader, PiccActivate, PiccInitialize,
                          Rest, Progress, Pending
    <2> QED
        BY <1>3, <2>1, <2>2 DEF Rest
<1>5. CASE Command
    <2>1. PICK n \in 1..MaxLen : SendApdu(n)
        BY <1>5 DEF Command
    <2>2. Types'
        <3>1. clean' \in BOOLEAN /\ asked' = 0 /\ UNCHANGED piccVars
            BY <1>5 DEF Command, Ready
        <3>2. step' = "send" /\ apdu' = n /\ left' = n /\ i' = 0 /\ number' = 0
            BY <2>1 DEF SendApdu
        <3>3. n \in 0..MaxLen /\ n \in 0..n
            BY <2>1
        <3> QED
            BY <1>2, <3>1, <3>2, <3>3 DEF Rest, Types, Steps, Bit, piccVars
    <2>3. Progress' /\ Pending'
        BY <1>3, <1>5, <2>1 DEF Command, SendApdu, Rest, Progress, Pending, UpTo, piccVars
    <2> QED
        BY <1>3, <2>2, <2>3 DEF Rest
<1> QED
    BY <1>4, <1>5

\* A command that is not sent leaves the card, and what is on its way, alone.
LEMMA NotSending ==
    ASSUME Rest, EmptyCommand
    PROVE  Rest'
<1> USE CommandAssumption
<1>1. /\ apdu' = 0 /\ left' = 0 /\ i' = 0 /\ number' = 0 /\ clean' = FALSE
      /\ step = "idle" /\ left = 0
      /\ UNCHANGED <<step, piccVars, air, got, asked>>
    BY DEF EmptyCommand, SendNothing, Rest, Progress
<1>2. Types'
    <2>1. apdu' \in 0..MaxLen /\ left' \in 0..apdu' /\ i' \in Nat /\ number' \in Bit
        BY <1>1 DEF Bit
    <2>2. {piccChaining', cardBusy', isWait4WTX', isTxPending', clean'} \subseteq BOOLEAN
        BY <1>1 DEF Rest, Types, piccVars
    <2> QED
        BY <1>1, <2>1, <2>2 DEF Rest, Types, piccVars
<1>3. Progress' /\ Pending' /\ InOrder'
    BY <1>1 DEF Rest, Progress, Pending, InOrder, piccVars
<1>4. Fresh'
    BY <1>1 DEF Rest, Fresh, UpTo, air
<1> QED
    BY <1>2, <1>3, <1>4 DEF Rest

LEMMA RestKept ==
    ASSUME Rest, Next
    PROVE  Rest'
<1> USE DEF ghosts
<1>1. CASE Connect \/ Command
    BY <1>1, Starting
<1>2. CASE EmptyCommand
    BY <1>2, NotSending
<1>3. CASE ReaderStep
    <2>1. CASE SendBlock /\ UNCHANGED <<piccVars, ghosts>>
        BY <2>1, Sending
    <2>2. CASE Receive /\ UNCHANGED <<piccVars, ghosts>>
        BY <2>2, Parsing DEF Receive, Rest, Types
    <2>3. CASE ReceiveGarbled /\ clean' = FALSE /\ UNCHANGED <<piccVars, got, asked>>
        BY <2>3, Parsing DEF ReceiveGarbled, Rest, Types
    <2>4. CASE NothingReceived /\ clean' = FALSE /\ UNCHANGED <<piccVars, got, asked>>
        BY <2>4, Parsing DEF NothingReceived, Rest, Types
    <2> QED
        BY <1>3, <2>1, <2>2, <2>3, <2>4 DEF ReaderStep
<1>4. CASE Noise
    <2>1. to' = "nobody"
        BY <1>4 DEF Noise, Lose, Quiet
    <2> QED
        BY <1>4, <2>1, Apart DEF Noise, Rest, Types, Progress, Pending, apduVars, piccVars
<1>5. CASE CardStep
    <2>1. CASE GetI /\ (got' = (IF piccBn' = piccBn THEN got ELSE got \o frame.data))
               /\ UNCHANGED asked
        BY <1>5, <2>1, Taking DEF CardStep
    <2>2. CASE AskWtx /\ asked < MaxAsked /\ asked' = asked + 1 /\ UNCHANGED got
        BY <1>5, <2>2, CardApart DEF CardStep, Rest, Types
    <2>3. CASE (GetWtx \/ GetRetry \/ GetNak \/ SendI) /\ UNCHANGED <<got, asked>>
        BY <1>5, <2>3, CardApart DEF CardStep, Rest, Types
    <2>4. CASE (\E d \in Answers, m \in BOOLEAN : Answer(d, m)) /\ UNCHANGED <<got, asked>>
        BY <1>5, <2>4, CardApart DEF CardStep, Rest, Types
    <2> QED
        BY <1>5, <2>1, <2>2, <2>3, <2>4 DEF CardStep
<1> QED
    BY <1>1, <1>2, <1>3, <1>4, <1>5 DEF Next
-----------------------------------------------------------------------------
(***************************************************************************)
(* Clean air: where the command and its answer are.                        *)
(***************************************************************************)
LEMMA CleanStart ==
    ASSUME Rest, Command, clean'
    PROVE  InCleanAir'
<1>1. /\ Ready /\ step' = "send" /\ i' = 0 /\ number' = 0 /\ to' = "nobody"
      /\ got' = <<>> /\ asked' = 0 /\ UNCHANGED piccVars
    BY DEF Command, SendApdu, Quiet
<1>2. AtRest'
    BY <1>1 DEF Rest, Pending, Ready, AtRest, piccVars
<1>3. Between'
    BY <1>1, <1>2, ChunkEmpty DEF Ready, Between, piccVars
<1> QED
    BY <1>1, <1>3 DEF InCleanAir

LEMMA CleanSend ==
    ASSUME Rest, InCleanAir, SendBlock, UNCHANGED <<piccVars, ghosts>>
    PROVE  InCleanAir'
<1> DEFINE n == IF left < BlockSize THEN left ELSE BlockSize
<1>1. /\ Between /\ step' = "command" /\ to' = "picc"
      /\ frame' = IBlock(number, left > n, Chunk(i, n))
      /\ left' = left - n /\ number' = Toggle(number) /\ apdu' = apdu
    BY DEF InCleanAir, SendBlock, Send
<1>2. n \in Nat /\ left \in 0..apdu /\ apdu \in Nat /\ i = apdu - left
    BY CommandAssumption DEF Rest, Types, Progress, SendBlock
<1>3. left' \in 0..apdu
    BY Sending, <1>1 DEF Rest, Types
<1> HIDE DEF n
<1>4. /\ i \in 0..(apdu' - left') /\ apdu' - left' - i = n
      /\ (left' > 0) = (left > n)
    BY <1>1, <1>2, <1>3
<1>5. AtRest' /\ piccBn' = piccBn /\ got' = got
    BY <1>1 DEF Between, AtRest, piccVars, ghosts
<1>6. piccBn' = number' /\ number = Toggle(number')
    BY <1>1, <1>5 DEF Between, Rest, Types, Bit, Toggle
<1>7. OnItsWay'
    BY <1>1, <1>4, <1>5, <1>6 DEF Between, OnItsWay
<1> QED
    BY <1>1, <1>7 DEF InCleanAir

LEMMA CleanReceive ==
    ASSUME Rest, InCleanAir, Receive, UNCHANGED <<piccVars, ghosts>>
    PROVE  InCleanAir'
<1> USE DEF piccVars, ghosts
<1> DEFINE inf == CASE frame.k = "I"   -> <<frame.data>>
                    [] frame.k = "WTX" -> <<Junk>>
                    [] OTHER           -> <<>>
<1>1. InTpdu /\ to = "pcd" /\ Parsed(frame, inf) /\ UNCHANGED <<apdu, left>>
    BY DEF Receive
<1>2. left \in Nat /\ asked \in Nat /\ (step \in {"wtx", "answer"} => left = 0)
    BY CommandAssumption DEF Rest, Types, Progress
<1>3. CASE step = "command" /\ left > 0
    <2>1. step' = "send" /\ to' = "nobody" /\ UNCHANGED <<number, i>> /\ Confirmed
        BY <1>1, <1>3 DEF Parsed, Quiet, Receive, InCleanAir
    <2> QED
        BY <2>1 DEF InCleanAir, Confirmed, Between, AtRest
<1>4. CASE ~(step = "command" /\ left > 0)
    <2>1. left = 0 /\ Arrived
        BY <1>1, <1>2, <1>4 DEF InTpdu, InCleanAir, AfterCommand, AfterWtx, AfterAnswer
    <2>2. Arrived'
        <3>1. to' = "picc" => frame'.k # "I"
            BY <1>1, <2>1 DEF Parsed, AskForMore, Send, Quiet, RBlock, SBlock
        <3> QED
            BY <1>1, <2>1, <3>1 DEF Arrived
    <2>3. CASE step' = "wtx"
        <3>1. /\ step = "command" /\ frame.k = "WTX" /\ to' = "picc"
              /\ frame' = SBlock("WTX")
            BY <1>1, <2>1, <2>3 DEF Parsed, AskForMore, Send, Quiet, InTpdu
        <3>2. AfterCommand
            BY <1>1, <2>1, <3>1 DEF InCleanAir
        <3>3. asked # 0
            BY <1>1, <3>1, <3>2 DEF AfterCommand, Preparing, Answered, IBlock
        <3>4. asked = 1 => Waiting'
            BY <3>1, <3>2 DEF AfterCommand, Waiting
        <3> QED
            BY <1>2, <2>2, <2>3, <3>1, <3>3, <3>4 DEF InCleanAir, AfterWtx
    <2>4. CASE step' # "wtx"
        <3>1. /\ (step = "command" /\ frame.k # "WTX") \/ step \in {"wtx", "answer"}
              /\ rapdu' = (LET all == IF step = "answer" THEN rapdu \o inf ELSE inf
                           IN  IF Len(all) > MaxPieces THEN rapdu ELSE all)
              /\ IF ChainingBit(frame) THEN step' = "answer" ELSE step' = "idle"
            BY <1>1, <2>1, <2>4 DEF Parsed, AskForMore
        <3>2. CASE asked > 1
            BY <1>2, <2>2, <3>1, <3>2 DEF InCleanAir, AfterAnswer, AtEnd
        <3>3. CASE asked <= 1 /\ step = "answer"
            <4>1. piccChaining /\ ~cardBusy
                BY <3>3 DEF InCleanAir, AfterAnswer
            <4> QED
                BY <2>2, <3>1, <4>1 DEF InCleanAir, AfterAnswer, AtEnd
        <3>4. CASE asked <= 1 /\ step # "answer"
            <4>1. Answered
                <5>1. CASE step = "command"
                    <6>1. AfterCommand
                        BY <1>1, <2>1, <5>1 DEF InCleanAir
                    <6> QED
                        BY <1>1, <1>2, <3>1, <3>4, <5>1, <6>1
                           DEF AfterCommand, Preparing, Waiting, SBlock
                <5>2. CASE step = "wtx"
                    BY <1>1, <1>2, <3>4, <5>2
                       DEF InCleanAir, AfterWtx, Preparing, Waiting
                <5> QED
                    BY <3>1, <3>4, <5>1, <5>2
            <4>2. /\ frame.k = "I" /\ frame.more = piccChaining /\ frame.data = piccData
                  /\ ~cardBusy
                BY <4>1 DEF Answered, IBlock
            <4>3. rapdu' = <<piccData>>
                BY <3>1, <3>4, <4>2, CommandAssumption
            <4>4. CASE piccChaining
                BY <2>2, <3>1, <4>2, <4>4 DEF ChainingBit, InCleanAir, AfterAnswer
            <4>5. CASE ~piccChaining
                BY <2>2, <3>1, <4>2, <4>3, <4>5 DEF ChainingBit, InCleanAir, AtEnd
            <4> QED
                BY <4>4, <4>5
        <3> QED
            BY <1>2, <3>2, <3>3, <3>4
    <2> QED
        BY <2>3, <2>4
<1> QED
    BY <1>3, <1>4
LEMMA CleanTake ==
    ASSUME Rest, InCleanAir, GetI, UNCHANGED <<apduVars, asked>>,
           got' = IF piccBn' = piccBn THEN got ELSE got \o frame.data
    PROVE  InCleanAir'
<1> USE DEF apduVars
<1>1. to = "picc" /\ frame.k = "I" /\ picc = "RX"
    BY DEF GetI, Hearing
<1>2. step = "command" /\ OnItsWay
    <2>1. step \in {"command"} \/ (step \in {"wtx", "answer", "idle"} /\ Arrived)
        BY <1>1 DEF Rest, Types, Steps, InCleanAir, Between, AfterWtx, AfterAnswer, AtEnd
    <2> QED
        BY <1>1, <2>1 DEF Arrived, InCleanAir
<1>3. PICK b \in 0..(apdu - left) :
          /\ AtRest /\ piccBn = number /\ got = Chunk(0, b)
          /\ frame = IBlock(Toggle(number), left > 0, Chunk(b, apdu - left - b))
    BY <1>2 DEF OnItsWay
<1>4. /\ frame.bn = Toggle(number) /\ frame.bn # piccBn
      /\ frame.more = (left > 0) /\ frame.data = Chunk(b, apdu - left - b)
    BY <1>3 DEF IBlock, Toggle, Rest, Types, Bit
<1>5. /\ piccBn' = frame.bn /\ UNCHANGED <<isWait4WTX, isTxPending, piccChaining, piccData>>
      /\ IF frame.more
         THEN to' = "pcd" /\ UNCHANGED <<picc, cardBusy>>
         ELSE picc' = "SWTX" /\ cardBusy' = TRUE /\ to' = "nobody"
    BY <1>3, <1>4 DEF GetI, AtRest, Send, Quiet
<1>6. got' = Chunk(0, apdu - left)
    <2>1. b \in Nat /\ apdu - left - b \in Nat /\ b + (apdu - left - b) = apdu - left
        BY CommandAssumption DEF Rest, Types
    <2>2. got' = Chunk(0, b) \o Chunk(b, apdu - left - b)
        BY <1>3, <1>4, <1>5
    <2> QED
        BY <2>1, <2>2, ChunkJoin
<1>7. CASE left > 0
    <2>1. Confirmed'
        BY <1>3, <1>4, <1>5, <1>6, <1>7 DEF Confirmed, AtRest, Rest, Progress
    <2> QED
        BY <1>2, <1>5, <1>4, <1>7, <2>1 DEF InCleanAir
<1>8. CASE ~(left > 0)
    <2>1. left = 0 /\ apdu - left = apdu
        BY <1>8, CommandAssumption DEF Rest, Types
    <2>2. Arrived'
        BY <1>4, <1>5, <1>6, <1>8, <2>1 DEF Arrived
    <2>3. Preparing'
        BY <1>3, <1>4, <1>5, <1>8 DEF Preparing, AtRest
    <2> QED
        BY <1>2, <1>3, <1>4, <1>5, <1>8, <2>2, <2>3 DEF InCleanAir, AfterCommand, AtRest
<1> QED
    BY <1>7, <1>8

LEMMA CleanCard ==
    ASSUME Rest, InCleanAir, UNCHANGED <<apduVars, got>>,
           \/ (GetWtx \/ GetRetry \/ GetNak \/ SendI) /\ UNCHANGED asked
           \/ AskWtx /\ asked' = asked + 1
           \/ (\E d \in Answers, m \in BOOLEAN : Answer(d, m)) /\ UNCHANGED asked
    PROVE  InCleanAir'
<1> USE DEF apduVars
<1> DEFINE Gets == GetWtx \/ GetRetry \/ GetNak
           Answering == \E d \in Answers, m \in BOOLEAN : Answer(d, m)
<1>1. asked \in Nat /\ (asked' = asked \/ asked' = asked + 1)
    BY DEF Rest, Types
<1>2. ASSUME Gets
      PROVE  to = "picc" /\ picc = "RX" /\ frame.k # "I" /\ to' # "picc"
             /\ UNCHANGED <<cardBusy, piccChaining, piccData, isTxPending>>
    <2>1. CASE GetWtx
        BY <2>1 DEF GetWtx, Hearing, Ignore, Quiet
    <2>2. CASE GetRetry
        BY <2>2 DEF GetRetry, Hearing, Resend, Quiet, Send
    <2>3. CASE GetNak
        BY <2>3 DEF GetNak, Hearing, Send
    <2> QED
        BY <1>2, <2>1, <2>2, <2>3
<1>3. \* No card in the middle of a command does any of this.
      left = 0 /\ Arrived /\ step \in {"command", "wtx", "answer", "idle"}
      /\ (step = "command" => to # "picc" /\ AfterCommand)
    <2>1. ASSUME AtRest PROVE Gets
        BY <2>1 DEF AtRest, SendI, AskWtx, Answer
    <2>2. ~Between /\ ~Confirmed
        BY <1>2, <2>1 DEF Between, Confirmed
    <2>3. ASSUME to = "picc" PROVE ~OnItsWay
        BY <1>2, <2>1 DEF OnItsWay, IBlock
    <2>4. ~(left > 0) => left = 0
        BY CommandAssumption DEF Rest, Types
    <2>5. CASE step = "command"
        BY <2>2, <2>3, <2>4, <2>5 DEF InCleanAir, AfterCommand
    <2>6. CASE step # "command"
        BY <2>2, <2>6 DEF InCleanAir, AfterWtx, AfterAnswer, AtEnd, Arrived, Rest, Types, Steps
    <2> QED
        BY <2>5, <2>6
<1>4. Arrived' /\ (to' # "picc" \/ UNCHANGED air)
    <2>1. to' # "picc" \/ UNCHANGED air
        BY <1>2 DEF SendI, AskWtx, Answer, Send
    <2> QED
        BY <1>3, <2>1 DEF Arrived, air
<1>5. CASE step = "answer"
    <2>1. asked' <= 1 => piccChaining' /\ ~cardBusy'
        <3>1. SUFFICES ASSUME asked' <= 1 PROVE piccChaining' /\ ~cardBusy'
            OBVIOUS
        <3>2. piccChaining /\ ~cardBusy
            BY <1>1, <1>5, <3>1 DEF InCleanAir, AfterAnswer
        <3>3. ~Answering
            BY <3>2 DEF Answer
        <3>4. piccChaining' = piccChaining /\ cardBusy' = cardBusy
            BY <1>2, <3>3 DEF SendI, AskWtx
        <3> QED
            BY <3>2, <3>4, Zenon
    <2> QED
        BY <1>4, <1>5, <2>1 DEF InCleanAir, AfterAnswer
<1>6. CASE step = "idle"
    <2>1. asked' <= 1 => ~cardBusy' /\ (~piccChaining' => rapdu' = <<piccData'>>)
        <3>1. SUFFICES ASSUME asked' <= 1
                       PROVE  ~cardBusy' /\ (~piccChaining' => rapdu' = <<piccData'>>)
            OBVIOUS
        <3>2. ~cardBusy /\ (~piccChaining => rapdu = <<piccData>>)
            BY <1>1, <1>6, <3>1 DEF InCleanAir, AtEnd
        <3> QED
            BY <1>2, <3>2 DEF SendI, AskWtx, Answer
    <2> QED
        BY <1>4, <1>6, <2>1 DEF InCleanAir, AtEnd
<1>7. \* The answer is sent, the request for time made or granted.
      /\ SendI /\ Preparing => Answered'
      /\ AskWtx /\ Preparing => Waiting' /\ to' = "pcd"
      /\ Answering /\ Preparing => Preparing'
      /\ Answering /\ Waiting => Waiting' /\ to' = to
      /\ GetWtx /\ Waiting => Preparing'
    <2>1. SendI /\ Preparing => Answered'
        BY DEF SendI, Send, Preparing, Answered
    <2>2. AskWtx /\ Preparing => Waiting' /\ to' = "pcd"
        <3> SUFFICES ASSUME AskWtx, Preparing PROVE Waiting' /\ to' = "pcd"
            OBVIOUS
        <3>1. /\ picc' = "RX" /\ piccLast' = "WTX" /\ frame' = SBlock("WTX")
              /\ to' = "pcd" /\ isWait4WTX' = TRUE
            BY DEF AskWtx, Send
        <3>2. cardBusy' /\ ~isTxPending'
            BY DEF AskWtx, Preparing
        <3>3. cardBusy' = ~isTxPending'
            <4>1. cardBusy' \in BOOLEAN
                BY DEF AskWtx, Rest, Types
            <4> QED
                BY <3>2, <4>1
        <3> QED
            BY <3>1, <3>3 DEF Waiting
    <2>3. Answering /\ Preparing => Preparing'
        BY DEF Answer, air, Preparing
    <2>4. Answering /\ Waiting => Waiting' /\ to' = to
        BY DEF Answer, air, Waiting
    <2>5. GetWtx /\ Waiting => Preparing'
        <3> SUFFICES ASSUME GetWtx, Waiting PROVE Preparing'
            OBVIOUS
        <3>1. /\ isWait4WTX' = FALSE /\ to' = "nobody"
              /\ picc' = IF isTxPending THEN "TX" ELSE "SWTX"
              /\ cardBusy' = cardBusy /\ isTxPending' = isTxPending
            BY DEF GetWtx, Waiting, Quiet
        <3>2. cardBusy = ~isTxPending
            BY DEF Waiting
        <3>3. CASE isTxPending
            BY <3>1, <3>2, <3>3 DEF Preparing
        <3>4. CASE ~isTxPending
            BY <3>1, <3>2, <3>4 DEF Preparing
        <3> QED
            BY <3>3, <3>4
    <2> QED
        BY <2>1, <2>2, <2>3, <2>4, <2>5
<1>8. \* What else these states allow: nothing.
      /\ Preparing => ~Gets
      /\ Answered => ~Gets /\ ~SendI /\ ~AskWtx /\ ~Answering
      /\ Waiting => ~SendI /\ ~AskWtx /\ ~GetRetry /\ ~GetNak
    <2>1. (Preparing => ~Gets) /\ (Answered => ~Gets)
        BY <1>2 DEF Preparing, Answered
    <2>2. Answered => ~SendI /\ ~AskWtx /\ ~Answering
        BY DEF Answered, SendI, AskWtx, Answer
    <2>3. Waiting => ~SendI /\ ~AskWtx /\ ~GetRetry /\ ~GetNak
        BY DEF Waiting, SBlock, SendI, AskWtx, GetRetry, GetNak, Hearing
    <2> QED
        BY <2>1, <2>2, <2>3
<1>9. CASE step = "command"
    <2>1. to' # "picc" /\ AfterCommand
        BY <1>3, <1>4, <1>9 DEF air
    <2>2. asked' = 0 => Preparing' \/ Answered'
        BY <1>1, <1>7, <1>8, <2>1 DEF AfterCommand
    <2>3. asked' = 1 => Waiting' /\ to' = "pcd"
        BY <1>1, <1>2, <1>7, <1>8, <2>1 DEF AfterCommand
    <2> QED
        BY <1>3, <1>4, <1>9, <2>1, <2>2, <2>3 DEF InCleanAir, AfterCommand
<1>10. CASE step = "wtx"
    <2>1. AfterWtx /\ asked' > 0
        BY <1>1, <1>10 DEF InCleanAir, AfterWtx
    <2>2. asked' = 1 => asked = 1 /\ (Gets \/ SendI \/ Answering)
        BY <1>1, <2>1 DEF AfterWtx
    <2>3. asked' = 1 => Preparing' \/ Answered' \/ (Waiting' /\ to' = "picc")
        BY <1>7, <1>8, <2>1, <2>2 DEF AfterWtx
    <2> QED
        BY <1>4, <1>10, <2>1, <2>3 DEF InCleanAir, AfterWtx
<1> QED
    BY <1>3, <1>5, <1>6, <1>9, <1>10

LEMMA CleanKept ==
    ASSUME IInv, Next, clean'
    PROVE  InCleanAir'
<1> USE DEF IInv
<1>1. CASE Connect
    BY <1>1 DEF Connect
<1>2. CASE Command
    BY <1>2, CleanStart
<1>3. CASE ReaderStep
    <2>1. (SendBlock \/ Receive) /\ UNCHANGED <<piccVars, ghosts>>
        BY <1>3 DEF ReaderStep
    <2> QED
        BY <2>1, CleanSend, CleanReceive DEF ghosts
<1>4. CASE Noise
    BY <1>4 DEF Noise
<1>5. CASE CardStep
    <2>1. UNCHANGED <<apduVars, clean>>
        BY <1>5 DEF CardStep
    <2>2. CASE GetI /\ (got' = (IF piccBn' = piccBn THEN got ELSE got \o frame.data))
               /\ UNCHANGED asked
        BY <2>1, <2>2, CleanTake
    <2>3. CASE \/ (GetWtx \/ GetRetry \/ GetNak \/ SendI) /\ UNCHANGED <<got, asked>>
               \/ AskWtx /\ asked' = asked + 1 /\ UNCHANGED got
               \/ /\ \E d \in Answers, m \in BOOLEAN : Answer(d, m)
                  /\ UNCHANGED <<got, asked>>
        BY <2>1, <2>3, CleanCard
    <2> QED
        BY <1>5, <2>2, <2>3 DEF CardStep
<1>6. CASE EmptyCommand
    BY <1>6 DEF EmptyCommand
<1> QED
    BY <1>1, <1>2, <1>3, <1>4, <1>5, <1>6 DEF Next

-----------------------------------------------------------------------------
(***************************************************************************)
(* The theorems.                                                           *)
(***************************************************************************)
LEMMA Initially == Init => IInv
<1> SUFFICES ASSUME Init PROVE IInv
    OBVIOUS
<1> USE CommandAssumption DEF Init, ReaderInit, PiccInit
<1>1. got = <<>> /\ got \in Seq(Nat) /\ Len(got) = 0
    OBVIOUS
<1>2. Types
    <2>1. /\ step \in Steps /\ i \in Nat /\ number \in Bit /\ piccBn \in Bit
          /\ apdu \in 0..MaxLen /\ left \in 0..apdu /\ asked \in Nat
        BY DEF Steps, Bit
    <2>2. {piccChaining, cardBusy, isWait4WTX, isTxPending, clean} \subseteq BOOLEAN
        OBVIOUS
    <2> QED
        BY <1>1, <2>1, <2>2 DEF Types
<1>3. Progress /\ Fresh /\ InOrder /\ Pending
    BY <1>1 DEF Progress, Fresh, InOrder, Pending
<1> QED
    BY <1>2, <1>3 DEF IInv, Rest

LEMMA Inductive == IInv /\ [Next]_vars => IInv'
<1> SUFFICES ASSUME IInv, [Next]_vars PROVE IInv'
    OBVIOUS
<1>1. CASE Next
    BY <1>1, RestKept, CleanKept DEF IInv
<1>2. CASE UNCHANGED vars
    BY <1>2 DEF vars, apduVars, piccVars, air, ghosts, IInv, Rest, Types, Progress, UpTo,
                Fresh, InOrder, Pending, InCleanAir, Between, OnItsWay, Confirmed, AtRest,
                AfterCommand, AfterWtx, AfterAnswer, AtEnd, Arrived, Preparing, Answered,
                Waiting
<1> QED
    BY <1>1, <1>2

LEMMA Always == Spec => []IInv
    BY Initially, Inductive, PTL DEF Spec

\* Whatever the air does, send_apdu gives the card application no byte of a command
\* twice or after a later one: the blocks of every command, of any length.
THEOREM BytesInOrder == Spec => []InOrder
<1>1. IInv => InOrder
    BY DEF IInv, Rest
<1> QED
    BY <1>1, Always, PTL

\* In clean air all of a command has reached the card application when send_apdu ends.
THEOREM CommandDelivered == Spec => []Delivered
<1>1. IInv => Delivered
    BY DEF IInv, Delivered, Done, InCleanAir, AtEnd, Arrived
<1> QED
    BY <1>1, Always, PTL

\* In clean air the one block of the card's answer is what send_apdu shows, when the
\* card asked for time at most once.
THEOREM AnswerShown == Spec => []Shown
<1>1. IInv => Shown
    BY DEF IInv, Shown, Done, InCleanAir, AtEnd
<1> QED
    BY <1>1, Always, PTL
=============================================================================
