--------------------------- MODULE IsoDepExchange ---------------------------
(***************************************************************************)
(* What the ISO 14443-4 block protocol promises the two applications,      *)
(* whatever happens to the frames: within a session every block of a       *)
(* command reaches the card once and in order, every block of a response   *)
(* reaches the reader once and in order, and the next block is asked for   *)
(* only when the one before has arrived.  IsoDepLink implements it.        *)
(***************************************************************************)
CONSTANTS Data, None

Turns == {"reader", "toCard", "confirm", "card", "toReader", "goOn", "down"}
Blocks == [data : Data \cup {None}, more : BOOLEAN]

VARIABLES
    turn,       \* what has to happen next
    down, up,   \* the block under way to the card, and to the reader
    card,       \* what the card application was given last
    reader      \* what the reader application was given last

exchangeVars == <<turn, down, up, card, reader>>

\* A hand-over to an application: the data, and a parity that tells a second
\* hand-over of the same data from none.
Given == [data : Data \cup {None}, parity : BOOLEAN]
Handed(g, d) == [data |-> d, parity |-> ~g.parity]

ExchangeInit ==
    /\ turn = "down"
    /\ down \in Blocks /\ up \in Blocks
    /\ card \in Given /\ reader \in Given

\* The reader application submits a block.
Submit ==
    /\ turn = "reader" /\ turn' = "toCard"
    /\ down' \in Blocks
    /\ UNCHANGED <<up, card, reader>>

\* The card application is given it: in the middle of a command, the card now
\* confirms; at its end, it owes a response.
Deliver ==
    /\ turn = "toCard"
    /\ turn' = IF down.more THEN "confirm" ELSE "card"
    /\ card' = Handed(card, down.data)
    /\ UNCHANGED <<down, up, reader>>

Confirm ==
    /\ turn = "confirm" /\ turn' = "reader"
    /\ UNCHANGED <<down, up, card, reader>>

\* The card application answers with a block.
Answer ==
    /\ turn = "card" /\ turn' = "toReader"
    /\ up' \in Blocks
    /\ UNCHANGED <<down, card, reader>>

\* The reader application is given it; in the middle of a response, the reader
\* then asks for more.
Hear ==
    /\ turn = "toReader"
    /\ turn' = IF up.more THEN "goOn" ELSE "reader"
    /\ reader' = Handed(reader, up.data)
    /\ UNCHANGED <<down, up, card>>

GoOn ==
    /\ turn = "goOn" /\ turn' = "card"
    /\ UNCHANGED <<down, up, card, reader>>

\* The reader ends the session.  The block that was under way may still reach
\* the card.
Leave ==
    /\ turn' = "down"
    /\ UNCHANGED <<card, reader>>
    /\ down' \in Blocks /\ up' \in Blocks

Late ==
    /\ turn = "down" /\ turn' = "down"
    /\ card' \in {card, Handed(card, down.data)}
    /\ down' \in Blocks /\ up' \in Blocks
    /\ UNCHANGED reader

\* A session begins.
Start ==
    /\ turn' = "reader"
    /\ down' \in Blocks /\ up' \in Blocks
    /\ UNCHANGED <<card, reader>>

ExchangeNext ==
    \/ Submit \/ Deliver \/ Confirm \/ Answer \/ Hear \/ GoOn
    \/ Leave \/ Late \/ Start

ExchangeSpec == ExchangeInit /\ [][ExchangeNext]_exchangeVars
=============================================================================
