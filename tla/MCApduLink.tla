----------------------------- MODULE MCApduLink -----------------------------
(***************************************************************************)
(* ApduLink with blocks of two bytes, commands of up to five, and an index *)
(* of five values.                                                         *)
(***************************************************************************)
EXTENDS ApduLink

MCAnswers == {<<7>>, <<8>>}
MCData == MCAnswers \cup {Chunk(from, n) : from \in 0..5, n \in 1..2}
=============================================================================
