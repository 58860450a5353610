------------------------------- MODULE MCSump -------------------------------
(***************************************************************************)
(* Sump with a ring of four slots, two probes, one in each byte, and       *)
(* counts in units of two: delays of nothing, half a turn and one turn,    *)
(* read-backs of half a turn to a turn and a half.                         *)
(***************************************************************************)
EXTENDS Sump

MCProbes == {"lo", "hi"}
MCLow == {"lo"}
MCSamples == {{}, {"lo", "hi"}}
MCMasks == {{}, {"lo"}}
MCValues == {{"lo"}}
MCCounts == {0, 1, 2}
MCStale == {[i \in 0..3 |-> {}]}
MCChannels == {{1}, {1, 2, 3}}
=============================================================================
