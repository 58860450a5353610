---------------------------- MODULE MCNfcaPoller ----------------------------
(***************************************************************************)
(* NfcaPoller with codes of two bytes of two bits and a cascade tag of 01: *)
(* three cards with one cascade level and three with two, two of which     *)
(* share their first code.  s1, s2 and s3 can cost the reader two          *)
(* backtracks before it finds one of them.                                 *)
(***************************************************************************)
EXTENDS NfcaPoller

MCTag == <<0, 1>>

s1 == << <<1, 1, 0, 0>> >>
s2 == << <<0, 0, 0, 0>> >>
s3 == << <<0, 0, 1, 1>> >>
d1 == << <<0, 1, 1, 0>>, <<1, 1, 0, 1>> >>
d2 == << <<0, 1, 1, 0>>, <<1, 0, 1, 0>> >>
d3 == << <<0, 1, 1, 1>>, <<1, 0, 1, 0>> >>

MCUids == {s1, s2, s3, d1, d2, d3}
MCIsoCards == {s2, d1}
=============================================================================
