------------------------- MODULE MCUltralightImage -------------------------
(***************************************************************************)
(* UltralightImage on one bit a page: the factory image has no bit set but  *)
(* one of page 1, the one file has page 0 and an OTP bit programmed.  The  *)
(* addresses are one of each kind, both ends of each range included.       *)
(***************************************************************************)
EXTENDS UltralightImage

MCBit == {1}
MCFactory == [p \in PAGES |-> IF p = 1 THEN {1} ELSE {}]
MCFiles == {[p \in PAGES |-> IF p \in {0, 3} THEN {1} ELSE {}]}
MCAddr == {1, 2, 3, 4, 15, 16}
=============================================================================
