------------------------------- MODULE MCRtc -------------------------------
(***************************************************************************)
(* Rtc for TLC: numbers around the edges of rtc_write's halving loop, a    *)
(* frequency the chip has, and one above what the chip can do.  Those that *)
(* are rejected all lead to the same states.                               *)
(***************************************************************************)
EXTENDS Rtc

EdgeFrequencies == {-2, 0, 1, 6, 2147483647} \cup {1024, 131072}
=============================================================================
