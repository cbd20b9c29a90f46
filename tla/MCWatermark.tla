---------------------------- MODULE MCWatermark ----------------------------
(* Small instances of Watermark for TLC. *)
EXTENDS Watermark

(* 4 blocks, too few to cut a payload; 8 and 9, where three segments come  *)
(* back to a place after 24 and after 9 frames; 28, more than a payload    *)
(* needs; and a width that is not even.                                    *)
MCShapes == {<<16, 16>>, <<16, 32>>, <<24, 24>>, <<32, 56>>, <<16, 17>>}
=============================================================================
