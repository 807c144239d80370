--------------------------- MODULE MCStressReplay ---------------------------
(* Short paths for TLC: a price that falls below each loan, an unclamped LTV *)
(* below, between and above the clamps, haircuts from none to the largest.  *)
EXTENDS StressReplay

SmallHaircuts == {0, 2, MAX_LIQUIDITY_HAIRCUT} \X {0, 1, MAX_DATA_QUALITY_HAIRCUT}
=============================================================================
