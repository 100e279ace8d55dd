------------------------------- MODULE MCYieldBot -------------------------------
(* Small instances of YieldBot for TLC.  Each index divides the next, so that  *)
(* little is lost to rounding and a claim that pays too little shows.          *)
EXTENDS YieldBot

CONSTANTS e1, e2, other

MCEarnerSymmetry == Permutations({e1, e2})
MCIndexSteps == <<1, 2, 4>>
=============================================================================
