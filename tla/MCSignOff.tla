------------------------------ MODULE MCSignOff ------------------------------
(* SignOff for TLC: two tabs, a unit whose code is reformatted, changed, *)
(* changed back and removed.                                                *)
EXTENDS SignOff, TLC

CONSTANTS t1, t2, k1, old, formatted, new

MCTabs == {t1, t2}
MCSymmetry == Permutations(MCTabs)
MCKeys == {k1}
MCCodes == {old, formatted, new}
MCMeaning == [c \in MCCodes |-> IF c = new THEN "new" ELSE "old"]
MCContents == [MCKeys -> MCCodes \union {Gone}]
=============================================================================
