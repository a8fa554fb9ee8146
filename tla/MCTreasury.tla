----------------------------- MODULE MCTreasury -----------------------------
(* Two treasuries on one log, two accounts, two decisions, two sleeves.    *)
EXTENDS Treasury, TLC

CONSTANTS a1, a2, t1, t2, s1, s2

(* An executable verdict, a refused one and a code past the last; both     *)
(* fractions a verdict may need, and one past the whole.                   *)
MCVerdictArgs  == {VERDICT_TRIM, VERDICT_ABSTAIN_UPHELD, 4}
MCFractionArgs == {0, TotalBps, TotalBps + 1}

(* Lists that are empty, of unequal lengths, repeat a sleeve, leave one    *)
(* out, and sum to less or more than the whole.                            *)
MCSleeveLists == {<< >>, <<s1>>, <<s2>>, <<s1, s2>>, <<s2, s1>>, <<s1, s1>>}
MCWeightLists == {<<2>>, <<1>>, <<1, 1>>, <<0, 2>>, <<2, 0>>, <<2, 1>>}

(* The ids of requests and the hashes are compared and stored, no more.    *)
MCSymmetry == Permutations(RequestIds) \cup Permutations(Hashes)
=============================================================================
