---------------------------- MODULE MCSubmission ----------------------------
(* Concurrent runs of the council's command line on one log and treasury.  *)
EXTENDS Submission, TLC

CONSTANTS a1, a2, t1, t2, s1, s2, h1

Outcome(v, f, w) == [verdict |-> v, hashes |-> h1, share |-> f, target |-> w]

(* With two units in a basis point and a whole of four: an approved move,  *)
(* a trimmed one, a trim to nothing, an escalation, and an approved move   *)
(* whose weights come to five basis points (its current weights did not    *)
(* sum to one).                                                            *)
MCDeliberations ==
    {Outcome(VERDICT_APPROVE, 2, <<5, 3>>),
     Outcome(VERDICT_TRIM, 1, <<6, 2>>),
     Outcome(VERDICT_TRIM, 0, << >>),
     Outcome(VERDICT_ESCALATE, 0, << >>),
     Outcome(VERDICT_APPROVE, 2, <<9, 3>>)}

MCSleeveOrder == <<s1, s2>>

Symmetry == Permutations(Runs) \cup Permutations(RequestIds)
=============================================================================
