-------------------------- MODULE MCGoogleCustody --------------------------
(***************************************************************************)
(* Instances of GoogleCustody.                                             *)
(***************************************************************************)
EXTENDS GoogleCustody, TLC

CONSTANTS g1, g2, r1, d1

MCSessions == {1, 2}
MCSubjects == {g1, g2}
OneSubject == {g1}
OneReconciler == {r1}
MCRequests == {d1}

Symmetry == Permutations(MCSubjects)
=============================================================================
