------------------------ MODULE MCProviderAdmission ------------------------
(***************************************************************************)
(* Instances of ProviderAdmission for TLC.                                 *)
(***************************************************************************)
EXTENDS ProviderAdmission, TLC

CONSTANTS r1, r2, o1, o2

\* An operation in each of two runtimes, or both in one.
SplitOrShared == {o1 :> r1 @@ o2 :> r2, o1 :> r1 @@ o2 :> r1}
=============================================================================
