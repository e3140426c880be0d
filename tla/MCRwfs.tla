------------------------------- MODULE MCRwfs -------------------------------
(* Instances of Rwfs for TLC *)
EXTENDS Rwfs, TLC

\* Contents of different lengths, so that records overlap in part
MCPayloads == {<<"x">>, <<"y", "z">>}

\* No definition tells one file name from another
NameSymmetry == Permutations(Names)
=============================================================================
