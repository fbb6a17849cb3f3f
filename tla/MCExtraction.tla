---------------------------- MODULE MCExtraction ----------------------------
(***************************************************************************)
(* Constants and symmetry for the runs of Extraction.                      *)
(***************************************************************************)
EXTENDS Extraction, SequencesExt

CONSTANTS w1, w2, r1, r2, r3, s1, s2, gh, az

OneScope  == gh :> <<s1>>
TwoScopes == gh :> <<s1, s2>>
TwoPlatforms == gh :> <<s1>> @@ az :> <<s2>>

\* A listing has no duplicates; its order is the API's.
ListAny(S) == SetToAllKPermutations(S)
ListAll(S) == SetToSeqs(S)

OneRepoListed   == s1 :> ListAny({r1})
TwoAndOneListed == s1 :> ListAny({r1, r2}) @@ s2 :> ListAny({r3})
AlwaysListed    == s1 :> ListAll({r1}) @@ s2 :> ListAll({r2})

OneStep  == <<"dependencies">>

RunIdSymmetry == Permutations(RunIds)
=============================================================================
