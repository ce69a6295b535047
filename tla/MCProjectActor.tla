--------------------------- MODULE MCProjectActor ---------------------------
(* ProjectActor for TLC: the profiles are model values.                    *)
EXTENDS ProjectActor, TLC

ProfileSymmetry == Permutations(Profiles)
=============================================================================
