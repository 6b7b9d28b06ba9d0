-------------------------- MODULE MCNXOAuth2Client --------------------------
(* NXOAuth2Client on a few requests.                                       *)
EXTENDS NXOAuth2Client, TLC

\* Requests are interchangeable: no action or invariant names one.
RequestSymmetry == Permutations(Request)
=============================================================================
