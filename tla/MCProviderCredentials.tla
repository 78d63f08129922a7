------------------------ MODULE MCProviderCredentials ------------------------
(* ProviderCredentials for TLC: two requests that need the token.           *)
EXTENDS ProviderCredentials, TLC

CONSTANTS q1, q2

MCReaders == {q1, q2}
MCSymmetry == Permutations(MCReaders)
=============================================================================
