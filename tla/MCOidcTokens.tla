---------------------------- MODULE MCOidcTokens ----------------------------
(* OidcTokens on small instances. *)
EXTENDS OidcTokens, TLC
Symmetry == Permutations(Token) \cup Permutations(Req) \cup Permutations(Session)
=============================================================================
