--------------------------- MODULE MCOAuthService ---------------------------
(* Small instances of OAuthService.                                        *)
EXTENDS OAuthRefinement, TLC

CONSTANTS c1, cb1, read

\* One registered client, allowed the scope "read".
OneClient ==
    c1 :> [redirect |-> cb1, scopes |-> {read}, at |-> Seeded]

RequestSymmetry == Permutations(Requests)
=============================================================================
