----------------------------- MODULE MCOAuthGrant -----------------------------
(***************************************************************************)
(* OAuthGrant with a few requests of each kind.                            *)
(***************************************************************************)
EXTENDS OAuthGrant, TLC

CONSTANTS r1, r2, a1, d1, e1
=============================================================================
