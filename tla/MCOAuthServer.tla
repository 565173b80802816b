--------------------------- MODULE MCOAuthServer ---------------------------
(* Instances of OAuthServer for TLC. *)
EXTENDS OAuthServer
=============================================================================
