---------------------------- MODULE MCTokenStore ----------------------------
(* Two token requests in flight for two accounts. *)
EXTENDS TokenStore, TLC

CONSTANTS r1, r2, A, B, b1

=============================================================================
