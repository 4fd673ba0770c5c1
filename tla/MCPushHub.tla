----------------------------- MODULE MCPushHub -----------------------------
(* Two accounts, two requests that step the script concurrently, one
   listener, one client of the two-lock endpoints and one reset. *)
EXTENDS PushHub

CONSTANTS s1, s2, l1, k1

=============================================================================
