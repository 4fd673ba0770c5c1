---------------------------- MODULE MCMailStore ----------------------------
(* Two accounts and a few emails; the ring forgets after two transitions so
   that eviction happens within the bound on the counters. *)
EXTENDS MailStore, TLC

CONSTANTS A, B, e1, e2, e3

(* The primary account and the secondary each start with one email, one id is
   free. *)
OneEach == (e1 :> A) @@ (e2 :> B) @@ [x \in Email |-> None]

=============================================================================
