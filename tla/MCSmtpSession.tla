---------------------------- MODULE MCSmtpSession ----------------------------
(* Two accounts and a session of a few commands. *)
EXTENDS SmtpSession, TLC

CONSTANTS A, B

=============================================================================
