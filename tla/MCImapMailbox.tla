---------------------------- MODULE MCImapMailbox ----------------------------
(* Two mailboxes and two emails. *)
EXTENDS ImapMailbox, TLC

CONSTANTS inbox, archive, e1, e2

(* e1 and e2 in the inbox, in that order. *)
TwoInInbox == (e1 :> {inbox}) @@ (e2 :> {inbox}) @@ [x \in Email |-> {}]
TwoInOrder == <<e1, e2>>

=============================================================================
