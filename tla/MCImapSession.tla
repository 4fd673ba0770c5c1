---------------------------- MODULE MCImapSession ----------------------------
(* The primary account A and a second account B with a mailbox each and a message
   of B.  Mailbox 5 is the first that is made while both are there. *)
EXTENDS ImapSession, TLC

CONSTANTS A, B, inbox, work, e1

TwoBoxes == <<[acct |-> A, name |-> inbox], [acct |-> B, name |-> inbox]>>
Owners == (e1 :> B)
Filed == (e1 :> {2})

(* Reading, with expunging or inserting only, everything. *)
SomeGrants == {{"r"}, {"r", "e"}, {"r", "i"}, {"r", "w", "i", "t"}}

(* No sharing, a declared grant, one that the loader refuses, grants of a step, one
   of them widened, and grants on a mailbox that is yet to be made. *)
Scripted(grants) == [acl |-> {}, script |-> grants]
SomeFixtures ==
    {Scripted({}),
     [acl |-> {<<2, A, {"r", "i"}>>}, script |-> {}],
     [acl |-> {<<2, B, {"r"}>>}, script |-> {}],
     Scripted({<<2, A, {"r", "e"}>>}),
     Scripted({<<2, A, {"r"}>>, <<2, A, {"r", "w", "i", "t"}>>}),
     Scripted({<<5, A, {"r"}>>, <<5, B, {"r", "w", "i", "t"}>>})}

=============================================================================
