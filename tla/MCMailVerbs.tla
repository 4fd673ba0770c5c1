---------------------------- MODULE MCMailVerbs ----------------------------
(* Two fixtures, with and without an archive, and two that the loader refuses; one
   email and one minted. *)
EXTENDS MailVerbs

CONSTANTS c1

Box(id, role) == [id |-> id, role |-> role, parent |-> None]
MCDeclared == { << Box("in", "inbox"), Box("sent", "sent"), Box("user", None) >>,
                << Box("in", "inbox"), Box("drafts", "drafts"), Box("arc", "archive") >>,
                << Box("in", "inbox"), Box("user", None), Box("user", None) >>,
                << Box("in", "inbox"), [Box("user", None) EXCEPT !.parent = "user"] >> }
MCMinted == <<"m1", "m2", "m3", "m4", "m5", "m6", "m7">>
MCJmapPatch == { [add |-> {"m5"}, drop |-> {"in"}, on |-> {"$draft"}, off |-> {}],
                 [add |-> {}, drop |-> {"in", "sent", "user"}, on |-> {}, off |-> {"$seen"}] }
MCGmailPatch == { [add |-> {}, remove |-> {"INBOX", "DRAFT"}],
                  [add |-> {"TRASH", "user", "k", "UNREAD"}, remove |-> {"INBOX", "UNREAD"}] }
MCGraphPatch == { [on |-> {"$seen"}, off |-> {}, cats |-> {{"k"}}] }
MCPlace == {{}, {"in", "user"}, {"unknown"}}

=============================================================================
