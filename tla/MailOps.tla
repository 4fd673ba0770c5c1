------------------------------- MODULE MailOps -------------------------------
(***************************************************************************)
(* The mail verbs of JMAP, Gmail, Graph and IMAP as functions from the     *)
(* store of one account to the store the verb leaves behind                *)
(* (src/src/jmap.rs, gmail/mail.rs, graph/mail.rs, imap.rs).  A refused    *)
(* request returns the store it was given.                                 *)
(*                                                                         *)
(* A store s has                                                           *)
(*   s.boxes  the mailboxes in order: [id, role, parent]                   *)
(*   s.mail   the live emails by id: [boxes, kw, thread, reaction]         *)
(*   s.seq    emails created so far, what mint_email_id counts             *)
(*   s.log    the account's transitions                                    *)
(*   s.snap   history: s.snap[t + 1] is the labels shown at token t        *)
(* Names, bodies, dates and UIDs are left out.  A Gmail user label         *)
(* "Label_x" is written x, where x is a mailbox id or a keyword, as in the *)
(* code, which tells the two apart by looking for the mailbox.             *)
(***************************************************************************)
EXTENDS Naturals, SequencesExt

CONSTANTS
    Minted,     \* Minted[n] is the mailbox id mock-mailbox-<n>
    MaxMail     \* bound on the emails ever created

None == "none"      \* no role, no parent, no such mailbox
Absent == {"absent"}

SystemKeyword == {"$seen", "$flagged", "$draft"}
RoleLabel == [inbox |-> {"INBOX"}, sent |-> {"SENT"}, drafts |-> {"DRAFT"},
              trash |-> {"TRASH"}, archive |-> {}]
Role == DOMAIN RoleLabel
LabelRole == [INBOX |-> "inbox", SENT |-> "sent", TRASH |-> "trash"]

BoxIds(s) == {s.boxes[i].id : i \in DOMAIN s.boxes}
Roleless(s) == {b.id : b \in {c \in ToSet(s.boxes) : c.role = None}}

(* The first mailbox of the account with role r. *)
RoleBox(s, r) ==
    LET q == SelectSeq(s.boxes, LAMBDA b : b.role = r) IN IF q = << >> THEN None ELSE q[1].id

-----------------------------------------------------------------------------
(* Labels and the log. *)

(* gmail_label_ids: what a message's memberships and keywords show. *)
Labels(s, m) ==
    UNION {IF b.role = None THEN {b.id} ELSE RoleLabel[b.role] :
              b \in {c \in ToSet(s.boxes) : c.id \in m.boxes}}
    \cup (IF "$seen" \in m.kw THEN {} ELSE {"UNREAD"})
    \cup (IF "$flagged" \in m.kw THEN {"STARRED"} ELSE {})
    \cup (IF "$draft" \in m.kw THEN {"DRAFT"} ELSE {})
    \cup (m.kw \ SystemKeyword)

Shown(s) == [e \in 1..MaxMail |-> IF e \in DOMAIN s.mail THEN Labels(s, s.mail[e]) ELSE Absent]

(* What clients can see at a token. *)
View(s) == [labels |-> Shown(s), boxes |-> ToSet(s.boxes)]

NoDiff == [created |-> {}, updated |-> {}, destroyed |-> {}, labels |-> {},
           boxCreated |-> {}, boxUpdated |-> {}, boxDestroyed |-> {}]

(* Fixture::mutate: the transition of a diff that is not empty. *)
Commit(s, d) ==
    IF d = NoDiff THEN s
    ELSE [s EXCEPT !.log = Append(@, d), !.snap = Append(@, View(s))]

(* gmail_label_change: nothing when nothing moved. *)
LabelChange(e, old, new) ==
    IF old = new THEN {} ELSE {[id |-> e, added |-> new \ old, removed |-> old \ new]}

Put(s, e, m) == [s EXCEPT !.mail = [x \in DOMAIN @ \cup {e} |-> IF x = e THEN m ELSE @[x]]]

(* mint_email_id and the push of the new email. *)
Mint(s, m) ==
    Commit(Put([s EXCEPT !.seq = @ + 1], s.seq + 1, m), [NoDiff EXCEPT !.created = {s.seq + 1}])
NewMail(s, boxes, kw, thread) ==
    [boxes |-> boxes, kw |-> kw, thread |-> IF thread = 0 THEN s.seq + 1 ELSE thread,
     reaction |-> FALSE]

UpdateUnrecorded(s, e, m) == Put(s, e, m)
Update(s, e, m) == Commit(Put(s, e, m), [NoDiff EXCEPT !.updated = {e}])
Destroy(s, e) ==
    IF e \in DOMAIN s.mail
      THEN Commit([s EXCEPT !.mail = [x \in DOMAIN @ \ {e} |-> @[x]]],
                  [NoDiff EXCEPT !.destroyed = {e}])
      ELSE s

-----------------------------------------------------------------------------
(* Mailboxes. *)

(* fresh_mailbox_id: the first free suffix above the number of mailboxes. *)
FreshBoxId(s) ==
    LET Free == {n \in Len(s.boxes) + 1..Len(Minted) : Minted[n] \notin BoxIds(s)}
    IN  Minted[CHOOSE n \in Free : \A k \in Free : n <= k]

AddBox(s, role, parent) ==
    LET id == FreshBoxId(s) IN
    Commit([s EXCEPT !.boxes = Append(@, [id |-> id, role |-> role, parent |-> parent])],
           [NoDiff EXCEPT !.boxCreated = {id}])
RemoveBox(s, id) ==
    IF id \in BoxIds(s)
      THEN Commit([s EXCEPT !.boxes = SelectSeq(@, LAMBDA b : b.id # id)],
                  [NoDiff EXCEPT !.boxDestroyed = {id}])
      ELSE s
(* The first mailbox with this id gets the role and the parent given. *)
PatchBox(s, id, role, parent) ==
    IF id \in BoxIds(s)
      THEN LET i == SelectInSeq(s.boxes, LAMBDA b : b.id = id) IN
           Commit([s EXCEPT !.boxes[i] = [id |-> id, role |-> role, parent |-> parent]],
                  [NoDiff EXCEPT !.boxUpdated = {id}])
      ELSE s
BoxAt(s, id) == s.boxes[SelectInSeq(s.boxes, LAMBDA b : b.id = id)]

(* Mailbox/set.  Only the create looks at its parent; the destroy refuses a
   mailbox that holds emails. *)
MailboxCreate(s, role, parent) ==
    IF parent \in BoxIds(s) \cup {None} THEN AddBox(s, role, parent) ELSE s
MailboxUpdate(s, id, role, parent) == PatchBox(s, id, role, parent)
MailboxDestroy(s, id) ==
    IF \E e \in DOMAIN s.mail : id \in s.mail[e].boxes THEN s ELSE RemoveBox(s, id)

(* The mailbox operations of a change-script step.  The author chooses the id; an
   operation that fails fails the step. *)
ScriptMailboxCreate(s, id, role, parent) ==
    IF id \in BoxIds(s) \/ parent \notin BoxIds(s) \cup {None} THEN s
    ELSE Commit([s EXCEPT !.boxes = Append(@, [id |-> id, role |-> role, parent |-> parent])],
                [NoDiff EXCEPT !.boxCreated = {id}])
ScriptMailboxUpdate(s, id, role, parent) == PatchBox(s, id, role, parent)
ScriptMailboxDestroy(s, id) ==
    IF \E e \in DOMAIN s.mail : id \in s.mail[e].boxes THEN s ELSE RemoveBox(s, id)

(* The ancestor of mailbox id after n steps of mailbox_path's walk.  The walk
   stops at a parent that is not a mailbox of the account. *)
Ancestor(s, id, n) ==
    LET up[k \in 0..n] ==
          IF k = 0 THEN id
          ELSE IF up[k - 1] \in BoxIds(s) THEN BoxAt(s, up[k - 1]).parent ELSE None
    IN  up[n]

(* list_mailboxes computes the path of every mailbox but the inbox, whose path
   is INBOX: it answers when every walk ends. *)
ListAnswers(s) ==
    \A i \in DOMAIN s.boxes :
        s.boxes[i].role # "inbox" =>
            Ancestor(s, s.boxes[i].id, Len(s.boxes)) \notin BoxIds(s)

(* IMAP CREATE, RENAME and DELETE resolve paths through list_mailboxes. *)
ImapCreate(s, parent) ==
    IF parent \in BoxIds(s) \cup {None} THEN AddBox(s, None, parent) ELSE s
ImapRename(s, id, parent) ==
    IF id \in BoxIds(s) /\ parent \in BoxIds(s) \cup {None}
      THEN PatchBox(s, id, BoxAt(s, id).role, parent) ELSE s
ImapDelete(s, id) ==
    IF \E i \in DOMAIN s.boxes : s.boxes[i].parent = id THEN s ELSE RemoveBox(s, id)

(* Gmail labels.create, patch and delete: user labels are the roleless
   mailboxes; the messages that carry a deleted one are left alone. *)
CreateLabel(s) == AddBox(s, None, None)
PatchLabel(s, id) == IF id \in Roleless(s) THEN PatchBox(s, id, None, BoxAt(s, id).parent) ELSE s
DeleteLabel(s, id) == IF id \in Roleless(s) THEN RemoveBox(s, id) ELSE s

(* Graph mailFolders: the parent of a new folder was resolved earlier, the
   destination of a move is taken as it comes, and a delete looks neither at
   the messages nor at the children. *)
CreateFolderCore(s, parent) == AddBox(s, None, parent)
RenameFolderCore(s, id) ==
    IF id \in BoxIds(s) THEN PatchBox(s, id, BoxAt(s, id).role, BoxAt(s, id).parent) ELSE s
MoveFolderCore(s, id, parent) ==
    IF id \in BoxIds(s) THEN PatchBox(s, id, BoxAt(s, id).role, parent) ELSE s
DeleteFolderCore(s, id) == RemoveBox(s, id)

-----------------------------------------------------------------------------
(* JMAP emails. *)

EmptyMailboxIds(boxes) == boxes = {}

(* Email/set create and Email/import. *)
EmailCreate(s, boxes, kw) ==
    IF EmptyMailboxIds(boxes) \/ ~(boxes \subseteq BoxIds(s)) THEN s
    ELSE Mint(s, NewMail(s, boxes, kw, 0))
EmailImport(s, blobKnown, boxes, kw) == IF blobKnown THEN EmailCreate(s, boxes, kw) ELSE s

(* apply_email_patch.  A patch adds and drops members of mailboxIds and of
   keywords (a replacement drops all others); the ids are not looked up. *)
Patched(m, p) == [m EXCEPT !.boxes = (@ \cup p.add) \ p.drop, !.kw = (@ \cup p.on) \ p.off]
PatchRefused(m, p) ==
    /\ p.add \cup p.drop # {}
    /\ EmptyMailboxIds(Patched(m, p).boxes)
EmailUpdate(s, e, p) ==
    IF e \in DOMAIN s.mail /\ ~PatchRefused(s.mail[e], p)
      THEN Update(s, e, Patched(s.mail[e], p)) ELSE s
EmailDestroy(s, e) == Destroy(s, e)

(* EmailSubmission/set: onSuccessUpdateEmail wins over onSuccessDestroyEmail;
   a patch that is refused leaves a submission that did not file its email. *)
SubmissionSet(s, e, onSuccess, p) ==
    CASE onSuccess = "update"  -> EmailUpdate(s, e, p)
      [] onSuccess = "destroy" -> Destroy(s, e)
      [] OTHER -> s

-----------------------------------------------------------------------------
(* Gmail messages. *)

(* apply_gmail_label: the mailboxes and the keywords that labels stand for. *)
LabelBoxes(s, labels) ==
    ({RoleBox(s, LabelRole[l]) : l \in labels \cap DOMAIN LabelRole} \ {None})
    \cup (labels \cap Roleless(s))
LabelKeywords(s, labels) ==
    (IF "STARRED" \in labels THEN {"$flagged"} ELSE {})
    \cup (IF "DRAFT" \in labels THEN {"$draft"} ELSE {})
    \cup (labels \ (Roleless(s) \cup DOMAIN LabelRole \cup {"UNREAD", "STARRED", "DRAFT"}))

(* Adds before removes; UNREAD is the absence of $seen. *)
AddLabels(s, m, labels) ==
    [m EXCEPT !.boxes = @ \cup LabelBoxes(s, labels),
              !.kw = (@ \cup LabelKeywords(s, labels)) \ (IF "UNREAD" \in labels THEN {"$seen"} ELSE {})]
RemoveLabels(s, m, labels) ==
    [m EXCEPT !.boxes = @ \ LabelBoxes(s, labels),
              !.kw = (@ \ LabelKeywords(s, labels)) \cup (IF "UNREAD" \in labels THEN {"$seen"} ELSE {})]
RemovesFirst(s, m, p) == AddLabels(s, RemoveLabels(s, m, p.remove), p.add)
Relabelled(s, m, p) == RemoveLabels(s, AddLabels(s, m, p.add), p.remove)

(* check_containers: INBOX and TRASH need their mailbox. *)
REQUIRED_CONTAINERS == {"INBOX", "TRASH"}
ContainersKnown(s, add) == \A l \in add \cap REQUIRED_CONTAINERS : RoleBox(s, LabelRole[l]) # None

(* A message left in no mailbox goes to the archive, if there is one. *)
StaysNowhere(s, m) == m
Archived(s, m) ==
    IF m.boxes = {} /\ RoleBox(s, "archive") # None
      THEN [m EXCEPT !.boxes = {RoleBox(s, "archive")}] ELSE m

(* The label sidecar of modify_one's diff. *)
NoSidecar(s, e, m) == {}
LabelDelta(s, e, m) == LabelChange(e, Labels(s, s.mail[e]), Labels(s, m))

ModifyOne(s, e, p) ==
    LET m == Archived(s, Relabelled(s, s.mail[e], p))
    IN  CASE e \notin DOMAIN s.mail -> [out |-> "notFound", s |-> s]
          [] e \in DOMAIN s.mail /\ ~ContainersKnown(s, p.add) -> [out |-> "gap", s |-> s]
          [] e \in DOMAIN s.mail /\ ContainersKnown(s, p.add)
               /\ m.boxes = {} /\ RoleBox(s, "archive") = None -> [out |-> "gap", s |-> s]
          [] OTHER -> [out |-> "applied",
                       s |-> Commit(Put(s, e, m), [NoDiff EXCEPT !.updated = {e},
                                       !.labels = LabelDelta(s, e, m)])]

(* apply_patch_to_ids: one transition per message, up to the first gap. *)
ApplyPatchToIds(s, ids, p) ==
    IF ~ContainersKnown(s, p.add) THEN s
    ELSE FoldLeft(LAMBDA r, e : IF r.out = "gap" THEN r ELSE ModifyOne(r.s, e, p),
                  [out |-> "applied", s |-> s], ids).s

DeleteOne(s, e) == Destroy(s, e)
DeleteIds(s, ids) == FoldLeft(DeleteOne, s, ids)

(* The messages of a thread, oldest first. *)
ThreadIds(s, thread) ==
    SetToSortSeq({e \in DOMAIN s.mail : s.mail[e].thread = thread}, <)

(* deliver_sent_message files into the mailbox found before. *)
DeliverSent(s, sent, thread) == Mint(s, NewMail(s, {sent}, {"$seen"}, thread))

-----------------------------------------------------------------------------
(* Graph messages.  email_etag is a function of the id, so If-Match either is
   the etag of the message or is refused. *)

CheckIfMatch(s, e, matches) == e \in DOMAIN s.mail /\ matches

(* isRead and flag set or clear a keyword; categories, when present, replace
   the user keywords. *)
GraphPatched(m, p) ==
    LET k == (m.kw \cup p.on) \ p.off IN
    [m EXCEPT !.kw = IF p.cats = {} THEN k ELSE (k \cap SystemKeyword) \cup UNION p.cats]
PatchMessageCore(s, e, p, matches) ==
    IF CheckIfMatch(s, e, matches) THEN Update(s, e, GraphPatched(s.mail[e], p)) ELSE s
DeleteMessageCore(s, e, matches) == IF CheckIfMatch(s, e, matches) THEN Destroy(s, e) ELSE s
(* The destination is not looked up. *)
MoveMessageCore(s, e, dest, matches) ==
    IF CheckIfMatch(s, e, matches) THEN Update(s, e, [s.mail[e] EXCEPT !.boxes = {dest}]) ELSE s
DeleteExtendedPropertyCore(s, e) ==
    IF e \in DOMAIN s.mail /\ s.mail[e].reaction
      THEN Update(s, e, [s.mail[e] EXCEPT !.reaction = FALSE]) ELSE s

(* $batch: the writes one after the other under one guard; one that fails does
   not stop the rest. *)
SubRequest(s, r) ==
    CASE r.method = "PATCH"  -> PatchMessageCore(s, r.id, r.patch, r.matches)
      [] r.method = "DELETE" -> DeleteMessageCore(s, r.id, r.matches)
      [] r.method = "MOVE"   -> MoveMessageCore(s, r.id, r.dest, r.matches)
      [] r.method = "UNREACT" -> DeleteExtendedPropertyCore(s, r.id)
Batch(s, requests) == FoldLeft(SubRequest, s, requests)

(* create_draft_impl: the Drafts mailbox, else the first one. *)
DraftFolder(s) ==
    IF RoleBox(s, "drafts") # None THEN RoleBox(s, "drafts")
    ELSE IF s.boxes = << >> THEN None ELSE s.boxes[1].id
CreateDraftCore(s, folder) == Mint(s, NewMail(s, {folder}, {"$draft"}, 0))

(* send_message_impl's write: the move is recorded, then $draft is dropped
   outside of mutate. *)
SendCore(s, e, sent) ==
    LET moved == MoveMessageCore(s, e, sent, TRUE) IN
    IF e \in DOMAIN s.mail THEN [moved EXCEPT !.mail[e].kw = @ \ {"$draft"}] ELSE s

=============================================================================
