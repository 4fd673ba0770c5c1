------------------------------ MODULE MailVerbs ------------------------------
(***************************************************************************)
(* Clients of four protocols work on the mailboxes and emails of one       *)
(* account.  A handler that takes the write lock once is one step, the     *)
(* whole verb of MailOps.  The handlers that look something up under a     *)
(* read lock and write under a later one (Gmail messages.send and the      *)
(* thread verbs, Graph send, draft and childFolder creation) are two steps *)
(* with other requests in between.  Verbs of several items are checked in  *)
(* MailStore; here a JMAP call has one item.                               *)
(***************************************************************************)
EXTENDS MailOps

CONSTANTS
    Declared,   \* the mailboxes the fixture may declare: sequences of records
    JmapPatch,  \* Email/set patches: [add, drop, on, off]
    GmailPatch, \* label patches: [add, remove]
    GraphPatch, \* message patches: [on, off, cats]
    NewRole,    \* the roles Mailbox/set gives
    Place,      \* the mailboxIds of creates and imports
    Parent,     \* the parents tried, some of which name no mailbox
    ScriptBox,  \* the mailbox ids a change script creates
    Dest,       \* the destinations of Graph moves, likewise
    Client,     \* clients of the two-step handlers
    MaxBox,     \* bound on the mailboxes
    MaxLog      \* bound on the transitions

ASSUME MailAssumption == {MaxMail, MaxBox, MaxLog} \subseteq Nat /\ MaxBox < Len(Minted)

VARIABLES
    st,         \* the store
    req,        \* req[c]: what client c's handler found under its read lock
    unchecked,  \* history: emails that a verb without a check has misplaced
    quiet       \* history: quiet[e] is the first token from which only label
                \* patches changed the labels of e

vars == <<st, req, unchecked, quiet>>

NoPatch == [add |-> {}, drop |-> {}, on |-> {}, off |-> {}]
Idle == [op |-> "idle"]

(* Every fixture declares email 1, unread, with a reaction. *)
Loaded(boxes) ==
    LET s == [boxes |-> boxes, seq |-> 1, log |-> << >>, snap |-> << >>,
              mail |-> [e \in {1} |-> [boxes |-> {boxes[1].id}, kw |-> {}, thread |-> 1, reaction |-> TRUE]]]
    IN  [s EXCEPT !.snap = << View(s) >>]

(* detect_cycles: a mailbox that is its own ancestor. *)
Cyclic(s) == \E i \in DOMAIN s.boxes : \E n \in 1..Len(s.boxes) :
                Ancestor(s, s.boxes[i].id, n) = s.boxes[i].id

(* What the loader accepts: distinct mailbox ids, parents that are declared and no
   cycle, and emails that are in a declared mailbox. *)
LoadableBoxes(s) ==
    /\ \A i, j \in DOMAIN s.boxes : s.boxes[i].id = s.boxes[j].id => i = j
    /\ \A i \in DOMAIN s.boxes : s.boxes[i].parent \in BoxIds(s) \cup {None}
    /\ ~Cyclic(s)
LoadableMail(s) == \A e \in DOMAIN s.mail : s.mail[e].boxes \in SUBSET BoxIds(s) \ {{}}

Init ==
    /\ st \in {s \in {Loaded(b) : b \in Declared} : LoadableBoxes(s) /\ LoadableMail(s)}
    /\ req = [c \in Client |-> Idle]
    /\ unchecked = {} /\ quiet = [e \in 1..MaxMail |-> 0]

Homeless(s) == {e \in DOMAIN s.mail : ~(s.mail[e].boxes \subseteq BoxIds(s))}

(* The bounds, and the bookkeeping of the two histories.  Labels move without
   a record in every verb but the label patches. *)
Bounded(s) == s.seq <= MaxMail /\ Len(s.boxes) <= MaxBox /\ Len(s.log) <= MaxLog
Tracked(s) ==
    [e \in 1..MaxMail |->
        IF Shown(s)[e] = Shown(st)[e] THEN quiet[e]
        ELSE IF Last(s.snap).labels[e] = Shown(s)[e] THEN Len(s.log) ELSE Len(s.log) + 1]

(* A verb that looks up every mailbox it files an email into, one that does
   not, and a label patch, leaving the store s behind. *)
Write(s) ==
    /\ s # st /\ Bounded(s)
    /\ st' = s /\ quiet' = Tracked(s) /\ UNCHANGED unchecked
Misplace(s) ==
    /\ s # st /\ Bounded(s)
    /\ st' = s /\ quiet' = Tracked(s) /\ unchecked' = unchecked \cup Homeless(s)
Relabel(s) ==
    /\ s # st /\ Bounded(s)
    /\ st' = s /\ UNCHANGED <<quiet, unchecked>>

Mails == DOMAIN st.mail
Room == Len(st.log) < MaxLog

-----------------------------------------------------------------------------
(* One-step handlers.  Each leaves the pending requests alone. *)

Jmap ==
    /\ Room
    /\ \/ \E b \in Place :
             Write(EmailCreate(st, b, {})) \/ Write(EmailImport(st, TRUE, b, {"$draft"}))
       \/ \E e \in Mails, p \in JmapPatch :
             Misplace(EmailUpdate(st, e, p)) \/ Misplace(SubmissionSet(st, e, "update", p))
       \/ \E e \in Mails :
             Write(EmailDestroy(st, e)) \/ Write(SubmissionSet(st, e, "destroy", NoPatch))
    /\ UNCHANGED req

Mailboxes ==
    /\ Room
    /\ \/ \E r \in NewRole, p \in Parent : Write(MailboxCreate(st, r, p))
       \/ \E m \in BoxIds(st), p \in Parent : \E r \in {None, BoxAt(st, m).role} :
             Write(MailboxUpdate(st, m, r, p))
       \/ \E m \in BoxIds(st) : Write(MailboxDestroy(st, m))
    /\ UNCHANGED req

(* A mailbox path is only found when list_mailboxes answers. *)
Imap ==
    /\ Room /\ ListAnswers(st)
    /\ \/ \E p \in Parent : Write(ImapCreate(st, p))
       \/ \E m \in BoxIds(st), p \in Parent : Write(ImapRename(st, m, p))
       \/ \E m \in BoxIds(st) : Misplace(ImapDelete(st, m))
    /\ UNCHANGED req

Script ==
    /\ Room
    /\ \/ \E m \in ScriptBox, r \in NewRole, p \in Parent : Write(ScriptMailboxCreate(st, m, r, p))
       \/ \E m \in BoxIds(st), p \in Parent : Write(ScriptMailboxUpdate(st, m, BoxAt(st, m).role, p))
       \/ \E m \in BoxIds(st) : Write(ScriptMailboxDestroy(st, m))
    /\ UNCHANGED req

GmailLabels ==
    /\ Room
    /\ \/ Write(CreateLabel(st))
       \/ \E m \in BoxIds(st) : Write(PatchLabel(st, m)) \/ Misplace(DeleteLabel(st, m))
    /\ UNCHANGED req

GmailMessages ==
    /\ Room
    /\ \/ \E e \in Mails, p \in GmailPatch : Relabel(ModifyOne(st, e, p).s)
       \/ \E p \in GmailPatch : Relabel(ApplyPatchToIds(st, SetToSortSeq(Mails, <), p))
       \/ Write(DeleteIds(st, SetToSortSeq(Mails, <)))
    /\ UNCHANGED req

Gmail == GmailLabels \/ GmailMessages

GraphMessages ==
    /\ Room
    /\ \/ \E e \in Mails, p \in GraphPatch : Write(PatchMessageCore(st, e, p, TRUE))
       \/ \E e \in Mails, d \in Dest : Misplace(MoveMessageCore(st, e, d, TRUE))
       \/ \E e \in Mails : Write(DeleteMessageCore(st, e, TRUE))
       \/ \E e \in Mails, d \in Dest, p \in GraphPatch, ok \in BOOLEAN :
             \E r \in {[method |-> "MOVE", id |-> e, dest |-> d, matches |-> TRUE],
                       [method |-> "DELETE", id |-> e, matches |-> ok]} :
                 Misplace(Batch(st, << [method |-> "PATCH", id |-> e, patch |-> p, matches |-> ok],
                                       [method |-> "UNREACT", id |-> e], r >>))
    /\ UNCHANGED req

GraphFolders ==
    /\ Room
    /\ \/ \E m \in BoxIds(st) : Write(RenameFolderCore(st, m)) \/ Misplace(DeleteFolderCore(st, m))
       \/ \E m \in BoxIds(st), p \in Parent : Write(MoveFolderCore(st, m, p))
    /\ UNCHANGED req

Graph == GraphMessages \/ GraphFolders

-----------------------------------------------------------------------------
(* Two-step handlers: what is found under the read lock is used under the
   write lock, whatever happened since. *)

Find(c, r) ==
    /\ Room /\ req[c] = Idle
    /\ req' = [req EXCEPT ![c] = r]
    /\ UNCHANGED <<st, unchecked, quiet>>
Done(c) == req' = [req EXCEPT ![c] = Idle]

FindSent(c) ==
    /\ RoleBox(st, "sent") # None
    /\ \/ \E t \in {0, 1} : Find(c, [op |-> "deliver", box |-> RoleBox(st, "sent"), thread |-> t])
       \/ \E e \in Mails : Find(c, [op |-> "send", box |-> RoleBox(st, "sent"), id |-> e])
SendMessage(c) ==
    /\ req[c].op = "deliver" /\ Done(c)
    /\ Misplace(DeliverSent(st, req[c].box, req[c].thread))
SendDraft(c) ==
    /\ req[c].op = "send" /\ Done(c)
    /\ \/ Misplace(SendCore(st, req[c].id, req[c].box))
       \/ req[c].id \notin Mails /\ UNCHANGED <<st, unchecked, quiet>>

FindDrafts(c) == DraftFolder(st) # None /\ Find(c, [op |-> "draft", box |-> DraftFolder(st)])
CreateDraft(c) ==
    /\ req[c].op = "draft" /\ Done(c)
    /\ Misplace(CreateDraftCore(st, req[c].box))

FindParent(c) == \E m \in BoxIds(st) : Find(c, [op |-> "folder", box |-> m])
CreateFolder(c) ==
    /\ req[c].op = "folder" /\ Done(c)
    /\ Write(CreateFolderCore(st, req[c].box))

FindThread(c) ==
    \E t \in {st.mail[e].thread : e \in Mails} :
        \/ Find(c, [op |-> "delete", ids |-> ThreadIds(st, t)])
        \/ \E p \in GmailPatch : Find(c, [op |-> "modify", ids |-> ThreadIds(st, t), patch |-> p])
ModifyThread(c) ==
    /\ req[c].op = "modify" /\ Done(c)
    /\ LET s == ApplyPatchToIds(st, req[c].ids, req[c].patch) IN
       Relabel(s) \/ (s = st /\ UNCHANGED <<st, unchecked, quiet>>)
DeleteThread(c) ==
    /\ req[c].op = "delete" /\ Done(c)
    /\ LET s == DeleteIds(st, req[c].ids) IN
       Write(s) \/ (s = st /\ UNCHANGED <<st, unchecked, quiet>>)

TwoStep(c) ==
    \/ FindSent(c) \/ SendMessage(c) \/ SendDraft(c)
    \/ FindDrafts(c) \/ CreateDraft(c) \/ FindParent(c) \/ CreateFolder(c)
    \/ FindThread(c) \/ ModifyThread(c) \/ DeleteThread(c)

Next ==
    \/ Jmap \/ Mailboxes \/ Imap \/ Script \/ Gmail \/ Graph
    \/ \E c \in Client : TwoStep(c)

Spec == Init /\ [][Next]_vars

-----------------------------------------------------------------------------
(* JMAP readers.  The ring never evicts here. *)

Ring == INSTANCE ChangeRing WITH MAX_TRANSITIONS <- MaxLog + 1

InWindow(since, field) == UNION {st.log[n][field] : n \in since + 1..Len(st.log)}

(* Mailbox/changes (mailbox_delta_since_account). *)
MailboxChangesOneLate(since) ==
    Ring!Dominance(InWindow(since + 1, "boxCreated"), InWindow(since + 1, "boxUpdated"),
                   InWindow(since + 1, "boxDestroyed"))
MailboxChanges(since) ==
    Ring!Dominance(InWindow(since, "boxCreated"), InWindow(since, "boxUpdated"),
                   InWindow(since, "boxDestroyed"))

(* Mailbox/get of some ids: those that are not found are left out. *)
MailboxGet(ids) == {b \in ToSet(st.boxes) : b.id \in ids}

(* Email/changes (email_delta_since_account), and Thread/changes, which projects it
   onto the threads of the emails that are still there. *)
EmailChanges(since) ==
    Ring!Dominance(InWindow(since, "created"), InWindow(since, "updated"),
                   InWindow(since, "destroyed"))
ThreadsOf(E) == {st.mail[e].thread : e \in E \cap Mails}
ThreadChanges(since) ==
    LET d == EmailChanges(since) IN
    [created |-> ThreadsOf(d.created), updated |-> ThreadsOf(d.updated) \ ThreadsOf(d.created),
     destroyed |-> {}]

(* Thread/get. *)
ThreadGet(th) == ToSet(ThreadIds(st, th))

-----------------------------------------------------------------------------
(* Properties. *)

(* The store stays well typed: minted ids only, known roles and keywords, one
   view of the labels per token. *)
TypeOK ==
    /\ DOMAIN st.mail \subseteq 1..st.seq
    /\ \A e \in Mails : st.mail[e].kw \subseteq SystemKeyword \cup ToSet(Minted) \cup {"k", "user"}
    /\ \A i \in DOMAIN st.boxes : st.boxes[i].role \in Role \cup {None}
    /\ Len(st.snap) = Len(st.log) + 1
    /\ DOMAIN req = Client

(* However the creates and deletes of four protocols interleave, no two
   mailboxes ever carry the same id (fresh_mailbox_id: "a create after a delete
   never collides with a surviving id"). *)
DistinctBoxes == \A i, j \in DOMAIN st.boxes : st.boxes[i].id = st.boxes[j].id => i = j

(* Every email is in at least one mailbox, and in mailboxes that exist unless
   a verb that does not look misplaced it: a folder deleted over its messages,
   an id taken as it comes, a mailbox deleted after it was looked up.  Neither
   Mailbox/set, nor a create or import, nor a label patch ever strands one. *)
Housed == \A e \in Mails : st.mail[e].boxes # {} /\ (e \in Homeless(st) => e \in unchecked)

(* The tree and the memberships that hang on it stay sound under the verbs of
   four protocols. *)
StoreSound == TypeOK /\ DistinctBoxes /\ Housed

(* The ids that were given out again in the window after t. *)
Reused(t) == {m \in BoxIds(st) : \E i, j \in t + 1..Len(st.log) :
                i < j /\ m \in st.log[i].boxDestroyed /\ m \in st.log[j].boxCreated}

(* A JMAP client that applies Mailbox/changes from any token and gets what it names
   has exactly the mailboxes of the account, whichever protocols made, renamed,
   moved and deleted them.  Left out is an id that fresh_mailbox_id gave out again
   in the window: its two entries cancel, and the client keeps the old mailbox. *)
MailboxChangesExact ==
    \A t \in 0..Len(st.log) :
        LET d == MailboxChanges(t)
            fetched == MailboxGet(d.created \cup d.updated)
            named == d.created \cup d.updated \cup d.destroyed
            kept == {b \in st.snap[t + 1].boxes : b.id \notin named}
            now == ToSet(st.boxes)
            wrong == ((kept \cup fetched) \ now) \cup (now \ (kept \cup fetched))
        IN  {b.id : b \in wrong} \subseteq Reused(t)

(* A JMAP client that gets the threads Thread/changes names never lacks a message of
   a thread, whichever protocol filed it there: what it holds differs from
   Thread/get by destroyed messages at most, which Thread/changes does not name. *)
ThreadsCovered ==
    \A t \in 0..Len(st.log) : LET d == ThreadChanges(t) IN
        \A th \in ThreadsOf(Mails) \ (d.created \cup d.updated) :
            \A e \in ThreadGet(th) : st.snap[t + 1].labels[e] # Absent

(* A JMAP client that follows the changes methods keeps up with the mailboxes
   and the threads. *)
JmapChangesSound == MailboxChangesExact /\ ThreadsCovered

(* What a Gmail client that replays labelsAdded and labelsRemoved has for e. *)
Replayed(e, t) ==
    FoldLeft(LAMBDA L, d : LET c == {r \in d.labels : r.id = e} IN
                 (L \cup UNION {r.added : r \in c}) \ UNION {r.removed : r \in c},
             st.snap[t + 1].labels[e], SubSeq(st.log, t + 1, Len(st.log)))

(* history.list is exact for label patches: from every historyId since which
   only label patches (single, batched, by thread, partly failed) touched a
   message, replaying the records gives the labels messages.get shows. *)
LabelReplay ==
    \A e \in Mails : \A t \in quiet[e]..Len(st.log) :
        st.snap[t + 1].labels[e] # Absent => Replayed(e, t) = Labels(st, st.mail[e])

(* A label that apply_gmail_label cannot turn off: DRAFT of a message in the
   Drafts mailbox, a role held twice, a user label that is also a keyword; and
   one that it cannot turn on: SENT without a Sent mailbox. *)
Sticky(e, l) ==
    \/ l = "DRAFT" /\ \E b \in ToSet(st.boxes) : b.role = "drafts" /\ b.id \in st.mail[e].boxes
    \/ l \in DOMAIN LabelRole /\ Len(SelectSeq(st.boxes, LAMBDA b : b.role = LabelRole[l])) > 1
    \/ l \in st.mail[e].kw
Missing(l) == l = "SENT" /\ RoleBox(st, "sent") = None

(* A label patch that is answered 200 does to messages.get's labelIds exactly
   what it says (a label in both lists is removed); one that is refused does
   nothing. *)
PatchExact ==
    \A e \in Mails, p \in GmailPatch :
        LET r == ModifyOne(st, e, p)
            old == Labels(st, st.mail[e])
            new == Labels(r.s, r.s.mail[e])
        IN  IF r.out # "applied" THEN r.s = st
            ELSE \A l \in old \cup new \cup p.add \cup p.remove :
                   CASE l \in p.remove -> l \notin new \/ Sticky(e, l)
                     [] l \in p.add \ p.remove -> l \in new \/ Missing(l)
                     [] OTHER -> l \in new <=> l \in old

(* The emails and mailboxes that a step's new transitions name. *)
NewEntries == SubSeq(st'.log, Len(st.log) + 1, Len(st'.log))
Named(field) == UNION {NewEntries[i][field] : i \in DOMAIN NewEntries}

(* Nothing changes behind the log's back: every email and mailbox that a step
   adds, alters or removes is named by a transition of that step, in the right
   list, also when a batch fails half way. *)
Recorded ==
    [][/\ \A e \in DOMAIN st'.mail \ Mails : e \in Named("created")
       /\ \A e \in Mails \ DOMAIN st'.mail : e \in Named("destroyed")
       /\ \A e \in Mails \cap DOMAIN st'.mail :
             st'.mail[e] # st.mail[e] => e \in Named("updated")
       /\ \A m \in BoxIds(st) \cup BoxIds(st') :
             CASE m \notin BoxIds(st) -> m \in Named("boxCreated")
               [] m \notin BoxIds(st') -> m \in Named("boxDestroyed")
               [] OTHER -> BoxAt(st, m) # BoxAt(st', m) => m \in Named("boxUpdated")]_vars

=============================================================================
