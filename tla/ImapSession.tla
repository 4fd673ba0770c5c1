----------------------------- MODULE ImapSession -----------------------------
(***************************************************************************)
(* An IMAP connection of a multi-account Fixture (src/src/imap.rs): how it *)
(* is bound to an account, which mailbox it has selected, personal or      *)
(* shared with it by an ACL grant, and which UID commands it may run there, *)
(* while change-script steps grant and revoke and other clients create and *)
(* delete mailboxes and refile messages.                                   *)
(*                                                                         *)
(* A command is one step: what it decides on is read once (SELECT resolves *)
(* the name under one read guard, the UID commands write under one write   *)
(* guard), the rest of its reads only fill in the answer.  UIDs are the    *)
(* business of ImapMailbox; here a UID command names a set of the messages *)
(* of the mailbox.  Mailboxes are flat, a path is a name.                  *)
(***************************************************************************)
EXTENDS Integers, FiniteSets

CONSTANTS
    Account, Primary,
    Name,           \* mailbox names
    None,
    Declared,       \* ids 1..Declared are the fixture's own
    MaxBoxes,       \* bound on the mailbox ids
    InitialBoxes,   \* the declared mailboxes: [1..Declared -> [acct, name]]
    Email,
    EmailAccount,   \* account_id of each email, which no IMAP command changes
    InitialMember,  \* mailbox_ids of each email
    Grants,         \* the rights a grant may confer
    Fixtures,       \* the [[acl]] entries and the acl_grant ops a fixture may declare:
                    \* [acl, script], sets of <<mailbox, account, rights>>
    MaxChurn        \* bound on the mailboxes made and deleted

Box == 1..MaxBoxes

ASSUME SessionAssumption ==
    /\ Primary \in Account
    /\ None \notin Account \cup Name \cup Box \cup [acct : Account, name : Name]
    /\ Declared \in Box
    /\ InitialBoxes \in [1..Declared -> [acct : Account, name : Name]]
    /\ EmailAccount \in [Email -> Account] /\ InitialMember \in [Email -> SUBSET Box]
    /\ Fixtures \subseteq [acl : SUBSET (Box \X Account \X Grants),
                            script : SUBSET (Box \X Account \X Grants)]
    /\ MaxChurn \in Nat

VARIABLES
    boxes,      \* Fixture::mailboxes: [acct, name] of each id, None for the others
    acls,       \* Fixture::acls: the rights of each account on each mailbox id, {} for none
    script,     \* the acl_grant ops of Fixture::change_script
    member,     \* mailbox_ids of each email, {} once it is destroyed
    flagged,    \* the emails that carry $deleted
    churn,      \* mailboxes made and deleted so far
    conn,       \* the connection: state, account_id and selection
    answer,     \* what the last SELECT or EXAMINE was answered
    told,       \* history: was NAMESPACE ever answered without the other-users part?
    known,      \* history: the <<viewer, owner, name>> LIST "" "#user/*" has shown
    basis       \* history: what the selected mailbox was when it was selected

fixture == <<boxes, acls, script, member, flagged, churn>>
vars == <<fixture, conn, answer, told, known, basis>>

OWNER_RIGHTS == {"l", "r", "s", "w", "i", "p", "k", "x", "t", "e", "a"}

Unselected(c, state) ==
    [c EXCEPT !.state = state, !.selected = None, !.selected_account = None,
              !.selected_rights = {}]

NoBasis == [owner |-> None, rights |-> {}, readonly |-> FALSE, stale |-> FALSE]

(* What the loader accepts as [[acl]]: one entry for a declared mailbox and an
   account that does not own it. *)
LoadableAcls(acl) ==
    \A g \in acl :
        /\ g[1] \in 1..Declared /\ InitialBoxes[g[1]].acct # g[2]
        /\ \A h \in acl : h[1] = g[1] /\ h[2] = g[2] => h = g

Init ==
    /\ boxes = [m \in Box |-> IF m \in 1..Declared THEN InitialBoxes[m] ELSE None]
    /\ \E f \in Fixtures :
          /\ LoadableAcls(f.acl)
          /\ acls = [m \in Box |-> [a \in Account |->
                        UNION {g[3] : g \in {h \in f.acl : h[1] = m /\ h[2] = a}}]]
          /\ script = f.script
    /\ member = InitialMember /\ flagged = {} /\ churn = 0
    /\ conn = [state |-> "NotAuthenticated", account_id |-> Primary, selected |-> None,
               selected_account |-> None, selected_rights |-> {}]
    /\ answer = None /\ told = FALSE /\ known = {} /\ basis = NoBasis

-----------------------------------------------------------------------------
(* Names. *)

MailboxesFor(a) == {m \in Box : boxes[m] # None /\ boxes[m].acct = a}

(* list_mailboxes and list_shared_mailboxes: a grant on an id that no mailbox has
   shows nothing. *)
Personal(a, n) == {m \in MailboxesFor(a) : boxes[m].name = n}
Shared(a) == {m \in Box : boxes[m] # None /\ acls[m][a] # {}}

(* resolve_mailbox: a path <<owner, name>> in the other-users namespace, or
   <<None, name>> in the personal one. *)
ResolveAny(path) ==
    IF path[1] = None THEN Personal(conn.account_id, path[2])
    ELSE {m \in Box : boxes[m] = [acct |-> path[1], name |-> path[2]]}
ResolveMailbox(path) ==
    IF path[1] = None THEN Personal(conn.account_id, path[2])
    ELSE {m \in Shared(conn.account_id) : boxes[m] = [acct |-> path[1], name |-> path[2]]}

RightsOf(path, m) == IF path[1] = None THEN OWNER_RIGHTS ELSE acls[m][conn.account_id]

(* shared_mailbox_path_exists: whatever the ACL says. *)
SharedPathExistsGranted(path) ==
    path[1] \notin {None, conn.account_id} /\ ResolveMailbox(path) # {}
SharedPathExists(path) ==
    path[1] \notin {None, conn.account_id} /\ Personal(path[1], path[2]) # {}

(* imap_advertises_other_namespace, in a fixture of personal accounts. *)
AdvertisesGranted == \E m \in Box, a \in Account : acls[m][a] # {}
AdvertisesOtherNamespace == (\E m \in Box, a \in Account : acls[m][a] # {}) \/ script # {}

-----------------------------------------------------------------------------
(* The commands that bind and select. *)

IsAuthenticated == conn.state \in {"Authenticated", "Selected"}

(* LOGIN and AUTHENTICATE with a bearer token of account `token` (None: no token,
   or one that is not active) and a user name of account `user` (None: of no
   account): whoever is not recognised stays with the primary account.  The
   rejected password, an aborted handshake and bad syntax change nothing. *)
Authenticate(token, user) ==
    /\ conn.state = "NotAuthenticated"
    /\ conn' = [conn EXCEPT !.state = "Authenticated",
                            !.account_id = CASE token # None -> token
                                             [] token = None /\ user # None -> user
                                             [] OTHER -> @]
    /\ UNCHANGED <<fixture, answer, told, known, basis>>

(* SELECT and EXAMINE: the access level told to the client ... *)
WritableWithoutExpunge(rights) == rights \cap {"i", "w", "s", "t"} # {}
Writable(rights) == rights \cap {"i", "w", "s", "e", "t"} # {}

(* ... and the selection; a failed one drops the selection there was. *)
Select(path, read_write) ==
    /\ IsAuthenticated
    /\ IF ResolveMailbox(path) = {}
       THEN /\ conn' = Unselected(conn, "Authenticated")
            /\ answer' = IF SharedPathExists(path) THEN "NOPERM" ELSE "unknown"
            /\ basis' = NoBasis
       ELSE \E m \in ResolveMailbox(path) :
            LET rights == RightsOf(path, m)
                holder == boxes[m].acct
            IN  /\ conn' = [conn EXCEPT !.state = "Selected", !.selected = m,
                                !.selected_rights = rights,
                                !.selected_account = IF holder = conn.account_id THEN None
                                                     ELSE holder]
                /\ answer' = IF read_write /\ Writable(rights) THEN "READ-WRITE" ELSE "READ-ONLY"
                /\ basis' = [owner |-> holder, stale |-> FALSE,
                             rights |-> IF holder = conn.account_id THEN OWNER_RIGHTS
                                        ELSE acls[m][conn.account_id],
                             readonly |-> read_write /\ answer' = "READ-ONLY"
                                          /\ holder # conn.account_id]
    /\ UNCHANGED <<fixture, told, known>>

Close ==
    /\ conn.state = "Selected"
    /\ conn' = Unselected(conn, "Authenticated") /\ basis' = NoBasis
    /\ UNCHANGED <<fixture, answer, told, known>>

(* LOGOUT, the peer closing or a shutdown; the client connects again. *)
Reconnect ==
    /\ conn.state # "NotAuthenticated"
    /\ conn' = [Unselected(conn, "NotAuthenticated") EXCEPT !.account_id = Primary]
    /\ answer' = None /\ basis' = NoBasis
    /\ UNCHANGED <<fixture, told, known>>

Namespace ==
    /\ IsAuthenticated
    /\ told' = (told \/ ~AdvertisesOtherNamespace)
    /\ UNCHANGED <<fixture, conn, answer, known, basis>>

(* LIST of the other-users namespace. *)
ListShared ==
    /\ IsAuthenticated
    /\ known' = known \cup {<<conn.account_id, boxes[m].acct, boxes[m].name>> :
                                m \in Shared(conn.account_id)}
    /\ UNCHANGED <<fixture, conn, answer, told, basis>>

-----------------------------------------------------------------------------
(* The UID commands on the selection. *)

EffectiveAccount == IF conn.selected_account = None THEN conn.account_id
                    ELSE conn.selected_account

(* mailbox_messages: what UID FETCH and UID SEARCH show. *)
Shown == {e \in Email : conn.selected \in member[e] /\ EmailAccount[e] = EffectiveAccount}

(* reject_shared_write: only a shared selection is gated, with the rights it had
   when it was selected. *)
HoldsAny(needed) == conn.selected_account = None \/ needed \cap conn.selected_rights # {}
HoldsRights(needed) == conn.selected_account = None \/ needed \subseteq conn.selected_rights

(* The messages a UID command can name: those of the mailbox, of any account. *)
Addressed(E) == conn.state = "Selected" /\ \A e \in E : conn.selected \in member[e]

Write(member1, flagged1) ==
    /\ member' = member1 /\ flagged' = flagged1
    /\ UNCHANGED <<boxes, acls, script, churn, conn, answer, told, known, basis>>

UidStore(E, on) ==
    /\ Addressed(E) /\ HoldsRights({"w"})
    /\ Write(member, IF on THEN flagged \cup E ELSE flagged \ E)

(* COPY and MOVE look for the target among the mailboxes of the connection's own
   account, whoever the message belongs to. *)
UidCopy(E, n) ==
    /\ Addressed(E) /\ HoldsRights({"i"})
    /\ \E target \in Personal(conn.account_id, n) :
          Write([e \in Email |-> IF e \in E THEN member[e] \cup {target} ELSE member[e]], flagged)

UidMove(E, n) ==
    /\ Addressed(E) /\ HoldsRights({"i", "t"})
    /\ \E target \in Personal(conn.account_id, n) \ {conn.selected} :
          Write([e \in Email |-> IF e \in E THEN (member[e] \cup {target}) \ {conn.selected}
                                 ELSE member[e]], flagged)

UidExpunge(E) ==
    LET gone == E \cap flagged
        left == [e \in Email |-> IF e \in gone THEN member[e] \ {conn.selected} ELSE member[e]]
    IN  /\ Addressed(E) /\ HoldsRights({"e"})
        /\ Write(left, {e \in flagged : left[e] # {}})

-----------------------------------------------------------------------------
(* The rest of the world. *)

(* Whether the selection outlived the mailbox or the grant it was made with. *)
Outdated(b, m) == [b EXCEPT !.stale = @ \/ conn.selected = m]

(* acl_grant of a step, in any order here: a new grant or other rights; not for
   the owner. *)
AclGrant(m, a, rights) ==
    /\ <<m, a, rights>> \in script
    /\ boxes[m] # None /\ boxes[m].acct # a /\ acls[m][a] # rights
    /\ acls' = [acls EXCEPT ![m][a] = rights]
    /\ basis' = Outdated(basis, m)
    /\ UNCHANGED <<boxes, script, member, flagged, churn, conn, answer, told, known>>

(* acl_revoke: also of a grant whose mailbox is gone. *)
AclRevoke(m, a) ==
    /\ acls[m][a] # {}
    /\ acls' = [acls EXCEPT ![m][a] = {}]
    /\ basis' = Outdated(basis, m)
    /\ UNCHANGED <<boxes, script, member, flagged, churn, conn, answer, told, known>>

(* fresh_mailbox_id: mock-mailbox-n for the first n above the count that is free;
   it can be the id of a mailbox that was deleted. *)
FreshMailboxId ==
    LET count == Cardinality({m \in Box : boxes[m] # None})
        free == {m \in Box : m > Declared + count /\ boxes[m] = None}
    IN  {m \in free : \A k \in free : m <= k}

(* CREATE, as any protocol does it, and DELETE: the grants on the mailbox and the
   messages in it stay behind. *)
CreateBox(a, n) ==
    /\ churn < MaxChurn /\ churn' = churn + 1
    /\ Personal(a, n) = {}
    /\ \E m \in FreshMailboxId : boxes' = [boxes EXCEPT ![m] = [acct |-> a, name |-> n]]
    /\ UNCHANGED <<acls, script, member, flagged, conn, answer, told, known, basis>>

DeleteBox(m) ==
    /\ churn < MaxChurn /\ churn' = churn + 1
    /\ boxes[m] # None
    /\ boxes' = [boxes EXCEPT ![m] = None]
    /\ basis' = Outdated(basis, m)
    /\ UNCHANGED <<acls, script, member, flagged, conn, answer, told, known>>

(* The owner of a message files it in one of his mailboxes through another
   protocol. *)
Refile(e, m) ==
    /\ member[e] \notin {{}, {m}} /\ m \in MailboxesFor(EmailAccount[e])
    /\ member' = [member EXCEPT ![e] = {m}]
    /\ UNCHANGED <<boxes, acls, script, flagged, churn, conn, answer, told, known, basis>>

-----------------------------------------------------------------------------

Path == (Account \cup {None}) \X Name

Uid ==
    \E E \in (SUBSET Email) \ {{}} :
        \/ \E on \in BOOLEAN : UidStore(E, on)
        \/ \E n \in Name : UidCopy(E, n) \/ UidMove(E, n)
        \/ UidExpunge(E)

Dispatch ==
    \/ \E token, user \in Account \cup {None} : Authenticate(token, user)
    \/ \E path \in Path, read_write \in BOOLEAN : Select(path, read_write)
    \/ Close \/ Reconnect \/ Namespace \/ ListShared \/ Uid

World ==
    \/ \E g \in script : AclGrant(g[1], g[2], g[3])
    \/ \E m \in Box, a \in Account : AclRevoke(m, a)
    \/ \E a \in Account, n \in Name : CreateBox(a, n)
    \/ \E m \in Box : DeleteBox(m)
    \/ \E e \in Email, m \in Box : Refile(e, m)

Next == Dispatch \/ World

Spec == Init /\ [][Next]_vars

-----------------------------------------------------------------------------
(* Properties. *)

(* The state stays well typed; a mailbox is selected exactly in the Selected
   state, and nobody has given himself a grant while he owned the mailbox. *)
TypeOK ==
    /\ boxes \in [Box -> [acct : Account, name : Name] \cup {None}]
    /\ acls \in [Box -> [Account -> Grants \cup {{}}]]
    /\ member \in [Email -> SUBSET Box] /\ flagged \subseteq {e \in Email : member[e] # {}}
    /\ conn.account_id \in Account
    /\ conn.state \in {"NotAuthenticated", "Authenticated", "Selected"}
    /\ (conn.selected # None) = (conn.state = "Selected")
    /\ conn.selected_account # conn.account_id

(* A client that was once told there is no other-users namespace, and therefore
   never lists it, misses nothing: no mailbox is ever shared with anyone, however
   late a step grants (imap_advertises_other_namespace looks ahead into the
   change script). *)
NamespaceForeseen == told => \A a \in Account : Shared(a) = {}

(* What UID FETCH shows of other accounts was shared with the connection when it
   was selected, and still is unless the grant or the mailbox went during the
   selection: the rights are not looked up again until the next SELECT. *)
FetchGranted ==
    conn.state = "Selected" =>
        \A e \in Shown : EmailAccount[e] # conn.account_id =>
            /\ basis.owner = EmailAccount[e] /\ basis.rights # {}
            /\ basis.stale \/ acls[conn.selected][conn.account_id] # {}

(* The selection is well formed and what it shows was granted. *)
SelectionSound == TypeOK /\ FetchGranted

(* No UID command changes a message of another account beyond what the grant
   allowed when the folder was selected: flags with w, another mailbox with i, out
   of the folder with t or e.  (A message that a COPY out of a shared folder left in
   a mailbox of the connection's own account is reached with the owner's rights.) *)
ForeignWritesGranted ==
    [][<<member, flagged>>' # <<member, flagged>> /\ Uid => \A e \in Email :
        EmailAccount[e] # conn.account_id =>
            /\ member'[e] = member[e] /\ (e \in flagged) # (e \in flagged')
                    => "w" \in basis.rights
            /\ ~(member'[e] \subseteq member[e]) => "i" \in basis.rights
            /\ ~(member[e] \subseteq member'[e]) => {"t", "e"} \cap basis.rights # {}]_vars

(* A folder of another account that SELECT announced as READ-ONLY stays as it is:
   the letters SELECT looks at cover those the UID commands ask for.  (A grant that
   outlived its mailbox can come to name one of the grantee's own; selected by its
   shared name that opens READ-ONLY too, and is not gated.) *)
ReadOnlyHonoured ==
    [][basis.readonly /\ Uid => UNCHANGED <<member, flagged>>]_vars

(* A shared folder the client has once seen is refused with NOPERM as long as its
   owner has a mailbox of that path, so that the client gives up the one scope and
   not the account; a failed SELECT leaves nothing selected. *)
RevokedIsNoperm ==
    [][answer' \in {"unknown", "NOPERM"} /\ answer' # answer => \A path \in Path :
        Select(path, TRUE) =>
            /\ conn'.state = "Authenticated"
            /\ <<conn.account_id, path[1], path[2]>> \in known
               /\ path[1] # conn.account_id /\ Personal(path[1], path[2]) # {}
                  => answer' = "NOPERM"]_vars

=============================================================================
