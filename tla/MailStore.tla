------------------------------ MODULE MailStore ------------------------------
(***************************************************************************)
(* The emails of a multi-account Fixture and the per-account change logs   *)
(* (src/src/fixture.rs, with Email/set of src/src/jmap.rs and the email    *)
(* ops of src/src/test_admin.rs as the mutators).                          *)
(*                                                                         *)
(* Every mutator runs under the fixture's write lock, so one call is one   *)
(* step.  Contents are abstracted to a version: a patch gives the email a  *)
(* version it never had.                                                   *)
(***************************************************************************)
EXTENDS ChangeRing

CONSTANTS
    Account,        \* the accounts of the fixture
    Primary,        \* the one marked primary
    Email,          \* email ids
    None,           \* "not a live email"
    InitialOwner,   \* the emails the fixture declares: [Email -> Account \cup {None}]
    Reuse,          \* may a change script re-create an id it destroyed?
    Overlap,        \* may one call destroy an id it also creates or updates?
    MaxCounter      \* bound on every account's counter

ASSUME AccountAssumption == Primary \in Account /\ None \notin Account
ASSUME OwnerAssumption == InitialOwner \in [Email -> Account \cup {None}]
ASSUME ScopeAssumption == Reuse \in BOOLEAN /\ Overlap \in BOOLEAN
ASSUME BoundAssumption == MaxCounter \in Nat

VARIABLES
    owner,      \* account_id of each live email, None for the others
    ver,        \* content version of each email
    used,       \* ids that were ever live: what the minting counters avoid
    log,        \* Fixture::account_logs; absent entries are EmptyLog
    snap        \* history: snap[a][n + 1] is what account a showed at token n

vars == <<owner, ver, used, log, snap>>

Live == {x \in Email : owner[x] # None}

(* What Email/get shows account a: its live emails and their contents. *)
View(own, v, a) == [x \in Email |-> IF own[x] = a THEN v[x] ELSE 0]

Init ==
    /\ owner = InitialOwner
    /\ ver = [x \in Email |-> 1]
    /\ used = {x \in Email : InitialOwner[x] # None}
    /\ log = [a \in Account |-> EmptyLog]
    /\ snap = [a \in Account |-> << View(InitialOwner, [x \in Email |-> 1], a) >>]

-----------------------------------------------------------------------------

(* resolve_email in split_diff_by_account: the live owner after the call, or
   the primary account when the id is no longer live. *)
ResolveToPrimary(own, x) == Primary
ResolveEmail(own, x) == IF own[x] \in Account THEN own[x] ELSE Primary

(* split_diff_by_account, one account's share: created and updated ids by
   their live owner after the call (own1), destroyed ids by the account
   captured when the email was removed. *)
SubDiff(own1, C, acct, U, D, a) ==
    [created   |-> {x \in C : ResolveEmail(own1, x) = a},
     updated   |-> {x \in U : ResolveEmail(own1, x) = a},
     destroyed |-> {x \in D : (IF owner[x] = None THEN acct ELSE owner[x]) = a}]

NonEmpty(d) == d.created # {} \/ d.updated # {} \/ d.destroyed # {}

(* record_transition: every account with a non-empty share advances its own
   token by one; the others keep theirs.  Extra is the set of accounts that
   a non-email part of the diff (an ACL change) touches as well. *)
RecordAll(share, Extra) == [a \in Account |-> Advance(log[a], share[a])]
RecordTransition(share, Extra) ==
    [a \in Account |-> IF NonEmpty(share[a]) \/ a \in Extra
                        THEN Advance(log[a], share[a]) ELSE log[a]]

(* The new logs, within the bound, and the history of what each account that
   advanced shows at its new token. *)
Record(share, Extra, own1, ver1) ==
    LET log1 == RecordTransition(share, Extra)
    IN  /\ \A a \in Account : log1[a].counter <= MaxCounter
        /\ log' = log1
        /\ snap' = [a \in Account |->
                       IF log1[a].counter = log[a].counter THEN snap[a]
                       ELSE Append(snap[a], View(own1, ver1, a))]

(* The body of a mutator that leaves the emails own1 behind: the creates C go
   to one account, the updates U change contents, the destroys D are gone. *)
Mutate(own1, C, acct, U, D) ==
    LET ver1 == [x \in Email |-> IF x \in C \cup U THEN ver[x] + 1 ELSE ver[x]]
    IN  /\ owner' = own1
        /\ ver' = ver1
        /\ used' = used \cup C
        /\ Record([a \in Account |-> SubDiff(own1, C, acct, U, D, a)], {}, own1, ver1)

(* The emails once C is created in acct and then D destroyed. *)
After(C, acct, D) ==
    [x \in Email |-> IF x \in D THEN None ELSE IF x \in C THEN acct ELSE owner[x]]

(* Email/set: creates, then updates, then destroys, as one transition.  The
   created ids are minted, so they were never used before.  Updates and
   destroys of ids that are not live are reported notFound and change nothing.
   Nothing restricts the call to emails of its accountId. *)
EmailSet(C, acct, U, D) ==
    /\ U \subseteq Live /\ D \subseteq Live
    /\ Overlap \/ D \cap U = {}
    /\ C \cap used = {}
    /\ Mutate(After(C, acct, D), C, acct, U, D)

(* The email ops of one change-script step that creates emails.  email_create
   refuses only an id that is live at that point, so a script may name an id
   that was destroyed earlier; an op may fail the step, which is then undone. *)
ScriptStep(C, acct, U, D) ==
    /\ U \subseteq Live \cup C /\ D \subseteq Live \cup C
    /\ Overlap \/ D \cap (U \cup C) = {}
    /\ C \cap Live = {} /\ C # {}
    /\ Reuse \/ C \cap used = {}
    /\ Mutate(After(C, acct, D), C, acct, U, D)

(* A step that destroys an email and then creates it again, possibly in
   another account. *)
ScriptReplace(x, acct) ==
    /\ Reuse /\ Overlap /\ x \in Live
    /\ Mutate([owner EXCEPT ![x] = acct], {x}, acct, {}, {x})

(* An ACL grant or revoke: no email changes, yet both the owning and the
   granted account advance. *)
AclChange(owning, grantee) ==
    /\ Record([a \in Account |-> EmptyDelta], {owning, grantee}, owner, ver)
    /\ UNCHANGED <<owner, ver, used>>

Next ==
    \/ \E acct \in Account, C, U, D \in SUBSET Email : EmailSet(C, acct, U, D)
    \/ \E acct \in Account, C, U, D \in SUBSET Email : ScriptStep(C, acct, U, D)
    \/ \E x \in Email, acct \in Account : ScriptReplace(x, acct)
    \/ \E owning, grantee \in Account : AclChange(owning, grantee)

Spec == Init /\ [][Next]_vars

-----------------------------------------------------------------------------
(* Readers. *)

EmailDeltaSince(a, since) == DeltaSince(log[a], since)

(* Fixture::imap_highestmodseq: the value a client is told and later sends
   back in CHANGEDSINCE. *)
HighestModseq(a) == log[a].counter + 1

(* Fixture::email_modseq: one more than the counter of the last retained
   transition that created or updated x, 1 when there is none. *)
ModseqCreatedOnly(a, x) ==
    LET hits == {log[a].ring[i].to : i \in {i \in 1..Len(log[a].ring) :
                    x \in log[a].ring[i].created}}
    IN  IF hits = {} THEN 1 ELSE 1 + (CHOOSE n \in hits : \A m \in hits : m <= n)
EmailModseq(a, x) ==
    LET hits == {log[a].ring[i].to : i \in {i \in 1..Len(log[a].ring) :
                    x \in log[a].ring[i].created \cup log[a].ring[i].updated}}
    IN  IF hits = {} THEN 1 ELSE 1 + (CHOOSE n \in hits : \A m \in hits : m <= n)

(* Fixture::gmail_history_since.  The transitions after the counter `from` are
   told off by their positions in the ring, all of them if the ring begins later. *)
RecordsSince(l, from) ==
    IF from < Floor(l) THEN l.ring ELSE SubSeq(l.ring, from - Floor(l) + 1, Len(l.ring))

(* `start` is a historyId, counter + 1; 0 and 1 both name the seed. *)
GmailHistoryKeepsEvicted(a, start) == RecordsSince(log[a], IF start = 0 THEN 0 ELSE start - 1)
GmailHistorySince(a, start) ==
    LET from == IF start = 0 THEN 0 ELSE start - 1
    IN  CASE log[a].counter = 0 /\ from # 0 -> Unknown
          [] log[a].counter # 0 /\ from < Floor(log[a]) -> Unknown
          [] OTHER -> RecordsSince(log[a], from)

-----------------------------------------------------------------------------
(* Properties. *)

(* The state stays well typed, and no ring outgrows its retention. *)
TypeOK ==
    /\ owner \in [Email -> Account \cup {None}]
    /\ ver \in [Email -> Nat \ {0}]
    /\ used \in SUBSET Email
    /\ log \in [Account -> Log(Email, MaxCounter)]
    /\ \A a \in Account : Len(log[a].ring) <= MAX_TRANSITIONS
    /\ snap \in [Account -> Seq([Email -> Nat])]

(* The ring holds the last MAX_TRANSITIONS transitions without a gap: entry i
   leaves the token the entry before it reached and the last one reaches the
   current token.  delta_since relies on it to start its walk at the one entry
   that leaves sinceState, gmail_history_since to number entries by position. *)
RingContiguous == \A a \in Account : Contiguous(log[a])

(* Equal tokens mean equal contents: whatever a mutator does to the emails of
   an account, the account's state token moves with it, so a client that sees
   an unchanged state (ifInState, Email/changes with the current token) has
   missed nothing. *)
TokenFaithful ==
    \A a \in Account :
        /\ Len(snap[a]) = log[a].counter + 1
        /\ snap[a][log[a].counter + 1] = View(owner, ver, a)

(* A step that leaves an account's emails alone while it changes those of
   another account does not move the first one's token (state_for: "a mutation
   on one account never moves a sibling's wire token"). *)
SiblingTokens ==
    [][\A a \in Account :
        /\ \E x \in Email : ver'[x] # ver[x] \/ owner'[x] # owner[x]
        /\ \A x \in Email : a \in {owner[x], owner'[x]} =>
                               ver'[x] = ver[x] /\ owner'[x] = owner[x]
        => log'[a] = log[a]]_vars

(* CONDSTORE: a client that remembers HIGHESTMODSEQ from a token the ring
   still covers gets every email changed since from FETCH (CHANGEDSINCE), and
   no email carries a MODSEQ above HIGHESTMODSEQ. *)
ModseqComplete ==
    \A a \in Account : \A x \in Email :
        owner[x] = a =>
            /\ EmailModseq(a, x) <= HighestModseq(a)
            /\ \A t \in Floor(log[a])..log[a].counter :
                 snap[a][t + 1][x] # ver[x] => EmailModseq(a, x) > t + 1

(* What a client that applies history records in order ends up with. *)
Replay(ids, records) ==
    LET held[n \in 0..Len(records)] ==
          IF n = 0 THEN ids
          ELSE (held[n - 1] \cup records[n].created) \ records[n].destroyed
    IN  held[Len(records)]

(* Gmail history.list: from a historyId the ring covers, replaying the
   messagesAdded and messagesDeleted records in order gives exactly the
   account's current messages; an older one is refused. *)
GmailReplay ==
    \A a \in Account : \A t \in 0..log[a].counter :
        LET h == GmailHistorySince(a, t + 1) IN
        IF t < Floor(log[a]) THEN h = Unknown
        ELSE Replay({x \in Email : snap[a][t + 1][x] # 0}, h)
                = {x \in Email : owner[x] = a}

(* The logs implement the change feed: the answer the walkers compute from the
   ring is the exact difference for every remembered token. *)
Feed == INSTANCE ChangeFeed WITH
    Item   <- Email,
    hist   <- snap,
    floor  <- [a \in Account |-> Floor(log[a])],
    answer <- [a \in Account |-> [t \in 0..log[a].counter |-> EmailDeltaSince(a, t)]]
ImplementsFeed == Feed!FeedSpec

=============================================================================
