----------------------------- MODULE ImapMailbox -----------------------------
(***************************************************************************)
(* The UIDs of an account's mailboxes and an IMAP connection that idles on *)
(* one of them: Fixture::mailbox_uid_history with its writers (JMAP, Graph *)
(* and Gmail mutations, the change script, IMAP UID STORE / COPY / MOVE /  *)
(* EXPUNGE) and cmd_idle of src/src/imap.rs.                               *)
(*                                                                         *)
(* Every mutation runs under the fixture's write lock and is one step; the *)
(* push that wakes an idling connection is sent after the lock is dropped, *)
(* and only by the change-script path.  Keywords are abstracted to         *)
(* $deleted, the one UID EXPUNGE looks at.                                 *)
(***************************************************************************)
EXTENDS Integers, FiniteSets, SequencesExt

CONSTANTS
    Mailbox, Email,
    Retired,        \* a UID slot whose email left the mailbox
    Selected,       \* the mailbox the idling connection has selected
    InitialOrder,   \* Fixture::emails at load, in order
    InitialMember,  \* [Email -> SUBSET Mailbox]
    MaxSlots,       \* bound on the UIDs ever assigned, of all mailboxes together
    MaxSteps        \* bound on the change-script steps

ASSUME ImapAssumption ==
    /\ Retired \notin Email /\ Selected \in Mailbox
    /\ InitialOrder \in Seq(Email) /\ IsInjective(InitialOrder)
    /\ InitialMember \in [Email -> SUBSET Mailbox]
    /\ \A e \in Email \ Range(InitialOrder) : InitialMember[e] = {}
    /\ {MaxSlots, MaxSteps} \subseteq Nat

VARIABLES
    order,      \* Fixture::emails: the live emails in the order they were added
    member,     \* mailbox_ids of each email, {} for those not live
    deleted,    \* the emails that carry $deleted
    hist,       \* mailbox_uid_history: slot i of a mailbox is UID i
    phase,      \* the connection: selected, starting (registered, no snapshot), idling
    last,       \* last_uids of cmd_idle
    wakes,      \* wakes queued on the idle receiver
    doubled,    \* history: the emails a UID MOVE put where they were already
    unsent,     \* script steps whose push has not been emitted yet
    steps,      \* script steps so far
    seen,       \* history: script steps the connection's last read covered
    view,       \* history: the UIDs the client believes in, by sequence number
    synced      \* history: did the client know the mailbox when IDLE began?

store == <<order, member, deleted, hist, doubled>>
conn  == <<phase, last, wakes, seen, view, synced>>
vars  == <<store, conn, unsent, steps>>

Live == Range(order)

(* The members of s that are in S, in the order of s. *)
Only(s, S) ==
    LET kept[n \in 0..Len(s)] ==
          IF n = 0 THEN << >>
          ELSE IF s[n] \in S THEN Append(kept[n - 1], s[n]) ELSE kept[n - 1]
    IN  kept[Len(s)]

(* 1, 2, ..., n. *)
UpTo(n) == [i \in 1..n |-> i]

-----------------------------------------------------------------------------
(* Fixture: UID slots. *)

(* assign_uid in every mailbox of M. *)
AssignUidReusesSlot(h, M, e) ==
    [m \in Mailbox |->
        IF m \notin M THEN h[m]
        ELSE LET free == {i \in 1..Len(h[m]) : h[m][i] = Retired}
             IN  IF free = {} THEN Append(h[m], e)
                 ELSE [h[m] EXCEPT ![CHOOSE i \in free : \A j \in free : i <= j] = e]]
AssignUid(h, M, e) == [m \in Mailbox |-> IF m \in M THEN Append(h[m], e) ELSE h[m]]

(* retire_uid in every mailbox of M: the first slot that holds e. *)
RetireUidNever(h, M, e) == h
RetireUid(h, M, e) ==
    [m \in Mailbox |->
        LET at == {i \in 1..Len(h[m]) : h[m][i] = e}
        IN  IF m \notin M \/ at = {} THEN h[m]
            ELSE [h[m] EXCEPT ![CHOOSE i \in at : \A j \in at : i <= j] = Retired]]

(* sync_mailbox_uids after an email's mailboxes went from old to new. *)
SyncMailboxUids(h, e, old, new) == AssignUid(RetireUid(h, old \ new, e), new \ old, e)

(* rebuild_uid_history at load. *)
LoadedHistory ==
    [m \in Mailbox |-> Only(InitialOrder, {e \in Email : m \in InitialMember[e]})]

(* The UIDs of the slots that hold a member of S, ascending. *)
UidsOf(h, m, S) == Only(UpTo(Len(h[m])), {i \in 1..Len(h[m]) : h[m][i] \in S})

(* mailbox_messages / live_uids: what UID FETCH and UID SEARCH show. *)
LiveUids(ord, h, m) == UidsOf(h, m, Range(ord))

(* expunged_uids: what SELECT (QRESYNC) reports as VANISHED (EARLIER). *)
ExpungedUidsZeroBased(h, m) == {u - 1 : u \in Range(UidsOf(h, m, {Retired}))}
ExpungedUids(h, m) == Range(UidsOf(h, m, {Retired}))

(* The emails at the UIDs U of mailbox m: for UID FETCH, COPY, MOVE and EXPUNGE by
   their slots, for UID STORE by their positions among the mailbox's emails. *)
FetchTarget(m, U) == {hist[m][u] : u \in U \cap 1..Len(hist[m])} \cap Live
StoreTarget(m, U) ==
    LET listing == Only(order, {e \in Email : m \in member[e]})
    IN  {listing[u] : u \in U \cap 1..Len(listing)}

-----------------------------------------------------------------------------
(* Mutations. *)

Init ==
    /\ order = InitialOrder /\ member = InitialMember /\ deleted = {}
    /\ hist = LoadedHistory /\ doubled = {}
    /\ phase = "selected" /\ last = << >> /\ wakes = 0 /\ synced = FALSE
    /\ view = << >>
    /\ unsent = 0 /\ steps = 0 /\ seen = 0

(* The UIDs assigned so far. *)
Slots(h) == SumFunction([m \in Mailbox |-> Len(h[m])])

(* The new contents, with the push a script step still has to emit.  Requests
   of a protocol surface (by = "client") emit none. *)
Commit(ord1, mem1, h1, del1, by) ==
    /\ by = "script" => steps < MaxSteps
    /\ Slots(h1) <= MaxSlots
    /\ order' = ord1 /\ member' = mem1 /\ hist' = h1 /\ deleted' = del1
    /\ IF by = "script"
       THEN steps' = steps + 1 /\ unsent' = unsent + 1
       ELSE UNCHANGED <<steps, unsent>>
    /\ UNCHANGED conn

(* Email/set create, Graph and Gmail inserts, email_create of a script. *)
CreateEmail(e, M, by) ==
    /\ e \notin Live /\ M # {}
    /\ Commit(Append(order, e), [member EXCEPT ![e] = M], AssignUid(hist, M, e),
              deleted, by)

(* A mailboxIds patch, a Gmail modify, a Graph move, email_move. *)
Refile(e, M, by) ==
    /\ e \in Live /\ M # member[e]
    /\ Commit(order, [member EXCEPT ![e] = M],
              SyncMailboxUids(hist, e, member[e], M), deleted, by)

(* Email/set destroy, Graph and Gmail deletes, email_destroy. *)
DestroyEmail(e, by) ==
    /\ e \in Live
    /\ Commit(Only(order, Live \ {e}), [member EXCEPT ![e] = {}],
              RetireUid(hist, member[e], e), deleted \ {e}, by)

(* cmd_uid_store: sets or clears \Deleted. *)
UidStore(m, U, on) ==
    LET hit == StoreTarget(m, U)
    IN  /\ hit # {}
        /\ Commit(order, member, hist, IF on THEN deleted \cup hit ELSE deleted \ hit,
                  "client")

(* The UIDs of the set U that are live slots of m, ascending. *)
Matched(m, U) == Only(UpTo(Len(hist[m])), {u \in U : hist[m][u] # Retired})

(* The two halves of the store that the UID commands write, email by email. *)
Files == [member |-> member, hist |-> hist]

(* cmd_uid_copy: the target gains each matched email it lacks. *)
CopyOne(acc, e, target) ==
    IF e \notin Live \/ target \in acc.member[e] THEN acc
    ELSE [member |-> [acc.member EXCEPT ![e] = @ \cup {target}],
          hist   |-> AssignUid(acc.hist, {target}, e)]
Copied(m, uids, target) ==
    LET acc[n \in 0..Len(uids)] ==
          IF n = 0 THEN Files ELSE CopyOne(acc[n - 1], hist[m][uids[n]], target)
    IN  acc[Len(uids)]

UidCopy(m, U, target) ==
    LET done == Copied(m, Matched(m, U), target)
    IN  /\ done.hist # hist
        /\ Commit(order, done.member, done.hist, deleted, "client")

(* cmd_uid_move: the target gains a slot for every matched email, also for one
   it holds already; the source slot is retired. *)
MoveOne(acc, e, m, target) ==
    IF e \notin Live THEN acc
    ELSE [member |-> [acc.member EXCEPT ![e] = (@ \cup {target}) \ {m}],
          hist   |-> RetireUid(AssignUid(acc.hist, {target}, e), {m}, e)]
Moved(m, uids, target) ==
    LET acc[n \in 0..Len(uids)] ==
          IF n = 0 THEN Files ELSE MoveOne(acc[n - 1], hist[m][uids[n]], m, target)
    IN  acc[Len(uids)]

UidMove(m, U, target) ==
    LET done == Moved(m, Matched(m, U), target)
    IN  /\ m # target /\ Matched(m, U) # << >>
        /\ doubled' = doubled \cup {e \in FetchTarget(m, U) : target \in member[e]}
        /\ Commit(order, done.member, done.hist, deleted, "client")

(* cmd_uid_expunge: every matched email that carries $deleted leaves m, and the
   store when m was its last mailbox; one that has left the store already is
   skipped, so that a second UID of it stays. *)
ExpungeOne(h, m, uids, n, gone, dead) ==
    LET e == hist[m][uids[n]]
    IN  IF e \in gone /\ (e \in dead => \A j \in 1..(n - 1) : hist[m][uids[j]] # e)
        THEN RetireUid(h, {m}, e) ELSE h
Expunged(m, uids, gone, dead) ==
    LET acc[n \in 0..Len(uids)] ==
          IF n = 0 THEN hist ELSE ExpungeOne(acc[n - 1], m, uids, n, gone, dead)
    IN  acc[Len(uids)]

UidExpunge(m, U) ==
    LET gone == FetchTarget(m, U) \cap deleted
        dead == {e \in gone : member[e] \subseteq {m}}
    IN  /\ gone # {}
        /\ Commit(Only(order, Live \ dead),
                  [e \in Email |-> IF e \in gone THEN member[e] \ {m} ELSE member[e]],
                  Expunged(m, Matched(m, U), gone, dead), deleted \ dead, "client")

-----------------------------------------------------------------------------
(* The connection and the push that wakes it. *)

(* The phases in which the hub holds the waiter: register_imap_idle runs before
   the snapshot and the receiver lives until DONE. *)
WaiterPhases == {"starting", "idling"}

(* emit_imap: a waiter that is registered gets one wake, others none. *)
EmitPush ==
    /\ unsent > 0 /\ unsent' = unsent - 1
    /\ wakes' = IF phase \in WaiterPhases THEN wakes + 1 ELSE wakes
    /\ UNCHANGED <<store, steps, phase, last, seen, view, synced>>

(* cmd_idle up to register_imap_idle, from a client that has just selected the
   mailbox and fetched it, and the live_uids snapshot after it.  A client that
   something changed under in between does not know the mailbox: it is promised
   wakes but no exact view, and its view is not followed. *)
IdleRegister ==
    /\ phase = "selected" /\ phase' = "starting" /\ wakes' = 0
    /\ view' = LiveUids(order, hist, Selected)
    /\ UNCHANGED <<store, unsent, steps, last, seen, synced>>

IdleSnapshot ==
    /\ phase = "starting" /\ phase' = "idling"
    /\ last' = LiveUids(order, hist, Selected) /\ seen' = steps
    /\ synced' = (view = last')
    /\ view' = IF synced' THEN view ELSE << >>
    /\ UNCHANGED <<store, unsent, steps, wakes>>

(* emit_idle_updates: the EXPUNGE sequence numbers relative to the old view,
   highest first, ... *)
ExpungedSeqsAscending(old, new) ==
    Only(UpTo(Len(old)), {i \in 1..Len(old) : old[i] \notin Range(new)})
ExpungedSeqs(old, new) ==
    Reverse(Only(UpTo(Len(old)), {i \in 1..Len(old) : old[i] \notin Range(new)}))

(* ... and the mailbox size when something arrived, 0 when EXISTS is not sent. *)
Exists(old, new) == IF Range(new) \subseteq Range(old) THEN 0 ELSE Len(new)

(* One untagged EXPUNGE. *)
DropAt(s, n) == IF n <= Len(s) THEN RemoveAt(s, n) ELSE s

(* What a client makes of it (external): an EXPUNGE removes one position, an
   EXISTS extends the mailbox by messages it then fetches. *)
Apply(v, seqs, exists, new) ==
    LET left[n \in 0..Len(seqs)] == IF n = 0 THEN v ELSE DropAt(left[n - 1], seqs[n])
        kept == left[Len(seqs)]
    IN  IF exists > Len(kept) THEN kept \o SubSeq(new, Len(kept) + 1, exists) ELSE kept

(* The select loop as it would be if it did not poll the receiver. *)
IdleWakeUnpolled ==
    /\ phase = "starting" /\ wakes > 0
    /\ UNCHANGED vars

IdleWake ==
    /\ phase = "idling" /\ wakes > 0 /\ wakes' = wakes - 1
    /\ last' = LiveUids(order, hist, Selected) /\ seen' = steps
    /\ view' = IF synced THEN Apply(view, ExpungedSeqs(last, last'), Exists(last, last'), last')
               ELSE << >>
    /\ UNCHANGED <<store, unsent, steps, phase, synced>>

(* DONE: the receiver is dropped with what it still holds. *)
IdleDone ==
    /\ phase = "idling" /\ phase' = "selected" /\ wakes' = 0
    /\ last' = << >> /\ view' = << >> /\ synced' = FALSE /\ seen' = 0
    /\ UNCHANGED <<store, unsent, steps>>

Mutation ==
    \/ /\ \E by \in {"client", "script"} :
           \/ \E e \in Email, M \in SUBSET Mailbox : CreateEmail(e, M, by)
           \/ \E e \in Email, M \in SUBSET Mailbox : Refile(e, M, by)
           \/ \E e \in Email : DestroyEmail(e, by)
       /\ UNCHANGED doubled
    \/ \E m \in Mailbox : \E U \in (SUBSET (1..Len(hist[m]))) \ {{}} :
         \/ \E on \in BOOLEAN : UidStore(m, U, on) /\ UNCHANGED doubled
         \/ \E target \in Mailbox : UidCopy(m, U, target) /\ UNCHANGED doubled
         \/ \E target \in Mailbox : UidMove(m, U, target)
         \/ UidExpunge(m, U) /\ UNCHANGED doubled

Next == Mutation \/ EmitPush \/ IdleRegister \/ IdleSnapshot \/ IdleWake \/ IdleDone

Spec == Init /\ [][Next]_vars

(* A step handler that dropped the lock goes on to emit, and a connection that
   has a wake or that has registered goes on. *)
LiveSpec ==
    /\ Spec
    /\ WF_vars(EmitPush) /\ WF_vars(IdleSnapshot) /\ WF_vars(IdleWake)

-----------------------------------------------------------------------------
(* Properties. *)

(* The state stays well typed, and each email is listed once. *)
TypeOK ==
    /\ order \in Seq(Email) /\ Cardinality(Live) = Len(order)
    /\ member \in [Email -> SUBSET Mailbox] /\ deleted \subseteq Live
    /\ \A m \in Mailbox : hist[m] \in Seq(Email \cup {Retired})
    /\ doubled \subseteq Email
    /\ phase \in {"selected", "starting", "idling"}
    /\ wakes \in 0..MaxSteps /\ unsent \in 0..MaxSteps /\ seen \in 0..steps

(* A UID is never given to a second message: slots are only added, and a slot
   only ever changes by being retired (UIDVALIDITY is pinned at 1). *)
UidsStable ==
    [][\A m \in Mailbox :
         /\ Len(hist'[m]) >= Len(hist[m])
         /\ \A i \in 1..Len(hist[m]) : hist'[m][i] \in {hist[m][i], Retired}]_vars

(* The IMAP view and the JMAP view of a mailbox agree: an email is in a mailbox
   exactly when one UID of it is live there, however copies, moves, expunges
   and patches are mixed.  A UID MOVE to where the email is already gives it a
   second UID, of which retire_uid will only ever find one: such emails apart. *)
SlotsMatchMembership ==
    \A e \in Email \ doubled, m \in Mailbox :
        Cardinality({i \in 1..Len(hist[m]) : hist[m][i] = e})
            = IF m \in member[e] THEN 1 ELSE 0

(* The two views of the well-typed store: UID slots and mailbox_ids agree. *)
SlotsSound == TypeOK /\ SlotsMatchMembership

(* QRESYNC: every UID ever assigned is either shown by UID FETCH or reported
   as vanished, never both; only the second UID of a doubled email, once that is
   destroyed, is neither. *)
QresyncPartition ==
    \A m \in Mailbox :
        /\ Range(LiveUids(order, hist, m)) \cap ExpungedUids(hist, m) = {}
        /\ Range(LiveUids(order, hist, m)) \cup ExpungedUids(hist, m)
             = {i \in 1..Len(hist[m]) : hist[m][i] \notin doubled \ Live}

(* A client that knew the mailbox when IDLE began and applies the untagged
   EXPUNGE and EXISTS responses holds exactly the server's view, also when
   several mutations coalesced into one wake.  (The lost second UID of a doubled
   email would come to life again below newer ones if its id did.) *)
IdleViewExact == phase = "idling" /\ synced /\ doubled = {} => view = last

(* No wake is lost between SELECT and IDLE: a script step the connection has
   not read yet has its push outstanding or its wake queued. *)
NoLostWake ==
    phase = "idling" /\ seen < steps => wakes > 0 \/ unsent > 0

(* What an idling client holds is what it was told, and what it was not told yet
   is on its way. *)
IdleSound == IdleViewExact /\ NoLostWake

(* A script step reaches an idling connection. *)
IdleEventuallyReads ==
    (phase = "idling" /\ seen < steps) ~> (seen = steps \/ phase # "idling")

-----------------------------------------------------------------------------
(* A statement of the source that the model refutes. *)

(* cmd_uid_store doc: the flag change surfaces "in any subsequent UID FETCH
   (FLAGS)": a STORE must address the message UID FETCH shows at that UID. *)
StoreHitsFetched ==
    \A m \in Mailbox : \A u \in 1..Len(hist[m]) : StoreTarget(m, {u}) = FetchTarget(m, {u})

=============================================================================
