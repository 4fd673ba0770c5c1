# TLA+ models of saehrimnir

saehrimnir is a mock mail provider: one process that serves JMAP, IMAP, SMTP,
Microsoft Graph, Gmail, Google Calendar, People, CalDAV, CardDAV and EWS from
one in-memory *fixture*, so that a mail client can be tested against all of
them. This directory holds TLA+ models of the parts whose correctness is hard
to reach with tests, the TLC runs that check them and the TLAPS proofs.

Paths like `src/src/fixture.rs` name the repository's files from this
directory's parent; `PROJECT.json` maps every definition to its lines.

## The system

| part | state | operations | what makes it correct |
|---|---|---|---|
| Fixture and change log (`fixture.rs`) | emails, mailboxes, calendars, events, contacts; per account a counter and a ring of 256 transitions | `mutate` / `record_transition`; `delta_since` and its filtered variants, `email_modseq`, `gmail_history_since` | a token names one view; a delta from a token the ring covers misses nothing; an evicted token is refused; accounts do not disturb each other |
| Mailboxes and messages (`jmap.rs`, `imap.rs`, `gmail/`, `graph/mail.rs`) | the mailbox tree, the messages' memberships and keywords (in the fixture) | `Email/set`, `Email/import`, `EmailSubmission/set`, `Mailbox/set`, IMAP CREATE / RENAME / DELETE, Gmail labels, messages, threads, Graph messages, folders, `$batch`; `*/changes`, `history.list` | one call, one transition, naming what it changed; ids stay distinct; no message without a mailbox; label patches do what they say |
| Calendars (`jmap_calendar.rs`, `graph/calendar.rs`, `gcal/`, `caldav/`) | none of their own | event and calendar verbs, `calendarView/delta`, `syncToken`, `*/changes`, ETag, CTag | deltas, tombstones, ETags and CTags follow the contents, whichever surface wrote |
| Contacts (`jmap_contacts.rs`, `graph/contacts.rs`, `people/`, `carddav/`) | none of their own | `ContactCard/set`, Graph and People verbs, PUT / DELETE, paged listings, deltas, ETag, CTag | a client's mirror is exact when its token is current |
| IMAP mailbox (`imap.rs`, UID slots in `fixture.rs`) | UID slots per mailbox; per connection the last idle view | UID STORE / COPY / MOVE / EXPUNGE, SELECT (QRESYNC), IDLE | UIDs are stable, slots agree with membership, the untagged stream is exact and no wake is lost |
| IMAP session and ACL (`imap.rs`) | per connection the account, the selected mailbox and the rights there; the grants | LOGIN / AUTHENTICATE, SELECT, EXAMINE, LIST, NAMESPACE, UID commands on shared folders; script grants and revocations | nothing of another account is read or written without a grant |
| Change script, announce, reset (`test_admin.rs`, `announce.rs`) | cursor, trigger counts, baseline | step, trigger before a request, reset | cursor and image agree, a failed step is undone; a request sees what its trigger announced; nobody waits for ever |
| Push hub (`push.rs`) | WebSocket and idle waiters, Gmail watches and sink, Graph subscriptions and log, EWS subscriptions and queues | register, emit, drain, delete, clear | every committed step is announced once to every live registration, and to no deleted one |
| OAuth (`oauth.rs`) | active tokens, revoked refresh tokens, counter | token, invalidate, clear | revocation cascades, accounts are kept |
| SMTP (`smtp.rs`) | session state per connection, submission log | EHLO, STARTTLS, AUTH, MAIL, RCPT, RSET, DATA | a submission is one transaction |
| Request log, latency, open faults | a ring of 100000 rows, delays, a fault budget | record, take, clear | rows in the order of the requests |
| Lua dispatcher, loader, lifecycle, codecs | handler counts; none | start-up, overrides, drain | see Not modelled |

How they interact. Every protocol handler runs on its own task and shares
`SharedHandles`: the fixture behind an rwlock, the cursor and the counters
behind mutexes, the hub, the log and the token store each behind their own.
Most mutating handlers hold the fixture's write lock for the whole call, so a
mutation is one step of the models. What is *not* atomic, and is where the
models interleave: the handlers that look something up under a read lock and
write under a later one (Gmail send and thread verbs, Graph send, drafts and
child folders, the Graph and Google event verbs), paged listings, the hub's
registries (a mutex each, none held together), the change-script path (cursor
lock, fixture lock, early drop of the cursor, push after every lock is dropped), the announce path (count,
apply, log, serve), reset (clears piece by piece, then locks), the idle loop
(register, snapshot, wake), and `token_endpoint` (one lock per call to the
store). Nothing is persisted, so there is no crash recovery to model.

## Modules

| module | models | kind |
|---|---|---|
| `ChangeRing` | `ChangeLog`: push, advance, the delta walk, dominance | operators |
| `ChangeFeed` | what a change feed promises a syncing client | abstract specification |
| `MailStore` | emails of several accounts with their logs, `Email/set` and script steps as writers, `Email/changes`, CONDSTORE and Gmail history as readers | component |
| `MailStoreProofs` | `MailStore`: types, rings, tokens, siblings, MODSEQs, Gmail history, the refinement of `ChangeFeed` | proofs |
| `MailOps` | the mailbox and message verbs of JMAP, IMAP, Gmail, Graph and the script as functions on one account's store | operators |
| `MailVerbs` | clients of those protocols on one account, the two-lock handlers in two steps; `Mailbox/changes`, `Email/changes`, `Thread/changes`, `history.list` as readers | composition |
| `CalendarStore` | calendars and events on five surfaces: JMAP, Graph, Google, CalDAV, script; deltas, `*/changes`, ETag, CTag | component |
| `ContactStore` | contacts on five surfaces and a client that pages, follows tokens or polls a CTag | composition |
| `ImapMailbox` | UID slots with all their writers, and one idling connection with the push that wakes it | composition |
| `ImapSession` | one IMAP connection: account, selection, rights, shared folders | component |
| `ChangeScript` | stepping, announce triggers, resets and the locks they take | component |
| `PushHub` | the five registries, their endpoints, emission and clear, one step per critical section | component |
| `TokenStore` | the OAuth token store and `token_endpoint` | component |
| `SmtpSession` | one SMTP connection and the submission log | component |
| `CalendarStoreProofs`, `ImapMailboxProofs`, `ImapSessionProofs`, `ChangeScriptProofs`, `PushHubProofs`, `TokenStoreProofs`, `SmtpSessionProofs` | theorems about the module each is named after | proofs |
| `MC*` | the small instances | model checking |

`MailStore`, `CalendarStore` and `ContactStore` extend `ChangeRing`, `MailVerbs`
instantiates its walkers over its own log; `MailStore` instantiates `ChangeFeed`
with a refinement mapping.

How state and actions correspond to the code:

* A state token `"{seed}.{n}"` is its counter `n`, the bare seed is 0. Contents
  are a version number or one of a few values, which is all a delta, an ETag
  or a MODSEQ can tell apart. `snap` and `served` are history: what an account
  or a calendar showed at each token, and what a client may have seen.
* `EmailSet(C, acct, U, D)` of `MailStore` is a whole `Email/set` call: creates,
  updates, destroys, one `record_transition`. `ScriptStep` and `ScriptReplace` are
  the email ops of a script step, which, other than `Email/set`, may name an id
  again. `AclChange` advances two accounts without touching an email.
* `MailOps` has one operator per verb, from a store to the store after it; a verb
  that is refused returns the store it was given. Ids of new mailboxes are taken
  from `Minted` as `fresh_mailbox_id` counts them. `MailVerbs` turns a verb into a
  step; a handler with two lock sections keeps in `req` what it looked up.
  IMAP verbs need `ListAnswers`: they list the mailboxes by their paths first, and
  that walk does not end on a cycle of parents.
* In `CalendarStore` and `ContactStore` the events and contacts are sequences
  whose ids may repeat, as in the code. A look-up under a read lock leaves no
  trace; `checked` of `CalendarStore` remembers which ones could have succeeded
  and any later write section may follow one. The text an event is given is the
  vector of the counters just before the write, of which no two writes see the
  same; `past` keeps what has happened to each id, for the exceptions that the
  properties name. The mirror of `ContactStore` is
  what a client makes of the answers (external).
* In `ImapMailbox`, `order` is `Fixture::emails` (its order matters to UID
  STORE), `hist` is `mailbox_uid_history`, `last` is `last_uids` of the idle
  loop and `view` what a client makes of the responses (external).
* In `ImapSession` a command is one step; a UID command names a set of messages.
  The grants are those of the fixture and of script steps to come, which
  NAMESPACE looks ahead to.
* In `ChangeScript` a process is a request in flight; `pc` names the place
  between two critical sections. A step is a list of operations on sections of
  the fixture; one may fail before it writes or midway, and `Undo` puts back the
  sections that `StepTouches` cloned. The image says per section which steps it
  holds; `HoldsUpTo(image, k)` is a fixture after k whole steps. All triggers match every modelled request: requests that match nothing
  only read.
* In `PushHub` a push is the number of the step it announces. The registries
  share only the id counter, so a behaviour has clients of one of them.
* In `TokenStore` a token is its counter and body hash; a request's steps are
  its lock acquisitions.
* In `SmtpSession` an address is the number of the command that named it, so a
  submission shows where its parts come from.

Initial states are what the loader accepts (`Loadable*`): the instances also
offer fixtures it refuses.

Scope flags. Three classes of input are known to break a property. Each has a
named constant, so that the runs show what holds without it and that nothing
else breaks: `Reuse` (a script re-creates an id), `Overlap` (one call updates and
destroys the same id), `ResetRaces` (a reset during a token request).
`mail_store_reuse` checks what survives `Reuse` and `Overlap`; `ResetRaces` is
FALSE in the run. Everywhere else such inputs are part of the runs and the
property names the exception.

## Runs

Passing runs. A name in parentheses is a part of the property before it; the
`...Sound` properties and `AnnouncedOnce` also hold the module's `TypeOK`, except
`IdleSound` and `JmapChangesSound`.

| run | shows | bounds |
|---|---|---|
| `mail_store` | the ring implements `ChangeFeed` (exact deltas for remembered tokens, refusal of forgotten ones); `TypeOK`, `ModseqComplete`, `GmailReplay`, `SiblingTokens` | 2 accounts, 3 emails, ring of 2, 3 transitions per account |
| `mail_store_reuse` | `RingContiguous`, `TokenFaithful` even when ids are reused and calls overlap | 2 emails, ring of 1, 2 transitions |
| `mail_verbs` | `StoreSound` (`DistinctBoxes`, `Housed`), `Recorded`; `LabelReplay` and `PatchExact` of Gmail labels; `JmapChangesSound` (`MailboxChangesExact`, `ThreadsCovered`) of a JMAP client | 1 account, 2 loadable fixtures of 3 mailboxes, 2 emails, 5 mailboxes, 3 transitions, 1 two-step client |
| `calendar_store` | `CalendarDeltaSound` (`CalendarDeltaComplete`, `CalendarDeltaScoped`), `JmapChangesComplete`, `EtagIdentifies`, `CtagMoves`, `TombstonesTrue` while look-ups and writes of five surfaces interleave and calendars come and go | 3 calendars of 2 accounts, 1 declared and 1 minted event id, ring of 2, 3 writes |
| `contact_store` | `MirrorSound` (`MirrorExact`), `CtagCovers`, `EtagIdentifies` for a client of each protocol | 3 folders of 2 accounts, 2 declared and 1 minted id, ring of 2, 3 writes, pages of 1 |
| `imap_mailbox` | `SlotsSound` (`SlotsMatchMembership`), `UidsStable`, `QresyncPartition`; `IdleSound` (`IdleViewExact`, `NoLostWake`), `IdleEventuallyReads` | 2 mailboxes, 2 emails, 4 UIDs in all, 2 script steps |
| `imap_session` | `SelectionSound` (`FetchGranted`), `NamespaceForeseen`, `ForeignWritesGranted`, `ReadOnlyHonoured`, `RevokedIsNoperm` | 2 accounts, 2 declared mailboxes, 5 mailbox ids, 3 creations and deletions, fixtures with static and scripted grants |
| `change_script` | `ScriptSound` (`CursorMatchesImage`), `NoTornRead`, `AnnouncedInTime` (`ServedAfterAnnounce`, `NthOnly`) and `RequestsFinish` (no deadlock or starvation among step, announce and reset) | 3 steps, one of which fails midway, 2 triggers, 1 step request, 2 triggering requests, 1 reset |
| `push_hub` | `AnnouncedOnce` (`ListenersExactlyOnce`, `EwsExactlyOnce`, `GraphFanout`, `WatchCovers`), `SilentAfterDelete` | 2 accounts, 2 steppers, 1 listener, 1 client, 2 steps, 2 subscription ids, 1 reset |
| `token_store` | `TokensSound` (`RevocationCascades`, `TokensDistinct`), `RefreshKeepsAccount` with racing invalidations and a reset between requests | 2 requests in flight, 4 tokens, 1 reset |
| `smtp_session` | `OneTransaction`, `UpgradeForgets` | all sessions of 8 commands |

Why the bounds are enough for the cases of interest: a ring one or two entries
shorter than the number of transitions makes eviction happen and leaves tokens
on both sides of the floor; three emails of two accounts are one each plus a
free id to create; two calendars share a log and one has its own; the same with
three address books; a page size of one puts a write between any two pages. Three
transitions of `mail_verbs` let a mailbox be made, deleted and its id given out
again, and a message be relabelled between the two steps of another request.
`calendar_store` also passes with four writes (514,301 states, about four minutes).
Four UIDs let a message leave a mailbox and come back, and a MOVE hit a mailbox
that has the message in either direction; five mailbox ids let a
shared one be deleted and made again, by its owner and by the grantee. Two
matching requests with triggers on the first and the second reach every order of
counting and applying. Two steppers
overtake each other on the way to the hub while a subscription is made, drained
and deleted. Eight commands are a full transaction before and after an upgrade or
an abandoned one. TLC stops where a bound disables every action, so the
configurations do not check deadlock; `RequestsFinish` covers the deadlock
question that the code has.

Fairness. `ImapMailbox!LiveSpec` is weakly fair to the emission of a push whose
step has committed (straight-line code after the lock is dropped), to the
snapshot after registration and to the wake arm of the select loop; nothing
forces a client to send DONE or a script to step. `ChangeScript!LiveSpec` is
weakly fair to every accepted request; the requests are finitely many, so a lock
released again and again is finally free, and no fairness of the mutex is
assumed. The other modules state safety only.

Each property a configuration names has a mutant in `PROJECT.json`: a plausible bug
in one mapped definition under which TLC finds the property violated. The
mutated forms stand next to the definition they mutate.

## Findings

`store_by_position` reports a violation, a statement of the repository that the
code does not keep: after an expunge UID STORE, which numbers messages by
position, changes another message than UID FETCH shows at that UID.
`PROJECT.json` quotes the statement.

Other limits of the code show in the exceptions that the properties make, with
no run of their own.

Change log and mail:

* `ChangeFeed` starts at the floor of the ring: the seed is
  accepted after eviction, with an incomplete answer. CONDSTORE (`ModseqComplete`)
  likewise answers a MODSEQ from before the floor incompletely.
* `ChangeFeed` allows a needless `updated` report: an id created, updated and
  destroyed in the window is still listed as updated. With `Reuse`, an id that was
  destroyed and re-created cancels out of the delta.
* `SiblingTokens` needs calls that do not update and destroy the same id: the
  updated id is then routed to the primary account.
* `Mailbox/changes` does not name an id that `fresh_mailbox_id` gave out again in
  the window (`Reused` of `MailVerbs`), nor mailboxes of which only the counts
  changed. `Thread/changes` names no thread of a destroyed email and reports a
  reply's thread as created.
* `LabelReplay` is about messages that only label patches touched: JMAP and Graph
  updates and the deletion of a label write no label records.
* RENAME, `Mailbox/set` and a folder move can make a mailbox its own ancestor;
  listing the mailboxes over IMAP then never answers.
* In a drafts mailbox the DRAFT label cannot be patched away; `PatchExact` says so.

Calendars and contacts:

* After CalDAV deletes a calendar of a secondary account, changes of its events
  are logged with the primary account (`fixture.rs:1271` calls this "defensive; not
  reachable in v0"). `CalendarDeltaComplete`, `JmapChangesComplete` and
  `EtagIdentifies` exempt such events.
* `CalendarDeltaComplete` and `CtagMoves` except an event that moves out of a
  calendar, which leaves no tombstone; `EtagIdentifies` the seed, to which ETags
  fall back after eviction.
* A calendar that is deleted and made again by another account is reached, with the
  events that stayed behind, in that account's home. The ETag is then taken from
  that account's log while changes of the event may go to another, so a version
  can change under its ETag. `EtagIdentifies` compares the versions of one home, of
  events that belong to its account.
* `Calendar/changes` cancels a calendar that was made, deleted and made again in the
  window (`Flapped`): a client that had not seen it does not learn of it.
* A CalDAV or CardDAV PUT looks for the id in its own collection and can make a
  second resource of the same id; Google creates an event in a calendar that was
  deleted after the look-up.
* `MirrorExact` excepts an id deleted and created again, whose two entries cancel,
  and Graph's answer to an evicted token, a full listing without tombstones where
  the comment at `fixture.rs:1665` has a 410. A patch of `addressBookIds` can move a
  contact to a folder of another account.

IMAP, script, push and sessions:

* UID MOVE into a mailbox that holds the message already gives it a second UID
  (`fixture.rs:1065` says "at most once"); `SlotsMatchMembership` leaves such emails out.
  When UID EXPUNGE removes one from the store, only the first slot is retired: the
  other is neither shown nor reported as VANISHED.
* `IdleViewExact` is about a client that knew the mailbox when IDLE began: a
  change between SELECT and IDLE is never reported by the idle loop.
* The rights of a shared selection are those of SELECT: after a revocation the
  commands go on until the next SELECT. COPY and MOVE out of a shared folder look
  the target up in the connection's own account. A deleted mailbox leaves its
  grants behind, and a new one under the same id inherits them. EXAMINE does not
  gate writes.
* Two matching requests can reach the cursor in another order than they were
  counted; a trigger then applies nothing. A step of group operations only pushes
  nothing and logs nothing.
* `ServedAfterAnnounce` and `NthOnly` hold until a reset arrives: reset clears
  the counts and logs before it takes the locks.
* An emission that races Unsubscribe or a reset can leave an EWS queue without a
  subscription; `SilentAfterDelete` bounds what it holds.
* `RefreshKeepsAccount` is about presented tokens that are still active: one that
  is invalidated between the check and the lookup mints for the primary account.
* `UpgradeForgets` says nothing of the account an AUTH before STARTTLS bound,
  which is kept.

## Proofs

The theorems hold for every value of the constants: every set of accounts,
emails, mailboxes, calendars, rights and processes, every initial fixture, script and list
of triggers, every retention and every bound. They rest on the named assumptions
of the modules, which TLC evaluates on every run, and on nothing else except the
hypotheses given here. Each proof module has an inductive invariant, `IInv` or
`CalInv` (`Init => IInv`, `IInv /\ [Next]_vars => IInv'`), a lemma per action or per group
of actions, and the theorems at its end.

| module | theorem | property | hypothesis |
|---|---|---|---|
| `MailStoreProofs` | `TypeCorrect` | `TypeOK` | |
| | `RingIsContiguous` | `RingContiguous` | |
| | `TokensAreFaithful` | `TokenFaithful` | |
| | `SiblingTokensStand` | `SiblingTokens` | not `Overlap` |
| | `ModseqsComplete` | `ModseqComplete` | |
| | `StoreImplementsFeed` | `ImplementsFeed` | neither `Overlap` nor `Reuse` |
| | `HistoriesReplay` | `GmailReplay` | not `Overlap` |
| `CalendarStoreProofs` | `CalendarDeltasAlwaysSound` | `CalendarDeltaSound` | |
| | `JmapChangesAlwaysComplete` | `JmapChangesComplete` | |
| | `EtagsAlwaysIdentify` | `EtagIdentifies` | |
| | `CtagsAlwaysMove` | `CtagMoves` | |
| | `TombstonesAlwaysTrue` | `TombstonesTrue` | |
| `ChangeScriptProofs` | `ScriptStaysSound` | `ScriptSound` | |
| | `ReadsAreWhole` | `NoTornRead` | |
| | `AnnouncementsInTime` | `AnnouncedInTime` | triggers name different steps |
| `PushHubProofs` | `PushesAnnouncedOnce` | `AnnouncedOnce` | |
| | `DeletedStaySilent` | `SilentAfterDelete` | |
| `ImapMailboxProofs` | `SlotsAlwaysSound` | `SlotsSound` | |
| | `QresyncAlwaysPartitions` | `QresyncPartition` | |
| | `UidsAlwaysStable` | `UidsStable` | |
| | `IdleAlwaysSound` | `IdleSound` | |
| `ImapSessionProofs` | `SelectionsSound` | `SelectionSound` | |
| | `NamespaceIsForeseen` | `NamespaceForeseen` | |
| | `ForeignWritesAreGranted` | `ForeignWritesGranted` | |
| | `ReadOnlyIsHonoured` | `ReadOnlyHonoured` | |
| | `RevokedIsRefused` | `RevokedIsNoperm` | |
| `TokenStoreProofs` | `TokensStaySound` | `TokensSound` | not `ResetRaces` |
| | `RefreshesKeepAccount` | `RefreshKeepsAccount` | not `ResetRaces` |
| `SmtpSessionProofs` | `TransactionsStandAlone` | `OneTransaction` | |
| | `UpgradesForget` | `UpgradeForgets` | |

The hypotheses are the scope flags of the runs, each with an input that breaks the
property without it (see Findings). The loader does not check that triggers name
different steps; two for one step both report it, so `AnnouncedInTime` is not
true of such a fixture. The assumptions on constants say that the stand-ins for "absent" (`None`,
`NoToken`, `Free`) are no values of the kind they stand in for, that a request
is of one kind only, and, for `ImapMailbox` and `CalendarStore`, that a loaded
fixture lists an id once and an event in a calendar of its account (the loader
refuses others).

**`MailStore`.** The invariant is

    IInv == TypeOK /\ RingContiguous /\ TokenFaithful /\ Live \subseteq used

`TokenFaithful` is not inductive alone: a step appends one view to `snap` exactly
when it advances the counter, which needs the types and lengths; that a created
id is not live, so that it is not somebody else's email, needs
`Live \subseteq used`. The argument goes bottom up: `PushType` and
`AdvanceContiguous` say what one push does to one ring, `RecordPreserves` what
`record_transition` does to all logs provided that an account with an empty share
of the diff shows the same emails, `MutatePreserves` that this holds for every
mutator, `NextIInv` has one step per action, and `InvariantHolds` states
`Spec => []IInv`, the theorem that the others start from.

The second half of the module adds what each ring entry says about the two views it leads
between. `Lists`: every email that the later view shows differently is named;
this holds of every mutator (`MutateLists`) and is enough for `ModseqComplete`.
`Tells`: creations and destructions are exact; this needs calls whose destroys
are disjoint from the rest (`MutateTells`). From the entries to a whole window the
argument is one about walks, `Crossing`: a walk that starts outside a set and ends
inside enters it at some step, and the entry of that step names the email.
`AnswerLeads` uses it for what appears, disappears and changes, together with
`OneLife`, that an email which is gone does not come back, without which
creations and destructions could cancel wrongly; `OneLife` is inductive because
whatever a view showed is `used` for ever. `GmailReplay` needs
only `Tells`: each record takes the ids of one view to those of the next, and the
replay, a recursive function, is that walk (`ReplayFollows`, again by `Crossing`, on
the steps at which the two would differ). `LogGrows` has the rest of a step of the
feed: one token at a time, the floor only rises.

**`CalendarStore`.** Five surfaces write the same events. The first third of the
proof brings their verbs to one form, `Turn(d)`: a step that changes events or
calendars and logs the diff `d`, where `Effect` says what the diff may claim. What
it does not name is untouched, what it creates is new or there twice afterwards,
what it destroys was in the calendar that it says and is gone, or was there twice. Each
verb has a lemma (`GraphPatchTurns`, `CaldavPutTurns`, ...), `CalendarEventSet`
composes its creates, updates and destroys (`EffectOfSteps`), and `NextTurns` joins them.
The rest of the proof knows only turns. The invariant is

    CalInv == StoreOK /\ looked up /\ Twins /\ Gone /\ Ever
              /\ \A a : LogOK(a) /\ Fresh1(a) /\ (\A i : Keeps(a, i))
                       /\ every ring entry Tells, Creates and Buries
              /\ \A r \in served : Serves(r) /\ EtagIdentifies

(the second conjunct: whatever can be found now has been looked up). None of the
five properties is inductive. For the deltas, one needs for each
retained transition what it says of the views it lies between (`Tells`), that what it
creates was never shown before (`Creates`) and that its tombstones are final and
about the right calendar (`Buries`); that the newest view is what the account holds
(`Fresh1`), although a change may be logged with another account; and that an id
stays with its account and, unless moved, in its calendar (`Keeps`). These in turn
rest on the history of each id: one that exists twice is known to (`Twins`), one that was
destroyed is away (`Gone`), one that was ever shown is there or was destroyed
(`Ever`). `Crossing` then carries entries to windows, as for mail. For the ETags, a
version that was served is either live or superseded, that is, its log has a newer
entry for the id or has evicted one (`Serves`); a new version gets the tag of its own
write, which is newer than any tag served (`EtagsKept`). `CtagMoves` and
`TombstonesTrue` are about one turn and follow from the invariant and `Effect`.

The proof showed what the bounds of the run do not reach: `EtagIdentifies` and
`JmapChangesComplete` need the exceptions listed under Findings (a calendar taken
over by another account, one that flaps). Two other exceptions are needless:
`CtagMoves` also holds of events whose calendar and account parted, and
`TombstonesTrue` of ids minted by the step.

**`ChangeScript`.** Locks: each is held by whoever is at one of its labels
(`LockInv`). Image: equal to the script up to the cursor except at the labels
inside an advance or a reset, where the invariant says what the image, or what
`Undo` would leave, is instead (`ImageInv`). `ScriptSound` and `NoTornRead` follow as
readers and writers exclude each other. For `AnnouncedInTime`, every trigger is in
one place until a reset: not matched often enough, due to one request, being
announced by one, or reported once (`OnceInv`).

**`PushHub`.** For every registration, the steps owed to it are those that
touched its account since; each is either told or carried by an emission in
progress that still has the account to do (`Covers`), and what was told is told
once, was due and is carried by nobody (`Honest`). The parts for the registries
differ in what an emission has already looked up (`NotifyInv`, `EnqueueInv`: the
list of subscriptions taken under one lock and used under the next) and in what a
concurrent Unsubscribe or clear may take away. `SilentInv` bounds what is in
queues and in emissions by the step at which the subscription went.

**`ImapMailbox`.** The invariant is about the order of the emails, their
memberships, the slots and the idle view together:

    IInv == StoreOK /\ ConnOK /\ IdleOK /\ NoLostWake

`StoreOK` says that the order lists an email once and (`Filed`) that an email outside
`doubled` has exactly one slot in each of its mailboxes and none elsewhere; `IdleOK`
that, while nothing is doubled, `last` rises, lies within the history, and every
live slot it lacks is above all of it. UID COPY, MOVE and EXPUNGE go
email by email, `StoreOK` holding after each (`MoveStep`, `ExpungeStep`, ...); the
loop is a recursive function, and since the induction theorems of the library
cannot be instantiated, the induction is done by hand: `Least` gives the least
counterexample among the naturals, `Induct` and `Stays` follow, and `Recursion` shows that
the recursive function exists. `IdleSound` needs what the idle loop sends to be
exact: positions are counted down from the end, so an EXPUNGE does not move the
ones still to be sent (`ApplyExact`), and what is new comes after what stays
(`RisingPrefix`). `NoLostWake` is a fact about where the connection is when a step
commits (`MutationIdle`).

**`ImapSession`.** The selection carries the rights it was made with; in a mailbox
of another account these are those of a grant that is still in force unless
it, or the mailbox, went during the selection (`Selection`). A client that was
told of no namespace lives in a fixture without grants, now and in the script to
come (`Seen`).

**`TokenStore`.** A request's tokens are active until its response is out, since
nobody can invalidate a string that no response has carried (`Progress`); no
token is held by two requests or responses (`Separate`); the store pairs tokens
exactly as the responses do (`Pairing`). A reset during a request breaks the first
of these, hence the hypothesis.

**`SmtpSession`.** The envelope's parts are newer than the last command that opened
or closed a transaction (`Envelope`), and under TLS what the session knows of the
client was said under TLS (`Introduced`).

Only model-checked:

* liveness (`IdleEventuallyReads`, `RequestsFinish`), as the prover has no ENABLED;
* `ContactStore` (`MirrorSound`, `CtagCovers`, `EtagIdentifies`) and `MailVerbs`
  (`StoreSound`, `Recorded`, `LabelReplay`, `PatchExact`, `JmapChangesSound`). Nothing in them is known
  to be out of reach, but `SelectSeq` and the folds of `MailOps` take operators, so
  that each needs its facts proved anew, as `OnlyUnfolds` does for `Only`.

## Not modelled

* The Lua loader and dispatcher: they build the fixture once and call code of the
  scenario's author. Overrides of SMTP commands appear as refused commands.
* Process lifecycle: start-up is I/O, the drain depends on sockets and wall-clock
  budgets. Nothing is persisted, so a restart is a new behaviour.
* Text formats, dates and recurrence expansion, discovery documents, routing and
  templates: no state. Fixture parsing: what the loader accepts is modelled as
  conditions on initial states, how it parses TOML and message files is not.
* Reads that only render: searches, queries, FETCH items, OData paging of mail and
  calendars, SEARCH, STATUS, most of EWS, the directory and group listings.
* Single assignments without a second party: `Identity`, `VacationResponse`,
  mailbox settings, sendAs, categories, subscription renewal; the request-log cap,
  the fault budget and the latencies.
* The loopback POSTs of Pub/Sub and webhooks: spawned, never retried, never read
  back.
* A command line split over two reads inside the idle loop's select: bytes are
  abstracted.
* IMAP keywords other than `$deleted` do not matter to the commands of
  `ImapMailbox`, and UIDs not to `ImapSession`.

## Plan

Written so far, in order of importance: `ChangeRing`, `MailStore`,
`CalendarStore`, `ImapMailbox`, `ChangeScript`, `TokenStore`, `SmtpSession`,
`PushHub`, `MailOps` and `MailVerbs`, `ContactStore`, `ImapSession`; the proofs of
`MailStore`, `SmtpSession`, `TokenStore`, `ImapSession`, `ChangeScript`, `PushHub`,
`ImapMailbox`, `CalendarStore`.

1. Proofs: `EtagIdentifies` and `CtagCovers` of `ContactStore`, whose cards go through
   the same turns as events do; the arguments of `Effect`, `Crossing`, `EtagsKept`
   and `CtagStep` do not depend on the kind of id.
2. Paged listings of Google Calendar and Graph mail against concurrent writers,
   as `ContactStore` has them for contacts.
3. Request plumbing: request-log ring, open-fault budget, Lua handler counts;
   shutdown drain against its budget.
