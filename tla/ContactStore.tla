---------------------------- MODULE ContactStore ----------------------------
(***************************************************************************)
(* The contacts of a multi-account Fixture.  They are written through JMAP *)
(* ContactCard/set (src/src/jmap_contacts.rs), Graph                       *)
(* (src/src/graph/contacts.rs), Google People (src/src/people/contacts.rs) *)
(* and CardDAV (src/src/carddav/mod.rs), and mirrored by a client of any of *)
(* the four: one that pages through a listing and then follows delta       *)
(* tokens, or one that polls a CTag.                                       *)
(*                                                                         *)
(* `contacts` is a vector, in the order Graph pages through it; nothing    *)
(* makes its ids unique (a CardDAV PUT looks for an id in its own book     *)
(* only).  What a card says is one value of Card.                          *)
(***************************************************************************)
EXTENDS ChangeRing, FiniteSets, SequencesExt, TLC

CONSTANTS
    Account, Primary,
    Folder,          \* contact_folders: address books
    FolderAccount,   \* [Folder -> Account]
    Card,            \* what a contact can say
    None,
    FixtureIds,      \* ids 1..FixtureIds are declared or chosen by a CardDAV client
    MaxMinted,       \* bound on synthetic_contact_seq
    Patches,         \* the patches of ContactCard/set: card and folder, None for untouched
    NewCards, Edits, \* the cards that creates, and that updates and PUTs, write
    Watched,         \* the folders a client syncs
    PageSize,        \* $top or pageSize of the client
    InitialContacts, \* the contacts of the loaded fixture
    MaxWrites        \* bound on the sum of the accounts' counters

Id == 1..(FixtureIds + MaxMinted)
Contact == [id : Id, acct : Account, folder : Folder, card : Card]

(* What the loader accepts: ids are distinct, a contact has the account of its
   folder. *)
Loadable(cs) ==
    /\ \A i, j \in DOMAIN cs : cs[i].id = cs[j].id => i = j
    /\ \A i \in DOMAIN cs : FolderAccount[cs[i].folder] = cs[i].acct

ASSUME ContactAssumption ==
    /\ Primary \in Account /\ None \notin Account \cup Folder \cup Card
    /\ FolderAccount \in [Folder -> Account]
    /\ InitialContacts \in Seq(Contact) /\ Loadable(InitialContacts)
    /\ NewCards \subseteq Card /\ Edits \subseteq Card /\ Watched \subseteq Folder
    /\ Patches \subseteq [card : Card \cup {None}, folder : Folder \cup {None}]
    /\ FixtureIds \in Nat /\ MaxMinted \in Nat /\ PageSize \in Nat \ {0}
    /\ MaxWrites \in Nat

VARIABLES
    contacts,   \* Fixture::contacts
    seq,        \* synthetic_contact_seq
    log,        \* Fixture::account_logs
    client,     \* the syncing client
    held,       \* the last card a CardDAV client read, with its ETag
    past        \* history: what happened to each id

vars == <<contacts, seq, log, client, held, past>>

NoMirror == [i \in Id |-> None]
Idle == [kind |-> None, acct |-> Primary, folder |-> None, phase |-> "idle",
         offset |-> 0, mirror |-> NoMirror, token |-> Seed, doubts |-> {}]

Init ==
    /\ contacts = InitialContacts
    /\ seq = 0
    /\ log = [a \in Account |-> EmptyLog]
    /\ client = Idle
    /\ held = None
    /\ past = [i \in Id |-> {}]

-----------------------------------------------------------------------------
(* Reading the vector.  A position is 0 when there is none. *)

(* contacts_for, and its restriction to one folder. *)
ContactsFor(cs, a) == SelectSeq(cs, LAMBDA c : c.acct = a)
InFolder(cs, a, f) == SelectSeq(ContactsFor(cs, a), LAMBDA c : c.folder = f)

IdAt(cs, i) == SelectInSeq(cs, LAMBDA c : c.id = i)
LastIdAt(cs, i) == SelectLastInSeq(cs, LAMBDA c : c.id = i)
OwnAt(cs, a, i) == SelectInSeq(cs, LAMBDA c : c.acct = a /\ c.id = i)
ShelvedAt(cs, f, i) == SelectInSeq(cs, LAMBDA c : c.folder = f /\ c.id = i)

(* The cards a listing gives, by id. *)
ByIds(cs) == [i \in Id |-> IF IdAt(cs, i) = 0 THEN None ELSE cs[LastIdAt(cs, i)].card]

-----------------------------------------------------------------------------
(* Recording. *)

(* resolve_contact: the account of the folder the id lives in now (the last
   contact of that id in the vector), the primary when the id is gone. *)
AccountOfContact(cs, i) ==
    IF IdAt(cs, i) = 0 THEN Primary ELSE FolderAccount[cs[LastIdAt(cs, i)].folder]

NoDiff == [created |-> {}, updated |-> {}, destroyed |-> {}]

(* The part of a diff that goes to account a: destroyed ids carry the folder
   captured when they were removed. *)
SubDiff(cs, d, a) ==
    [created   |-> {i \in d.created : AccountOfContact(cs, i) = a},
     updated   |-> {i \in d.updated : AccountOfContact(cs, i) = a},
     destroyed |-> {p \in d.destroyed : FolderAccount[p[2]] = a}]

(* Whether a write falls into a listing in progress.  Contacts added after every
   one listed so far do not: the later pages show them. *)
Disturbs(d) ==
    /\ client.phase = "paging"
    /\ \/ d.updated # {} \/ d.destroyed # {}
       \/ /\ client.kind = "people"
          /\ \E i \in d.created, j \in DOMAIN contacts : i < contacts[j].id

(* What a write that leaves the contacts cs1 does to the id i; `shelves` are the
   folders it is in or was removed from. *)
PastOf(cs1, d, i) ==
    LET at(cs, x) == {cs[k][x] : k \in {k \in DOMAIN cs : cs[k].id = i}}
        shelves == at(cs1, "folder") \cup {p[2] : p \in {p \in d.destroyed : p[1] = i}}
    IN  {h \in {"gone", "reborn", "moved", "strayed", "twinned"} :
           CASE h = "gone"    -> \E p \in d.destroyed : p[1] = i
             [] h = "reborn"  -> i \in d.created /\ "gone" \in past[i]
             [] h = "moved"   -> i \notin d.created /\ ~(shelves \subseteq at(contacts, "folder"))
             [] h = "strayed" -> \E a \in at(contacts \o cs1, "acct"), f \in shelves :
                                    a # FolderAccount[f]
             [] h = "twinned" -> Cardinality({k \in DOMAIN cs1 : cs1[k].id = i}) > 1}

Writes(l) == MapThenSumSet(LAMBDA a : l[a].counter, Account)

(* Fixture::mutate: record_transition advances the log of every account the
   diff touches; an empty diff records nothing. *)
Mutate(cs1, d) ==
    LET log1 == [a \in Account |-> IF SubDiff(cs1, d, a) = NoDiff THEN log[a]
                                   ELSE Advance(log[a], SubDiff(cs1, d, a))]
    IN  /\ Writes(log1) <= MaxWrites
        /\ contacts' = cs1 /\ log' = log1
        /\ client' = [client EXCEPT !.doubts = @ \cup {h \in {"disturbed"} : Disturbs(d)}]
        /\ past' = [i \in Id |-> past[i] \cup PastOf(cs1, d, i)]

Mint == FixtureIds + seq + 1

-----------------------------------------------------------------------------
(* Tags. *)

LastTo(hits) == IF hits = {} THEN Seed ELSE CHOOSE n \in hits : \A m \in hits : m <= n

(* last_state_touching_contact: the newest retained transition that names the id
   in the log of the account its first contact belongs to, else the seed. *)
EtagOfCreation(i) ==
    LET k == IdAt(contacts, i)
        ring == log[contacts[k].acct].ring
    IN  IF k = 0 THEN Seed
        ELSE LastTo({ring[n].to : n \in {n \in DOMAIN ring : i \in ring[n].created}})
Etag(i) ==
    LET k == IdAt(contacts, i)
        ring == log[contacts[k].acct].ring
        names(t) == i \in t.created \cup t.updated \/ \E p \in t.destroyed : p[1] = i
    IN  IF k = 0 THEN Seed ELSE LastTo({ring[n].to : n \in {n \in DOMAIN ring : names(ring[n])}})

(* last_state_touching_addressbook: created and updated ids count through the
   book they are in now, destroyed ones through the captured parent. *)
CtagIgnoresDestroys(f) ==
    LET ring == log[FolderAccount[f]].ring
        touches(t) == \E k \in DOMAIN contacts : contacts[k].id \in t.created \cup t.updated
                                                /\ contacts[k].folder = f
    IN  LastTo({ring[n].to : n \in {n \in DOMAIN ring : touches(ring[n])}})
Ctag(f) ==
    LET ring == log[FolderAccount[f]].ring
        touches(t) ==
            \/ \E k \in DOMAIN contacts : contacts[k].id \in t.created \cup t.updated
                                          /\ contacts[k].folder = f
            \/ \E p \in t.destroyed : p[2] = f
    IN  LastTo({ring[n].to : n \in {n \in DOMAIN ring : touches(ring[n])}})

-----------------------------------------------------------------------------
(* ContactCard/set.  Each map holds at most one entry here: a call is a create
   << >> or <<account, folder, card>>, an update << >> or <<id, patch>>, and the
   id to destroy or 0. *)

(* build_contact_from_create: the address book must belong to the account of the
   request, else notCreated. *)
BuildContact(new) ==
    IF new # << >> /\ FolderAccount[new[2]] = new[1]
    THEN <<[id |-> Mint, acct |-> new[1], folder |-> new[2], card |-> new[3]]>> ELSE << >>

(* apply_contact_patch: a card, a folder or both; the folder may be of any
   account, the contact's own account stays. *)
Patched(c, p) == [c EXCEPT !.card = IF p.card = None THEN @ ELSE p.card,
                           !.folder = IF p.folder = None THEN @ ELSE p.folder]

(* Creates, then updates, then destroys, each on the contacts the one before
   left; updates and destroys take the first contact of an id, of any account. *)
ContactCardSet(new, upd, del) ==
    LET built == BuildContact(new)
        cs1 == contacts \o built
        u   == IF upd = << >> THEN 0 ELSE IdAt(cs1, upd[1])
        cs2 == IF u = 0 THEN cs1 ELSE [cs1 EXCEPT ![u] = Patched(@, upd[2])]
        x   == IdAt(cs2, del)
        cs3 == IF x = 0 THEN cs2 ELSE RemoveAt(cs2, x)
    IN  /\ seq + Len(built) <= MaxMinted
        /\ seq' = seq + Len(built)
        /\ Mutate(cs3, [created   |-> {built[k].id : k \in DOMAIN built},
                        updated   |-> {upd[1] : k \in {u} \ {0}},
                        destroyed |-> {<<del, cs2[k].folder>> : k \in {x} \ {0}}])
        /\ UNCHANGED held

-----------------------------------------------------------------------------
(* Graph and Google People: the contact of that account and id. *)

(* create_contact: the folder is resolved among those of the account in the
   path. *)
GraphCreate(a, f, card) ==
    /\ FolderAccount[f] = a
    /\ seq < MaxMinted /\ seq' = seq + 1
    /\ Mutate(Append(contacts, [id |-> Mint, acct |-> a, folder |-> f, card |-> card]),
              [NoDiff EXCEPT !.created = {Mint}])
    /\ UNCHANGED held

(* update_contact_core: 404 and an empty diff when there is none. *)
GraphUpdate(a, i, card) ==
    LET k == OwnAt(contacts, a, i)
    IN  /\ k # 0
        /\ Mutate([contacts EXCEPT ![k].card = card], [NoDiff EXCEPT !.updated = {i}])
        /\ UNCHANGED <<seq, held>>

(* delete_contact_core: every contact of that account and id goes, the folder of
   the first is captured. *)
GraphDelete(a, i) ==
    LET k == OwnAt(contacts, a, i)
    IN  /\ k # 0
        /\ Mutate(SelectSeq(contacts, LAMBDA c : ~(c.acct = a /\ c.id = i)),
                  [NoDiff EXCEPT !.destroyed = {<<i, contacts[k].folder>>}])
        /\ UNCHANGED <<seq, held>>

(* :updateContact, with the presence check and the write under one lock. *)
PeopleUpdate(a, i, card) == GraphUpdate(a, i, card)

(* :deleteContact, likewise. *)
PeopleDelete(a, i) == GraphDelete(a, i)

-----------------------------------------------------------------------------
(* CardDAV. *)

(* GET of a card: the body and its ETag.  The reader of a card and the syncing
   client do not meet, so a behaviour has one or the other. *)
CarddavGet(f, i) ==
    LET k == ShelvedAt(contacts, f, i)
    IN  /\ client.phase = "idle"
        /\ k # 0 /\ contacts[k].acct = FolderAccount[f]
        /\ held' = [id |-> i, folder |-> f, etag |-> Etag(i), card |-> contacts[k].card]
        /\ UNCHANGED <<contacts, seq, log, client, past>>

(* The preconditions of a write: none, If-None-Match: * (there must be no such
   resource), If-Match with the ETag the client holds. *)
Precondition(cond, i, exists) ==
    CASE cond = "none"   -> TRUE
      [] cond = "absent" -> ~exists
      [] cond = "match"  -> exists /\ held # None /\ held.id = i /\ held.etag = Etag(i)

(* PUT: replaces the card this book holds under the id, else adds one, whether
   or not another book holds that id. *)
CarddavPut(f, i, card, cond) ==
    LET k == ShelvedAt(contacts, f, i)
        new == [id |-> i, acct |-> FolderAccount[f], folder |-> f, card |-> card]
    IN  /\ Precondition(cond, i, k # 0)
        /\ IF k = 0
           THEN Mutate(Append(contacts, new), [NoDiff EXCEPT !.created = {i}])
           ELSE Mutate([contacts EXCEPT ![k] = new], [NoDiff EXCEPT !.updated = {i}])
        /\ UNCHANGED <<seq, held>>

CarddavDelete(f, i, cond) ==
    LET k == SelectInSeq(contacts, LAMBDA c :
                c.id = i /\ c.folder = f /\ c.acct = FolderAccount[f])
    IN  /\ k # 0 /\ Precondition(cond, i, TRUE)
        /\ Mutate(RemoveAt(contacts, k), [NoDiff EXCEPT !.destroyed = {<<i, f>>}])
        /\ UNCHANGED <<seq, held>>

-----------------------------------------------------------------------------
(* The contact operations of a change-script step: a create needs a folder and an
   id nothing else has, an update keeps the folder, a destroy takes every contact
   of the id. *)

ScriptCreate(f, i, card) ==
    /\ IdAt(contacts, i) = 0
    /\ Mutate(Append(contacts, [id |-> i, acct |-> FolderAccount[f], folder |-> f, card |-> card]),
              [NoDiff EXCEPT !.created = {i}])
    /\ UNCHANGED <<seq, held>>

(* apply_contact_patch: naming another folder fails the step. *)
ScriptPatched(c, card) == [c EXCEPT !.card = card]

ScriptUpdate(i, card) ==
    LET k == IdAt(contacts, i)
    IN  /\ k # 0
        /\ Mutate([contacts EXCEPT ![k] = ScriptPatched(@, card)], [NoDiff EXCEPT !.updated = {i}])
        /\ UNCHANGED <<seq, held>>

ScriptDestroy(i) ==
    LET k == IdAt(contacts, i)
    IN  /\ k # 0
        /\ Mutate(SelectSeq(contacts, LAMBDA c : c.id # i),
                  [NoDiff EXCEPT !.destroyed = {<<i, contacts[k].folder>>}])
        /\ UNCHANGED <<seq, held>>

-----------------------------------------------------------------------------
(* Deltas. *)

Ids(pairs) == {p[1] : p \in pairs}

(* contact_delta_since: tombstones by captured folder, created and updated ids
   of the whole account. *)
FolderDelta(f, since) == DeltaSinceFilteredDestroys(log[FolderAccount[f]], since, f)

(* contact_delta_since_any. *)
AnyDelta(a, since) ==
    LET l == log[a]
        W == Window(l, since)
    IN  CASE since = StateOf(l) -> EmptyDelta
          [] since # StateOf(l) /\ ~Known(l, since) -> Unknown
          [] OTHER -> Dominance(Created(l, W), Updated(l, W), Ids(Destroyed(l, W)))

(* account_contact_delta: the union over the folders of the account. *)
FoldersOf(a) == {f \in Folder : FolderAccount[f] = a}
AccountDeltaOfOne(a, since) ==
    IF FoldersOf(a) = {} THEN AnyDelta(a, since)
    ELSE FolderDelta(CHOOSE f \in FoldersOf(a) : TRUE, since)
AccountDelta(a, since) ==
    LET ds == {FolderDelta(f, since) : f \in FoldersOf(a)}
    IN  IF FoldersOf(a) = {} THEN AnyDelta(a, since)
        ELSE IF Unknown \in ds THEN Unknown
        ELSE [created   |-> UNION {d.created : d \in ds},
              updated   |-> UNION {d.updated : d \in ds},
              destroyed |-> UNION {d.destroyed : d \in ds}]

-----------------------------------------------------------------------------
(* The client. *)

(* What the listing of each surface pages through: Graph and CardDAV one folder,
   People the account sorted by id, JMAP the account. *)
Listing(c) ==
    CASE c.kind \in {"graph", "carddav"} -> InFolder(contacts, c.acct, c.folder)
      [] c.kind = "people" -> SortSeq(ContactsFor(contacts, c.acct), LAMBDA x, y : x.id < y.id)
      [] c.kind = "jmap" -> ContactsFor(contacts, c.acct)

Upsert(m, cs) == [i \in Id |-> IF IdAt(cs, i) = 0 THEN m[i] ELSE ByIds(cs)[i]]

(* The mirror after a delta d: created and updated ids that the listing still
   has are stored, destroyed ones dropped. *)
Applied(m, d, cs) ==
    [i \in Id |-> IF i \in d.destroyed THEN None
                  ELSE IF i \in d.created \cup d.updated /\ IdAt(cs, i) # 0 THEN ByIds(cs)[i]
                  ELSE m[i]]

(* A page at the offset of the client: the token comes with the last one. *)
Page(c) ==
    LET cs == Listing(c)
        end == IF c.offset + PageSize < Len(cs) THEN c.offset + PageSize ELSE Len(cs)
        m == Upsert(c.mirror, SubSeq(cs, c.offset + 1, end))
    IN  IF end < Len(cs) THEN [c EXCEPT !.phase = "paging", !.offset = end, !.mirror = m]
        ELSE [c EXCEPT !.phase = "synced", !.offset = 0, !.mirror = m,
                       !.token = StateOf(log[c.acct])]

(* ContactCard/get of everything, or a Depth:0 CTag and the addressbook-query. *)
Fetched(c) ==
    [c EXCEPT !.phase = "synced", !.mirror = ByIds(Listing(c)),
              !.token = IF c.kind = "carddav" THEN Ctag(c.folder) ELSE StateOf(log[c.acct])]

Start(kind, f) ==
    LET c == [Idle EXCEPT !.kind = kind, !.folder = f, !.acct = FolderAccount[f]]
    IN  /\ client.phase = "idle" /\ held = None
        /\ client' = IF kind \in {"graph", "people"} THEN Page(c) ELSE Fetched(c)
        /\ UNCHANGED <<contacts, seq, log, held, past>>

(* The next page.  People refuses an offset past the end with a 400, and the
   client starts over; Graph answers an empty last page. *)
NextPage ==
    /\ client.phase = "paging"
    /\ client' = IF client.kind = "people" /\ client.offset > Len(Listing(client))
                 THEN Idle ELSE Page(client)
    /\ UNCHANGED <<contacts, seq, log, held, past>>

(* The seed is accepted as a token even when the transitions after it are gone. *)
Blind(c) == c.token = Seed /\ Floor(log[c.acct]) > 0

Followed(c, d) ==
    [c EXCEPT !.mirror = Applied(@, d, Listing(c)), !.token = StateOf(log[c.acct]),
              !.doubts = @ \cup {h \in {"blind"} : Blind(c)}]

(* delta_contacts: a known token gives a delta; any other is taken for the start
   of a listing, and the client stores its pages over what it has. *)
GraphSync(c) ==
    LET d == FolderDelta(c.folder, c.token)
    IN  IF d = Unknown THEN Page([c EXCEPT !.offset = 0, !.doubts = {"rebased"}])
        ELSE Followed(c, d)

(* list_connections with a syncToken, ContactCard/changes with the get of what it
   names: an unknown token is refused and the client starts over. *)
PeopleSync(c) == LET d == AnyDelta(c.acct, c.token)
                 IN  IF d = Unknown THEN Idle ELSE Followed(c, d)
JmapSync(c) == LET d == AccountDelta(c.acct, c.token)
               IN  IF d = Unknown THEN Idle ELSE Followed(c, d)

(* A CardDAV client lists the book again when its CTag has changed. *)
CarddavSync(c) == IF Ctag(c.folder) = c.token THEN c ELSE Fetched(c)

Sync ==
    /\ client.phase = "synced"
    /\ client' = CASE client.kind = "graph"   -> GraphSync(client)
                   [] client.kind = "people"  -> PeopleSync(client)
                   [] client.kind = "jmap"    -> JmapSync(client)
                   [] client.kind = "carddav" -> CarddavSync(client)
    /\ UNCHANGED <<contacts, seq, log, held, past>>

-----------------------------------------------------------------------------

Kind == {"graph", "people", "jmap", "carddav"}
Cond == {"none", "absent", "match"}

Write ==
    \/ \E new \in {<< >>} \cup (Account \X Folder \X NewCards),
          upd \in {<< >>} \cup (Id \X Patches), del \in Id \cup {0} :
            /\ new = << >> \/ (upd = << >> /\ del = 0)
            /\ upd # << >> => del \in {0, upd[1]}
            /\ ContactCardSet(new, upd, del)
    \/ \E a \in Account, f \in Folder, card \in NewCards : GraphCreate(a, f, card)
    \/ \E a \in Account, i \in Id, card \in Edits : GraphUpdate(a, i, card)
    \/ \E a \in Account, i \in Id : GraphDelete(a, i)
    \/ \E a \in Account, i \in Id, card \in Edits : PeopleUpdate(a, i, card)
    \/ \E a \in Account, i \in Id : PeopleDelete(a, i)
    \/ \E f \in Folder, i \in 1..FixtureIds, card \in Edits, cond \in Cond :
            CarddavPut(f, i, card, cond)
    \/ \E f \in Folder, i \in Id, cond \in {"none", "match"} : CarddavDelete(f, i, cond)
    \/ \E f \in Folder, i \in 1..FixtureIds, card \in NewCards : ScriptCreate(f, i, card)
    \/ \E i \in Id, card \in Edits : ScriptUpdate(i, card)
    \/ \E i \in Id : ScriptDestroy(i)

Next ==
    \/ Writes(log) < MaxWrites /\ Write
    \/ \E f \in Folder, i \in Id : CarddavGet(f, i)
    \/ \E kind \in Kind, f \in Watched : Start(kind, f)
    \/ NextPage
    \/ Sync

Spec == Init /\ [][Next]_vars

-----------------------------------------------------------------------------
(* Properties. *)

(* The state stays well typed and every ring holds the last transitions of its
   account, none missing. *)
TypeOK ==
    /\ contacts \in Seq(Contact) /\ seq \in 0..MaxMinted
    /\ \A a \in Account : /\ log[a].counter \in 0..MaxWrites
                          /\ Contiguous(log[a])
    /\ client.phase \in {"idle", "paging", "synced"}
    /\ client.mirror \in [Id -> Card \cup {None}]

(* The ids a listing kind cannot follow: a book that loses a contact to another
   one says nothing of it, one shelved in a book of another account is logged
   there, and a second contact under the same id hides the first. *)
Beyond(kind) ==
    {"strayed", "twinned"} \cup (IF kind \in {"graph", "carddav"} THEN {"moved"} ELSE {})

Agrees(i) == client.mirror[i] = ByIds(Listing(client))[i]
Synced(kinds) == client.phase = "synced" /\ client.kind \in kinds

(* A client that paged through a listing undisturbed and then followed the delta
   tokens holds exactly the contacts of the server whenever its token is the
   current one: nothing is lost between the last page and the token it carries,
   and no delta drops a change of a contact.  Left out: an id deleted and created
   again, whose two entries cancel, and, for Graph, contacts deleted before a
   token that was evicted, which its new listing does not mention. *)
MirrorExact ==
    /\ Synced({"graph", "people", "jmap"})
    /\ client.token = StateOf(log[client.acct])
    /\ client.doubts \subseteq {"rebased"}
    => \A i \in Id : past[i] \cap (Beyond(client.kind) \cup {"reborn"}) = {} =>
         \/ Agrees(i)
         \/ client.doubts = {"rebased"} /\ ByIds(Listing(client))[i] = None

(* The rings keep every transition they retain, and so a client's mirror is
   exact. *)
MirrorSound == TypeOK /\ MirrorExact

(* A CardDAV client whose CTag is the current one holds exactly the book, so the
   Depth:0 check may skip the listing.  The seed is left out: it comes back when
   the last change of the book is evicted. *)
CtagCovers ==
    Synced({"carddav"}) /\ client.token = Ctag(client.folder) /\ ~Blind(client)
    => \A i \in Id : past[i] \cap Beyond("carddav") = {} => Agrees(i)

(* If-Match never lets a client overwrite or delete a card it has not read: under
   the ETag it holds there are the contents it read, whichever protocol wrote
   them.  The seed, the ETag after eviction, is left out. *)
EtagIdentifies ==
    LET k == ShelvedAt(contacts, held.folder, held.id)
    IN  held # None /\ k # 0 /\ held.etag = Etag(held.id) /\ held.etag # Seed
        /\ past[held.id] \cap {"strayed", "twinned"} = {}
        => contacts[k].card = held.card

=============================================================================
