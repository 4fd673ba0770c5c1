---------------------------- MODULE CalendarStore ----------------------------
(***************************************************************************)
(* Calendars and events of a multi-account Fixture.  They are written      *)
(* through JMAP CalendarEvent/set (src/src/jmap_calendar.rs), Graph        *)
(* (src/src/graph/calendar.rs), Google Calendar (src/src/gcal/events.rs),  *)
(* CalDAV (src/src/caldav/mod.rs) and the change script                    *)
(* (src/src/test_admin.rs), and read through per-calendar deltas,          *)
(* CalendarEvent/changes, Calendar/changes, ETags and CTags.               *)
(*                                                                         *)
(* An event carries an account and a calendar; what happens to it is       *)
(* logged with the account of its calendar.  The two can part: a deleted   *)
(* calendar keeps its events, a patch may name any calendar, and CalDAV    *)
(* looks for an id in one calendar only, so ids repeat.                    *)
(*                                                                         *)
(* The Graph and Google verbs look the resource up under a read lock, read *)
(* the body and write under a later write lock.  A look-up leaves no trace, *)
(* so `checked` remembers which ones could have succeeded, and a write     *)
(* section may follow any of them, however late.                           *)
(***************************************************************************)
EXTENDS ChangeRing, FiniteSets, SequencesExt, TLC

CONSTANTS
    Account, Primary,
    Calendar,
    InitialOwner,   \* [Calendar -> Account \cup {None}]
    Makers,         \* the accounts whose principals send MKCALENDAR
    Status, None,   \* what an attendee can answer; None: the account is not invited
    Star,           \* If-Match: *
    FixtureIds,     \* ids 1..FixtureIds are declared or chosen by a CalDAV client
    MaxMinted,      \* bound on synthetic_event_seq
    Patches,        \* the patches CalendarEvent/set is given
    InitialEvents,  \* the events of the loaded fixture
    MaxWrites       \* bound on the sum of the accounts' counters

Id == 1..(FixtureIds + MaxMinted)
Event == [id : Id, acct : Account, cal : Calendar, text : [Account -> Nat],
          status : Status \cup {None}]

(* What the loader accepts: ids are declared and distinct, an event's calendar is
   declared and gives it its account. *)
Loadable(own, evs) ==
    /\ \A i, j \in DOMAIN evs : evs[i].id = evs[j].id => i = j
    /\ \A i \in DOMAIN evs : evs[i].id <= FixtureIds /\ own[evs[i].cal] = evs[i].acct

ASSUME CalendarAssumption ==
    /\ Primary \in Account /\ None \notin Account \cup Calendar \cup Status
    /\ InitialOwner \in [Calendar -> Account \cup {None}]
    /\ Patches \subseteq [text : BOOLEAN, status : Status \cup {None},
                          cal : Calendar \cup {None}]
    /\ InitialEvents \in Seq(Event) /\ Loadable(InitialOwner, InitialEvents)
    /\ Makers \subseteq Account
    /\ FixtureIds \in Nat /\ MaxMinted \in Nat /\ MaxWrites \in Nat

VARIABLES
    owner,      \* account_id of each calendar that exists, None for the others
    events,     \* Fixture::events
    seq,        \* synthetic_event_seq
    log,        \* Fixture::account_logs
    checked,    \* the look-ups that have succeeded so far
    snap,       \* history: snap[a][n + 1], what account a held at its token n
    served,     \* history: the resources CalDAV has served
    past        \* history: what happened to each id

vars == <<owner, events, seq, log, checked, snap, served, past>>

-----------------------------------------------------------------------------
(* Reading the vector.  A position is 0 when there is none. *)

EventsFor(es, a) == {k \in DOMAIN es : es[k].acct = a}
IdAt(es, i) == SelectInSeq(es, LAMBDA e : e.id = i)
LastIdAt(es, i) == SelectLastInSeq(es, LAMBDA e : e.id = i)
OwnAt(es, a, i) == SelectInSeq(es, LAMBDA e : e.acct = a /\ e.id = i)
HeldAt(es, c, i) == SelectInSeq(es, LAMBDA e : e.cal = c /\ e.id = i)

(* The members of s that are in S, in the order of s. *)
Only(s, S) ==
    LET kept[n \in 0..Len(s)] ==
          IF n = 0 THEN << >>
          ELSE IF s[n] \in S THEN Append(kept[n - 1], s[n]) ELSE kept[n - 1]
    IN  kept[Len(s)]

Contents(e) == <<e.text, e.status>>

(* What Graph and Google list of calendar c of account a. *)
View(es, a, c) == {<<es[k].id, Contents(es[k])>> : k \in {k \in EventsFor(es, a) : es[k].cal = c}}

(* cal_to_acct: a calendar that no longer exists falls back to the primary. *)
AccountOfCalendar(ow, c) == IF ow[c] = None THEN Primary ELSE ow[c]

(* resolve_event: through the last event of that id. *)
AccountOfEvent(ow, es, i) ==
    IF IdAt(es, i) = 0 THEN Primary ELSE AccountOfCalendar(ow, es[LastIdAt(es, i)].cal)

-----------------------------------------------------------------------------
(* Tags. *)

LastTo(hits) == IF hits = {} THEN Seed ELSE CHOOSE n \in hits : \A m \in hits : m <= n

(* last_state_touching_event: the newest retained transition that names the id
   in the log of its calendar's account, else the seed. *)
EtagIgnoresUpdates(ow, l, es, i) ==
    LET k == IdAt(es, i)
        ring == l[ow[es[k].cal]].ring
        names(t) == i \in t.created \/ \E p \in t.destroyed : p[1] = i
    IN  IF k = 0 \/ ow[es[k].cal] = None THEN Seed
        ELSE LastTo({ring[n].to : n \in {n \in DOMAIN ring : names(ring[n])}})
Etag(ow, l, es, i) ==
    LET k == IdAt(es, i)
        ring == l[ow[es[k].cal]].ring
        names(t) == i \in t.created \cup t.updated \/ \E p \in t.destroyed : p[1] = i
    IN  IF k = 0 \/ ow[es[k].cal] = None THEN Seed
        ELSE LastTo({ring[n].to : n \in {n \in DOMAIN ring : names(ring[n])}})

(* last_state_touching_calendar: created and updated ids count through the
   calendar they are in now, destroyed ones through the captured parent. *)
TouchesLive(es, t, c) == \E k \in DOMAIN es : es[k].id \in t.created \cup t.updated /\ es[k].cal = c
CtagIgnoresDestroys(ow, l, es, c) ==
    LET ring == l[ow[c]].ring
    IN  LastTo({ring[n].to : n \in {n \in DOMAIN ring : TouchesLive(es, ring[n], c)}})
Ctag(ow, l, es, c) ==
    LET ring == l[ow[c]].ring
    IN  LastTo({ring[n].to : n \in {n \in DOMAIN ring :
                    TouchesLive(es, ring[n], c) \/ \E p \in ring[n].destroyed : p[2] = c}})

(* The rows of calendar-multiget, calendar-query and GET.  A resource is reached
   in the calendar home of the account that owns its calendar; the event may still
   belong to another account. *)
Served(ow, l, es) ==
    {[home |-> ow[es[k].cal], cal |-> es[k].cal, id |-> es[k].id, acct |-> es[k].acct,
      etag |-> Etag(ow, l, es, es[k].id), contents |-> Contents(es[k])] :
        k \in {k \in DOMAIN es : ow[es[k].cal] # None}}

(* if_match_matches: no header, the wildcard, or a tag to compare with the
   current ETag. *)
IfMatch(tag, k, i) ==
    \/ tag = None
    \/ k # 0 /\ (tag = Star \/ tag = Etag(owner, log, events, i))

-----------------------------------------------------------------------------
(* Recording. *)

EventDiff(created, updated, destroyed) ==
    [created |-> created, updated |-> updated, destroyed |-> destroyed,
     made |-> {}, dropped |-> {}]
CalendarDiff(made, dropped) ==
    [created |-> {}, updated |-> {}, destroyed |-> {}, made |-> made, dropped |-> dropped]
NoDiff == EventDiff({}, {}, {})

(* The part of a diff that goes to account a: destroyed ids carry the calendar
   captured when they were removed, dropped calendars their account. *)
SubDiff(ow, es, d, a) ==
    [created   |-> {i \in d.created : AccountOfEvent(ow, es, i) = a},
     updated   |-> {i \in d.updated : AccountOfEvent(ow, es, i) = a},
     destroyed |-> {p \in d.destroyed : AccountOfCalendar(ow, p[2]) = a},
     made      |-> {c \in d.made : ow[c] = a},
     dropped   |-> {p[1] : p \in {p \in d.dropped : p[2] = a}}]

(* transition_from_diff. *)
EventTransition(from, d) ==
    [from |-> from, to |-> from + 1, created |-> d.created, updated |-> d.updated,
     destroyed |-> d.destroyed, made |-> d.made, dropped |-> d.dropped]

RecordTransition(ow, es, d) ==
    [a \in Account |->
        LET s == SubDiff(ow, es, d, a)
        IN  IF s = NoDiff THEN log[a]
            ELSE [counter |-> log[a].counter + 1,
                  ring |-> Push(log[a].ring, EventTransition(log[a].counter, s))]]

Held(ow, es, a) ==
    [cals |-> {c \in Calendar : ow[c] = a},
     events |-> {<<es[k].cal, es[k].id, Contents(es[k])>> : k \in EventsFor(es, a)}]

(* The look-ups that succeed now: <<account, calendar>> of calendars_for, and
   <<account, calendar, id>> of events_for. *)
Found(ow, es) ==
    [cals |-> {<<ow[c], c>> : c \in {c \in Calendar : ow[c] # None}},
     events |-> {<<es[k].acct, es[k].cal, es[k].id>> : k \in DOMAIN es}]

(* What a write that leaves the events es1 does to the id i: `where` are the
   calendars it is in or was removed from. *)
PastOf(ow1, es1, d, i) ==
    LET at(es, x) == {es[k][x] : k \in {k \in DOMAIN es : es[k].id = i}}
        where == at(es1, "cal") \cup {p[2] : p \in {p \in d.destroyed : p[1] = i}}
        written == i \in d.created \cup d.updated \/ \E p \in d.destroyed : p[1] = i
    IN  {h \in {"gone", "flitted", "reborn", "moved", "strayed", "twinned"} :
           CASE h = "gone"    -> \E p \in d.destroyed : p[1] = i
             [] h = "flitted" -> /\ i \in d.created \cup d.updated
                                 /\ \E p \in d.destroyed : p[1] = i /\ p[2] \notin at(events, "cal")
             [] h = "reborn"  -> i \in d.created /\ "gone" \in past[i]
             [] h = "moved"   -> i \notin d.created /\ ~(where \subseteq at(events, "cal"))
             [] h = "strayed" -> written /\ \E a \in at(events \o es1, "acct"), c \in where :
                                    a # AccountOfCalendar(ow1, c)
             [] h = "twinned" -> \E j, k \in DOMAIN es1 :
                                    j # k /\ es1[j].id = i /\ es1[k].id = i}

Writes(l) == MapThenSumSet(LAMBDA a : l[a].counter, Account)

(* Fixture::mutate: the log of every account the diff touches advances; an empty
   diff records nothing. *)
Mutate(ow1, es1, d) ==
    LET log1 == RecordTransition(ow1, es1, d)
    IN  /\ Writes(log1) <= MaxWrites
        /\ owner' = ow1 /\ events' = es1 /\ log' = log1
        /\ checked' = [cals |-> checked.cals \cup Found(ow1, es1).cals,
                       events |-> checked.events \cup Found(ow1, es1).events]
        /\ snap' = [a \in Account |-> IF log1[a].counter = log[a].counter THEN snap[a]
                                      ELSE Append(snap[a], Held(ow1, es1, a))]
        /\ served' = served \cup Served(ow1, log1, es1)
        /\ past' = [i \in Id |-> past[i] \cup PastOf(ow1, es1, d, i)]

(* A value no event holds yet, for the text of a write: the next tokens. *)
Fresh == [a \in Account |-> log[a].counter + 1]
Mint == FixtureIds + seq + 1

Init ==
    /\ owner = InitialOwner
    /\ events = InitialEvents
    /\ seq = 0
    /\ log = [a \in Account |-> EmptyLog]
    /\ checked = Found(InitialOwner, InitialEvents)
    /\ snap = [a \in Account |-> <<Held(InitialOwner, InitialEvents, a)>>]
    /\ served = Served(InitialOwner, log, InitialEvents)
    /\ past = [i \in Id |-> {}]

-----------------------------------------------------------------------------
(* CalendarEvent/set.  Each map holds at most one entry here: a call creates in
   the calendar `new` (None: no create), updates << >> or <<id, patch>>, and
   destroys the id `del` (0: none).  ifInState only refuses a call. *)

(* build_event_from_create: the calendar may be of any account and gives the
   event its own; an unknown one is notCreated. *)
BuildEvent(new) ==
    IF new # None /\ owner[new] # None
    THEN <<[id |-> Mint, acct |-> owner[new], cal |-> new, text |-> Fresh, status |-> None]>>
    ELSE << >>

(* apply_participant_path_patch: the answer of an attendee that is there. *)
Answered(e, status) == IF e.status = None THEN e ELSE [e EXCEPT !.status = status]

(* apply_event_patch: text, an answer, or a calendar, which nothing looks up; the
   account stays. *)
Patched(e, p) ==
    LET f == IF p.status = None THEN e ELSE Answered(e, p.status)
    IN  [f EXCEPT !.text = IF p.text THEN Fresh ELSE @,
                  !.cal = IF p.cal = None THEN @ ELSE p.cal]

(* Creates, then updates, then destroys, each on the events the one before left;
   updates and destroys take the first event of an id, of any account. *)
CalendarEventSet(new, upd, del) ==
    LET built == BuildEvent(new)
        es1 == events \o built
        u   == IF upd = << >> THEN 0 ELSE IdAt(es1, upd[1])
        es2 == IF u = 0 THEN es1 ELSE [es1 EXCEPT ![u] = Patched(@, upd[2])]
        x   == IdAt(es2, del)
        es3 == IF x = 0 THEN es2 ELSE RemoveAt(es2, x)
    IN  /\ seq + Len(built) <= MaxMinted
        /\ seq' = seq + Len(built)
        /\ Mutate(owner, es3, EventDiff(
                {e.id : e \in ToSet(built)},
                {upd[1] : k \in {u} \ {0}},
                {<<del, es2[k].cal>> : k \in {x} \ {0}}))

-----------------------------------------------------------------------------
(* Graph. *)

(* build_event_from_create: with the account of the path. *)
GraphEvent(a, c) == [id |-> Mint, acct |-> a, cal |-> c, text |-> Fresh, status |-> None]

(* apply_event_patch: any field but the calendar; a new list of attendees may
   leave the account out of it. *)
GraphPatched(e, invited) == [e EXCEPT !.text = Fresh, !.status = IF invited THEN @ ELSE None]

(* create_event_impl: the calendar is resolved again under the write lock. *)
GraphCreate(a, c) ==
    /\ <<a, c>> \in checked.cals /\ owner[c] = a
    /\ seq < MaxMinted /\ seq' = seq + 1
    /\ Mutate(owner, Append(events, GraphEvent(a, c)), EventDiff({Mint}, {}, {}))

(* patch_event_impl: looked up by account and id, and found again by them under
   the write lock; 404 when the event is gone by then.  GraphPatchStale is a
   PATCH that keeps the position of its look-up. *)
GraphPatchStale(a, i, invited) ==
    /\ \E k \in DOMAIN InitialEvents \cap DOMAIN events :
          /\ InitialEvents[k].acct = a /\ InitialEvents[k].id = i
          /\ Mutate(owner, [events EXCEPT ![k] = GraphPatched(@, invited)],
                    EventDiff({}, {i}, {}))
    /\ UNCHANGED seq
GraphPatch(a, i, invited) ==
    LET k == OwnAt(events, a, i)
    IN  /\ \E c \in Calendar : <<a, c, i>> \in checked.events
        /\ k # 0
        /\ Mutate(owner, [events EXCEPT ![k] = GraphPatched(@, invited)],
                  EventDiff({}, {i}, {}))
        /\ UNCHANGED seq

(* The write section of a DELETE by account and id: every such event goes, the
   calendar of the first is captured under the lock; nothing is recorded when
   there is none left. *)
DeleteOwnBlindly(a, i) ==
    LET k == OwnAt(events, a, i)
        c == IF k = 0 THEN CHOOSE c \in Calendar : <<a, c, i>> \in checked.events
             ELSE events[k].cal
    IN  /\ Mutate(owner, Only(events, {e \in Event : ~(e.acct = a /\ e.id = i)}),
                  EventDiff({}, {}, {<<i, c>>}))
        /\ UNCHANGED seq
DeleteOwn(a, i) ==
    LET k == OwnAt(events, a, i)
    IN  /\ k # 0
        /\ Mutate(owner, Only(events, {e \in Event : ~(e.acct = a /\ e.id = i)}),
                  EventDiff({}, {}, {<<i, events[k].cal>>}))
        /\ UNCHANGED seq

(* delete_event_impl: looked up by account and id. *)
GraphDelete(a, i) == (\E c \in Calendar : <<a, c, i>> \in checked.events) /\ DeleteOwn(a, i)

(* rsvp_impl: sets the account's own answer; recorded only when it changes. *)
Rsvp(a, i, s) ==
    LET k == OwnAt(events, a, i)
    IN  /\ k # 0 /\ events[k].status \notin {None, s}
        /\ Mutate(owner, [events EXCEPT ![k].status = s], EventDiff({}, {i}, {}))
        /\ UNCHANGED seq

-----------------------------------------------------------------------------
(* Google Calendar. *)

(* build_event_from_create: with the account of the calendar. *)
GcalEvent(c) == [id |-> Mint, acct |-> AccountOfCalendar(owner, c), cal |-> c,
                 text |-> Fresh, status |-> None]

(* apply_event_patch: any field but the calendar. *)
GcalPatched(e, invited) == [e EXCEPT !.text = Fresh, !.status = IF invited THEN @ ELSE None]

(* create_event: the calendar is not looked up again, so the event can land in
   one that was deleted, with the primary account. *)
GcalCreate(a, c) ==
    /\ <<a, c>> \in checked.cals
    /\ seq < MaxMinted /\ seq' = seq + 1
    /\ Mutate(owner, Append(events, GcalEvent(c)), EventDiff({Mint}, {}, {}))

(* patch_event and delete_event: looked up in the calendar, then written by
   account and id wherever the event is by then. *)
GcalPatch(a, c, i, invited) ==
    LET k == OwnAt(events, a, i)
    IN  /\ <<a, c, i>> \in checked.events
        /\ k # 0
        /\ Mutate(owner, [events EXCEPT ![k] = GcalPatched(@, invited)],
                  EventDiff({}, {i}, {}))
        /\ UNCHANGED seq
GcalDelete(a, c, i) == <<a, c, i>> \in checked.events /\ DeleteOwn(a, i)

-----------------------------------------------------------------------------
(* CalDAV. *)

(* PUT: replaces the event its calendar holds under the id, else adds one, whether
   or not another calendar holds that id.  The calendar is looked up again, and
   If-Match compared, under the write lock. *)
CaldavPut(a, c, i, tag) ==
    LET k == HeldAt(events, c, i)
        new == [id |-> i, acct |-> a, cal |-> c, text |-> Fresh, status |-> None]
    IN  /\ <<a, c>> \in checked.cals /\ owner[c] = a
        /\ IfMatch(tag, k, i)
        /\ IF k = 0
           THEN Mutate(owner, Append(events, new), EventDiff({i}, {}, {}))
           ELSE Mutate(owner, [events EXCEPT ![k] = new], EventDiff({}, {i}, {}))
        /\ UNCHANGED seq

CaldavDelete(a, c, i, tag) ==
    LET k == HeldAt(events, c, i)
    IN  /\ owner[c] = a /\ k # 0 /\ IfMatch(tag, k, i)
        /\ Mutate(owner, RemoveAt(events, k), EventDiff({}, {}, {<<i, c>>}))
        /\ UNCHANGED seq

(* DELETE of a collection: the calendar goes, its events stay.
   DropCalendarUnowned is one that forgets to capture the account. *)
DropCalendarUnowned(a, c) ==
    /\ owner[c] = a
    /\ Mutate([owner EXCEPT ![c] = None], events, CalendarDiff({}, {<<c, Primary>>}))
    /\ UNCHANGED seq
DeleteCalendar(a, c) ==
    /\ owner[c] = a
    /\ Mutate([owner EXCEPT ![c] = None], events, CalendarDiff({}, {<<c, a>>}))
    /\ UNCHANGED seq

(* MKCALENDAR: refused when any account has a calendar of that id. *)
Mkcalendar(a, c) ==
    /\ owner[c] = None
    /\ Mutate([owner EXCEPT ![c] = a], events, CalendarDiff({c}, {}))
    /\ UNCHANGED seq

-----------------------------------------------------------------------------
(* The event operations of a change-script step: a create needs a calendar and
   an id nothing else has, a destroy takes every event of the id. *)

ScriptCreate(c, i) ==
    /\ owner[c] # None /\ IdAt(events, i) = 0
    /\ Mutate(owner,
              Append(events, [id |-> i, acct |-> owner[c], cal |-> c, text |-> Fresh,
                              status |-> None]),
              EventDiff({i}, {}, {}))
    /\ UNCHANGED seq

(* apply_change_event_patch: never the calendar or the attendees. *)
ScriptPatched(e) == [e EXCEPT !.text = Fresh]
ScriptUpdate(i) ==
    LET k == IdAt(events, i)
    IN  /\ k # 0
        /\ Mutate(owner, [events EXCEPT ![k] = ScriptPatched(@)], EventDiff({}, {i}, {}))
        /\ UNCHANGED seq

ScriptDestroy(i) ==
    LET k == IdAt(events, i)
    IN  /\ k # 0
        /\ Mutate(owner, Only(events, {e \in Event : e.id # i}),
                  EventDiff({}, {}, {<<i, events[k].cal>>}))
        /\ UNCHANGED seq

-----------------------------------------------------------------------------

(* The If-Match headers a client can have: none, the wildcard, or a tag it was
   served. *)
Tags(c, i) == {None, Star} \cup {r.etag : r \in {r \in served : r.cal = c /\ r.id = i}}

JmapCalls ==
    \E new \in Calendar \cup {None}, del \in {0} \cup Id :
        \E upd \in {<< >>} \cup (Id \X Patches) :
            CalendarEventSet(new, upd, del)

GraphVerbs ==
    \E a \in Account :
        \/ \E c \in Calendar : GraphCreate(a, c)
        \/ \E i \in Id, invited \in BOOLEAN : GraphPatch(a, i, invited)
        \/ \E i \in Id : GraphDelete(a, i)
        \/ \E i \in Id, s \in Status : Rsvp(a, i, s)

GcalVerbs ==
    \E a \in Account, c \in Calendar :
        \/ GcalCreate(a, c)
        \/ \E i \in Id, invited \in BOOLEAN : GcalPatch(a, c, i, invited)
        \/ \E i \in Id : GcalDelete(a, c, i)

CaldavVerbs ==
    \E a \in Account, c \in Calendar :
        \/ \E i \in 1..FixtureIds : \E tag \in Tags(c, i) : CaldavPut(a, c, i, tag)
        \/ \E i \in Id : \E tag \in Tags(c, i) : CaldavDelete(a, c, i, tag)
        \/ DeleteCalendar(a, c)
        \/ a \in Makers /\ Mkcalendar(a, c)

ScriptOps ==
    \/ \E c \in Calendar, i \in 1..FixtureIds : ScriptCreate(c, i)
    \/ \E i \in Id : ScriptUpdate(i) \/ ScriptDestroy(i)

Next ==
    /\ Writes(log) < MaxWrites
    /\ JmapCalls \/ GraphVerbs \/ GcalVerbs \/ CaldavVerbs \/ ScriptOps

Spec == Init /\ [][Next]_vars

-----------------------------------------------------------------------------
(* Readers. *)

Ids(pairs) == {p[1] : p \in pairs}

(* event_delta_since: tombstones by captured calendar, created and updated ids by
   the calendar they live in now (the last event of an id counts). *)
EventDeltaSince(c, since) ==
    LET d == DeltaSinceFilteredDestroys(log[owner[c]], since, c)
        here(S) == {i \in S : IdAt(events, i) # 0 /\ events[LastIdAt(events, i)].cal = c}
    IN  IF d = Unknown THEN Unknown
        ELSE [d EXCEPT !.created = here(@), !.updated = here(@)]

(* What a surface sends for a delta of calendar c: the live events among the
   created and updated ids, as a listing shows them, and the tombstones. *)
Sent(c, d) == [items |-> {r \in View(events, owner[c], c) : r[1] \in d.created \cup d.updated},
               gone  |-> d.destroyed]

(* calendarView/delta: an unknown token starts over with the whole calendar. *)
GraphDelta(c, since) ==
    LET d == EventDeltaSince(c, since)
    IN  IF d = Unknown THEN [items |-> View(events, owner[c], c), gone |-> {}] ELSE Sent(c, d)

(* events.list with a syncToken: an unknown token is refused with 410. *)
GcalDelta(c, since) ==
    LET d == EventDeltaSince(c, since)
    IN  IF since = StateOf(log[owner[c]]) THEN [items |-> {}, gone |-> {}]
        ELSE IF d = Unknown THEN Unknown ELSE Sent(c, d)

(* CalendarEvent/changes (event_delta_since_any). *)
CalendarEventChanges(a, since) ==
    LET l == log[a]
        W == Window(l, since)
    IN  CASE since = StateOf(l) -> EmptyDelta
          [] since # StateOf(l) /\ ~Known(l, since) -> Unknown
          [] OTHER -> Dominance(Created(l, W), Updated(l, W), Ids(Destroyed(l, W)))

(* Calendar/changes (calendar_delta_since_account). *)
CalendarChanges(a, since) ==
    LET l == log[a]
        W == Window(l, since)
    IN  CASE since = StateOf(l) -> EmptyDelta
          [] since # StateOf(l) /\ ~Known(l, since) -> Unknown
          [] OTHER -> Dominance(UNION {l.ring[n].made : n \in W}, {},
                                UNION {l.ring[n].dropped : n \in W})

-----------------------------------------------------------------------------
(* Properties. *)

Tokens(a) == Floor(log[a])..log[a].counter
Plain(i) == past[i] \cap {"strayed", "twinned", "reborn"} = {}

(* The state stays well typed, no ring outgrows its retention and every token
   handed out has its view. *)
TypeOK ==
    /\ owner \in [Calendar -> Account \cup {None}]
    /\ events \in Seq(Event) /\ seq \in 0..MaxMinted
    /\ \A a \in Account : /\ Len(log[a].ring) <= MAX_TRANSITIONS
                          /\ Len(snap[a]) = log[a].counter + 1

(* A client that syncs one calendar (Graph calendarView/delta, Google syncToken)
   and applies the answer for a remembered token ends up with exactly what the
   calendar holds, whichever surface wrote the events.  An event that was moved
   out leaves no tombstone; ids that exist twice, that came back, or whose
   calendar and account parted are exempt (the last are logged with another
   account). *)
CalendarDeltaComplete ==
    \A c \in {c \in Calendar : owner[c] # None} : \A t \in Tokens(owner[c]) :
        \A answer \in {GraphDelta(c, t), GcalDelta(c, t)} :
            LET then == {<<r[2], r[3]>> : r \in {r \in snap[owner[c]][t + 1].events : r[1] = c}}
                kept == {r \in then : r[1] \notin Ids(answer.items) \cup answer.gone}
                now == View(events, owner[c], c)
                judged(S) == {r \in S : Plain(r[1])
                                        /\ ("moved" \in past[r[1]] => r[1] \in Ids(now))}
            IN  judged(kept \cup answer.items) = judged(now)

(* The delta of one calendar never reports the destruction of an event of another
   one, although the log mixes the calendars of the account; one call may move an
   event into a calendar and destroy it there. *)
CalendarDeltaScoped ==
    \A c \in {c \in Calendar : owner[c] # None} : \A t \in Tokens(owner[c]) :
        \A i \in EventDeltaSince(c, t).destroyed :
            "flitted" \in past[i] \/ \E a \in Account : <<a, c, i>> \in checked.events

(* A client that follows one calendar can trust what it is told, in both
   directions: the well-typed logs tell it everything about its calendar and
   nothing about another. *)
CalendarDeltaSound == TypeOK /\ CalendarDeltaComplete /\ CalendarDeltaScoped

(* Calendar c was made or deleted more than once in the transitions W. *)
Flapped(l, W, c) ==
    \E m, n \in W : /\ m # n
                    /\ \/ c \in l.ring[m].made \cap l.ring[n].made
                       \/ c \in l.ring[m].dropped \cap l.ring[n].dropped

(* CalendarEvent/changes names every event of the account that differs from what
   a client with a remembered token saw, moves between the account's calendars
   included, and Calendar/changes takes the calendars of that token to those of
   today.  A calendar that flapped is left out: the answer cancels one that was
   made, deleted and made again. *)
JmapChangesComplete ==
    \A a \in Account : \A t \in Tokens(a) :
        LET d == CalendarEventChanges(a, t)
            k == CalendarChanges(a, t)
            then == snap[a][t + 1]
            now == Held(owner, events, a)
        IN  /\ \A r \in (now.events \ then.events) \cup (then.events \ now.events) :
                   Plain(r[2]) => r[2] \in d.created \cup d.updated \cup d.destroyed
            /\ \A c \in Calendar : ~Flapped(log[a], Window(log[a], t), c) =>
                   (c \in now.cals <=> c \in (then.cals \cup k.created) \ k.destroyed)

(* An ETag identifies contents: no two versions of a resource were ever served
   under the same ETag, so If-Match on PUT or DELETE never lets a client
   overwrite a version it has not seen.  The ETag of the seed is left out: it is
   given again to an event whose last change was evicted.  So are events that
   belong to another account than the home they are served in: their changes are
   in that account's log. *)
EtagIdentifies ==
    \A r, s \in served :
        /\ r.home = s.home /\ r.cal = s.cal /\ r.id = s.id /\ r.etag = s.etag
        /\ r.acct = r.home /\ s.acct = s.home /\ r.etag # Seed
        /\ past[r.id] \cap {"strayed", "twinned"} = {}
        => r.contents = s.contents

(* The CTag of a calendar changes with its contents, so that a client that polls
   it re-lists the calendar; only a step that moves an event out of the calendar
   to another one, or that is about an id that exists twice, may leave it. *)
CtagMoves ==
    [][\A c \in {c \in Calendar : owner[c] # None /\ owner'[c] = owner[c]} :
         LET then == View(events, owner[c], c)
             now == View(events', owner[c], c)
         IN  /\ then # now
             /\ \A r \in (then \ now) \cup (now \ then) : past'[r[1]] \cap {"twinned", "flitted"} = {}
             /\ \A k \in DOMAIN events : events[k].cal = c =>
                    \A j \in DOMAIN events' : events'[j].id = events[k].id => events'[j].cal = c
             => Ctag(owner', log', events', c) # Ctag(owner, log, events, c)]_vars

(* A tombstone is true however stale the look-up of the request: the event was in
   the captured calendar just before the step (or came there in the same call),
   and the id is gone after it, so two racing deletes leave one tombstone. *)
TombstonesTrue ==
    [][\A a \in Account : log'[a].counter > log[a].counter =>
         \A p \in log'[a].ring[Len(log'[a].ring)].destroyed :
             /\ \/ HeldAt(events, p[2], p[1]) # 0
                \/ "flitted" \in past'[p[1]]
             /\ IdAt(events', p[1]) = 0 \/ "twinned" \in past'[p[1]]]_vars

=============================================================================
