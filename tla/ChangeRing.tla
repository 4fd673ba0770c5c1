----------------------------- MODULE ChangeRing -----------------------------
(***************************************************************************)
(* One account's ChangeLog (src/src/fixture.rs): a bounded ring of         *)
(* transitions and a counter, and the walkers that read it.                *)
(*                                                                         *)
(* A state token is the string "{seed}.{counter}", or the bare seed while  *)
(* the counter is 0.  The seed is fixed for a load of the fixture and the  *)
(* two forms never coincide, so a token is represented by its counter and  *)
(* the bare seed by 0.  Id lists are sets: the walkers remove duplicates.  *)
(***************************************************************************)
EXTENDS Integers, Sequences

CONSTANT MAX_TRANSITIONS    \* retention of the ring (256 in the code)

ASSUME RetentionAssumption == MAX_TRANSITIONS \in Nat \ {0}

Seed == 0

(* The answer cannotCalculateChanges / 410 / 404 of the protocol surfaces. *)
Unknown == [refused |-> TRUE]

EmptyLog == [counter |-> 0, ring |-> << >>]

(* The state token that Fixture::state_for reports. *)
StateOf(log) == log.counter

Transition(from, diff) ==
    [from |-> from, to |-> from + 1, created |-> diff.created,
     updated |-> diff.updated, destroyed |-> diff.destroyed]

(* ChangeLog::push as it would be without the eviction of the oldest entry
   before a full ring grows, and as it would be if a full ring dropped the
   new entry. *)
PushNeverEvicts(ring, trans) == Append(ring, trans)
PushDropsNewest(ring, trans) ==
    IF Len(ring) >= MAX_TRANSITIONS THEN Append(Tail(ring), ring[Len(ring)])
    ELSE Append(ring, trans)

Push(ring, trans) ==
    IF Len(ring) >= MAX_TRANSITIONS THEN Append(Tail(ring), trans)
    ELSE Append(ring, trans)

(* ChangeLog::advance and ChangeLog::push, as record_transition chains them. *)
Advance(log, diff) ==
    [counter |-> log.counter + 1,
     ring |-> Push(log.ring, Transition(log.counter, diff))]

-----------------------------------------------------------------------------

EmptyDelta == [created |-> {}, updated |-> {}, destroyed |-> {}]

(* apply_dominance_and_dedup without the cancel pass. *)
DominanceNoCancel(c, u, d) ==
    [created |-> c, updated |-> u \ (c \cup d), destroyed |-> d]

(* apply_dominance_and_dedup: an id both created and destroyed is cancelled
   from both lists; what survives there dominates an update. *)
Dominance(c, u, d) ==
    LET cancel == c \cap d
    IN  [created   |-> c \ cancel,
         updated   |-> u \ ((c \ cancel) \cup (d \ cancel)),
         destroyed |-> d \ cancel]

(* The positions of the ring a walk from `since` visits: the walk starts at
   once for the seed, else at the first entry that leaves `since`. *)
WindowSkipsFirst(log, since) ==
    {i \in 1..Len(log.ring) :
        since = Seed \/ \E j \in 1..(i-1) : log.ring[j].from = since}
Window(log, since) ==
    {i \in 1..Len(log.ring) :
        since = Seed \/ \E j \in 1..i : log.ring[j].from = since}

Known(log, since) ==
    since = Seed \/ \E i \in 1..Len(log.ring) : log.ring[i].from = since

(* The three unions a walk accumulates before dominance. *)
Created(log, W)   == UNION {log.ring[i].created : i \in W}
Updated(log, W)   == UNION {log.ring[i].updated : i \in W}
Destroyed(log, W) == UNION {log.ring[i].destroyed : i \in W}

(* ChangeLog::delta_since. *)
DeltaSince(log, since) ==
    LET W == Window(log, since)
    IN  CASE since = StateOf(log)  -> EmptyDelta
          [] since # StateOf(log) /\ ~Known(log, since) -> Unknown
          [] OTHER -> Dominance(Created(log, W), Updated(log, W), Destroyed(log, W))

(* ChangeLog::delta_since_filtered_destroys, for logs that record a destroyed id
   with the parent it had: only the tombstones of one parent. *)
DeltaSinceFilteredDestroys(log, since, parent) ==
    LET W    == Window(log, since)
        gone == {p[1] : p \in {q \in Destroyed(log, W) : q[2] = parent}}
    IN  CASE since = StateOf(log)  -> EmptyDelta
          [] since # StateOf(log) /\ ~Known(log, since) -> Unknown
          [] OTHER -> Dominance(Created(log, W), Updated(log, W), gone)

(* The counter at the far end of the oldest retained transition: every
   token from here on can be answered from the ring. *)
Floor(log) == log.counter - Len(log.ring)

-----------------------------------------------------------------------------
(* The shape of a log over a set of ids, and what its ring must satisfy for
   the walkers to read it as the account's recent past: the last
   MAX_TRANSITIONS transitions, none missing, up to the current token. *)
Entry(Id) == [from : Nat, to : Nat, created : SUBSET Id,
              updated : SUBSET Id, destroyed : SUBSET Id]
Log(Id, bound) == [counter : 0..bound, ring : Seq(Entry(Id))]

Contiguous(log) ==
    /\ Len(log.ring) = IF log.counter < MAX_TRANSITIONS
                       THEN log.counter ELSE MAX_TRANSITIONS
    /\ \A i \in 1..Len(log.ring) :
         /\ log.ring[i].from = Floor(log) + i - 1
         /\ log.ring[i].to = log.ring[i].from + 1

=============================================================================
