----------------------------- MODULE ChangeScript -----------------------------
(***************************************************************************)
(* The change script of a fixture and the three kinds of request that race *)
(* on it: POST /test/fixture/step (step_fixture), protocol requests whose  *)
(* announce triggers apply a step before the handler runs                  *)
(* (fire_for_request) and POST /test/fixture/reset (reset_fixture).        *)
(*                                                                         *)
(* The locks are the ones of the code: the cursor mutex, the fixture's     *)
(* rwlock, and short critical sections (counters, push logs, request log)  *)
(* that are single steps here.  The fixture image is abstracted to the     *)
(* script steps that wrote each of its sections since the baseline.        *)
(***************************************************************************)
EXTENDS Integers, SequencesExt

CONSTANTS
    Stepper, Requester, Resetter,   \* the requests in flight, by kind
    Script,         \* Fixture::change_script: a sequence of sequences of Op
    Trigger,        \* Fixture::announce: a sequence of [step, nth]; all match
    Budget,         \* requests each process issues, one after the other
    Free            \* an unlocked mutex

Process == Stepper \cup Requester \cup Resetter
NSteps == Len(Script)

(* The sections of the fixture that the arms of apply_change_step write: one that
   files or removes an email writes the UID slots too, a reaction does not. *)
OpWrites == [email |-> {"emails", "uids"}, reaction |-> {"emails"},
             mailbox |-> {"mailboxes"}, event |-> {"events"}, contact |-> {"contacts"},
             contact_folder |-> {"contact_folders"}, acl |-> {"acls"}, group |-> {"groups"}]
Kind == DOMAIN OpWrites
Section == (UNION {OpWrites[k] : k \in Kind}) \cup {"account_logs"}

(* An operation of a step, and whether it fails when it is applied: before it has
   written anything, or midway, which only an event patch does, as
   apply_change_event_patch edits the event field by field. *)
Op == [kind : Kind, fails : {"no", "before"}] \cup [kind : {"event"}, fails : {"midway"}]

ASSUME ScriptAssumption ==
    /\ Script \in Seq(Seq(Op)) /\ Budget \in Nat
    /\ Trigger \in Seq([step : 1..NSteps, nth : Nat \ {0}])
    /\ Free \notin Process
    /\ Stepper \cap Requester = {} /\ Stepper \cap Resetter = {} /\ Requester \cap Resetter = {}

VARIABLES
    cursor,         \* change_cursor
    image,          \* the fixture: for each section the steps that wrote it
    saved,          \* the sections the writer has cloned, to rewind a step
    counts,         \* announce_counts
    pushed,         \* the hub's push log: the steps whose push was emitted
    rlog,           \* the cross-protocol request log
    cursorLock, writer, readers,    \* who holds the locks
    pc, left,       \* per process: where it is, how many requests it has left
    want,           \* the step id an advance expects, 0 for none
    due,            \* the triggers whose step a request still has to announce
    applied         \* the steps a request's triggers applied

shared == <<cursor, image, saved, counts, pushed, rlog>>
locks  == <<cursorLock, writer, readers>>
vars   == <<shared, locks, pc, left, want, due, applied>>

Init ==
    /\ cursor = 0 /\ pushed = << >> /\ rlog = << >>
    /\ image = [s \in Section |-> << >>] /\ saved = << >>
    /\ counts = [i \in DOMAIN Trigger |-> 0]
    /\ cursorLock = Free /\ writer = Free /\ readers = {}
    /\ pc = [p \in Process |-> "idle"] /\ left = [p \in Process |-> Budget]
    /\ want = [p \in Process |-> 0]
    /\ due = [p \in Process |-> {}] /\ applied = [p \in Process |-> {}]

Goto(p, l) == pc' = [pc EXCEPT ![p] = l]

(* A request arrives. *)
Arrive(p) ==
    /\ pc[p] = "idle" /\ left[p] > 0
    /\ left' = [left EXCEPT ![p] = @ - 1]
    /\ want' = [want EXCEPT ![p] = 0]
    /\ applied' = [applied EXCEPT ![p] = {}]
    /\ Goto(p, CASE p \in Stepper -> "cursor"
                 [] p \in Requester -> "match"
                 [] p \in Resetter -> "clear_log")
    /\ UNCHANGED <<shared, locks, due>>

-----------------------------------------------------------------------------
(* advance_change_cursor: the cursor mutex first, then the fixture. *)

LockCursor(p) ==
    /\ pc[p] = "cursor" /\ cursorLock = Free
    /\ cursorLock' = p
    /\ Goto(p, "fixture")
    /\ UNCHANGED <<shared, writer, readers, left, want, due, applied>>

LockFixtureWhileRead(p) ==
    /\ pc[p] = "fixture" /\ writer = Free
    /\ writer' = p
    /\ Goto(p, IF p \in Resetter THEN "rewind" ELSE "apply")
    /\ UNCHANGED <<shared, cursorLock, readers, left, want, due, applied>>
LockFixture(p) ==
    /\ pc[p] = "fixture" /\ writer = Free /\ readers = {}
    /\ writer' = p
    /\ Goto(p, IF p \in Resetter THEN "rewind" ELSE "apply")
    /\ UNCHANGED <<shared, cursorLock, readers, left, want, due, applied>>

(* Where a process goes once an advance is over: a step request answers, a
   trigger still has to report. *)
After(p, outcome) == IF p \in Requester THEN outcome ELSE "idle"

(* Exhausted, or the cursor is not where the caller expects it. *)
Reject(p) ==
    /\ pc[p] = "apply"
    /\ cursor >= NSteps \/ want[p] \notin {0, cursor + 1}
    /\ cursorLock' = Free /\ writer' = Free
    /\ Goto(p, After(p, "failed"))
    /\ UNCHANGED <<shared, readers, left, want, due, applied>>

(* The operations of step n that write before one fails, and whether one does. *)
Fails(n) == \E i \in DOMAIN Script[n] : Script[n][i].fails # "no"
Writing(n) == {i \in DOMAIN Script[n] : /\ Script[n][i].fails # "before"
                                        /\ \A j \in 1..i - 1 : Script[n][j].fails = "no"}
AfterOps(img, n) ==
    [s \in Section |-> IF \E i \in Writing(n) : s \in OpWrites[Script[n][i].kind]
                         THEN Append(img[s], n) ELSE img[s]]

(* StepTouches::from_step: the sections that are cloned before the operations of
   step n run. *)
ClonedFor == [email |-> {"emails", "uids"}, reaction |-> {"emails", "uids"},
              mailbox |-> {"mailboxes"}, event |-> {"events"}, contact |-> {"contacts"},
              contact_folder |-> {"contact_folders"}, acl |-> {"acls"}, group |-> {"groups"}]
StepTouchesNoUids(n) == UNION {ClonedFor[Script[n][i].kind] : i \in DOMAIN Script[n]} \ {"uids"}
StepTouches(n) == UNION {ClonedFor[Script[n][i].kind] : i \in DOMAIN Script[n]}

(* The operations one after the other, up to one that fails ... *)
ApplyOps(p) ==
    /\ pc[p] = "apply" /\ cursor < NSteps /\ want[p] \in {0, cursor + 1}
    /\ saved' = [s \in StepTouches(cursor + 1) |-> image[s]]
    /\ image' = AfterOps(image, cursor + 1)
    /\ Goto(p, IF Fails(cursor + 1) THEN "undo" ELSE "record")
    /\ UNCHANGED <<cursor, counts, pushed, rlog, locks, left, want, due, applied>>

(* ... whose step is undone from the clones ... *)
Undo(p) ==
    /\ pc[p] = "undo"
    /\ image' = [s \in Section |-> IF s \in DOMAIN saved THEN saved[s] ELSE image[s]]
    /\ saved' = << >>
    /\ cursorLock' = Free /\ writer' = Free
    /\ Goto(p, After(p, "failed"))
    /\ UNCHANGED <<cursor, counts, pushed, rlog, readers, left, want, due, applied>>

(* Group operations leave nothing in the diff. *)
Diffed(n) == \E i \in DOMAIN Script[n] : Script[n][i].kind # "group"

(* ... else record_transition, the cursor moves and its lock is dropped while the
   fixture is still held for the push snapshots. *)
Record(p) ==
    /\ pc[p] = "record"
    /\ image' = IF Diffed(cursor + 1)
                  THEN [image EXCEPT !.account_logs = Append(@, cursor + 1)] ELSE image
    /\ saved' = << >>
    /\ cursor' = cursor + 1
    /\ cursorLock' = Free
    /\ applied' = [applied EXCEPT ![p] = @ \cup {cursor + 1}]
    /\ want' = [want EXCEPT ![p] = cursor + 1]
    /\ Goto(p, "drop")
    /\ UNCHANGED <<counts, pushed, rlog, writer, readers, left, due>>

DropFixture(p) ==
    /\ pc[p] = "drop" /\ writer' = Free
    /\ Goto(p, "emit")
    /\ UNCHANGED <<shared, cursorLock, readers, left, want, due, applied>>

(* emit_state_advance, after every lock is dropped: a push for every account in
   the diff. *)
EmitNothing(p) ==
    /\ pc[p] = "emit"
    /\ Goto(p, After(p, "fired"))
    /\ UNCHANGED <<shared, locks, left, want, due, applied>>
Emit(p) ==
    /\ pc[p] = "emit"
    /\ pushed' = IF Diffed(want[p]) THEN Append(pushed, want[p]) ELSE pushed
    /\ Goto(p, After(p, "fired"))
    /\ UNCHANGED <<cursor, image, saved, counts, rlog, locks, left, want, due, applied>>

-----------------------------------------------------------------------------
(* fire_for_request in a listener's middleware, then the handler. *)

(* The triggers are matched under a brief read guard. *)
MatchBegin(p) ==
    /\ pc[p] = "match" /\ writer = Free
    /\ readers' = readers \cup {p}
    /\ Goto(p, "matched")
    /\ UNCHANGED <<shared, cursorLock, writer, left, want, due, applied>>

(* The guard is dropped before anything is applied. *)
MatchEndKeepsGuard(p) ==
    /\ pc[p] = "matched"
    /\ Goto(p, "count")
    /\ UNCHANGED <<shared, locks, left, want, due, applied>>
MatchEnd(p) ==
    /\ pc[p] = "matched"
    /\ readers' = readers \ {p}
    /\ Goto(p, "count")
    /\ UNCHANGED <<shared, cursorLock, writer, left, want, due, applied>>

(* Every match is counted, the nth is due. *)
Count(p) ==
    LET c1 == [i \in DOMAIN Trigger |-> counts[i] + 1]
    IN  /\ pc[p] = "count"
        /\ counts' = c1
        /\ due' = [due EXCEPT ![p] = {i \in DOMAIN Trigger : c1[i] = Trigger[i].nth}]
        /\ Goto(p, "next")
        /\ UNCHANGED <<cursor, image, saved, pushed, rlog, locks, left, want, applied>>

(* The next due step in the order of the triggers, each through
   advance_change_cursor with its own id ... *)
NextDue(p) ==
    /\ pc[p] = "next"
    /\ \E i \in due[p] :
          /\ \A j \in due[p] : i <= j
          /\ want' = [want EXCEPT ![p] = Trigger[i].step]
          /\ due' = [due EXCEPT ![p] = @ \ {i}]
    /\ Goto(p, "cursor")
    /\ UNCHANGED <<shared, locks, left, applied>>

(* ... and reported in the request log, applied or not ... *)
Report(p) ==
    /\ pc[p] \in {"fired", "failed"}
    /\ rlog' = Append(rlog, [kind |-> "announce", who |-> p, step |-> want[p],
                             ok |-> pc[p] = "fired"])
    /\ Goto(p, "next")
    /\ UNCHANGED <<cursor, image, saved, counts, pushed, locks, left, want, due, applied>>

(* ... then the request's own row in the log, and the handler under a read
   guard. *)
LogRequest(p) ==
    /\ pc[p] = "next" /\ due[p] = {}
    /\ rlog' = Append(rlog, [kind |-> "request", who |-> p, step |-> 0, ok |-> TRUE])
    /\ Goto(p, "serve")
    /\ UNCHANGED <<cursor, image, saved, counts, pushed, locks, left, want, due, applied>>

ServeBegin(p) ==
    /\ pc[p] = "serve" /\ writer = Free
    /\ readers' = readers \cup {p}
    /\ Goto(p, "reading")
    /\ UNCHANGED <<shared, cursorLock, writer, left, want, due, applied>>

ServeEnd(p) ==
    /\ pc[p] = "reading"
    /\ readers' = readers \ {p}
    /\ Goto(p, "idle")
    /\ UNCHANGED <<shared, cursorLock, writer, left, want, due, applied>>

-----------------------------------------------------------------------------
(* reset_fixture: the volatile state first, piece by piece, then the cursor
   and the fixture under their locks. *)

ClearLog(p) ==
    /\ pc[p] = "clear_log" /\ rlog' = << >>
    /\ Goto(p, "clear_push")
    /\ UNCHANGED <<cursor, image, saved, counts, pushed, locks, left, want, due, applied>>

ClearPush(p) ==
    /\ pc[p] = "clear_push" /\ pushed' = << >>
    /\ Goto(p, "clear_counts")
    /\ UNCHANGED <<cursor, image, saved, counts, rlog, locks, left, want, due, applied>>

ClearCounts(p) ==
    /\ pc[p] = "clear_counts" /\ counts' = [i \in DOMAIN Trigger |-> 0]
    /\ Goto(p, "cursor")
    /\ UNCHANGED <<cursor, image, saved, pushed, rlog, locks, left, want, due, applied>>

(* The image is the baseline again and the fixture lock is dropped ... *)
Rewind(p) ==
    /\ pc[p] = "rewind" /\ image' = [s \in Section |-> << >>] /\ writer' = Free
    /\ Goto(p, "zero")
    /\ UNCHANGED <<cursor, saved, counts, pushed, rlog, cursorLock, readers, left, want, due, applied>>

(* ... before the cursor is zeroed and its lock dropped. *)
Zero(p) ==
    /\ pc[p] = "zero" /\ cursor' = 0 /\ cursorLock' = Free
    /\ Goto(p, "idle")
    /\ UNCHANGED <<image, saved, counts, pushed, rlog, writer, readers, left, want, due, applied>>

-----------------------------------------------------------------------------

Advance(p) == LockCursor(p) \/ LockFixture(p) \/ Reject(p) \/ ApplyOps(p) \/ Undo(p)
              \/ Record(p) \/ DropFixture(p) \/ Emit(p)
Announce(p) == MatchBegin(p) \/ MatchEnd(p) \/ Count(p) \/ NextDue(p) \/ Report(p)
               \/ LogRequest(p) \/ ServeBegin(p) \/ ServeEnd(p)
Reset(p) == ClearLog(p) \/ ClearPush(p) \/ ClearCounts(p) \/ Rewind(p) \/ Zero(p)

Step(p) == Advance(p) \/ Announce(p) \/ Reset(p)

Next == \E p \in Process : Arrive(p) \/ Step(p)

Spec == Init /\ [][Next]_vars

(* A request that was accepted is worked on until it is done; the budget is
   finite, so a lock that is free again and again is free for good. *)
LiveSpec == Spec /\ \A p \in Process : WF_vars(Step(p))

-----------------------------------------------------------------------------
(* Properties. *)

(* The state stays well typed, the cursor within the script. *)
TypeOK ==
    /\ cursor \in 0..NSteps
    /\ image \in [Section -> Seq(1..NSteps)] /\ pushed \in Seq(1..NSteps)
    /\ DOMAIN saved \subseteq Section
    /\ \A i \in DOMAIN Trigger : counts[i] \in Nat
    /\ cursorLock \in Process \cup {Free} /\ writer \in Process \cup {Free}
    /\ readers \subseteq Requester
    /\ \A p \in Process : due[p] \subseteq DOMAIN Trigger /\ left[p] \in 0..Budget

(* Does step n write section s? *)
Writes(n, s) ==
    IF s = "account_logs" THEN Diffed(n)
    ELSE \E i \in DOMAIN Script[n] : s \in OpWrites[Script[n][i].kind]

(* An image of the fixture after the first k steps of the script: each section was
   written by those of them that write it, once and in order. *)
HoldsUpTo(img, k) ==
    \A s \in Section :
        /\ \A i, j \in DOMAIN img[s] : i < j => img[s][i] < img[s][j]
        /\ Range(img[s]) = {n \in 1..k : Writes(n, s)}

(* Whenever the cursor mutex is free every section of the fixture, and its log,
   holds exactly the script up to the cursor: no step is skipped, repeated, applied
   out of order or in part by any mix of steps, triggers and resets, and a reset
   never leaves the cursor and the image apart. *)
CursorMatchesImage == cursorLock = Free => HoldsUpTo(image, cursor)

(* The state between critical sections: well typed, and the cursor names what
   the fixture holds. *)
ScriptSound == TypeOK /\ CursorMatchesImage

(* A step is all or nothing to whoever reads: a handler with a read guard sees the
   fixture after some number of whole steps, however a step failed before it (the
   clones of StepTouches cover what the operations wrote). *)
NoTornRead == readers # {} => \E k \in 0..NSteps : HoldsUpTo(image, k)

(* No reset request has arrived yet. *)
Unreset == \A z \in Resetter : left[z] = Budget

(* Until a reset, a request whose trigger applied a step is served after it:
   while it is served the step is in the image and its push, if it has one, was
   emitted. *)
ServedAfterAnnounce ==
    \A p \in Requester : Unreset /\ pc[p] \in {"serve", "reading"} =>
        \A n \in applied[p] :
            /\ \A s \in Section : Writes(n, s) => n \in Range(image[s])
            /\ Diffed(n) => n \in Range(pushed)

(* Until a reset, a trigger announces its step once, however many requests
   match and whichever of them is first to the cursor. *)
NthOnly ==
    Unreset => \A i, j \in 1..Len(rlog) :
        rlog[i].kind = "announce" /\ rlog[j].kind = "announce" /\ i # j
            => rlog[i].step # rlog[j].step

(* Until a reset, an announcement is made once and before the answer. *)
AnnouncedInTime == ServedAfterAnnounce /\ NthOnly

(* Nobody waits for ever: every accepted request is answered. *)
RequestsFinish ==
    \A p \in Process : pc[p] # "idle" ~> pc[p] = "idle"

=============================================================================
