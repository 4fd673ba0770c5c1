------------------------- MODULE ChangeScriptProofs -------------------------
(***************************************************************************)
(* Proofs about ChangeScript: for every change script, every list of       *)
(* triggers and any number of step, protocol and reset requests.           *)
(***************************************************************************)
EXTENDS ChangeScript, TLAPS

Advancing == {"cursor", "fixture", "apply", "undo", "record", "drop", "emit"}
Announcing == {"match", "matched", "count", "next", "fired", "failed", "serve", "reading"}
Resetting == {"clear_log", "clear_push", "clear_counts", "cursor", "fixture", "rewind", "zero"}

(* The labels between which a process holds each lock. *)
HoldsCursor == {"fixture", "apply", "undo", "record", "rewind", "zero"}
HoldsFixture == {"apply", "undo", "record", "drop", "rewind"}
HoldsRead == {"matched", "reading"}

(* Types, and where a request of each kind can be. *)
Types ==
    /\ cursor \in 0..NSteps
    /\ image \in [Section -> Seq(1..NSteps)]
    /\ saved \in [DOMAIN saved -> Seq(1..NSteps)] /\ DOMAIN saved \subseteq Section
    /\ counts \in [DOMAIN Trigger -> Nat] /\ pushed \in Seq(1..NSteps)
    /\ cursorLock \in Process \cup {Free} /\ writer \in Process \cup {Free}
    /\ readers \subseteq Process
    /\ left \in [Process -> 0..Budget] /\ want \in [Process -> 0..NSteps]
    /\ due \in [Process -> SUBSET DOMAIN Trigger]
    /\ applied \in [Process -> SUBSET (1..NSteps)]
    /\ pc \in [Process -> {"idle"} \cup Advancing \cup Announcing \cup Resetting]
    /\ \A p \in Stepper : pc[p] \in {"idle"} \cup Advancing
    /\ \A p \in Requester : pc[p] \in {"idle"} \cup Advancing \cup Announcing
    /\ \A p \in Resetter : pc[p] \in {"idle"} \cup Resetting

(* Each lock is held by whoever is at one of its labels, and by nobody else. *)
LockInv ==
    /\ \A p \in Process : cursorLock = p <=> pc[p] \in HoldsCursor
    /\ \A p \in Process : writer = p <=> pc[p] \in HoldsFixture
    /\ \A p \in Process : p \in readers <=> pc[p] \in HoldsRead
    /\ writer # Free => readers = {}

(* What the writer would put back. *)
Undone == [s \in Section |-> IF s \in DOMAIN saved THEN saved[s] ELSE image[s]]

(* The image is at the cursor except inside the critical sections of an advance
   and a reset. *)
ImageInv ==
    /\ (\A p \in Process : pc[p] \notin {"undo", "record", "zero"}) => HoldsUpTo(image, cursor)
    /\ \A p \in Process : pc[p] = "undo" => HoldsUpTo(Undone, cursor)
    /\ \A p \in Process : pc[p] = "record" =>
         /\ cursor < NSteps /\ want[p] \in {0, cursor + 1}
         /\ \A s \in Section :
              /\ \A i, j \in DOMAIN image[s] : i < j => image[s][i] < image[s][j]
              /\ Range(image[s]) =
                   {n \in 1..(IF s = "account_logs" THEN cursor ELSE cursor + 1) : Writes(n, s)}
    /\ \A p \in Process : pc[p] = "zero" => HoldsUpTo(image, 0)

(* Steps up to the cursor are in the image. *)
AppliedThere == \A n \in 1..cursor, s \in Section : Writes(n, s) => n \in Range(image[s])
(* What a request applied was pushed, or is about to be. *)
AppliedPushed ==
    \A p \in Process : \A n \in applied[p] :
        /\ n <= cursor
        /\ Diffed(n) => n \in Range(pushed) \/ (pc[p] \in {"drop", "emit"} /\ want[p] = n)

(* Before a reset nothing that was applied leaves the image, and what a request
   applied was pushed or is about to be. *)
AppliedInv ==
    /\ \A z \in Resetter : left[z] = Budget => pc[z] = "idle"
    /\ Unreset => AppliedThere /\ AppliedPushed
    /\ \A p \in Process : pc[p] \in {"drop", "emit"} => want[p] # 0

IInv == Types /\ LockInv /\ ImageInv /\ AppliedInv

(* The step a request's trigger is announcing. *)
Flying(p) == p \in Requester /\ pc[p] \in Advancing \cup {"fired", "failed"}

Matched(i) == counts[i] >= Trigger[i].nth
Reported(n) == \E k \in 1..Len(rlog) : rlog[k].kind = "announce" /\ rlog[k].step = n

Row == [kind : {"announce", "request"}, who : Process, step : 0..NSteps, ok : BOOLEAN]

(* Every trigger is in one place: not matched often enough, due to one request,
   being announced by one, or reported once. *)
DueOnce ==
    \A p \in Process : \A i \in due[p] :
        /\ Matched(i) /\ ~Reported(Trigger[i].step)
        /\ \A q \in Process : q # p => i \notin due[q]
        /\ \A q \in Process : Flying(q) => want[q] # Trigger[i].step
FlyingOnce ==
    \A p \in Process : Flying(p) =>
        /\ \E i \in DOMAIN Trigger : want[p] = Trigger[i].step /\ Matched(i)
        /\ \A q \in Process : Flying(q) /\ q # p => want[q] # want[p]
        /\ ~Reported(want[p])
ReportedOnce ==
    /\ \A n : Reported(n) => \E i \in DOMAIN Trigger : n = Trigger[i].step /\ Matched(i)
    /\ \A i, j \in 1..Len(rlog) :
         rlog[i].kind = "announce" /\ rlog[j].kind = "announce" /\ i # j => rlog[i].step # rlog[j].step

(* ... until a reset. *)
OnceInv == rlog \in Seq(Row) /\ (Unreset => DueOnce /\ FlyingOnce /\ ReportedOnce)

(* The triggers of a fixture name different steps. *)
DistinctSteps == \A i, j \in DOMAIN Trigger : Trigger[i].step = Trigger[j].step => i = j

-----------------------------------------------------------------------------
(* The operators of the model. *)

LEMMA Kinds ==
  /\ Kind = {"email", "reaction", "mailbox", "event", "contact", "contact_folder", "acl", "group"}
  /\ \A k \in Kind : OpWrites[k] \subseteq ClonedFor[k]
  /\ \A k \in Kind : OpWrites[k] \subseteq Section /\ "account_logs" \notin OpWrites[k]
  /\ \A k \in Kind : ClonedFor[k] \subseteq Section
  <1>1. Kind = {"email", "reaction", "mailbox", "event", "contact", "contact_folder", "acl", "group"}
    BY DEF Kind, OpWrites
  <1>2. \A k \in Kind : OpWrites[k] \subseteq ClonedFor[k]
    BY <1>1 DEF OpWrites, ClonedFor
  <1>3. \A k \in Kind : OpWrites[k] \subseteq Section
    BY DEF Section
  <1>4. \A k \in Kind : "account_logs" \notin OpWrites[k]
    BY <1>1 DEF OpWrites
  <1>5. \A k \in Kind : ClonedFor[k] \subseteq OpWrites["email"] \cup OpWrites[k]
    BY <1>1 DEF OpWrites, ClonedFor
  <1>6. \A k \in Kind : ClonedFor[k] \subseteq Section
    BY <1>1, <1>3, <1>5
  <1> QED
    BY <1>1, <1>2, <1>3, <1>4, <1>6

LEMMA Steps ==
  /\ NSteps \in Nat /\ "account_logs" \in Section
  /\ \A n \in 1..NSteps : \A i \in DOMAIN Script[n] : Script[n][i].kind \in Kind
  /\ \A i \in DOMAIN Trigger : Trigger[i].step \in 1..NSteps /\ Trigger[i].nth \in Nat \ {0}
  <1>1. NSteps \in Nat
    BY ScriptAssumption DEF NSteps
  <1>2. \A n \in 1..NSteps : Script[n] \in Seq(Op)
    BY ScriptAssumption DEF NSteps
  <1>3. \A o \in Op : o.kind \in Kind
    BY Kinds DEF Op
  <1>4. \A n \in 1..NSteps : \A i \in DOMAIN Script[n] : Script[n][i].kind \in Kind
    BY <1>2, <1>3
  <1>5. "account_logs" \in Section
    BY DEF Section
  <1>6. \A i \in DOMAIN Trigger : Trigger[i] \in [step : 1..NSteps, nth : Nat \ {0}]
    <2> DEFINE T == [step : 1..NSteps, nth : Nat \ {0}]
    <2>1. Trigger \in Seq(T)
      BY ScriptAssumption
    <2> HIDE DEF T
    <2>2. \A i \in DOMAIN Trigger : Trigger[i] \in T
      BY <2>1
    <2> QED
      BY <2>2 DEF T
  <1>7. \A i \in DOMAIN Trigger : Trigger[i].step \in 1..NSteps /\ Trigger[i].nth \in Nat \ {0}
    BY <1>6
  <1> QED
    BY <1>1, <1>4, <1>5, <1>7

(* A step that is written behind those before it. *)
LEMMA AppendStep ==
  ASSUME NEW q \in Seq(1..NSteps), NEW n \in 1..NSteps
  PROVE  /\ Append(q, n) \in Seq(1..NSteps)
         /\ Range(Append(q, n)) = Range(q) \cup {n}
         /\ (/\ \A i, j \in DOMAIN q : i < j => q[i] < q[j]
             /\ \A m \in Range(q) : m < n)
              => \A i, j \in DOMAIN Append(q, n) : i < j => Append(q, n)[i] < Append(q, n)[j]
  <1> DEFINE a == Append(q, n)
  <1>1. /\ a \in Seq(1..NSteps) /\ Len(q) \in Nat /\ Len(a) = Len(q) + 1
        /\ DOMAIN q = 1..Len(q) /\ DOMAIN a = 1..(Len(q) + 1)
        /\ (\A i \in 1..Len(q) : a[i] = q[i]) /\ a[Len(q) + 1] = n
    OBVIOUS
  <1> HIDE DEF a
  <1>2. Range(a) = Range(q) \cup {n}
    <2>1. ASSUME NEW x \in Range(a) PROVE x \in Range(q) \cup {n}
      <3>1. PICK i \in 1..(Len(q) + 1) : x = a[i]
        BY <1>1 DEF Range
      <3>2. CASE i = Len(q) + 1
        BY <1>1, <3>1, <3>2
      <3>3. CASE i \in 1..Len(q)
        BY <1>1, <3>1, <3>3 DEF Range
      <3> QED
        BY <1>1, <3>2, <3>3
    <2>2. ASSUME NEW x \in Range(q) PROVE x \in Range(a)
      <3>1. PICK i \in 1..Len(q) : x = q[i]
        BY <1>1 DEF Range
      <3> QED
        BY <1>1, <3>1 DEF Range
    <2>3. n \in Range(a)
      BY <1>1 DEF Range
    <2> QED
      BY <2>1, <2>2, <2>3
  <1>3. ASSUME \A i, j \in DOMAIN q : i < j => q[i] < q[j], \A m \in Range(q) : m < n,
               NEW i \in DOMAIN a, NEW j \in DOMAIN a, i < j
        PROVE  a[i] < a[j]
    <2>1. i \in 1..Len(q) /\ a[i] = q[i]
      BY <1>1, <1>3
    <2>2. CASE j \in 1..Len(q)
      BY <1>1, <1>3, <2>1, <2>2
    <2>3. CASE j = Len(q) + 1
      <3>1. q[i] \in Range(q)
        BY <1>1, <2>1 DEF Range
      <3> QED
        BY <1>1, <1>3, <2>1, <2>3, <3>1
    <2> QED
      BY <1>1, <2>2, <2>3
  <1> QED
    BY <1>1, <1>2, <1>3 DEF a

(* The operations of a step append it to the sections that the ones which write
   touch, and a failing step's clones cover them. *)
LEMMA AfterOpsSections ==
  ASSUME NEW img \in [Section -> Seq(1..NSteps)], NEW n \in 1..NSteps
  PROVE  /\ AfterOps(img, n) \in [Section -> Seq(1..NSteps)]
         /\ \A s \in Section : AfterOps(img, n)[s] \in {img[s], Append(img[s], n)}
         /\ \A s \in Section \ StepTouches(n) : AfterOps(img, n)[s] = img[s]
         /\ ~Fails(n) => \A s \in Section \ {"account_logs"} :
              AfterOps(img, n)[s] = IF Writes(n, s) THEN Append(img[s], n) ELSE img[s]
         /\ AfterOps(img, n)["account_logs"] = img["account_logs"]
  <1>1. \A s \in Section : img[s] \in Seq(1..NSteps) /\ Append(img[s], n) \in Seq(1..NSteps)
    BY AppendStep
  <1>2. AfterOps(img, n) \in [Section -> Seq(1..NSteps)]
    BY <1>1 DEF AfterOps
  <1>3. \A s \in Section : AfterOps(img, n)[s] \in {img[s], Append(img[s], n)}
    BY DEF AfterOps
  <1>4. ASSUME NEW s \in Section \ StepTouches(n)
        PROVE  AfterOps(img, n)[s] = img[s]
    <2>1. \A i \in Writing(n) : OpWrites[Script[n][i].kind] \subseteq ClonedFor[Script[n][i].kind]
      BY Steps, Kinds DEF Writing
    <2>2. ~\E i \in Writing(n) : s \in OpWrites[Script[n][i].kind]
      BY <2>1 DEF Writing, StepTouches
    <2> QED
      BY <2>2 DEF AfterOps
  <1>5. ASSUME ~Fails(n), NEW s \in Section \ {"account_logs"}
        PROVE  AfterOps(img, n)[s] = IF Writes(n, s) THEN Append(img[s], n) ELSE img[s]
    <2>1. Script[n] \in Seq(Op)
      BY ScriptAssumption DEF NSteps
    <2>2. Writing(n) = DOMAIN Script[n]
      BY <1>5, <2>1 DEF Writing, Fails
    <2> QED
      BY <2>2 DEF AfterOps, Writes
  <1>6. AfterOps(img, n)["account_logs"] = img["account_logs"]
    <2>1. \A i \in Writing(n) : "account_logs" \notin OpWrites[Script[n][i].kind]
      BY Steps, Kinds DEF Writing
    <2> QED
      BY <2>1, Steps DEF AfterOps
  <1> QED
    BY <1>2, <1>3, <1>4, <1>5, <1>6

-----------------------------------------------------------------------------
(* Types and locks. *)

LEMMA InitIInv == Init => IInv /\ OnceInv
  <1> SUFFICES ASSUME Init PROVE IInv /\ OnceInv
    OBVIOUS
  <1> USE ScriptAssumption, Steps DEF Init
  <1>0. << >> \in Seq(1..NSteps) /\ Range(<< >>) = {}
    BY DEF Range
  <1>1. Types
    BY <1>0 DEF Types, Process
  <1>2. LockInv
    BY DEF LockInv, HoldsCursor, HoldsFixture, HoldsRead
  <1>3. ImageInv
    <2>1. HoldsUpTo(image, 0)
      BY <1>0 DEF HoldsUpTo
    <2> QED
      BY <2>1 DEF ImageInv
  <1>4. AppliedInv
    BY DEF AppliedInv, AppliedThere, AppliedPushed, Process
  <1>5. OnceInv
    BY DEF OnceInv, DueOnce, FlyingOnce, ReportedOnce, Reported, Flying, Advancing
  <1> QED
    BY <1>1, <1>2, <1>3, <1>4, <1>5 DEF IInv

(* Where a process is, and nobody else. *)
LEMMA GotoPc ==
  ASSUME Types, NEW p \in Process, NEW l, Goto(p, l)
  PROVE  pc'[p] = l /\ \A q \in Process : q # p => pc'[q] = pc[q]
  BY DEF Types, Goto

(* Taking, keeping and dropping a lock, by whether the label is one of its. *)
LEMMA LocksMove ==
  ASSUME Types, LockInv, NEW p \in Process, NEW l, Goto(p, l),
         \/ cursorLock' = cursorLock /\ (l \in HoldsCursor <=> pc[p] \in HoldsCursor)
         \/ cursorLock = Free /\ cursorLock' = p /\ l \in HoldsCursor
         \/ cursorLock' = Free /\ pc[p] \in HoldsCursor /\ l \notin HoldsCursor,
         \/ writer' = writer /\ (l \in HoldsFixture <=> pc[p] \in HoldsFixture)
         \/ writer = Free /\ writer' = p /\ l \in HoldsFixture
         \/ writer' = Free /\ pc[p] \in HoldsFixture /\ l \notin HoldsFixture,
         \/ readers' = readers /\ (l \in HoldsRead <=> pc[p] \in HoldsRead)
         \/ readers' = readers \cup {p} /\ l \in HoldsRead
         \/ readers' = readers \ {p} /\ l \notin HoldsRead,
         writer' # Free => readers' = {}
  PROVE  LockInv'
  <1> USE ScriptAssumption
  <1>1. pc'[p] = l /\ \A q \in Process : q # p => pc'[q] = pc[q]
    BY GotoPc
  <1>2. ASSUME NEW q \in Process PROVE cursorLock' = q <=> pc'[q] \in HoldsCursor
    BY <1>1 DEF LockInv
  <1>3. ASSUME NEW q \in Process PROVE writer' = q <=> pc'[q] \in HoldsFixture
    BY <1>1 DEF LockInv
  <1>4. ASSUME NEW q \in Process PROVE q \in readers' <=> pc'[q] \in HoldsRead
    BY <1>1 DEF LockInv
  <1> QED
    BY <1>2, <1>3, <1>4 DEF LockInv

LEMMA LocksStep ==
  ASSUME Types, LockInv, NEW p \in Process, Arrive(p) \/ Step(p)
  PROVE  LockInv'
  <1> USE ScriptAssumption DEF HoldsCursor, HoldsFixture, HoldsRead
  <1>0. writer # Free => readers = {}
    BY DEF LockInv
  <1>1. CASE Arrive(p)
    BY <1>0, <1>1, LocksMove DEF Arrive, locks, Process
  <1>2. CASE LockCursor(p)
    BY <1>0, <1>2, LocksMove DEF LockCursor, locks
  <1>3. CASE LockFixture(p)
    BY <1>0, <1>3, LocksMove DEF LockFixture, locks
  <1>4. CASE Reject(p)
    BY <1>0, <1>4, LocksMove DEF Reject, locks, After
  <1>5. CASE ApplyOps(p)
    BY <1>0, <1>5, LocksMove DEF ApplyOps, locks
  <1>6. CASE Undo(p)
    BY <1>0, <1>6, LocksMove DEF Undo, locks, After
  <1>7. CASE Record(p)
    BY <1>0, <1>7, LocksMove DEF Record, locks
  <1>8. CASE DropFixture(p)
    BY <1>0, <1>8, LocksMove DEF DropFixture, locks
  <1>9. CASE Emit(p)
    BY <1>0, <1>9, LocksMove DEF Emit, locks, After
  <1>10. CASE MatchBegin(p)
    BY <1>0, <1>10, LocksMove DEF MatchBegin, locks
  <1>11. CASE MatchEnd(p)
    BY <1>0, <1>11, LocksMove DEF MatchEnd, locks
  <1>12. CASE Count(p)
    BY <1>0, <1>12, LocksMove DEF Count, locks
  <1>13. CASE NextDue(p)
    BY <1>0, <1>13, LocksMove DEF NextDue, locks
  <1>14. CASE Report(p)
    BY <1>0, <1>14, LocksMove DEF Report, locks
  <1>15. CASE LogRequest(p)
    BY <1>0, <1>15, LocksMove DEF LogRequest, locks
  <1>16. CASE ServeBegin(p)
    BY <1>0, <1>16, LocksMove DEF ServeBegin, locks
  <1>17. CASE ServeEnd(p)
    BY <1>0, <1>17, LocksMove DEF ServeEnd, locks
  <1>18. CASE ClearLog(p)
    BY <1>0, <1>18, LocksMove DEF ClearLog, locks
  <1>19. CASE ClearPush(p)
    BY <1>0, <1>19, LocksMove DEF ClearPush, locks
  <1>20. CASE ClearCounts(p)
    BY <1>0, <1>20, LocksMove DEF ClearCounts, locks
  <1>21. CASE Rewind(p)
    BY <1>0, <1>21, LocksMove DEF Rewind, locks
  <1>22. CASE Zero(p)
    BY <1>0, <1>22, LocksMove DEF Zero, locks
  <1> QED
    BY <1>1, <1>2, <1>3, <1>4, <1>5, <1>6, <1>7, <1>8, <1>9, <1>10, <1>11,
       <1>12, <1>13, <1>14, <1>15, <1>16, <1>17, <1>18, <1>19, <1>20, <1>21, <1>22
    DEF Step, Advance, Announce, Reset

(* Where each kind of request can go. *)
PcTypes ==
    /\ pc \in [Process -> {"idle"} \cup Advancing \cup Announcing \cup Resetting]
    /\ \A p \in Stepper : pc[p] \in {"idle"} \cup Advancing
    /\ \A p \in Requester : pc[p] \in {"idle"} \cup Advancing \cup Announcing
    /\ \A p \in Resetter : pc[p] \in {"idle"} \cup Resetting

LEMMA PcMove ==
  ASSUME Types, NEW p \in Process, NEW l, Goto(p, l),
         p \in Stepper => l \in {"idle"} \cup Advancing,
         p \in Requester => l \in {"idle"} \cup Advancing \cup Announcing,
         p \in Resetter => l \in {"idle"} \cup Resetting
  PROVE  PcTypes'
  <1>1. l \in {"idle"} \cup Advancing \cup Announcing \cup Resetting
    BY DEF Process
  <1>2. pc' \in [Process -> {"idle"} \cup Advancing \cup Announcing \cup Resetting]
    BY <1>1 DEF Types, Goto
  <1> QED
    BY <1>2, GotoPc DEF PcTypes, Types, Process

LEMMA PcStep ==
  ASSUME Types, NEW p \in Process, Arrive(p) \/ Step(p)
  PROVE  PcTypes'
  <1> USE ScriptAssumption DEF Advancing, Announcing, Resetting
  <1>0. /\ p \in Stepper => pc[p] \in {"idle"} \cup Advancing
        /\ p \in Requester => pc[p] \in {"idle"} \cup Advancing \cup Announcing
        /\ p \in Resetter => pc[p] \in {"idle"} \cup Resetting
    BY DEF Types
  <1>1. CASE Arrive(p)
    BY <1>0, <1>1, PcMove DEF Arrive, Process
  <1>2. CASE LockCursor(p)
    BY <1>0, <1>2, PcMove DEF LockCursor
  <1>3. CASE LockFixture(p)
    BY <1>0, <1>3, PcMove DEF LockFixture
  <1>4. CASE Reject(p)
    BY <1>0, <1>4, PcMove DEF Reject, After
  <1>5. CASE ApplyOps(p)
    BY <1>0, <1>5, PcMove DEF ApplyOps
  <1>6. CASE Undo(p)
    BY <1>0, <1>6, PcMove DEF Undo, After
  <1>7. CASE Record(p)
    BY <1>0, <1>7, PcMove DEF Record
  <1>8. CASE DropFixture(p)
    BY <1>0, <1>8, PcMove DEF DropFixture
  <1>9. CASE Emit(p)
    BY <1>0, <1>9, PcMove DEF Emit, After
  <1>10. CASE MatchBegin(p)
    BY <1>0, <1>10, PcMove DEF MatchBegin
  <1>11. CASE MatchEnd(p)
    BY <1>0, <1>11, PcMove DEF MatchEnd
  <1>12. CASE Count(p)
    BY <1>0, <1>12, PcMove DEF Count
  <1>13. CASE NextDue(p)
    BY <1>0, <1>13, PcMove DEF NextDue
  <1>14. CASE Report(p)
    BY <1>0, <1>14, PcMove DEF Report
  <1>15. CASE LogRequest(p)
    BY <1>0, <1>15, PcMove DEF LogRequest
  <1>16. CASE ServeBegin(p)
    BY <1>0, <1>16, PcMove DEF ServeBegin
  <1>17. CASE ServeEnd(p)
    BY <1>0, <1>17, PcMove DEF ServeEnd
  <1>18. CASE ClearLog(p)
    BY <1>0, <1>18, PcMove DEF ClearLog
  <1>19. CASE ClearPush(p)
    BY <1>0, <1>19, PcMove DEF ClearPush
  <1>20. CASE ClearCounts(p)
    BY <1>0, <1>20, PcMove DEF ClearCounts
  <1>21. CASE Rewind(p)
    BY <1>0, <1>21, PcMove DEF Rewind
  <1>22. CASE Zero(p)
    BY <1>0, <1>22, PcMove DEF Zero
  <1> QED
    BY <1>1, <1>2, <1>3, <1>4, <1>5, <1>6, <1>7, <1>8, <1>9, <1>10, <1>11,
       <1>12, <1>13, <1>14, <1>15, <1>16, <1>17, <1>18, <1>19, <1>20, <1>21, <1>22
    DEF Step, Advance, Announce, Reset

(* The types of the other variables. *)
DataTypes ==
    /\ cursor \in 0..NSteps
    /\ image \in [Section -> Seq(1..NSteps)]
    /\ saved \in [DOMAIN saved -> Seq(1..NSteps)] /\ DOMAIN saved \subseteq Section
    /\ counts \in [DOMAIN Trigger -> Nat] /\ pushed \in Seq(1..NSteps)
    /\ cursorLock \in Process \cup {Free} /\ writer \in Process \cup {Free}
    /\ readers \subseteq Process
    /\ left \in [Process -> 0..Budget] /\ want \in [Process -> 0..NSteps]
    /\ due \in [Process -> SUBSET DOMAIN Trigger]
    /\ applied \in [Process -> SUBSET (1..NSteps)]

(* An advance writes well-formed sections. *)
LEMMA TypesStep ==
  ASSUME IInv, NEW p \in Process, Arrive(p) \/ Step(p)
  PROVE  Types'
  <1> SUFFICES DataTypes'
    <2>1. PcTypes'
      BY PcStep DEF IInv
    <2> QED
      BY <2>1 DEF Types, DataTypes, PcTypes
  <1> USE ScriptAssumption, Steps
  <1>0. DataTypes
    BY DEF IInv, Types, DataTypes
  <1>p. p # Free /\ << >> \in Seq(1..NSteps)
    OBVIOUS
  <1>1. CASE Arrive(p)
    <2>1. left' \in [Process -> 0..Budget]
      <3>1. left \in [Process -> 0..Budget] /\ left[p] > 0 /\ left' = [left EXCEPT ![p] = left[p] - 1]
        BY <1>0, <1>1 DEF DataTypes, Arrive
      <3>2. left[p] - 1 \in 0..Budget
        BY <3>1
      <3> QED
        BY <3>1, <3>2
    <2>2. want' \in [Process -> 0..NSteps] /\ applied' \in [Process -> SUBSET (1..NSteps)]
      BY <1>0, <1>1 DEF DataTypes, Arrive
    <2>3. UNCHANGED <<shared, locks, due>>
      BY <1>1 DEF Arrive
    <2> QED
      BY <1>0, <2>1, <2>2, <2>3 DEF DataTypes, shared, locks
  <1>2. CASE LockCursor(p)
    BY <1>0, <1>p, <1>2 DEF DataTypes, LockCursor, shared, locks
  <1>3. CASE LockFixture(p)
    BY <1>0, <1>p, <1>3 DEF DataTypes, LockFixture, shared, locks
  <1>4. CASE Reject(p)
    BY <1>0, <1>p, <1>4 DEF DataTypes, Reject, shared, locks
  <1>5. CASE DropFixture(p)
    BY <1>0, <1>p, <1>5 DEF DataTypes, DropFixture, shared, locks
  <1>6. CASE MatchBegin(p)
    BY <1>0, <1>p, <1>6 DEF DataTypes, MatchBegin, shared, locks
  <1>7. CASE MatchEnd(p)
    BY <1>0, <1>p, <1>7 DEF DataTypes, MatchEnd, shared, locks
  <1>8. CASE Report(p)
    BY <1>0, <1>p, <1>8 DEF DataTypes, Report, shared, locks
  <1>9. CASE LogRequest(p)
    BY <1>0, <1>p, <1>9 DEF DataTypes, LogRequest, shared, locks
  <1>10. CASE ServeBegin(p)
    BY <1>0, <1>p, <1>10 DEF DataTypes, ServeBegin, shared, locks
  <1>11. CASE ServeEnd(p)
    BY <1>0, <1>p, <1>11 DEF DataTypes, ServeEnd, shared, locks
  <1>12. CASE ClearLog(p)
    BY <1>0, <1>p, <1>12 DEF DataTypes, ClearLog, shared, locks
  <1>13. CASE ClearPush(p)
    BY <1>0, <1>p, <1>13 DEF DataTypes, ClearPush, shared, locks
  <1>14. CASE ClearCounts(p)
    BY <1>0, <1>p, <1>14 DEF DataTypes, ClearCounts, shared, locks
  <1>15. CASE Rewind(p)
    BY <1>0, <1>p, <1>15 DEF DataTypes, Rewind, shared, locks
  <1>16. CASE Zero(p)
    BY <1>0, <1>p, <1>16, SMTT(30) DEF DataTypes, Zero, shared, locks
  <1>17. CASE ApplyOps(p)
    <2>1. cursor + 1 \in 1..NSteps
      <3>1. cursor < NSteps /\ cursor \in 0..NSteps
        BY <1>0, <1>17 DEF ApplyOps, DataTypes
      <3> QED
        BY <3>1
    <2>2. image' \in [Section -> Seq(1..NSteps)]
      BY <1>0, <1>17, <2>1, AfterOpsSections DEF ApplyOps, DataTypes
    <2>3. StepTouches(cursor + 1) \subseteq Section
      <3>1. \A i \in DOMAIN Script[cursor + 1] : ClonedFor[Script[cursor + 1][i].kind] \subseteq Section
        BY <2>1, Kinds
      <3> QED
        BY <3>1 DEF StepTouches
    <2>4. saved' \in [DOMAIN saved' -> Seq(1..NSteps)] /\ DOMAIN saved' \subseteq Section
      BY <1>0, <1>17, <2>3 DEF ApplyOps, DataTypes
    <2> QED
      BY <1>0, <1>17, <2>2, <2>4 DEF DataTypes, ApplyOps, locks
  <1>18. CASE Undo(p)
    <2>1. image' \in [Section -> Seq(1..NSteps)]
      BY <1>0, <1>18 DEF Undo, DataTypes
    <2> QED
      BY <1>0, <1>p, <1>18, <2>1, SMTT(30) DEF DataTypes, Undo
  <1>19. CASE Record(p)
    <2>1. cursor + 1 \in 1..NSteps
      BY <1>0, <1>19, SMTT(30) DEF Record, DataTypes, IInv, ImageInv
    <2>2. image' \in [Section -> Seq(1..NSteps)]
      BY <1>0, <1>19, <2>1, AppendStep DEF Record, DataTypes
    <2>3. /\ applied' \in [Process -> SUBSET (1..NSteps)] /\ want' \in [Process -> 0..NSteps]
          /\ cursor' \in 0..NSteps
      BY <1>0, <1>19, <2>1, SMTT(30) DEF Record, DataTypes
    <2>4. saved' \in [DOMAIN saved' -> Seq(1..NSteps)] /\ DOMAIN saved' \subseteq Section
      BY <1>19 DEF Record
    <2> QED
      BY <1>0, <1>p, <1>19, <2>2, <2>3, <2>4 DEF DataTypes, Record
  <1>20. CASE Emit(p)
    <2>1. want[p] \in 1..NSteps
      BY <1>0, <1>20 DEF Emit, DataTypes, IInv, AppliedInv
    <2>2. pushed' \in Seq(1..NSteps)
      BY <1>0, <1>20, <2>1, AppendStep DEF Emit, DataTypes
    <2> QED
      BY <1>0, <1>20, <2>2 DEF DataTypes, Emit, locks
  <1>21. CASE NextDue(p)
    <2>1. PICK i \in due[p] : /\ want' = [want EXCEPT ![p] = Trigger[i].step]
                              /\ due' = [due EXCEPT ![p] = @ \ {i}]
      BY <1>21 DEF NextDue
    <2>2. Trigger[i].step \in 1..NSteps
      BY <1>0 DEF DataTypes
    <2>3. want' \in [Process -> 0..NSteps]
      <3> DEFINE n == Trigger[i].step
      <3>1. n \in 0..NSteps
        BY <2>2
      <3>2. want' = [want EXCEPT ![p] = n] /\ want \in [Process -> 0..NSteps]
        BY <1>0, <2>1 DEF DataTypes
      <3> HIDE DEF n
      <3> QED
        BY <3>1, <3>2
    <2>4. due' \in [Process -> SUBSET DOMAIN Trigger]
      BY <1>0, <2>1 DEF DataTypes
    <2> QED
      BY <1>0, <1>21, <2>3, <2>4 DEF DataTypes, NextDue, shared, locks
  <1>22. CASE Count(p)
    <2>1. counts' \in [DOMAIN Trigger -> Nat] /\ due' \in [Process -> SUBSET DOMAIN Trigger]
      <3> DEFINE c1 == [i \in DOMAIN Trigger |-> counts[i] + 1]
                 S == {i \in DOMAIN Trigger : c1[i] = Trigger[i].nth}
      <3>1. counts' = c1 /\ due' = [due EXCEPT ![p] = S]
        BY <1>22 DEF Count
      <3>2. c1 \in [DOMAIN Trigger -> Nat]
        <4>1. counts \in [DOMAIN Trigger -> Nat]
          BY <1>0 DEF DataTypes
        <4>2. \A i \in DOMAIN Trigger : counts[i] + 1 \in Nat
          BY ONLY <4>1
        <4> QED
          BY ONLY <4>2
      <3>3. due \in [Process -> SUBSET DOMAIN Trigger] /\ S \in SUBSET DOMAIN Trigger
        BY <1>0 DEF DataTypes
      <3> HIDE DEF c1, S
      <3> QED
        BY <3>1, <3>2, <3>3
    <2> QED
      BY <1>0, <1>22, <2>1 DEF DataTypes, Count, locks
  <1> QED
    BY <1>1, <1>2, <1>3, <1>4, <1>5, <1>6, <1>7, <1>8, <1>9, <1>10, <1>11,
       <1>12, <1>13, <1>14, <1>15, <1>16, <1>17, <1>18, <1>19, <1>20, <1>21, <1>22
    DEF Step, Advance, Announce, Reset

-----------------------------------------------------------------------------
(* The image. *)

(* The cursor mutex excludes. *)
LEMMA Exclusive ==
  ASSUME IInv, NEW p \in Process, pc[p] \in HoldsCursor, NEW q \in Process, q # p
  PROVE  pc[q] \notin HoldsCursor
  BY DEF IInv, LockInv

(* Outside the critical sections the image is not touched. *)
LEMMA ImageKept ==
  ASSUME IInv, NEW p \in Process, NEW l, Goto(p, l), UNCHANGED <<cursor, image, saved>>,
         l \notin {"undo", "record", "zero"}, pc[p] \notin {"undo", "record", "zero"},
         \A q \in Process : q # p => want'[q] = want[q]
  PROVE  ImageInv'
  <1>1. pc'[p] = l /\ \A q \in Process : q # p => pc'[q] = pc[q]
    BY GotoPc DEF IInv
  <1>2. Undone' = Undone
    BY DEF Undone
  <1>3. (\A q \in Process : pc'[q] \notin {"undo", "record", "zero"}) => HoldsUpTo(image, cursor)
    BY <1>1 DEF IInv, ImageInv
  <1>4. ASSUME NEW q \in Process, pc'[q] = "record"
        PROVE  pc[q] = "record" /\ want'[q] = want[q]
    BY <1>1, <1>4
  <1>5. ASSUME NEW q \in Process, pc'[q] \in {"undo", "zero"}
        PROVE  pc[q] = pc'[q]
    BY <1>1, <1>5
  <1> QED
    BY <1>2, <1>3, <1>4, <1>5 DEF IInv, ImageInv, HoldsUpTo

(* The writers of a section up to one step more. *)
LEMMA NextWrites ==
  ASSUME NEW s, NEW c \in 0..NSteps
  PROVE  {m \in 1..(c + 1) : Writes(m, s)} =
            {m \in 1..c : Writes(m, s)} \cup (IF Writes(c + 1, s) THEN {c + 1} ELSE {})
  <1>1. c \in Nat
    BY Steps
  <1>2. 1..(c + 1) = (1..c) \cup {c + 1}
    BY <1>1
  <1> QED
    BY <1>2

LEMMA ApplyOpsImage ==
  ASSUME IInv, NEW p \in Process, ApplyOps(p)
  PROVE  ImageInv'
  <1> USE ScriptAssumption, Steps
  <1> DEFINE n == cursor + 1
  <1>1. /\ pc[p] = "apply" /\ n \in 1..NSteps /\ cursor < NSteps /\ want[p] \in {0, n}
        /\ saved' = [s \in StepTouches(n) |-> image[s]] /\ image' = AfterOps(image, n)
        /\ cursor' = cursor /\ want' = want
        /\ Goto(p, IF Fails(n) THEN "undo" ELSE "record")
    BY DEF ApplyOps, IInv, Types
  <1>2. /\ pc'[p] = (IF Fails(n) THEN "undo" ELSE "record")
        /\ \A q \in Process : q # p => pc'[q] = pc[q] /\ pc'[q] \notin HoldsCursor
    BY <1>1, GotoPc, Exclusive DEF IInv, HoldsCursor
  <1>3. HoldsUpTo(image, cursor) /\ image \in [Section -> Seq(1..NSteps)]
    <2>1. \A q \in Process : pc[q] \notin {"undo", "record", "zero"}
      BY <1>1, Exclusive DEF HoldsCursor
    <2> QED
      BY <2>1 DEF IInv, ImageInv, Types
  <1> HIDE DEF n
  <1>3a. /\ \A s \in Section \ StepTouches(n) : image'[s] = image[s]
         /\ ~Fails(n) => \A s \in Section \ {"account_logs"} :
              image'[s] = IF Writes(n, s) THEN Append(image[s], n) ELSE image[s]
         /\ image'["account_logs"] = image["account_logs"]
    <2>1. n \in 1..NSteps /\ image \in [Section -> Seq(1..NSteps)] /\ image' = AfterOps(image, n)
      BY <1>1, <1>3
    <2> QED
      BY ONLY <2>1, AfterOpsSections
  <1>4. ASSUME Fails(n) PROVE HoldsUpTo(Undone', cursor)
    <2>1. \A s \in Section : Undone'[s] = image[s]
      <3>1. DOMAIN saved' = StepTouches(n) /\ \A s \in StepTouches(n) : saved'[s] = image[s]
        BY <1>1
      <3>2. \A s \in Section \ StepTouches(n) : image'[s] = image[s]
        BY <1>3a
      <3> QED
        BY <3>1, <3>2 DEF Undone
    <2> QED
      BY <1>3, <2>1 DEF HoldsUpTo
  <1>5. ASSUME ~Fails(n), NEW s \in Section
        PROVE  /\ \A i, j \in DOMAIN image'[s] : i < j => image'[s][i] < image'[s][j]
               /\ Range(image'[s]) =
                    {m \in 1..(IF s = "account_logs" THEN cursor ELSE cursor + 1) : Writes(m, s)}
    <2>1. /\ \A i, j \in DOMAIN image[s] : i < j => image[s][i] < image[s][j]
          /\ Range(image[s]) = {m \in 1..cursor : Writes(m, s)} /\ image[s] \in Seq(1..NSteps)
      BY <1>3 DEF HoldsUpTo
    <2>2. CASE s = "account_logs"
      <3>1. image'[s] = image[s]
        BY <1>3a, <2>2
      <3> QED
        BY <2>1, <2>2, <3>1
    <2>3. CASE s # "account_logs" /\ ~Writes(n, s)
      <3>1. image'[s] = image[s]
        BY <1>3a, <1>5, <2>3
      <3>2. {m \in 1..cursor : Writes(m, s)} = {m \in 1..(cursor + 1) : Writes(m, s)}
        BY <2>3, NextWrites, SMTT(30) DEF n, IInv, Types
      <3> QED
        BY <2>1, <2>3, <3>1, <3>2
    <2>4. CASE s # "account_logs" /\ Writes(n, s)
      <3>1. image'[s] = Append(image[s], n)
        BY <1>3a, <1>5, <2>4
      <3>2. \A m \in Range(image[s]) : m < n
        BY <1>1, <2>1 DEF n, IInv, Types
      <3>3. Range(image[s]) \cup {n} = {m \in 1..(cursor + 1) : Writes(m, s)}
        BY <2>1, <2>4, NextWrites DEF n, IInv, Types
      <3> QED
        BY <1>1, <2>1, <2>4, <3>1, <3>2, <3>3, AppendStep
    <2> QED
      BY <2>2, <2>3, <2>4
  <1>6. CASE Fails(n)
    BY <1>1, <1>2, <1>4, <1>6 DEF ImageInv, HoldsCursor
  <1>7. CASE ~Fails(n)
    <2>1. \A q \in Process : pc'[q] \notin {"undo", "zero"} /\ (pc'[q] = "record" => q = p)
      BY <1>2, <1>7 DEF HoldsCursor
    <2>2. pc'[p] = "record" /\ cursor' < NSteps /\ want'[p] \in {0, cursor' + 1}
      BY <1>1, <1>2, <1>7 DEF n
    <2> QED
      BY <1>1, <1>5, <1>7, <2>1, <2>2 DEF ImageInv
  <1> QED
    BY <1>6, <1>7

LEMMA RecordImage ==
  ASSUME IInv, NEW p \in Process, Record(p)
  PROVE  ImageInv'
  <1> USE ScriptAssumption, Steps
  <1> DEFINE n == cursor + 1
  <1>1. /\ pc[p] = "record" /\ n \in 1..NSteps /\ cursor' = n
        /\ image' = IF Diffed(n) THEN [image EXCEPT !.account_logs = Append(@, n)] ELSE image
        /\ Goto(p, "drop")
    BY SMTT(30) DEF Record, IInv, Types, ImageInv
  <1>2. \A q \in Process : pc'[q] \notin {"undo", "record", "zero"}
    BY <1>1, GotoPc, Exclusive DEF IInv, HoldsCursor
  <1>3. ASSUME NEW s \in Section
        PROVE  /\ image[s] \in Seq(1..NSteps)
               /\ \A i, j \in DOMAIN image[s] : i < j => image[s][i] < image[s][j]
               /\ Range(image[s]) =
                    {m \in 1..(IF s = "account_logs" THEN cursor ELSE cursor + 1) : Writes(m, s)}
    BY <1>1 DEF IInv, ImageInv, Types
  <1>3a. cursor \in Nat /\ 1..n = (1..cursor) \cup {n}
    <2>1. cursor \in 0..NSteps
      BY DEF IInv, Types
    <2> QED
      BY <2>1
  <1> HIDE DEF n
  <1>4. ASSUME NEW s \in Section
        PROVE  /\ \A i, j \in DOMAIN image'[s] : i < j => image'[s][i] < image'[s][j]
               /\ Range(image'[s]) = {m \in 1..n : Writes(m, s)}
    <2>1. CASE s # "account_logs"
      <3>1. image'[s] = image[s]
        BY <1>1, <2>1 DEF IInv, Types
      <3> QED
        BY <1>3, <2>1, <3>1 DEF n
    <2>2. CASE s = "account_logs" /\ ~Diffed(n)
      <3>1. image'[s] = image[s] /\ ~Writes(n, s)
        BY <1>1, <2>2 DEF Writes
      <3>2. {m \in 1..cursor : Writes(m, s)} = {m \in 1..n : Writes(m, s)}
        BY <1>3a, <3>1
      <3> QED
        BY <1>3, <2>2, <3>1, <3>2
    <2>3. CASE s = "account_logs" /\ Diffed(n)
      <3>1. image'[s] = Append(image[s], n) /\ Writes(n, s)
        BY <1>1, <2>3 DEF Writes, IInv, Types
      <3>2. \A m \in Range(image[s]) : m < n
        BY <1>1, <1>3, <2>3 DEF n, IInv, Types
      <3>3. Range(image[s]) \cup {n} = {m \in 1..n : Writes(m, s)}
        <4>1. Range(image[s]) = {m \in 1..cursor : Writes(m, s)}
          BY <1>3, <2>3
        <4> QED
          BY <1>3a, <3>1, <4>1
      <3> QED
        BY <1>1, <1>3, <3>1, <3>2, <3>3, AppendStep
    <2> QED
      BY <2>1, <2>2, <2>3
  <1>5. HoldsUpTo(image', cursor')
    BY <1>1, <1>4 DEF HoldsUpTo
  <1> QED
    BY <1>2, <1>5 DEF ImageInv

LEMMA ImageStep ==
  ASSUME IInv, NEW p \in Process, Arrive(p) \/ Step(p)
  PROVE  ImageInv'
  <1> USE ScriptAssumption, Steps
  <1>0. Types
    BY DEF IInv
  <1>1. CASE Arrive(p)
    BY <1>0, <1>1, ImageKept DEF Arrive, Types, shared, Process
  <1>2. CASE LockCursor(p)
    BY <1>0, <1>2, ImageKept DEF LockCursor, Types, shared
  <1>3. CASE LockFixture(p)
    BY <1>0, <1>3, ImageKept DEF LockFixture, Types, shared
  <1>4. CASE Reject(p)
    BY <1>0, <1>4, ImageKept DEF Reject, Types, shared, After
  <1>5. CASE DropFixture(p)
    BY <1>0, <1>5, ImageKept DEF DropFixture, Types, shared
  <1>6. CASE Emit(p)
    BY <1>0, <1>6, ImageKept DEF Emit, Types, shared, After
  <1>7. CASE MatchBegin(p)
    BY <1>0, <1>7, ImageKept DEF MatchBegin, Types, shared
  <1>8. CASE MatchEnd(p)
    BY <1>0, <1>8, ImageKept DEF MatchEnd, Types, shared
  <1>9. CASE Count(p)
    BY <1>0, <1>9, ImageKept DEF Count, Types, shared
  <1>10. CASE NextDue(p)
    BY <1>0, <1>10, ImageKept DEF NextDue, Types, shared
  <1>11. CASE Report(p)
    BY <1>0, <1>11, ImageKept DEF Report, Types, shared
  <1>12. CASE LogRequest(p)
    BY <1>0, <1>12, ImageKept DEF LogRequest, Types, shared
  <1>13. CASE ServeBegin(p)
    BY <1>0, <1>13, ImageKept DEF ServeBegin, Types, shared
  <1>14. CASE ServeEnd(p)
    BY <1>0, <1>14, ImageKept DEF ServeEnd, Types, shared
  <1>15. CASE ClearLog(p)
    BY <1>0, <1>15, ImageKept DEF ClearLog, Types, shared
  <1>16. CASE ClearPush(p)
    BY <1>0, <1>16, ImageKept DEF ClearPush, Types, shared
  <1>17. CASE ClearCounts(p)
    BY <1>0, <1>17, ImageKept DEF ClearCounts, Types, shared
  <1>18. CASE ApplyOps(p)
    BY <1>18, ApplyOpsImage
  <1>19. CASE Record(p)
    BY <1>19, RecordImage
  <1>20. CASE Undo(p)
    <2>1. pc[p] = "undo" /\ image' = Undone /\ cursor' = cursor /\ Goto(p, After(p, "failed"))
      BY <1>20 DEF Undo, Undone
    <2>2. \A q \in Process : pc'[q] \notin {"undo", "record", "zero"}
      BY <1>0, <2>1, GotoPc, Exclusive DEF HoldsCursor, After
    <2>3. HoldsUpTo(image', cursor')
      BY <2>1 DEF IInv, ImageInv
    <2> QED
      BY <2>2, <2>3 DEF ImageInv
  <1>21. CASE Rewind(p)
    <2>1. pc[p] = "rewind" /\ image' = [s \in Section |-> << >>] /\ Goto(p, "zero")
      BY <1>21 DEF Rewind
    <2>2. pc'[p] = "zero" /\ \A q \in Process : pc'[q] \notin {"undo", "record"}
      BY <1>0, <2>1, GotoPc, Exclusive DEF HoldsCursor
    <2>3. HoldsUpTo(image', 0)
      <3>1. Range(<< >>) = {}
        BY DEF Range
      <3> QED
        BY <2>1, <3>1 DEF HoldsUpTo
    <2> QED
      BY <2>2, <2>3 DEF ImageInv
  <1>22. CASE Zero(p)
    <2>1. pc[p] = "zero" /\ image' = image /\ cursor' = 0 /\ Goto(p, "idle")
      BY <1>22 DEF Zero
    <2>2. \A q \in Process : pc'[q] \notin {"undo", "record", "zero"}
      BY <1>0, <2>1, GotoPc, Exclusive DEF HoldsCursor
    <2>3. HoldsUpTo(image', cursor')
      BY <2>1 DEF IInv, ImageInv
    <2> QED
      BY <2>2, <2>3 DEF ImageInv
  <1> QED
    BY <1>1, <1>2, <1>3, <1>4, <1>5, <1>6, <1>7, <1>8, <1>9, <1>10, <1>11,
       <1>12, <1>13, <1>14, <1>15, <1>16, <1>17, <1>18, <1>19, <1>20, <1>21, <1>22
    DEF Step, Advance, Announce, Reset

-----------------------------------------------------------------------------
(* Announcements before a reset. *)

(* As long as no reset arrives, whoever moves is not one. *)
LEMMA BeforeReset ==
  ASSUME IInv, NEW p \in Process, Arrive(p) \/ Step(p), Unreset'
  PROVE  Unreset /\ p \notin Resetter
  <1> USE ScriptAssumption
  <1>1. /\ left \in [Process -> 0..Budget]
        /\ (left' = left /\ pc[p] # "idle") \/ (left' = [left EXCEPT ![p] = @ - 1] /\ left[p] > 0)
    BY DEF IInv, Types, Arrive, Step, Advance, Announce, Reset, LockCursor, LockFixture, Reject,
       ApplyOps, Undo, Record, DropFixture, Emit, MatchBegin, MatchEnd, Count, NextDue, Report,
       LogRequest, ServeBegin, ServeEnd, ClearLog, ClearPush, ClearCounts, Rewind, Zero
  <1>2. \A z \in Resetter : z \in Process /\ left'[z] = Budget
    BY DEF Unreset, Process
  <1>3. \A z \in Resetter : left[z] = Budget /\ z # p
    BY <1>1, <1>2 DEF IInv, AppliedInv
  <1> QED
    BY <1>3 DEF Unreset

LEMMA ThereStep ==
  ASSUME IInv, NEW p \in Process, p \notin Resetter, Arrive(p) \/ Step(p), AppliedThere, ImageInv'
  PROVE  AppliedThere' /\ cursor <= cursor'
  <1> USE ScriptAssumption, Steps
  <1>0. Types /\ pc[p] \notin {"rewind", "zero"} /\ cursor \in Nat
    <2>1. Types
      BY DEF IInv
    <2>2. pc[p] \in {"idle"} \cup Advancing \cup Announcing
      BY <2>1 DEF Types, Process
    <2>3. cursor \in Nat
      BY <2>1 DEF Types
    <2> QED
      BY <2>1, <2>2, <2>3 DEF Advancing, Announcing
  <1>1. CASE UNCHANGED <<cursor, image>>
    BY <1>0, <1>1 DEF AppliedThere
  <1>2. CASE ApplyOps(p)
    <2>1. cursor + 1 \in 1..NSteps /\ image' = AfterOps(image, cursor + 1) /\ cursor' = cursor
      BY <1>0, <1>2 DEF ApplyOps, Types
    <2>2. \A s \in Section : Range(image[s]) \subseteq Range(image'[s])
      <3>1. \A s \in Section : image[s] \in Seq(1..NSteps)
        BY <1>0 DEF Types
      <3>2. \A s \in Section : Range(Append(image[s], cursor + 1)) = Range(image[s]) \cup {cursor + 1}
        BY <2>1, <3>1, AppendStep
      <3>3. \A s \in Section : image'[s] \in {image[s], Append(image[s], cursor + 1)}
        BY <1>0, <2>1, AfterOpsSections DEF Types
      <3> QED
        BY <3>2, <3>3
    <2>3. cursor <= cursor'
      BY <1>0, <2>1
    <2> QED
      BY <2>1, <2>2, <2>3 DEF AppliedThere
  <1>3. CASE Undo(p) \/ Record(p)
    <2>1. cursor' \in {cursor, cursor + 1}
      BY <1>3 DEF Undo, Record
    <2>2. pc[p] \in {"undo", "record"} /\ \E l \in {"failed", "idle", "drop"} : Goto(p, l)
      BY <1>3 DEF Undo, Record, After
    <2>3. \A r \in Process : pc'[r] \notin {"undo", "record", "zero"}
      BY <1>0, <2>2, GotoPc, Exclusive DEF HoldsCursor
    <2>4. HoldsUpTo(image', cursor')
      BY <2>3 DEF ImageInv
    <2>5. cursor <= cursor'
      BY <1>0, <2>1
    <2>6. ASSUME NEW n \in 1..cursor', NEW s \in Section, Writes(n, s)
          PROVE  n \in Range(image'[s])
      BY <2>4, <2>6 DEF HoldsUpTo
    <2>7. AppliedThere'
      BY <2>6 DEF AppliedThere, Writes, Diffed
    <2> QED
      BY <2>5, <2>7
  <1>4. ApplyOps(p) \/ Undo(p) \/ Record(p) \/ UNCHANGED <<cursor, image>>
    BY <1>0 DEF Arrive, Step, Advance, Announce, Reset, LockCursor, LockFixture, Reject,
       DropFixture, Emit, MatchBegin, MatchEnd, Count, NextDue, Report, LogRequest, ServeBegin,
       ServeEnd, ClearLog, ClearPush, ClearCounts, Rewind, Zero, shared
  <1> QED
    BY <1>1, <1>2, <1>3, <1>4

(* Every step but the two of an advance that apply and announce. *)
LEMMA PushedKept ==
  ASSUME Types, NEW p \in Process, NEW l, Goto(p, l), AppliedPushed, Range(pushed) \subseteq Range(pushed'),
         cursor \in Nat, cursor' \in Nat, cursor <= cursor',
         \A q \in Process : q # p => want'[q] = want[q],
         \A q \in Process : applied'[q] \subseteq applied[q],
         pc[p] \in {"drop", "emit"} =>
            \/ l \in {"drop", "emit"} /\ want'[p] = want[p]
            \/ Diffed(want[p]) => want[p] \in Range(pushed')
  PROVE  AppliedPushed'
  <1>1. pc'[p] = l /\ \A q \in Process : q # p => pc'[q] = pc[q]
    BY GotoPc
  <1>2. ASSUME NEW q \in Process, NEW n \in applied'[q]
        PROVE  n <= cursor'
    <2>1. n \in 1..NSteps /\ n <= cursor
      BY <1>2 DEF AppliedPushed, Types
    <2> QED
      BY <2>1, Steps
  <1>3. ASSUME NEW q \in Process, NEW n \in applied'[q], Diffed(n)
        PROVE  n \in Range(pushed') \/ (pc'[q] \in {"drop", "emit"} /\ want'[q] = n)
    <2>1. n \in Range(pushed) \/ (pc[q] \in {"drop", "emit"} /\ want[q] = n)
      BY <1>3 DEF AppliedPushed
    <2> QED
      BY <1>1, <1>3, <2>1
  <1> QED
    BY <1>2, <1>3 DEF AppliedPushed, Diffed

LEMMA PushedStep ==
  ASSUME IInv, NEW p \in Process, p \notin Resetter, Arrive(p) \/ Step(p), AppliedPushed,
         cursor <= cursor', cursor' \in Nat
  PROVE  AppliedPushed'
  <1> USE ScriptAssumption, Steps
  <1>0. /\ Types /\ cursor \in Nat /\ Range(pushed) \subseteq Range(pushed)
        /\ pc[p] \notin {"clear_log", "clear_push", "clear_counts", "rewind", "zero"}
    <2>1. Types
      BY DEF IInv
    <2>2. pc[p] \in {"idle"} \cup Advancing \cup Announcing
      BY <2>1 DEF Types, Process
    <2>3. cursor \in Nat
      BY <2>1 DEF Types
    <2> QED
      BY <2>1, <2>2, <2>3 DEF Advancing, Announcing
  <1>1. CASE Arrive(p)
    <2>1. \A q \in Process : applied'[q] \subseteq applied[q]
      BY <1>0, <1>1 DEF Arrive, Types
    <2>2. \A q \in Process : q # p => want'[q] = want[q]
      BY <1>0, <1>1 DEF Arrive, Types
    <2> QED
      BY <1>0, <1>1, <2>1, <2>2, PushedKept DEF Arrive, shared
  <1>2. CASE LockCursor(p)
    BY <1>0, <1>2, PushedKept DEF LockCursor, shared
  <1>3. CASE LockFixture(p)
    BY <1>0, <1>3, PushedKept DEF LockFixture, shared
  <1>4. CASE Reject(p)
    BY <1>0, <1>4, PushedKept DEF Reject, shared, After
  <1>5. CASE ApplyOps(p)
    BY <1>0, <1>5, PushedKept DEF ApplyOps, shared
  <1>6. CASE Undo(p)
    BY <1>0, <1>6, PushedKept DEF Undo, shared, After
  <1>7. CASE Record(p)
    <2> DEFINE n == cursor + 1
    <2>1. /\ pc[p] = "record" /\ n \in 1..NSteps /\ cursor' = n /\ pushed' = pushed
          /\ applied' = [applied EXCEPT ![p] = @ \cup {n}] /\ want' = [want EXCEPT ![p] = n]
          /\ Goto(p, "drop")
      BY <1>7 DEF Record, IInv, Types, ImageInv
    <2>2. pc'[p] = "drop" /\ want'[p] = n /\ applied'[p] = applied[p] \cup {n}
      BY <1>0, <2>1, GotoPc DEF Types
    <2>3. \A q \in Process : q # p => pc'[q] = pc[q] /\ want'[q] = want[q] /\ applied'[q] = applied[q]
      BY <1>0, <2>1, GotoPc DEF Types
    <2>4. ASSUME NEW q \in Process, NEW m \in applied'[q]
          PROVE  m <= cursor' /\ (Diffed(m) => m \in Range(pushed) \/ (pc'[q] \in {"drop", "emit"} /\ want'[q] = m))
      <3>1. CASE m \in applied[q]
        <4>1. m \in 1..NSteps /\ m <= cursor
          BY <1>0, <3>1 DEF AppliedPushed, Types
        <4>2. m <= cursor'
          BY <1>0, <2>1, <4>1
        <4>3. Diffed(m) => m \in Range(pushed) \/ (pc[q] \in {"drop", "emit"} /\ want[q] = m)
          BY <3>1 DEF AppliedPushed
        <4> QED
          BY <2>1, <2>3, <4>2, <4>3
      <3>2. CASE m \notin applied[q]
        <4>1. q = p /\ m = n
          BY <2>2, <2>3, <2>4, <3>2
        <4> QED
          BY <2>1, <2>2, <4>1
      <3> QED
        BY <3>1, <3>2
    <2> QED
      BY <2>1, <2>4 DEF AppliedPushed, Diffed
  <1>8. CASE DropFixture(p)
    BY <1>0, <1>8, PushedKept DEF DropFixture, shared
  <1>9. CASE Emit(p)
    <2>1. want[p] \in 1..NSteps /\ pushed \in Seq(1..NSteps)
      <3>1. want[p] # 0 /\ want[p] \in 0..NSteps
        BY <1>0, <1>9 DEF Emit, IInv, AppliedInv, Types
      <3> QED
        BY <1>0, <3>1 DEF Types
    <2>2. Range(Append(pushed, want[p])) = Range(pushed) \cup {want[p]}
      BY <2>1, AppendStep
    <2>3. /\ Range(pushed) \subseteq Range(pushed')
          /\ Diffed(want[p]) => want[p] \in Range(pushed')
      BY <1>9, <2>2 DEF Emit
    <2> QED
      BY <1>0, <1>9, <2>3, PushedKept DEF Emit
  <1>10. CASE MatchBegin(p)
    BY <1>0, <1>10, PushedKept DEF MatchBegin, shared
  <1>11. CASE MatchEnd(p)
    BY <1>0, <1>11, PushedKept DEF MatchEnd, shared
  <1>12. CASE Count(p)
    BY <1>0, <1>12, PushedKept DEF Count, shared
  <1>13. CASE NextDue(p)
    <2>1. \A q \in Process : q # p => want'[q] = want[q]
      BY <1>0, <1>13 DEF NextDue, Types
    <2> QED
      BY <1>0, <1>13, <2>1, PushedKept DEF NextDue, shared
  <1>14. CASE Report(p)
    BY <1>0, <1>14, PushedKept DEF Report, shared
  <1>15. CASE LogRequest(p)
    BY <1>0, <1>15, PushedKept DEF LogRequest, shared
  <1>16. CASE ServeBegin(p)
    BY <1>0, <1>16, PushedKept DEF ServeBegin, shared
  <1>17. CASE ServeEnd(p)
    BY <1>0, <1>17, PushedKept DEF ServeEnd, shared
  <1> QED
    BY <1>0, <1>1, <1>2, <1>3, <1>4, <1>5, <1>6, <1>7, <1>8, <1>9, <1>10, <1>11,
       <1>12, <1>13, <1>14, <1>15, <1>16, <1>17
    DEF Step, Advance, Announce, Reset, ClearLog, ClearPush, ClearCounts, Rewind, Zero

(* A resetter that has not begun is idle, and an advance knows its step. *)
LEMMA WantStep ==
  ASSUME IInv, NEW p \in Process, Arrive(p) \/ Step(p)
  PROVE  /\ \A z \in Resetter : left'[z] = Budget => pc'[z] = "idle"
         /\ \A q \in Process : pc'[q] \in {"drop", "emit"} => want'[q] # 0
  <1> USE ScriptAssumption, Steps
  <1>0. Types /\ AppliedInv
    BY DEF IInv
  <1>1. (left' = left /\ pc[p] # "idle") \/ (left' = [left EXCEPT ![p] = @ - 1] /\ left[p] > 0)
    BY <1>0 DEF Types, Goto, Arrive, Step, Advance, Announce, Reset, LockCursor, LockFixture, Reject,
       ApplyOps, Undo, Record, DropFixture, Emit, MatchBegin, MatchEnd, Count, NextDue, Report,
       LogRequest, ServeBegin, ServeEnd, ClearLog, ClearPush, ClearCounts, Rewind, Zero, After
  <1>2. pc'[p] \in {"drop", "emit"} => Record(p) \/ (pc[p] = "drop" /\ want' = want)
    BY <1>0 DEF Process, Types, Goto, Arrive, Step, Advance, Announce, Reset, LockCursor, LockFixture, Reject,
       ApplyOps, Undo, Record, DropFixture, Emit, MatchBegin, MatchEnd, Count, NextDue, Report,
       LogRequest, ServeBegin, ServeEnd, ClearLog, ClearPush, ClearCounts, Rewind, Zero, After
  <1>3. \A q \in Process : q # p => pc'[q] = pc[q]
    BY <1>0 DEF Types, Goto, Arrive, Step, Advance, Announce, Reset, LockCursor, LockFixture, Reject,
       ApplyOps, Undo, Record, DropFixture, Emit, MatchBegin, MatchEnd, Count, NextDue, Report,
       LogRequest, ServeBegin, ServeEnd, ClearLog, ClearPush, ClearCounts, Rewind, Zero, After
  <1>4. ASSUME NEW z \in Resetter, left'[z] = Budget PROVE pc'[z] = "idle"
    <2>1. z \in Process /\ left[z] \in 0..Budget
      BY <1>0 DEF Types, Process
    <2>2. left[z] = Budget /\ z # p
      BY <1>0, <1>1, <1>4, <2>1 DEF AppliedInv, Types
    <2> QED
      BY <1>0, <1>3, <2>1, <2>2 DEF AppliedInv
  <1>5. \A q \in Process : q # p => want'[q] = want[q]
    BY <1>0 DEF Types, Arrive, Step, Advance, Announce, Reset, LockCursor, LockFixture, Reject,
       ApplyOps, Undo, Record, DropFixture, Emit, MatchBegin, MatchEnd, Count, NextDue, Report,
       LogRequest, ServeBegin, ServeEnd, ClearLog, ClearPush, ClearCounts, Rewind, Zero
  <1>6. pc'[p] \in {"drop", "emit"} => want'[p] # 0
    <2>1. Record(p) => want'[p] = cursor + 1 /\ cursor \in Nat
      BY <1>0 DEF Record, Types
    <2> QED
      BY <1>0, <1>2, <2>1 DEF AppliedInv
  <1> QED
    BY <1>0, <1>3, <1>4, <1>5, <1>6 DEF AppliedInv

LEMMA AppliedStep ==
  ASSUME IInv, NEW p \in Process, Arrive(p) \/ Step(p), ImageInv', cursor' \in Nat
  PROVE  AppliedInv'
  <1>1. ASSUME Unreset' PROVE AppliedThere' /\ AppliedPushed'
    <2>1. Unreset /\ p \notin Resetter
      BY <1>1, BeforeReset
    <2>2. AppliedThere /\ AppliedPushed
      BY <2>1 DEF IInv, AppliedInv
    <2> QED
      BY <2>1, <2>2, ThereStep, PushedStep
  <1> QED
    BY <1>1, WantStep DEF AppliedInv

LEMMA NextIInv == IInv /\ [Next]_vars => IInv'
  <1> SUFFICES ASSUME IInv, [Next]_vars PROVE IInv'
    OBVIOUS
  <1>1. CASE UNCHANGED vars
    BY <1>1 DEF vars, shared, locks, IInv, Types, LockInv, ImageInv, HoldsUpTo, Undone, AppliedInv,
       AppliedThere, AppliedPushed, Unreset
  <1>2. ASSUME NEW p \in Process, Arrive(p) \/ Step(p) PROVE IInv'
    <2>1. Types /\ LockInv
      BY DEF IInv
    <2>2. Types' /\ LockInv' /\ ImageInv'
      BY <1>2, <2>1, TypesStep, LocksStep, ImageStep
    <2>3. cursor' \in Nat
      BY <2>2, Steps DEF Types
    <2> QED
      BY <1>2, <2>2, <2>3, AppliedStep DEF IInv
  <1> QED
    BY <1>1, <1>2 DEF Next

LEMMA Invariance == Spec => []IInv
  BY InitIInv, NextIInv, PTL DEF Spec

-----------------------------------------------------------------------------
(* What follows. *)

(* Between critical sections, whatever the step, protocol and reset requests do,
   the fixture holds exactly the script up to the cursor (advance_change_cursor,
   reset_fixture). *)
THEOREM ScriptStaysSound == Spec => []ScriptSound
  <1>1. IInv => ScriptSound
    <2> SUFFICES ASSUME IInv PROVE ScriptSound
      OBVIOUS
    <2>1. TypeOK
      <3>1. readers \subseteq Requester
        BY DEF IInv, Types, LockInv, HoldsRead, Advancing, Resetting, Process
      <3> QED
        BY <3>1 DEF IInv, Types, TypeOK
    <2>2. CursorMatchesImage
      BY ScriptAssumption DEF CursorMatchesImage, IInv, LockInv, ImageInv, HoldsCursor
    <2> QED
      BY <2>1, <2>2 DEF ScriptSound
  <1> QED
    BY <1>1, Invariance, PTL

(* A handler never reads a step in part: while it has its read guard the fixture
   is the baseline after some number of whole steps. *)
THEOREM ReadsAreWhole == Spec => []NoTornRead
  <1>1. IInv => NoTornRead
    <2> SUFFICES ASSUME IInv, readers # {} PROVE \E k \in 0..NSteps : HoldsUpTo(image, k)
      BY DEF NoTornRead
    <2>1. \A p \in Process : pc[p] \notin {"undo", "record"}
      BY ScriptAssumption DEF IInv, LockInv, HoldsFixture
    <2>2. CASE \E p \in Process : pc[p] = "zero"
      <3>1. 0 \in 0..NSteps
        BY Steps
      <3> QED
        BY <2>2, <3>1 DEF IInv, ImageInv
    <2>3. CASE ~\E p \in Process : pc[p] = "zero"
      BY <2>1, <2>3 DEF IInv, ImageInv, Types
    <2> QED
      BY <2>2, <2>3
  <1> QED
    BY <1>1, Invariance, PTL

-----------------------------------------------------------------------------
(* A trigger announces once. *)

LEMMA LogTyped ==
  ASSUME IInv, rlog \in Seq(Row), NEW p \in Process, Arrive(p) \/ Step(p)
  PROVE  rlog' \in Seq(Row)
  <1>1. CASE Report(p)
    <2>1. want[p] \in 0..NSteps
      BY DEF IInv, Types
    <2>2. [kind |-> "announce", who |-> p, step |-> want[p], ok |-> pc[p] = "fired"] \in Row
      BY <2>1 DEF Row
    <2> QED
      BY <1>1, <2>2 DEF Report
  <1>2. CASE LogRequest(p)
    <2>1. [kind |-> "request", who |-> p, step |-> 0, ok |-> TRUE] \in Row
      BY Steps DEF Row
    <2> QED
      BY <1>2, <2>1 DEF LogRequest
  <1>3. CASE ClearLog(p)
    <2>1. << >> \in Seq(Row)
      OBVIOUS
    <2> QED
      BY <1>3, <2>1 DEF ClearLog
  <1>4. Report(p) \/ LogRequest(p) \/ ClearLog(p) \/ rlog' = rlog
    BY DEF Arrive, Step, Advance, Announce, Reset, LockCursor, LockFixture, Reject,
       ApplyOps, Undo, Record, DropFixture, Emit, MatchBegin, MatchEnd, Count, NextDue,
       ServeBegin, ServeEnd, ClearPush, ClearCounts, Rewind, Zero, shared
  <1> QED
    BY <1>1, <1>2, <1>3, <1>4

(* A row more in the log. *)
LEMMA LogAppend ==
  ASSUME NEW r, rlog \in Seq(Row), r \in Row, rlog' = Append(rlog, r)
  PROVE  /\ Len(rlog) \in Nat /\ Len(rlog') = Len(rlog) + 1 /\ rlog'[Len(rlog) + 1] = r
         /\ \A k \in 1..Len(rlog) : rlog'[k] = rlog[k]
         /\ \A n : Reported(n)' <=> Reported(n) \/ (r.kind = "announce" /\ r.step = n)
  <1>1. /\ Len(rlog) \in Nat /\ Len(rlog') = Len(rlog) + 1 /\ rlog'[Len(rlog) + 1] = r
        /\ \A k \in 1..Len(rlog) : rlog'[k] = rlog[k]
    OBVIOUS
  <1>2. ASSUME NEW n PROVE Reported(n)' <=> Reported(n) \/ (r.kind = "announce" /\ r.step = n)
    <2>1. 1..Len(rlog') = (1..Len(rlog)) \cup {Len(rlog) + 1}
      BY <1>1
    <2> QED
      BY <1>1, <2>1 DEF Reported
  <1> QED
    BY <1>1, <1>2

(* Nothing becomes due, nothing takes off and nothing is reported. *)
LEMMA OnceKept ==
  ASSUME DueOnce /\ FlyingOnce /\ ReportedOnce, rlog' = rlog,
         \A i \in DOMAIN Trigger : Matched(i) => Matched(i)',
         \A q \in Process : due[q] \subseteq DOMAIN Trigger /\ due'[q] \subseteq due[q],
         \A q \in Process : Flying(q)' => Flying(q) /\ want'[q] = want[q]
  PROVE  (DueOnce /\ FlyingOnce /\ ReportedOnce)'
  <1>0. \A n : Reported(n)' <=> Reported(n)
    BY DEF Reported
  <1>1. DueOnce'
    BY <1>0 DEF DueOnce
  <1>2. FlyingOnce'
    BY <1>0 DEF FlyingOnce
  <1>3. ReportedOnce'
    BY <1>0 DEF ReportedOnce
  <1> QED
    BY <1>1, <1>2, <1>3

(* The steps of an advance and of a guard keep who is announcing what: a trigger
   that applies its step applies the one it wanted. *)
LEMMA FlyingKept ==
  ASSUME IInv, FlyingOnce, NEW p \in Process, p \notin Resetter, Arrive(p) \/ Step(p),
         ~(Count(p) \/ NextDue(p) \/ Report(p) \/ LogRequest(p))
  PROVE  /\ rlog' = rlog /\ counts' = counts /\ due' = due
         /\ \A q \in Process : Flying(q)' => Flying(q) /\ want'[q] = want[q]
  <1> USE ScriptAssumption, Steps
  <1>0. /\ Types /\ pc[p] \notin {"clear_log", "clear_push", "clear_counts", "rewind", "zero"}
        /\ Arrive(p) \/ Advance(p) \/ MatchBegin(p) \/ MatchEnd(p) \/ ServeBegin(p) \/ ServeEnd(p)
    <2>1. Types
      BY DEF IInv
    <2>2. pc[p] \in {"idle"} \cup Advancing \cup Announcing
      BY <2>1 DEF Types, Process
    <2>3. pc[p] \notin {"clear_log", "clear_push", "clear_counts", "rewind", "zero"}
      BY <2>2 DEF Advancing, Announcing
    <2> QED
      BY <2>1, <2>3 DEF Step, Announce, Reset, ClearLog, ClearPush, ClearCounts, Rewind, Zero
  <1>1. rlog' = rlog /\ counts' = counts /\ due' = due
    BY <1>0 DEF Arrive, Advance, LockCursor, LockFixture, Reject, ApplyOps, Undo, Record,
       DropFixture, Emit, MatchBegin, MatchEnd, ServeBegin, ServeEnd, shared
  <1>2. \A q \in Process : q # p => pc'[q] = pc[q] /\ want'[q] = want[q]
    BY <1>0 DEF Types, Goto, Arrive, Advance, LockCursor, LockFixture, Reject, ApplyOps, Undo, Record,
       DropFixture, Emit, MatchBegin, MatchEnd, ServeBegin, ServeEnd
  <1>3. ASSUME Flying(p)' PROVE Flying(p) /\ (want'[p] = want[p] \/ Record(p))
    <2>1. p \in Requester /\ pc'[p] \in Advancing \cup {"fired", "failed"}
      BY <1>3 DEF Flying
    <2>2. CASE Advance(p)
      BY <2>1, <2>2 DEF Advance, LockCursor, LockFixture, Reject, ApplyOps, Undo, Record,
         DropFixture, Emit, Flying, Advancing
    <2>3. CASE Arrive(p) \/ MatchBegin(p) \/ MatchEnd(p) \/ ServeBegin(p) \/ ServeEnd(p)
      BY <1>0, <2>1, <2>3 DEF Types, Goto, Arrive, MatchBegin, MatchEnd, ServeBegin, ServeEnd, Advancing
    <2> QED
      BY <1>0, <2>2, <2>3
  <1>4. ASSUME Flying(p), Record(p) PROVE want'[p] = want[p]
    <2>1. want[p] # 0
      <3>1. PICK i \in DOMAIN Trigger : want[p] = Trigger[i].step
        BY <1>4 DEF FlyingOnce
      <3> QED
        BY <3>1
    <2>2. want[p] \in {0, cursor + 1} /\ want'[p] = cursor + 1
      BY <1>0, <1>4 DEF Record, Types, IInv, ImageInv
    <2> QED
      BY <2>1, <2>2
  <1> QED
    BY <1>1, <1>2, <1>3, <1>4 DEF Flying

LEMMA OnceStep ==
  ASSUME DistinctSteps, IInv, OnceInv, NEW p \in Process, Arrive(p) \/ Step(p)
  PROVE  OnceInv'
  <1> USE ScriptAssumption, Steps
  <1>0. Types /\ rlog \in Seq(Row) /\ rlog' \in Seq(Row)
    BY LogTyped DEF IInv, OnceInv
  <1> SUFFICES ASSUME Unreset' PROVE (DueOnce /\ FlyingOnce /\ ReportedOnce)'
    BY <1>0 DEF OnceInv
  <1>1. p \notin Resetter /\ DueOnce /\ FlyingOnce /\ ReportedOnce
    BY BeforeReset DEF OnceInv
  <1>2. \A q \in Process : due[q] \subseteq DOMAIN Trigger
    BY <1>0 DEF Types
  <1>3. CASE ~(Count(p) \/ NextDue(p) \/ Report(p) \/ LogRequest(p))
    <2>1. /\ rlog' = rlog /\ counts' = counts /\ due' = due
          /\ \A q \in Process : Flying(q)' => Flying(q) /\ want'[q] = want[q]
      BY <1>1, <1>3, FlyingKept
    <2>2. \A i \in DOMAIN Trigger : Matched(i) => Matched(i)'
      BY <2>1 DEF Matched
    <2> QED
      BY <1>1, <1>2, <2>1, <2>2, OnceKept
  <1>4. CASE Count(p)
    <2>1. /\ rlog' = rlog /\ want' = want /\ pc[p] = "count" /\ Goto(p, "next")
          /\ counts' = [i \in DOMAIN Trigger |-> counts[i] + 1]
          /\ due'[p] = {i \in DOMAIN Trigger : counts[i] + 1 = Trigger[i].nth}
          /\ \A q \in Process : q # p => due'[q] = due[q]
      BY <1>0, <1>4 DEF Count, Types
    <2>2. \A i \in DOMAIN Trigger : counts[i] \in Nat /\ (Matched(i) => Matched(i)')
      <3>1. \A i \in DOMAIN Trigger : counts[i] \in Nat /\ counts'[i] = counts[i] + 1
        BY <1>0, <2>1 DEF Types
      <3> QED
        BY <3>1 DEF Matched
    <2>3. \A i \in due'[p] : i \in DOMAIN Trigger /\ ~Matched(i) /\ Matched(i)'
      BY <2>1, <2>2 DEF Matched
    <2>4. \A q \in Process : Flying(q)' <=> Flying(q)
      <3>1. pc'[p] = "next" /\ \A q \in Process : q # p => pc'[q] = pc[q]
        BY <1>0, <2>1, GotoPc
      <3> QED
        BY <2>1, <3>1 DEF Flying, Advancing
    <2>5. \A n : Reported(n)' <=> Reported(n)
      BY <2>1 DEF Reported
    <2>6. ASSUME NEW q \in Process, NEW i \in due'[q]
          PROVE  /\ Matched(i)' /\ ~Reported(Trigger[i].step)
                 /\ \A z \in Process : z # q => i \notin due'[z]
                 /\ \A z \in Process : Flying(z) => want[z] # Trigger[i].step
      <3>1. CASE q = p
        <4>1. i \in DOMAIN Trigger /\ ~Matched(i) /\ Matched(i)'
          BY <2>3, <2>6, <3>1
        <4>2. ~Reported(Trigger[i].step)
          <5> SUFFICES ASSUME Reported(Trigger[i].step) PROVE FALSE
            OBVIOUS
          <5>1. PICK j \in DOMAIN Trigger : Trigger[i].step = Trigger[j].step /\ Matched(j)
            BY <1>1 DEF ReportedOnce
          <5> QED
            BY <4>1, <5>1 DEF DistinctSteps
        <4>3. \A z \in Process : z # q => i \notin due'[z]
          BY <1>1, <2>1, <3>1, <4>1 DEF DueOnce
        <4>4. \A z \in Process : Flying(z) => want[z] # Trigger[i].step
          BY <1>1, <4>1 DEF FlyingOnce, DistinctSteps
        <4> QED
          BY <4>1, <4>2, <4>3, <4>4
      <3>2. CASE q # p
        <4>1. i \in due[q] /\ Matched(i) /\ i \in DOMAIN Trigger
          BY <1>1, <1>2, <2>1, <2>6, <3>2 DEF DueOnce
        <4>2. i \notin due'[p]
          BY <2>3, <4>1
        <4> QED
          BY <1>1, <2>1, <2>2, <3>2, <4>1, <4>2 DEF DueOnce
      <3> QED
        BY <3>1, <3>2
    <2>7. DueOnce'
      BY <2>1, <2>4, <2>5, <2>6 DEF DueOnce
    <2>8. FlyingOnce'
      BY <1>1, <2>1, <2>2, <2>4, <2>5 DEF FlyingOnce
    <2>9. ReportedOnce'
      BY <1>1, <2>1, <2>2, <2>5 DEF ReportedOnce
    <2> QED
      BY <2>7, <2>8, <2>9
  <1>5. CASE NextDue(p)
    <2>1. PICK i \in due[p] : /\ want' = [want EXCEPT ![p] = Trigger[i].step]
                              /\ due' = [due EXCEPT ![p] = @ \ {i}]
      BY <1>5 DEF NextDue
    <2>2. /\ rlog' = rlog /\ counts' = counts /\ pc[p] = "next" /\ Goto(p, "cursor")
          /\ want'[p] = Trigger[i].step /\ due'[p] = due[p] \ {i} /\ i \in DOMAIN Trigger
          /\ \A q \in Process : q # p => due'[q] = due[q] /\ want'[q] = want[q]
      BY <1>0, <1>2, <1>5, <2>1 DEF NextDue, Types, shared
    <2>3. /\ \A j \in DOMAIN Trigger : Matched(j)' <=> Matched(j)
          /\ \A n : Reported(n)' <=> Reported(n)
      BY <2>2 DEF Matched, Reported
    <2>4. ~Flying(p) /\ \A q \in Process : q # p => (Flying(q)' <=> Flying(q))
      BY <1>0, <2>2, GotoPc DEF Flying, Advancing
    <2>5. ASSUME NEW q \in Process, NEW j \in due'[q]
          PROVE  j \in due[q] /\ j \in DOMAIN Trigger /\ j # i /\ Trigger[j].step # Trigger[i].step
      <3>1. j \in due[q] /\ j \in DOMAIN Trigger /\ j # i
        BY <1>1, <1>2, <2>1, <2>2, <2>5 DEF DueOnce
      <3> QED
        BY <2>2, <3>1 DEF DistinctSteps
    <2>6. DueOnce'
      <3>1. ASSUME NEW q \in Process, NEW j \in due'[q]
            PROVE  /\ Matched(j) /\ ~Reported(Trigger[j].step)
                   /\ \A z \in Process : z # q => j \notin due'[z]
        <4>1. \A z \in Process : due'[z] \subseteq due[z]
          BY <2>5
        <4> QED
          BY <1>1, <2>5, <3>1, <4>1 DEF DueOnce
      <3>2. ASSUME NEW q \in Process, NEW j \in due'[q], NEW z \in Process, Flying(z)'
            PROVE  want'[z] # Trigger[j].step
        <4>1. j \in due[q] /\ Trigger[j].step # Trigger[i].step
          BY <2>5, <3>2
        <4>2. CASE z = p
          BY <2>2, <4>1, <4>2
        <4>3. CASE z # p
          BY <1>1, <2>2, <2>4, <3>2, <4>1, <4>3 DEF DueOnce
        <4> QED
          BY <4>2, <4>3
      <3> QED
        BY <2>3, <2>5, <3>1, <3>2 DEF DueOnce
    <2>7. Matched(i) /\ ~Reported(want'[p]) /\ \A q \in Process : Flying(q) => want[q] # want'[p]
      BY <1>1, <2>1, <2>2 DEF DueOnce
    <2>8. FlyingOnce'
      <3>1. ASSUME NEW q \in Process, Flying(q)'
            PROVE  /\ \E j \in DOMAIN Trigger : want'[q] = Trigger[j].step /\ Matched(j)
                   /\ \A z \in Process : Flying(z)' /\ z # q => want'[z] # want'[q]
                   /\ ~Reported(want'[q])
        <4>1. CASE q = p
          BY <2>2, <2>4, <2>7, <4>1
        <4>2. CASE q # p
          <5>1. Flying(q) /\ want'[q] = want[q]
            BY <2>2, <2>4, <3>1, <4>2
          <5>2. \A z \in Process : Flying(z)' /\ z # q => want'[z] # want[q]
            BY <1>1, <2>2, <2>4, <2>7, <5>1 DEF FlyingOnce
          <5> QED
            BY <1>1, <5>1, <5>2 DEF FlyingOnce
        <4> QED
          BY <4>1, <4>2
      <3> QED
        BY <2>3, <3>1 DEF FlyingOnce
    <2>9. ReportedOnce'
      BY <1>1, <2>2, <2>3 DEF ReportedOnce
    <2> QED
      BY <2>6, <2>8, <2>9
  <1>6. CASE Report(p)
    <2> DEFINE r == [kind |-> "announce", who |-> p, step |-> want[p], ok |-> pc[p] = "fired"]
    <2>1. /\ rlog' = Append(rlog, r) /\ counts' = counts /\ want' = want /\ due' = due
          /\ pc[p] \in {"fired", "failed"} /\ Goto(p, "next")
      BY <1>6 DEF Report
    <2>2. Flying(p)
      BY <1>0, <1>1, <2>1 DEF Types, Process, Flying, Advancing
    <2>3. r \in Row /\ r.kind = "announce" /\ r.step = want[p]
      BY <1>0 DEF Row, Types
    <2> HIDE DEF r
    <2>4. /\ Len(rlog) \in Nat /\ Len(rlog') = Len(rlog) + 1 /\ rlog'[Len(rlog) + 1] = r
          /\ \A k \in 1..Len(rlog) : rlog'[k] = rlog[k]
          /\ \A n : Reported(n)' <=> Reported(n) \/ n = want[p]
      BY <1>0, <2>1, <2>3, LogAppend
    <2>5. \A j \in DOMAIN Trigger : Matched(j)' <=> Matched(j)
      BY <2>1 DEF Matched
    <2>6. \A q \in Process : Flying(q)' => Flying(q) /\ q # p
      BY <1>0, <2>1, GotoPc DEF Flying, Advancing
    <2>7. DueOnce'
      BY <1>1, <1>2, <2>1, <2>2, <2>4, <2>5, <2>6 DEF DueOnce
    <2>8. FlyingOnce'
      BY <1>1, <2>1, <2>2, <2>4, <2>5, <2>6 DEF FlyingOnce
    <2>9. ReportedOnce'
      <3>1. \A n : Reported(n)' => \E i \in DOMAIN Trigger : n = Trigger[i].step /\ Matched(i)'
        BY <1>1, <2>2, <2>4, <2>5 DEF ReportedOnce, FlyingOnce
      <3>2. \A k \in 1..Len(rlog) : rlog[k].kind = "announce" => rlog[k].step # want[p]
        BY <1>1, <2>2 DEF FlyingOnce, Reported
      <3>3. ASSUME NEW i \in 1..Len(rlog'), NEW j \in 1..Len(rlog'), i # j,
                   rlog'[i].kind = "announce", rlog'[j].kind = "announce"
            PROVE  rlog'[i].step # rlog'[j].step
        <4>1. CASE i \in 1..Len(rlog) /\ j \in 1..Len(rlog)
          BY <1>1, <2>4, <3>3, <4>1 DEF ReportedOnce
        <4>2. CASE i \in 1..Len(rlog) /\ j = Len(rlog) + 1
          BY <2>3, <2>4, <3>2, <3>3, <4>2
        <4>3. CASE i = Len(rlog) + 1 /\ j \in 1..Len(rlog)
          BY <2>3, <2>4, <3>2, <3>3, <4>3
        <4> QED
          BY <2>4, <3>3, <4>1, <4>2, <4>3
      <3> QED
        BY <3>1, <3>3 DEF ReportedOnce
    <2> QED
      BY <2>7, <2>8, <2>9
  <1>7. CASE LogRequest(p)
    <2> DEFINE r == [kind |-> "request", who |-> p, step |-> 0, ok |-> TRUE]
    <2>1. /\ rlog' = Append(rlog, r) /\ counts' = counts /\ want' = want /\ due' = due
          /\ pc[p] = "next" /\ Goto(p, "serve")
      BY <1>7 DEF LogRequest
    <2>2. r \in Row /\ r.kind # "announce"
      BY DEF Row
    <2> HIDE DEF r
    <2>3. /\ Len(rlog) \in Nat /\ Len(rlog') = Len(rlog) + 1 /\ rlog'[Len(rlog) + 1] = r
          /\ \A k \in 1..Len(rlog) : rlog'[k] = rlog[k]
          /\ \A n : Reported(n)' <=> Reported(n)
      BY <1>0, <2>1, <2>2, LogAppend
    <2>4. \A j \in DOMAIN Trigger : Matched(j)' <=> Matched(j)
      BY <2>1 DEF Matched
    <2>5. \A q \in Process : Flying(q)' <=> Flying(q)
      BY <1>0, <2>1, GotoPc DEF Flying, Advancing
    <2>6. DueOnce'
      BY <1>1, <1>2, <2>1, <2>3, <2>4, <2>5 DEF DueOnce
    <2>7. FlyingOnce'
      BY <1>1, <2>1, <2>3, <2>4, <2>5 DEF FlyingOnce
    <2>8. \A n : Reported(n)' => \E i \in DOMAIN Trigger : n = Trigger[i].step /\ Matched(i)'
      BY <1>1, <2>3, <2>4 DEF ReportedOnce
    <2>9. ASSUME NEW i \in 1..Len(rlog'), rlog'[i].kind = "announce"
          PROVE  i \in 1..Len(rlog) /\ rlog'[i] = rlog[i]
      <3>1. i # Len(rlog) + 1
        BY <2>2, <2>3, <2>9
      <3>2. i \in 1..Len(rlog)
        BY <2>3, <3>1
      <3> QED
        BY <2>3, <3>2
    <2>10. ASSUME NEW i \in 1..Len(rlog'), NEW j \in 1..Len(rlog'),
                  rlog'[i].kind = "announce", rlog'[j].kind = "announce", i # j
           PROVE  rlog'[i].step # rlog'[j].step
      <3>1. /\ i \in 1..Len(rlog) /\ rlog'[i] = rlog[i]
            /\ j \in 1..Len(rlog) /\ rlog'[j] = rlog[j]
        BY <2>9, <2>10
      <3> QED
        BY <1>1, <2>10, <3>1 DEF ReportedOnce
    <2>11. ReportedOnce'
      BY <2>8, <2>10 DEF ReportedOnce
    <2> QED
      BY <2>6, <2>7, <2>11
  <1> QED
    BY <1>3, <1>4, <1>5, <1>6, <1>7

LEMMA OnceInvariance ==
  ASSUME DistinctSteps
  PROVE  Spec => [](IInv /\ OnceInv)
  <1>1. IInv /\ OnceInv /\ [Next]_vars => OnceInv'
    <2> SUFFICES ASSUME IInv, OnceInv, [Next]_vars PROVE OnceInv'
      OBVIOUS
    <2>1. CASE UNCHANGED vars
      BY <2>1 DEF vars, shared, locks, OnceInv, DueOnce, FlyingOnce, ReportedOnce, Matched, Reported,
         Flying, Unreset
    <2>2. CASE Next
      BY <2>2, OnceStep DEF Next
    <2> QED
      BY <2>1, <2>2
  <1> QED
    BY <1>1, InitIInv, NextIInv, PTL DEF Spec

(* Until a reset, a request whose trigger applied a step is served with the step in
   the fixture and its push emitted (fire_for_request awaits both before the handler
   runs), and no trigger announces twice, however the requests interleave.  The
   triggers must name different steps: two for one step would both try it. *)
THEOREM AnnouncementsInTime ==
  ASSUME DistinctSteps
  PROVE  Spec => []AnnouncedInTime
  <1>1. IInv /\ OnceInv => AnnouncedInTime
    <2> SUFFICES ASSUME IInv, OnceInv PROVE AnnouncedInTime
      OBVIOUS
    <2>1. ServedAfterAnnounce
      <3> SUFFICES ASSUME NEW p \in Requester, Unreset, pc[p] \in {"serve", "reading"}, NEW n \in applied[p]
                   PROVE  /\ \A s \in Section : Writes(n, s) => n \in Range(image[s])
                          /\ Diffed(n) => n \in Range(pushed)
        BY DEF ServedAfterAnnounce
      <3>1. p \in Process /\ n \in 1..NSteps /\ cursor \in Nat
        BY Steps DEF Process, IInv, Types
      <3>2. n <= cursor /\ (Diffed(n) => n \in Range(pushed))
        BY <3>1 DEF IInv, AppliedInv, AppliedPushed
      <3>3. n \in 1..cursor
        BY <3>1, <3>2, Steps
      <3> QED
        BY <3>2, <3>3 DEF IInv, AppliedInv, AppliedThere
    <2>2. NthOnly
      BY DEF NthOnly, OnceInv, ReportedOnce
    <2> QED
      BY <2>1, <2>2 DEF AnnouncedInTime
  <1> QED
    BY <1>1, OnceInvariance, PTL
=============================================================================
