--------------------------- MODULE MailStoreProofs ---------------------------
(***************************************************************************)
(* Proofs about MailStore for every set of accounts and emails, every      *)
(* retention of the ring and every bound on the counters: its invariants,  *)
(* and what the change logs tell a client.  MODSEQs miss nothing,          *)
(* MailStore implements ChangeFeed step by step, and Gmail's history       *)
(* replays to what the account holds.                                      *)
(***************************************************************************)
EXTENDS MailStore, SequenceTheorems, WellFoundedInduction, TLAPS

Delta == [created : SUBSET Email, updated : SUBSET Email, destroyed : SUBSET Email]

(* A transition built from a typed diff is a ring entry. *)
LEMMA TransitionType ==
  ASSUME NEW n \in Nat, NEW d \in Delta
  PROVE  /\ Transition(n, d) \in Entry(Email)
         /\ Transition(n, d).from = n
         /\ Transition(n, d).to = n + 1
  BY DEF Transition, Entry, Delta

(* ChangeLog::push keeps a ring of entries and grows it up to the retention. *)
LEMMA PushType ==
  ASSUME NEW S, NEW ring \in Seq(S), NEW t \in S
  PROVE  /\ Push(ring, t) \in Seq(S)
         /\ Len(ring) < MAX_TRANSITIONS =>
              /\ Len(Push(ring, t)) = Len(ring) + 1
              /\ \A i \in 1..Len(ring) : Push(ring, t)[i] = ring[i]
         /\ Len(ring) >= MAX_TRANSITIONS =>
              /\ Len(Push(ring, t)) = Len(ring)
              /\ \A i \in 1..(Len(ring) - 1) : Push(ring, t)[i] = ring[i + 1]
         /\ Push(ring, t)[Len(Push(ring, t))] = t
  <1>1. CASE Len(ring) < MAX_TRANSITIONS
    BY <1>1, RetentionAssumption DEF Push
  <1>2. CASE Len(ring) >= MAX_TRANSITIONS
    <2>1. ring # << >>
      BY <1>2, RetentionAssumption
    <2>2. Tail(ring) \in Seq(S) /\ Len(Tail(ring)) = Len(ring) - 1
          /\ \A i \in 1..(Len(ring) - 1) : Tail(ring)[i] = ring[i + 1]
      BY <2>1
    <2>3. Push(ring, t) = Append(Tail(ring), t)
      BY <1>2, RetentionAssumption DEF Push
    <2> DEFINE T == Tail(ring)
    <2> HIDE DEF T
    <2>4. /\ Append(T, t) \in Seq(S)
          /\ Len(Append(T, t)) = Len(T) + 1
          /\ \A i \in 1..Len(T) : Append(T, t)[i] = T[i]
          /\ Append(T, t)[Len(T) + 1] = t
      BY <2>2 DEF T
    <2>5. Len(ring) \in Nat /\ Len(T) = Len(ring) - 1
      BY <2>2 DEF T
    <2>6. /\ Push(ring, t) \in Seq(S)
          /\ Len(Push(ring, t)) = Len(ring)
          /\ Push(ring, t)[Len(ring)] = t
      BY <2>3, <2>4, <2>5 DEF T
    <2>7. \A i \in 1..(Len(ring) - 1) : Push(ring, t)[i] = ring[i + 1]
      BY <2>2, <2>3, <2>4, <2>5 DEF T
    <2> QED
      BY <1>2, <2>5, <2>6, <2>7, RetentionAssumption
  <1> QED
    BY <1>1, <1>2, RetentionAssumption

(* record_transition on one account keeps its log typed and contiguous. *)
LEMMA AdvanceContiguous ==
  ASSUME NEW l \in Log(Email, MaxCounter), Contiguous(l), NEW d \in Delta,
         l.counter + 1 <= MaxCounter
  PROVE  /\ Advance(l, d) \in Log(Email, MaxCounter)
         /\ Contiguous(Advance(l, d))
  <1> DEFINE t == Transition(l.counter, d)
             r == Push(l.ring, t)
  <1>1. l.counter \in 0..MaxCounter /\ l.ring \in Seq(Entry(Email)) /\ l.counter \in Nat
    BY BoundAssumption DEF Log
  <1>2. t \in Entry(Email) /\ t.from = l.counter /\ t.to = l.counter + 1
    BY <1>1, TransitionType
  <1>3. /\ r \in Seq(Entry(Email))
        /\ Len(l.ring) < MAX_TRANSITIONS =>
             Len(r) = Len(l.ring) + 1 /\ \A i \in 1..Len(l.ring) : r[i] = l.ring[i]
        /\ Len(l.ring) >= MAX_TRANSITIONS =>
             Len(r) = Len(l.ring) /\ \A i \in 1..(Len(l.ring) - 1) : r[i] = l.ring[i + 1]
        /\ r[Len(r)] = t
    <2> DEFINE q == l.ring
               S == Entry(Email)
    <2>1. q \in Seq(S) /\ t \in S
      BY <1>1, <1>2
    <2> HIDE DEF q, S, t
    <2>2. /\ Push(q, t) \in Seq(S)
          /\ Len(q) < MAX_TRANSITIONS =>
               Len(Push(q, t)) = Len(q) + 1 /\ \A i \in 1..Len(q) : Push(q, t)[i] = q[i]
          /\ Len(q) >= MAX_TRANSITIONS =>
               Len(Push(q, t)) = Len(q) /\ \A i \in 1..(Len(q) - 1) : Push(q, t)[i] = q[i + 1]
          /\ Push(q, t)[Len(Push(q, t))] = t
      BY ONLY <2>1, PushType
    <2> QED
      BY ONLY <2>2 DEF q, S
  <1>4. Advance(l, d) = [counter |-> l.counter + 1, ring |-> r]
    BY DEF Advance
  <1>5. Advance(l, d) \in Log(Email, MaxCounter)
    BY <1>1, <1>3, <1>4, BoundAssumption DEF Log
  <1> HIDE DEF t, r
  <1>6. Len(r) = IF l.counter + 1 < MAX_TRANSITIONS THEN l.counter + 1 ELSE MAX_TRANSITIONS
    BY <1>1, <1>3, RetentionAssumption DEF Contiguous
  <1>7. \A i \in 1..Len(r) : /\ r[i].from = l.counter + 1 - Len(r) + i - 1
                             /\ r[i].to = r[i].from + 1
    <2> TAKE i \in 1..Len(r)
    <2>1. CASE i = Len(r)
      BY <2>1, <1>1, <1>2, <1>3
    <2>2. CASE i # Len(r) /\ Len(l.ring) < MAX_TRANSITIONS
      <3>1. i \in 1..Len(l.ring) /\ r[i] = l.ring[i] /\ Len(r) = Len(l.ring) + 1
        BY <2>2, <1>1, <1>3
      <3> QED BY <3>1, <1>1, <1>3 DEF Contiguous, Floor
    <2>3. CASE i # Len(r) /\ Len(l.ring) >= MAX_TRANSITIONS
      <3>1. i \in 1..(Len(l.ring) - 1) /\ r[i] = l.ring[i + 1] /\ Len(r) = Len(l.ring)
        BY <2>3, <1>1, <1>3, RetentionAssumption
      <3>2. i + 1 \in 1..Len(l.ring)
        BY <3>1, <1>1
      <3>3. /\ l.ring[i + 1].from = l.counter - Len(l.ring) + (i + 1) - 1
            /\ l.ring[i + 1].to = l.ring[i + 1].from + 1
        BY <3>2 DEF Contiguous, Floor
      <3>4. l.counter \in Nat /\ Len(l.ring) \in Nat /\ i \in Nat
        BY <1>1, <3>1
      <3>5. l.counter - Len(l.ring) + (i + 1) - 1 = l.counter + 1 - Len(l.ring) + i - 1
        BY <3>4
      <3> QED BY <3>1, <3>3, <3>5
    <2> QED BY <2>1, <2>2, <2>3, <1>1, RetentionAssumption
  <1>8. Contiguous(Advance(l, d))
    <2>1. Advance(l, d).counter = l.counter + 1 /\ Advance(l, d).ring = r
      BY <1>4
    <2>2. Floor(Advance(l, d)) = l.counter + 1 - Len(r)
      BY <1>1, <1>3, <2>1 DEF Floor
    <2> QED BY <2>1, <2>2, <1>6, <1>7 DEF Contiguous
  <1> QED BY <1>5, <1>8

-----------------------------------------------------------------------------
(* The inductive invariant.  TokenFaithful is not inductive alone: the step
   appends to snap, so its length must follow the counter, which takes the
   types; the ring needs its own part, and that a minted id is not live needs
   the last one. *)
IInv == TypeOK /\ RingContiguous /\ TokenFaithful /\ Live \subseteq used

(* What every mutator does through record_transition, given that an account
   whose share of the diff is empty shows the same emails before and after. *)
LEMMA RecordPreserves ==
  ASSUME IInv,
         NEW share \in [Account -> Delta], NEW Extra,
         NEW own1 \in [Email -> Account \cup {None}], NEW ver1 \in [Email -> Nat \ {0}],
         used' \in SUBSET Email, owner' = own1, ver' = ver1,
         \A x \in Email : own1[x] # None => x \in used',
         \A a \in Account : ~NonEmpty(share[a]) /\ a \notin Extra
                               => View(own1, ver1, a) = View(owner, ver, a),
         Record(share, Extra, own1, ver1)
  PROVE  IInv'
  <1> DEFINE log1 == RecordTransition(share, Extra)
  <1>1. log' = log1 /\ \A a \in Account : log1[a].counter <= MaxCounter
    BY DEF Record
  <1>2. snap' = [a \in Account |-> IF log1[a].counter = log[a].counter THEN snap[a]
                                   ELSE Append(snap[a], View(own1, ver1, a))]
    BY DEF Record
  <1>3. \A a \in Account :
          /\ log[a] \in Log(Email, MaxCounter) /\ Contiguous(log[a])
          /\ log[a].counter \in Nat
          /\ Advance(log[a], share[a]).counter = log[a].counter + 1
          /\ log1[a] = IF NonEmpty(share[a]) \/ a \in Extra
                       THEN Advance(log[a], share[a]) ELSE log[a]
    BY BoundAssumption DEF IInv, TypeOK, RingContiguous, RecordTransition, Advance, Log
  <1>4. \A a \in Account : log1[a] \in Log(Email, MaxCounter) /\ Contiguous(log1[a])
    <2> SUFFICES ASSUME NEW a \in Account
                 PROVE  log1[a] \in Log(Email, MaxCounter) /\ Contiguous(log1[a])
      OBVIOUS
    <2>1. CASE NonEmpty(share[a]) \/ a \in Extra
      <3>1. log1[a] = Advance(log[a], share[a])
        BY <2>1, <1>3
      <3>2. log[a].counter + 1 <= MaxCounter
        BY <3>1, <1>1, <1>3
      <3> QED BY <3>1, <3>2, <1>3, AdvanceContiguous
    <2>2. CASE ~(NonEmpty(share[a]) \/ a \in Extra)
      BY <2>2, <1>3
    <2> QED BY <2>1, <2>2
  <1>5. \A a \in Account : View(own1, ver1, a) \in [Email -> Nat]
    BY DEF View
  <1>6. \A a \in Account : /\ snap[a] \in Seq([Email -> Nat])
                            /\ Len(snap[a]) = log[a].counter + 1
                            /\ snap[a][log[a].counter + 1] = View(owner, ver, a)
    BY DEF IInv, TypeOK, TokenFaithful
  <1>7. \A a \in Account : /\ snap'[a] \in Seq([Email -> Nat])
                            /\ Len(snap'[a]) = log1[a].counter + 1
                            /\ snap'[a][log1[a].counter + 1] = View(own1, ver1, a)
    <2> SUFFICES ASSUME NEW a \in Account
                 PROVE  /\ snap'[a] \in Seq([Email -> Nat])
                        /\ Len(snap'[a]) = log1[a].counter + 1
                        /\ snap'[a][log1[a].counter + 1] = View(own1, ver1, a)
      OBVIOUS
    <2>1. CASE NonEmpty(share[a]) \/ a \in Extra
      <3>1. log1[a].counter = log[a].counter + 1
        BY <2>1, <1>3
      <3>2. snap'[a] = Append(snap[a], View(own1, ver1, a))
        BY <3>1, <1>2, <1>3
      <3> QED BY <3>1, <3>2, <1>3, <1>5, <1>6
    <2>2. CASE ~(NonEmpty(share[a]) \/ a \in Extra)
      <3>1. log1[a] = log[a] /\ snap'[a] = snap[a]
        BY <2>2, <1>2, <1>3
      <3> QED BY <3>1, <2>2, <1>6
    <2> QED BY <2>1, <2>2
  <1>8. TypeOK'
    <2>1. log' \in [Account -> Log(Email, MaxCounter)]
      BY <1>1, <1>4 DEF RecordTransition
    <2>2. snap' \in [Account -> Seq([Email -> Nat])]
      BY <1>2, <1>7
    <2>3. \A a \in Account : Len(log1[a].ring) <= MAX_TRANSITIONS
      BY <1>3, <1>4, RetentionAssumption, BoundAssumption DEF Contiguous, Log
    <2> QED BY <1>1, <2>1, <2>2, <2>3 DEF TypeOK
  <1>9. RingContiguous'
    BY <1>1, <1>4 DEF RingContiguous
  <1>10. TokenFaithful'
    BY <1>1, <1>7 DEF TokenFaithful
  <1>11. (Live \subseteq used)'
    BY DEF Live
  <1> QED BY <1>8, <1>9, <1>10, <1>11 DEF IInv

(* The mutators that change emails: the shares of the diff name every account
   whose emails differ after the call. *)
LEMMA MutatePreserves ==
  ASSUME IInv, NEW own1 \in [Email -> Account \cup {None}],
         NEW C \in SUBSET Email, NEW acct \in Account,
         NEW U \in SUBSET Email, NEW D \in SUBSET Email,
         Mutate(own1, C, acct, U, D),
         \A x \in Email : own1[x] # owner[x] =>
             \/ x \in C /\ own1[x] \in Account /\ (owner[x] = None \/ x \in D)
             \/ x \in D /\ own1[x] = None,
         C \cap Live \subseteq D
  PROVE  IInv'
  <1> DEFINE ver1 == [x \in Email |-> IF x \in C \cup U THEN ver[x] + 1 ELSE ver[x]]
             share == [a \in Account |-> SubDiff(own1, C, acct, U, D, a)]
  <1>1. /\ owner' = own1 /\ ver' = ver1 /\ used' = used \cup C
        /\ Record(share, {}, own1, ver1)
    BY DEF Mutate
  <1>2. ver1 \in [Email -> Nat \ {0}] /\ used' \in SUBSET Email
    BY <1>1 DEF IInv, TypeOK
  <1>3. share \in [Account -> Delta]
    BY DEF SubDiff, Delta
  <1>4. \A a \in Account : ~NonEmpty(share[a]) => View(own1, ver1, a) = View(owner, ver, a)
    <2> SUFFICES ASSUME NEW a \in Account, ~NonEmpty(share[a]), NEW x \in Email
                 PROVE  (IF own1[x] = a THEN ver1[x] ELSE 0)
                           = (IF owner[x] = a THEN ver[x] ELSE 0)
      BY DEF View
    <2>1. /\ x \in C => ResolveEmail(own1, x) # a
          /\ x \in U => ResolveEmail(own1, x) # a
          /\ x \in D => (IF owner[x] = None THEN acct ELSE owner[x]) # a
      BY DEF NonEmpty, SubDiff
    <2>2. own1[x] = a => x \notin C \cup U
      BY <2>1 DEF ResolveEmail
    <2>3. owner[x] = a => x \notin D
      BY <2>1, AccountAssumption
    <2>4. CASE own1[x] = owner[x]
      BY <2>4, <2>2
    <2>5. CASE own1[x] # owner[x]
      BY <2>5, <2>2, <2>3, AccountAssumption
    <2> QED BY <2>4, <2>5
  <1>5. \A x \in Email : own1[x] # None => x \in used'
    BY <1>1 DEF IInv, Live
  <1> HIDE DEF ver1, share
  <1> QED BY <1>1, <1>2, <1>3, <1>4, <1>5, RecordPreserves

-----------------------------------------------------------------------------

(* The load-time state satisfies the invariant. *)
LEMMA InitIInv == Init => IInv
  <1> SUFFICES ASSUME Init PROVE IInv
    OBVIOUS
  <1>1. EmptyLog \in Log(Email, MaxCounter) /\ Contiguous(EmptyLog) /\ EmptyLog.counter = 0
    BY BoundAssumption, RetentionAssumption DEF EmptyLog, Log, Contiguous
  <1>2. \A a \in Account : View(owner, ver, a) \in [Email -> Nat]
    BY OwnerAssumption DEF Init, View
  <1>3. snap = [a \in Account |-> << View(owner, ver, a) >>]
    BY DEF Init
  <1>4. TypeOK
    <2>1. Len(EmptyLog.ring) <= MAX_TRANSITIONS
      BY RetentionAssumption DEF EmptyLog
    <2> QED BY <1>1, <1>2, <1>3, <2>1, OwnerAssumption, SMTT(30) DEF Init, TypeOK
  <1>5. RingContiguous
    BY <1>1 DEF Init, RingContiguous
  <1>6. TokenFaithful
    BY <1>1, <1>2, <1>3 DEF Init, TokenFaithful
  <1>7. Live \subseteq used
    BY DEF Init, Live
  <1> QED BY <1>4, <1>5, <1>6, <1>7 DEF IInv

(* Every call of a mutator preserves it. *)
LEMMA NextIInv == IInv /\ [Next]_vars => IInv'
  <1> SUFFICES ASSUME IInv, [Next]_vars PROVE IInv'
    OBVIOUS
  <1>t. owner \in [Email -> Account \cup {None}] /\ ver \in [Email -> Nat \ {0}]
        /\ used \in SUBSET Email
    BY DEF IInv, TypeOK
  <1>1. ASSUME NEW acct \in Account, NEW C \in SUBSET Email, NEW U \in SUBSET Email,
               NEW D \in SUBSET Email, EmailSet(C, acct, U, D)
        PROVE  IInv'
    <2>1. After(C, acct, D) \in [Email -> Account \cup {None}]
      BY <1>t DEF After
    <2>2. C \cap Live = {}
      BY <1>1 DEF EmailSet, IInv
    <2> QED BY <1>1, <1>t, <2>1, <2>2, MutatePreserves, AccountAssumption
            DEF EmailSet, After, Live
  <1>2. ASSUME NEW acct \in Account, NEW C \in SUBSET Email, NEW U \in SUBSET Email,
               NEW D \in SUBSET Email, ScriptStep(C, acct, U, D)
        PROVE  IInv'
    <2>1. After(C, acct, D) \in [Email -> Account \cup {None}]
      BY <1>t DEF After
    <2>2. /\ C \cap Live = {} /\ Mutate(After(C, acct, D), C, acct, U, D)
          /\ D \subseteq Live \cup C
      BY <1>2 DEF ScriptStep
    <2>3. \A x \in Email : After(C, acct, D)[x] # owner[x] =>
             \/ x \in C /\ After(C, acct, D)[x] \in Account /\ (owner[x] = None \/ x \in D)
             \/ x \in D /\ After(C, acct, D)[x] = None
      BY <2>2 DEF After, Live
    <2> HIDE DEF Live
    <2> QED BY <2>1, <2>2, <2>3, MutatePreserves
  <1>3. ASSUME NEW x \in Email, NEW acct \in Account, ScriptReplace(x, acct)
        PROVE  IInv'
    <2>1. [owner EXCEPT ![x] = acct] \in [Email -> Account \cup {None}]
      BY <1>t
    <2>2. x \in Live /\ Mutate([owner EXCEPT ![x] = acct], {x}, acct, {}, {x})
      BY <1>3 DEF ScriptReplace
    <2>3. /\ \A y \in Email : [owner EXCEPT ![x] = acct][y] # owner[y] =>
                y \in {x} /\ [owner EXCEPT ![x] = acct][y] \in Account
          /\ {x} \cap Live \subseteq {x}
      BY <1>t
    <2>4. {x} \in SUBSET Email /\ {} \in SUBSET Email
      OBVIOUS
    <2> QED BY <2>1, <2>2, <2>3, <2>4, MutatePreserves
  <1>4. ASSUME NEW owning \in Account, NEW grantee \in Account, AclChange(owning, grantee)
        PROVE  IInv'
    <2> DEFINE share == [a \in Account |-> EmptyDelta]
    <2>1. share \in [Account -> Delta]
      BY DEF EmptyDelta, Delta
    <2>2. Record(share, {owning, grantee}, owner, ver) /\ UNCHANGED <<owner, ver, used>>
      BY <1>4 DEF AclChange
    <2>3. \A x \in Email : owner[x] # None => x \in used'
      BY <2>2 DEF IInv, Live
    <2> HIDE DEF share
    <2> QED BY <1>t, <2>1, <2>2, <2>3, RecordPreserves
  <1>5. CASE UNCHANGED vars
    BY <1>5 DEF vars, IInv, TypeOK, RingContiguous, TokenFaithful, View, Live
  <1> QED BY <1>1, <1>2, <1>3, <1>4, <1>5 DEF Next

(* The tokens of every account are faithful and its ring is contiguous
   whatever the mutators do (record_transition, ChangeLog::push). *)
THEOREM InvariantHolds == Spec => []IInv
  BY InitIInv, NextIInv, PTL DEF Spec

(* The state of the store stays well typed (Fixture and ChangeLog). *)
THEOREM TypeCorrect == Spec => []TypeOK
  BY InvariantHolds, PTL DEF IInv

(* ChangeLog::push evicts without ever leaving a gap: the ring always holds
   the latest transitions, numbered up to the current token. *)
THEOREM RingIsContiguous == Spec => []RingContiguous
  BY InvariantHolds, PTL DEF IInv

(* An account's state token names one view of its emails (state_for): the view
   cannot change while the token stands still. *)
THEOREM TokensAreFaithful == Spec => []TokenFaithful
  BY InvariantHolds, PTL DEF IInv

-----------------------------------------------------------------------------
(* A call whose destroys are disjoint from its creates and updates names in
   its diff only accounts whose emails it changes. *)
LEMMA MutateTouches ==
  ASSUME IInv, NEW a \in Account,
         NEW C \in SUBSET Email, NEW acct \in Account,
         NEW U \in SUBSET Email, NEW D \in SUBSET Email,
         C \cap Live = {}, U \subseteq Live \cup C, D \subseteq Live,
         D \cap (U \cup C) = {},
         Mutate(After(C, acct, D), C, acct, U, D),
         \A x \in Email : a \in {owner[x], owner'[x]} =>
                              ver'[x] = ver[x] /\ owner'[x] = owner[x]
  PROVE  log'[a] = log[a]
  <1> DEFINE own1 == After(C, acct, D)
             share == [b \in Account |-> SubDiff(own1, C, acct, U, D, b)]
  <1>1. owner' = own1 /\ log' = RecordTransition(share, {})
        /\ ver' = [x \in Email |-> IF x \in C \cup U THEN ver[x] + 1 ELSE ver[x]]
    BY DEF Mutate, Record
  <1>2. owner \in [Email -> Account \cup {None}] /\ ver \in [Email -> Nat \ {0}]
    BY DEF IInv, TypeOK
  <1>3. \A x \in C \cup U : own1[x] \in Account /\ ver'[x] # ver[x]
    <2> TAKE x \in C \cup U
    <2>1. x \in Email /\ x \notin D /\ own1[x] = IF x \in C THEN acct ELSE owner[x]
      BY DEF After
    <2>2. own1[x] \in Account
      BY <1>2, <2>1 DEF Live
    <2>3. ver'[x] = ver[x] + 1 /\ ver[x] \in Nat
      BY <1>1, <1>2, <2>1
    <2> QED BY <2>2, <2>3
  <1>4. \A x \in D : owner[x] \in Account /\ own1[x] = None
    BY <1>2 DEF After, Live
  <1>5. \A x \in C \cup U : ResolveEmail(own1, x) # a
    <2> TAKE x \in C \cup U
    <2>1. x \in Email /\ ResolveEmail(own1, x) = owner'[x] /\ ver'[x] # ver[x]
      BY <1>1, <1>3 DEF ResolveEmail
    <2> QED BY <2>1
  <1>6. /\ SubDiff(own1, C, acct, U, D, a).created = {}
        /\ SubDiff(own1, C, acct, U, D, a).updated = {}
    BY <1>5 DEF SubDiff
  <1>7. SubDiff(own1, C, acct, U, D, a).destroyed = {}
    <2> SUFFICES ASSUME NEW x \in D PROVE (IF owner[x] = None THEN acct ELSE owner[x]) # a
      BY DEF SubDiff
    <2>1. owner[x] # None /\ owner'[x] # owner[x] /\ x \in Email
      BY <1>1, <1>4, AccountAssumption
    <2> QED BY <2>1
  <1>8. ~NonEmpty(share[a])
    BY <1>6, <1>7 DEF NonEmpty
  <1> HIDE DEF share
  <1> QED BY <1>1, <1>8 DEF RecordTransition

(* The wire token of an account moves only with its own emails (state_for),
   for calls that do not destroy an id they also create or update. *)
THEOREM SiblingTokensStand == Overlap = FALSE => (Spec => SiblingTokens)
  <1> SUFFICES ASSUME Overlap = FALSE PROVE Spec => SiblingTokens
    OBVIOUS
  <1> DEFINE Quiet(a) ==
        /\ \E x \in Email : ver'[x] # ver[x] \/ owner'[x] # owner[x]
        /\ \A x \in Email : a \in {owner[x], owner'[x]} =>
                               ver'[x] = ver[x] /\ owner'[x] = owner[x]
  <1>1. ASSUME IInv, [Next]_vars, NEW a \in Account, Quiet(a)
        PROVE  log'[a] = log[a]
    <2>1. ASSUME NEW acct \in Account, NEW C \in SUBSET Email, NEW U \in SUBSET Email,
                 NEW D \in SUBSET Email, EmailSet(C, acct, U, D)
          PROVE  log'[a] = log[a]
      <3>1. C \cap Live = {} /\ D \cap (U \cup C) = {} /\ U \subseteq Live \cup C
            /\ D \subseteq Live
        BY <1>1, <2>1 DEF EmailSet, IInv
      <3>2. Mutate(After(C, acct, D), C, acct, U, D)
        BY <2>1 DEF EmailSet
      <3> QED BY <1>1, <3>1, <3>2, MutateTouches
    <2>2. ASSUME NEW acct \in Account, NEW C \in SUBSET Email, NEW U \in SUBSET Email,
                 NEW D \in SUBSET Email, ScriptStep(C, acct, U, D)
          PROVE  log'[a] = log[a]
      <3>1. C \cap Live = {} /\ D \cap (U \cup C) = {} /\ U \subseteq Live \cup C
            /\ D \subseteq Live
        BY <2>2 DEF ScriptStep
      <3>2. Mutate(After(C, acct, D), C, acct, U, D)
        BY <2>2 DEF ScriptStep
      <3> QED BY <1>1, <3>1, <3>2, MutateTouches
    <2>3. ASSUME NEW x \in Email, NEW acct \in Account, ScriptReplace(x, acct)
          PROVE  log'[a] = log[a]
      BY <2>3 DEF ScriptReplace
    <2>4. ASSUME NEW owning \in Account, NEW grantee \in Account, AclChange(owning, grantee)
          PROVE  log'[a] = log[a]
      BY <1>1, <2>4 DEF AclChange
    <2>5. CASE UNCHANGED vars
      BY <2>5 DEF vars
    <2> QED BY <1>1, <2>1, <2>2, <2>3, <2>4, <2>5 DEF Next
  <1>2. IInv /\ [Next]_vars => [\A a \in Account : Quiet(a) => log'[a] = log[a]]_vars
    BY <1>1
  <1> QED BY <1>2, InvariantHolds, PTL DEF Spec, SiblingTokens


-----------------------------------------------------------------------------
(* A walk over the snapshots. *)

(* A walk that starts outside of B and ends in it enters it somewhere. *)
LEMMA Crossing ==
  ASSUME NEW B, NEW p \in Nat, NEW q \in Nat, p < q, p \notin B, q \in B
  PROVE  \E m \in p..(q - 1) : m \notin B /\ m + 1 \in B
  <1> DEFINE T == {k \in Nat : k >= p /\ k \in B}
  <1>1. T \subseteq Nat /\ q \in T
    OBVIOUS
  <1>2. \E x \in T : \A y \in T : ~(<<y, x>> \in OpToRel(<, Nat))
    <2> HIDE DEF T
    <2> QED
      BY <1>1, NatLessThanWellFounded, WFMin
  <1>3. PICK x \in T : \A y \in T : ~(<<y, x>> \in OpToRel(<, Nat))
    BY <1>2
  <1>4. ASSUME NEW y \in T PROVE x <= y
    <2>1. x \in Nat /\ y \in Nat
      BY <1>1
    <2>2. y < x => <<y, x>> \in OpToRel(<, Nat)
      BY <2>1 DEF OpToRel
    <2>3. ~(y < x)
      BY <1>3, <2>2, Zenon
    <2> QED
      BY <2>1, <2>3
  <1>5. x \in Nat /\ x >= p /\ x \in B /\ x # p /\ x <= q
    BY <1>1, <1>4
  <1>6. x - 1 \in p..(q - 1) /\ x - 1 \notin T
    BY <1>4, <1>5
  <1>7. x - 1 \notin B /\ (x - 1) + 1 \in B
    BY <1>5, <1>6
  <1> QED
    BY <1>6, <1>7

(* The entries of a ring are numbered by the tokens they leave. *)
LEMMA RingEntries ==
  ASSUME NEW l \in Log(Email, MaxCounter), Contiguous(l)
  PROVE  /\ l.counter \in Nat /\ Floor(l) \in 0..l.counter /\ Len(l.ring) \in Nat
         /\ \A i \in 1..Len(l.ring) :
              /\ l.ring[i] \in Entry(Email)
              /\ l.ring[i].from \in Floor(l)..(l.counter - 1) /\ l.ring[i].to = l.ring[i].from + 1
         /\ \A t \in Floor(l)..(l.counter - 1) :
              /\ t - Floor(l) + 1 \in 1..Len(l.ring) /\ l.ring[t - Floor(l) + 1].from = t
  <1>1. l.counter \in Nat /\ l.ring \in Seq(Entry(Email)) /\ Len(l.ring) \in Nat
    BY BoundAssumption DEF Log
  <1>2. Len(l.ring) <= l.counter
    BY <1>1, RetentionAssumption DEF Contiguous
  <1>3. Floor(l) = l.counter - Len(l.ring)
    BY DEF Floor
  <1>4. ASSUME NEW i \in 1..Len(l.ring)
        PROVE  /\ l.ring[i] \in Entry(Email)
               /\ l.ring[i].from \in Floor(l)..(l.counter - 1) /\ l.ring[i].to = l.ring[i].from + 1
    <2>1. l.ring[i].from = Floor(l) + i - 1 /\ l.ring[i].to = l.ring[i].from + 1
      BY DEF Contiguous
    <2> QED
      BY <1>1, <1>2, <1>3, <2>1
  <1>5. ASSUME NEW t \in Floor(l)..(l.counter - 1)
        PROVE  t - Floor(l) + 1 \in 1..Len(l.ring) /\ l.ring[t - Floor(l) + 1].from = t
    <2>1. t - Floor(l) + 1 \in 1..Len(l.ring)
      BY <1>1, <1>2, <1>3
    <2>2. l.ring[t - Floor(l) + 1].from = Floor(l) + (t - Floor(l) + 1) - 1
      BY <2>1 DEF Contiguous
    <2> QED
      BY <1>1, <1>2, <1>3, <2>1, <2>2
  <1> QED
    BY <1>1, <1>2, <1>3, <1>4, <1>5

-----------------------------------------------------------------------------
(* What a transition says about the views v and w it leads between. *)

(* Nothing that w shows differently is left out. *)
Lists(e, v, w) == \A x \in Email : v[x] # w[x] /\ w[x] # 0 => x \in e.created \cup e.updated

(* Creations and destructions are told exactly, changes at least. *)
Tells(e, v, w) ==
    /\ e.created = {x \in Email : v[x] = 0 /\ w[x] # 0}
    /\ e.destroyed = {x \in Email : v[x] # 0 /\ w[x] = 0}
    /\ {x \in Email : v[x] # 0 /\ w[x] # 0 /\ v[x] # w[x]} \subseteq e.updated

AllList(l, s) == \A i \in 1..Len(l.ring) :
                    Lists(l.ring[i], s[l.ring[i].from + 1], s[l.ring[i].from + 2])
AllTell(l, s) == \A i \in 1..Len(l.ring) :
                    Tells(l.ring[i], s[l.ring[i].from + 1], s[l.ring[i].from + 2])

(* An email that is gone does not come back. *)
OneLife(s) == \A i, j, k \in 1..Len(s) : i <= j /\ j <= k =>
                 \A x \in Email : s[i][x] # 0 /\ s[k][x] # 0 => s[j][x] # 0

(* One more transition, from the current view to w. *)
LEMMA AdvanceSays ==
  ASSUME NEW l \in Log(Email, MaxCounter), Contiguous(l), NEW d \in Delta,
         NEW s \in Seq([Email -> Nat]), Len(s) = l.counter + 1, NEW w \in [Email -> Nat]
  PROVE  /\ AllList(l, s) /\ Lists(d, s[l.counter + 1], w) => AllList(Advance(l, d), Append(s, w))
         /\ AllTell(l, s) /\ Tells(d, s[l.counter + 1], w) => AllTell(Advance(l, d), Append(s, w))
  <1> DEFINE t == Transition(l.counter, d)
             r == Push(l.ring, t)
             z == Append(s, w)
  <1>1. l.counter \in Nat /\ l.ring \in Seq(Entry(Email)) /\ Len(l.ring) \in Nat
    BY BoundAssumption DEF Log
  <1>2. /\ t \in Entry(Email) /\ t.from = l.counter
        /\ t.created = d.created /\ t.updated = d.updated /\ t.destroyed = d.destroyed
    BY <1>1, TransitionType DEF Transition
  <1>2a. l.ring \in Seq(Entry(Email)) /\ t \in Entry(Email)
    BY <1>1, <1>2
  <1>3a. /\ r \in Seq(Entry(Email))
         /\ Len(l.ring) < MAX_TRANSITIONS =>
              Len(r) = Len(l.ring) + 1 /\ \A i \in 1..Len(l.ring) : r[i] = l.ring[i]
         /\ Len(l.ring) >= MAX_TRANSITIONS =>
              Len(r) = Len(l.ring) /\ \A i \in 1..(Len(l.ring) - 1) : r[i] = l.ring[i + 1]
         /\ r[Len(r)] = t
    <2> DEFINE q == l.ring
               S == Entry(Email)
    <2>1. q \in Seq(S) /\ t \in S
      BY <1>2a
    <2> HIDE DEF q, S, t
    <2>2. /\ Push(q, t) \in Seq(S)
          /\ Len(q) < MAX_TRANSITIONS =>
               Len(Push(q, t)) = Len(q) + 1 /\ \A i \in 1..Len(q) : Push(q, t)[i] = q[i]
          /\ Len(q) >= MAX_TRANSITIONS =>
               Len(Push(q, t)) = Len(q) /\ \A i \in 1..(Len(q) - 1) : Push(q, t)[i] = q[i + 1]
          /\ Push(q, t)[Len(Push(q, t))] = t
      BY ONLY <2>1, PushType
    <2> QED
      BY ONLY <2>2 DEF q, S
  <1>4. Advance(l, d).ring = r
    BY DEF Advance
  <1> HIDE DEF t, r
  <1>3. \A i \in 1..Len(r) : r[i] = t \/ \E j \in 1..Len(l.ring) : r[i] = l.ring[j]
    <2>1. Len(r) \in Nat
      BY <1>3a
    <2> SUFFICES ASSUME NEW i \in 1..Len(r), i # Len(r) PROVE \E j \in 1..Len(l.ring) : r[i] = l.ring[j]
      BY <1>3a
    <2>2. CASE Len(l.ring) < MAX_TRANSITIONS
      <3>1. i \in 1..Len(l.ring)
        BY <1>1, <1>3a, <2>1, <2>2
      <3> QED
        BY <1>3a, <2>2, <3>1
    <2>3. CASE Len(l.ring) >= MAX_TRANSITIONS
      <3>1. i \in 1..(Len(l.ring) - 1) /\ i + 1 \in 1..Len(l.ring)
        BY <1>1, <1>3a, <2>1, <2>3
      <3> QED
        BY <1>3a, <2>3, <3>1
    <2> QED
      BY <1>1, <2>2, <2>3, RetentionAssumption
  <1>5. \A n \in 1..Len(s) : z[n] = s[n]
    OBVIOUS
  <1>6. z[l.counter + 1] = s[l.counter + 1] /\ z[l.counter + 2] = w
    BY <1>1
  <1>7. \A j \in 1..Len(l.ring) : /\ z[l.ring[j].from + 1] = s[l.ring[j].from + 1]
                                  /\ z[l.ring[j].from + 2] = s[l.ring[j].from + 2]
    <2> TAKE j \in 1..Len(l.ring)
    <2> DEFINE f == l.ring[j].from
    <2>1. f \in Floor(l)..(l.counter - 1) /\ Floor(l) \in 0..l.counter
      BY RingEntries
    <2> HIDE DEF f
    <2>2. f + 1 \in 1..Len(s) /\ f + 2 \in 1..Len(s)
      BY ONLY <1>1, <2>1, Len(s) = l.counter + 1
    <2> QED
      BY <1>5, <2>2 DEF f
  <1> HIDE DEF z
  <1>8. ASSUME AllList(l, s), Lists(d, s[l.counter + 1], w), NEW i \in 1..Len(r)
        PROVE  Lists(r[i], z[r[i].from + 1], z[r[i].from + 2])
    <2>1. CASE r[i] = t
      BY <1>2, <1>6, <1>8, <2>1 DEF Lists
    <2>2. CASE \E j \in 1..Len(l.ring) : r[i] = l.ring[j]
      BY <1>7, <1>8, <2>2 DEF AllList
    <2> QED
      BY <1>3, <2>1, <2>2
  <1>9. ASSUME AllTell(l, s), Tells(d, s[l.counter + 1], w), NEW i \in 1..Len(r)
        PROVE  Tells(r[i], z[r[i].from + 1], z[r[i].from + 2])
    <2>1. CASE r[i] = t
      <3>1. Tells(t, s[l.counter + 1], w)
        BY <1>2, <1>9 DEF Tells
      <3>2. z[r[i].from + 1] = s[l.counter + 1] /\ z[r[i].from + 2] = w
        BY <1>2, <1>6, <2>1
      <3> QED
        BY <2>1, <3>1, <3>2
    <2>2. CASE \E j \in 1..Len(l.ring) : r[i] = l.ring[j]
      BY <1>7, <1>9, <2>2 DEF AllTell
    <2> QED
      BY <1>3, <2>1, <2>2
  <1> QED
    BY <1>4, <1>8, <1>9 DEF AllList, AllTell, z

-----------------------------------------------------------------------------
(* What a step says. *)

(* record_transition moves an account by one token or leaves it alone. *)
LEMMA RecordMoves ==
  ASSUME IInv, NEW share \in [Account -> Delta], NEW Extra,
         NEW own1 \in [Email -> Account \cup {None}], NEW ver1 \in [Email -> Nat \ {0}],
         Record(share, Extra, own1, ver1), NEW a \in Account
  PROVE  \/ log'[a] = log[a] /\ snap'[a] = snap[a]
         \/ /\ log'[a] = Advance(log[a], share[a])
            /\ snap'[a] = Append(snap[a], View(own1, ver1, a))
  <1> DEFINE log1 == RecordTransition(share, Extra)
  <1>1. log' = log1
        /\ snap' = [b \in Account |-> IF log1[b].counter = log[b].counter THEN snap[b]
                                      ELSE Append(snap[b], View(own1, ver1, b))]
    BY DEF Record
  <1>2. log1[a] = IF NonEmpty(share[a]) \/ a \in Extra THEN Advance(log[a], share[a]) ELSE log[a]
    BY DEF RecordTransition
  <1>3. log[a].counter \in Nat /\ Advance(log[a], share[a]).counter = log[a].counter + 1
    BY BoundAssumption DEF IInv, TypeOK, Log, Advance
  <1> HIDE DEF log1
  <1>4. CASE log1[a] = log[a]
    BY <1>1, <1>4
  <1>5. CASE log1[a] = Advance(log[a], share[a])
    BY <1>1, <1>3, <1>5
  <1> QED
    BY <1>2, <1>4, <1>5

(* The logs go on saying what they said of an account when its share of the
   diff says the same of the step. *)
LEMMA RecordSays ==
  ASSUME IInv, NEW share \in [Account -> Delta], NEW Extra,
         NEW own1 \in [Email -> Account \cup {None}], NEW ver1 \in [Email -> Nat \ {0}],
         Record(share, Extra, own1, ver1), NEW a \in Account
  PROVE  /\ /\ AllList(log[a], snap[a])
            /\ Lists(share[a], View(owner, ver, a), View(own1, ver1, a))
            => AllList(log'[a], snap'[a])
         /\ /\ AllTell(log[a], snap[a])
            /\ Tells(share[a], View(owner, ver, a), View(own1, ver1, a))
            => AllTell(log'[a], snap'[a])
  <1> DEFINE l == log[a]
             s == snap[a]
             w == View(own1, ver1, a)
             d == share[a]
  <1>1. /\ l \in Log(Email, MaxCounter) /\ Contiguous(l) /\ d \in Delta
        /\ s \in Seq([Email -> Nat]) /\ Len(s) = l.counter + 1
        /\ s[l.counter + 1] = View(owner, ver, a)
    BY DEF IInv, TypeOK, RingContiguous, TokenFaithful
  <1>2. w \in [Email -> Nat]
    BY DEF View
  <1>3. \/ log'[a] = l /\ snap'[a] = s
        \/ log'[a] = Advance(l, d) /\ snap'[a] = Append(s, w)
    BY RecordMoves
  <1> HIDE DEF l, s, w, d
  <1>4. /\ AllList(l, s) /\ Lists(d, s[l.counter + 1], w) => AllList(Advance(l, d), Append(s, w))
        /\ AllTell(l, s) /\ Tells(d, s[l.counter + 1], w) => AllTell(Advance(l, d), Append(s, w))
    BY <1>1, <1>2, AdvanceSays
  <1>5. /\ AllList(l, s) /\ Lists(d, View(owner, ver, a), w) => AllList(log'[a], snap'[a])
        /\ AllTell(l, s) /\ Tells(d, View(owner, ver, a), w) => AllTell(log'[a], snap'[a])
    BY <1>1, <1>3, <1>4
  <1> QED
    BY <1>5 DEF l, s, w, d

Newer(C, U) == [x \in Email |-> IF x \in C \cup U THEN ver[x] + 1 ELSE ver[x]]

(* Every mutator names what it creates and changes with the account that
   shows it afterwards. *)
LEMMA MutateLists ==
  ASSUME IInv, NEW own1 \in [Email -> Account \cup {None}],
         NEW C \in SUBSET Email, NEW acct \in Account,
         NEW U \in SUBSET Email, NEW D \in SUBSET Email,
         \A x \in Email : own1[x] # owner[x] => x \in C \/ own1[x] = None,
         NEW a \in Account
  PROVE  Lists(SubDiff(own1, C, acct, U, D, a), View(owner, ver, a), View(own1, Newer(C, U), a))
  <1> SUFFICES ASSUME NEW x \in Email,
                      View(owner, ver, a)[x] # View(own1, Newer(C, U), a)[x],
                      View(own1, Newer(C, U), a)[x] # 0
               PROVE  x \in {y \in C : ResolveEmail(own1, y) = a}
                            \cup {y \in U : ResolveEmail(own1, y) = a}
    BY DEF Lists, SubDiff
  <1>1. own1[x] = a /\ own1[x] # None
    BY AccountAssumption DEF View
  <1>2. ResolveEmail(own1, x) = a
    BY <1>1 DEF ResolveEmail
  <1>3. CASE owner[x] = a
    <2>1. ver[x] # Newer(C, U)[x]
      BY <1>1, <1>3 DEF View
    <2>2. x \in C \cup U
      BY <2>1 DEF Newer
    <2> QED
      BY <1>2, <2>2
  <1>4. CASE owner[x] # a
    BY <1>1, <1>2, <1>4
  <1> QED
    BY <1>3, <1>4

(* A call whose destroys are disjoint from its creates and updates says of
   every account exactly what it creates and destroys there. *)
LEMMA MutateTells ==
  ASSUME IInv, NEW C \in SUBSET Email, NEW acct \in Account,
         NEW U \in SUBSET Email, NEW D \in SUBSET Email,
         C \cap Live = {}, U \subseteq Live \cup C, D \subseteq Live, D \cap (U \cup C) = {},
         NEW a \in Account
  PROVE  Tells(SubDiff(After(C, acct, D), C, acct, U, D, a),
               View(owner, ver, a), View(After(C, acct, D), Newer(C, U), a))
  <1> DEFINE own1 == After(C, acct, D)
             v == View(owner, ver, a)
             w == View(own1, Newer(C, U), a)
  <1>1. owner \in [Email -> Account \cup {None}] /\ ver \in [Email -> Nat \ {0}]
    BY DEF IInv, TypeOK
  <1>2. ASSUME NEW x \in Email
        PROVE  /\ v[x] # 0 <=> owner[x] = a
               /\ w[x] # 0 <=> own1[x] = a
               /\ x \in C => own1[x] = acct /\ owner[x] = None
               /\ x \in D => own1[x] = None /\ owner[x] \in Account
               /\ x \notin C \cup D => own1[x] = owner[x]
               /\ own1[x] \in Account => ResolveEmail(own1, x) = own1[x]
               /\ x \in U => own1[x] \in Account
    <2>1. v[x] = (IF owner[x] = a THEN ver[x] ELSE 0) /\ ver[x] \in Nat /\ ver[x] # 0
      BY <1>1 DEF View
    <2>2. w[x] = (IF own1[x] = a THEN Newer(C, U)[x] ELSE 0)
      BY DEF View
    <2>3. Newer(C, U)[x] # 0
      BY <2>1 DEF Newer
    <2>4. own1[x] = IF x \in D THEN None ELSE IF x \in C THEN acct ELSE owner[x]
      BY DEF After
    <2>5. x \in Live <=> owner[x] \in Account
      BY <1>1, AccountAssumption DEF Live
    <2>6. x \in C => x \notin D /\ owner[x] = None
      BY <1>1 DEF Live
    <2>7. x \in U => x \notin D
      OBVIOUS
    <2> HIDE DEF own1, v, w
    <2>8. (v[x] # 0 <=> owner[x] = a) /\ (w[x] # 0 <=> own1[x] = a)
      BY <2>1, <2>2, <2>3
    <2>9. ResolveEmail(own1, x) = IF own1[x] \in Account THEN own1[x] ELSE Primary
      BY DEF ResolveEmail
    <2> QED
      BY <2>4, <2>5, <2>6, <2>7, <2>8, <2>9
  <1>3. {x \in C : ResolveEmail(own1, x) = a} = {x \in Email : v[x] = 0 /\ w[x] # 0}
    <2> HIDE DEF own1, v, w
    <2>1. ASSUME NEW x \in Email
          PROVE  x \in C /\ ResolveEmail(own1, x) = a <=> v[x] = 0 /\ w[x] # 0
      BY <1>2, AccountAssumption
    <2> QED
      BY <2>1
  <1>4. {x \in D : (IF owner[x] = None THEN acct ELSE owner[x]) = a}
           = {x \in Email : v[x] # 0 /\ w[x] = 0}
    <2> HIDE DEF own1, v, w
    <2>1. ASSUME NEW x \in Email
          PROVE  x \in D /\ (IF owner[x] = None THEN acct ELSE owner[x]) = a
                    <=> v[x] # 0 /\ w[x] = 0
      BY <1>2, AccountAssumption
    <2> QED
      BY <2>1
  <1>5. {x \in Email : v[x] # 0 /\ w[x] # 0 /\ v[x] # w[x]}
           \subseteq {x \in U : ResolveEmail(own1, x) = a}
    <2> SUFFICES ASSUME NEW x \in Email, v[x] # 0, w[x] # 0, v[x] # w[x]
                 PROVE  x \in U /\ ResolveEmail(own1, x) = a
      OBVIOUS
    <2>1. owner[x] = a /\ own1[x] = a
      BY <1>2
    <2>2. x \notin C /\ ResolveEmail(own1, x) = a
      BY <1>2, <2>1, AccountAssumption
    <2>3. x \in C \cup U
      BY <2>1 DEF View, Newer
    <2> QED
      BY <2>2, <2>3
  <1> HIDE DEF v, w
  <1> QED
    BY <1>3, <1>4, <1>5 DEF Tells, SubDiff, v, w

(* So does every call. *)
LEMMA MutateSays ==
  ASSUME IInv, NEW own1 \in [Email -> Account \cup {None}],
         NEW C \in SUBSET Email, NEW acct \in Account,
         NEW U \in SUBSET Email, NEW D \in SUBSET Email,
         \A x \in Email : own1[x] # owner[x] => x \in C \/ own1[x] = None,
         Mutate(own1, C, acct, U, D), NEW a \in Account
  PROVE  /\ AllList(log[a], snap[a]) => AllList(log'[a], snap'[a])
         /\ /\ AllTell(log[a], snap[a]) /\ own1 = After(C, acct, D)
            /\ C \cap Live = {} /\ U \subseteq Live \cup C /\ D \subseteq Live
            /\ D \cap (U \cup C) = {}
            => AllTell(log'[a], snap'[a])
  <1> DEFINE share == [b \in Account |-> SubDiff(own1, C, acct, U, D, b)]
             ver1 == Newer(C, U)
             v == View(owner, ver, a)
             w == View(own1, ver1, a)
  <1>1. ver1 \in [Email -> Nat \ {0}]
    BY DEF IInv, TypeOK, Newer
  <1>2. share \in [Account -> Delta]
    BY DEF SubDiff, Delta
  <1>3. Record(share, {}, own1, ver1)
    BY DEF Mutate, Newer
  <1>4. share[a] = SubDiff(own1, C, acct, U, D, a)
    OBVIOUS
  <1>5. Lists(share[a], v, w)
    BY <1>4, MutateLists
  <1>6. /\ own1 = After(C, acct, D)
        /\ C \cap Live = {} /\ U \subseteq Live \cup C /\ D \subseteq Live
        /\ D \cap (U \cup C) = {}
        => Tells(share[a], v, w)
    BY <1>4, MutateTells
  <1> HIDE DEF share, ver1
  <1>7. /\ AllList(log[a], snap[a]) /\ Lists(share[a], v, w) => AllList(log'[a], snap'[a])
        /\ AllTell(log[a], snap[a]) /\ Tells(share[a], v, w) => AllTell(log'[a], snap'[a])
    BY <1>1, <1>2, <1>3, RecordSays
  <1> QED
    BY <1>5, <1>6, <1>7

(* What the emails of a script step or an Email/set are afterwards. *)
LEMMA AfterType ==
  ASSUME IInv, NEW C \in SUBSET Email, NEW acct \in Account, NEW D \in SUBSET Email
  PROVE  /\ After(C, acct, D) \in [Email -> Account \cup {None}]
         /\ \A x \in Email : After(C, acct, D)[x] # owner[x]
                                => x \in C \/ After(C, acct, D)[x] = None
  BY DEF IInv, TypeOK, After

LEMMA NextSays ==
  ASSUME IInv, [Next]_vars, NEW a \in Account
  PROVE  /\ AllList(log[a], snap[a]) => AllList(log'[a], snap'[a])
         /\ Overlap = FALSE /\ AllTell(log[a], snap[a]) => AllTell(log'[a], snap'[a])
  <1> DEFINE Says == /\ AllList(log[a], snap[a]) => AllList(log'[a], snap'[a])
                     /\ Overlap = FALSE /\ AllTell(log[a], snap[a]) => AllTell(log'[a], snap'[a])
  <1>1. ASSUME NEW acct \in Account, NEW C \in SUBSET Email, NEW U \in SUBSET Email,
               NEW D \in SUBSET Email, EmailSet(C, acct, U, D)
        PROVE  Says
    <2>1. Mutate(After(C, acct, D), C, acct, U, D)
      BY <1>1 DEF EmailSet
    <2>2. C \cap Live = {} /\ U \subseteq Live \cup C /\ D \subseteq Live
      BY <1>1 DEF EmailSet, IInv
    <2>3. Overlap = FALSE => D \cap (U \cup C) = {}
      BY <1>1, <2>2 DEF EmailSet
    <2> QED
      BY <2>1, <2>2, <2>3, AfterType, MutateSays
  <1>2. ASSUME NEW acct \in Account, NEW C \in SUBSET Email, NEW U \in SUBSET Email,
               NEW D \in SUBSET Email, ScriptStep(C, acct, U, D)
        PROVE  Says
    <2>1. Mutate(After(C, acct, D), C, acct, U, D)
      BY <1>2 DEF ScriptStep
    <2>2. C \cap Live = {} /\ U \subseteq Live \cup C /\ D \subseteq Live \cup C
      BY <1>2 DEF ScriptStep
    <2>3. Overlap = FALSE => D \cap (U \cup C) = {} /\ D \subseteq Live
      BY <1>2, <2>2 DEF ScriptStep
    <2> QED
      BY <2>1, <2>2, <2>3, AfterType, MutateSays
  <1>3. ASSUME NEW x \in Email, NEW acct \in Account, ScriptReplace(x, acct)
        PROVE  Says
    <2> DEFINE own1 == [owner EXCEPT ![x] = acct]
    <2>1. Mutate(own1, {x}, acct, {}, {x}) /\ Overlap
      BY <1>3 DEF ScriptReplace
    <2>2. own1 \in [Email -> Account \cup {None}]
          /\ \A y \in Email : own1[y] # owner[y] => y \in {x} \/ own1[y] = None
      BY DEF IInv, TypeOK
    <2>3. {x} \in SUBSET Email /\ {} \in SUBSET Email
      OBVIOUS
    <2> HIDE DEF own1
    <2>4. AllList(log[a], snap[a]) => AllList(log'[a], snap'[a])
      BY <2>1, <2>2, <2>3, MutateSays
    <2> QED
      BY <2>1, <2>4
  <1>4. ASSUME NEW owning \in Account, NEW grantee \in Account, AclChange(owning, grantee)
        PROVE  Says
    <2> DEFINE share == [b \in Account |-> EmptyDelta]
               v == View(owner, ver, a)
    <2>1. share \in [Account -> Delta] /\ share[a] = EmptyDelta
      BY DEF EmptyDelta, Delta
    <2>2. Record(share, {owning, grantee}, owner, ver)
      BY <1>4 DEF AclChange
    <2>3. owner \in [Email -> Account \cup {None}] /\ ver \in [Email -> Nat \ {0}]
      BY DEF IInv, TypeOK
    <2>4. Lists(EmptyDelta, v, v) /\ Tells(EmptyDelta, v, v)
      <3> HIDE DEF v
      <3> QED
        BY DEF Lists, Tells, EmptyDelta
    <2> HIDE DEF share
    <2>5. /\ AllList(log[a], snap[a]) /\ Lists(share[a], v, v) => AllList(log'[a], snap'[a])
          /\ AllTell(log[a], snap[a]) /\ Tells(share[a], v, v) => AllTell(log'[a], snap'[a])
      BY <2>1, <2>2, <2>3, RecordSays
    <2> QED
      BY <2>1, <2>4, <2>5
  <1>5. CASE UNCHANGED vars
    BY <1>5 DEF vars
  <1> QED
    BY <1>1, <1>2, <1>3, <1>4, <1>5 DEF Next

-----------------------------------------------------------------------------
(* MODSEQs. *)

(* A bounded set of numbers has a largest one. *)
LEMMA Largest ==
  ASSUME NEW c \in Nat, NEW H \in SUBSET (0..c), H # {}
  PROVE  \E n \in H : \A m \in H : m <= n
  <1> DEFINE T == {k \in Nat : c - k \in H}
  <1>1. T \subseteq Nat
    OBVIOUS
  <1>2. T # {}
    <2>1. PICK h \in H : TRUE
      OBVIOUS
    <2>2. c - h \in Nat /\ c - (c - h) = h
      BY <2>1
    <2> QED
      BY <2>1, <2>2
  <1>3. \E x \in T : \A y \in T : ~(<<y, x>> \in OpToRel(<, Nat))
    <2> HIDE DEF T
    <2> QED
      BY <1>1, <1>2, NatLessThanWellFounded, WFMin
  <1>4. PICK x \in T : \A y \in T : ~(<<y, x>> \in OpToRel(<, Nat))
    BY <1>3
  <1>5. ASSUME NEW m \in H PROVE m <= c - x
    <2>1. c - m \in Nat /\ c - (c - m) = m /\ x \in Nat
      BY <1>1
    <2>2. c - m \in T
      BY <2>1
    <2>3. c - m < x => <<c - m, x>> \in OpToRel(<, Nat)
      BY <2>1 DEF OpToRel
    <2>4. ~(c - m < x)
      BY <1>4, <2>2, <2>3, Zenon
    <2> QED
      BY <2>1, <2>4
  <1> QED
    BY <1>5

ListInv == \A a \in Account : AllList(log[a], snap[a])

LEMMA ListInit == Init => ListInv
  BY DEF Init, ListInv, AllList, EmptyLog

LEMMA ListNext == IInv /\ ListInv /\ [Next]_vars => ListInv'
  BY NextSays DEF ListInv

(* The walk over the ring of email_modseq misses no change. *)
LEMMA ListedIsComplete == IInv /\ ListInv => ModseqComplete
  <1> SUFFICES ASSUME IInv, ListInv, NEW a \in Account, NEW x \in Email, owner[x] = a
               PROVE  /\ EmailModseq(a, x) <= HighestModseq(a)
                      /\ \A t \in Floor(log[a])..log[a].counter :
                           snap[a][t + 1][x] # ver[x] => EmailModseq(a, x) > t + 1
    BY DEF ModseqComplete
  <1> DEFINE l == log[a]
             s == snap[a]
             hits == {l.ring[i].to : i \in {i \in 1..Len(l.ring) :
                         x \in l.ring[i].created \cup l.ring[i].updated}}
             top == CHOOSE n \in hits : \A m \in hits : m <= n
  <1>1. /\ l \in Log(Email, MaxCounter) /\ Contiguous(l) /\ AllList(l, s)
        /\ s[l.counter + 1][x] = ver[x] /\ ver[x] # 0
    BY DEF IInv, TypeOK, RingContiguous, TokenFaithful, ListInv, View
  <1>2. EmailModseq(a, x) = IF hits = {} THEN 1 ELSE 1 + top
    BY DEF EmailModseq
  <1>3. HighestModseq(a) = l.counter + 1
    BY DEF HighestModseq
  <1> HIDE DEF l, s
  <1>4. /\ l.counter \in Nat /\ Floor(l) \in 0..l.counter /\ Len(l.ring) \in Nat
        /\ \A i \in 1..Len(l.ring) :
             /\ l.ring[i] \in Entry(Email)
             /\ l.ring[i].from \in Floor(l)..(l.counter - 1) /\ l.ring[i].to = l.ring[i].from + 1
        /\ \A t \in Floor(l)..(l.counter - 1) :
             /\ t - Floor(l) + 1 \in 1..Len(l.ring) /\ l.ring[t - Floor(l) + 1].from = t
    BY <1>1, RingEntries
  <1>5. hits \in SUBSET (0..l.counter)
    <2> SUFFICES ASSUME NEW i \in 1..Len(l.ring) PROVE l.ring[i].to \in 0..l.counter
      OBVIOUS
    <2>1. l.ring[i].from \in Floor(l)..(l.counter - 1) /\ l.ring[i].to = l.ring[i].from + 1
      BY <1>4
    <2> QED
      BY <1>4, <2>1, SMTT(30)
  <1>6. hits # {} => top \in hits /\ \A m \in hits : m <= top
    <2> SUFFICES ASSUME hits # {} PROVE \E n \in hits : \A m \in hits : m <= n
      OBVIOUS
    <2> HIDE DEF hits
    <2> QED
      BY <1>4, <1>5, Largest
  <1>7. EmailModseq(a, x) <= HighestModseq(a)
    <2> HIDE DEF hits, top
    <2>1. hits # {} => top \in 0..l.counter
      BY <1>5, <1>6
    <2> QED
      BY <1>2, <1>3, <1>4, <2>1
  <1>8. ASSUME NEW t \in Floor(l)..l.counter, s[t + 1][x] # ver[x]
        PROVE  EmailModseq(a, x) > t + 1
    <2> DEFINE B == {k \in Nat : s[k][x] = ver[x]}
    <2>1. t \in Nat /\ t # l.counter /\ t + 1 \in Nat /\ l.counter + 1 \in Nat
          /\ t + 1 < l.counter + 1
      BY <1>1, <1>4, <1>8
    <2>2. t + 1 \notin B /\ l.counter + 1 \in B
      BY <1>1, <1>8, <2>1
    <2>3. \E m \in (t + 1)..((l.counter + 1) - 1) : m \notin B /\ m + 1 \in B
      <3> HIDE DEF B
      <3> QED
        BY <2>1, <2>2, Crossing
    <2>4. PICK m \in (t + 1)..l.counter : m \notin B /\ m + 1 \in B
      BY <1>4, <2>3
    <2>5. m \in Nat /\ s[m][x] # ver[x] /\ s[m + 1][x] = ver[x]
      BY <1>4, <2>1, <2>4
    <2> DEFINE i == (m - 1) - Floor(l) + 1
    <2>6. m - 1 \in Floor(l)..(l.counter - 1)
      BY <1>4, <1>8, <2>1, <2>4, <2>5
    <2>7. i \in 1..Len(l.ring) /\ l.ring[i].from = m - 1
      BY <1>4, <2>6
    <2> HIDE DEF i
    <2>8. l.ring[i].from + 1 = m /\ l.ring[i].from + 2 = m + 1 /\ l.ring[i].to = m
      BY <1>4, <2>5, <2>7, SMTT(30)
    <2>9. Lists(l.ring[i], s[m], s[m + 1])
      BY <1>1, <2>7, <2>8 DEF AllList
    <2>10. x \in l.ring[i].created \cup l.ring[i].updated
      BY <1>1, <2>5, <2>9 DEF Lists
    <2>11. m \in hits
      BY <2>7, <2>8, <2>10
    <2> HIDE DEF hits, top
    <2>12. m <= top /\ top \in 0..l.counter /\ EmailModseq(a, x) = 1 + top
      BY <1>2, <1>5, <1>6, <2>11
    <2> QED
      BY <1>4, <2>1, <2>4, <2>5, <2>12
  <1> QED
    BY <1>7, <1>8 DEF l, s

(* CONDSTORE is complete (Fixture::email_modseq, imap_highestmodseq): a client
   that asks CHANGEDSINCE a modseq the ring covers is shown every email that
   changed since, for every retention, and also when one call destroys what it
   creates and when scripts re-create ids. *)
THEOREM ModseqsComplete == Spec => []ModseqComplete
  <1>1. Spec => [](IInv /\ ListInv)
    <2>1. Init => IInv /\ ListInv
      BY InitIInv, ListInit
    <2>2. IInv /\ ListInv /\ [Next]_vars => IInv' /\ ListInv'
      BY NextIInv, ListNext
    <2> QED
      BY <2>1, <2>2, PTL DEF Spec
  <1> QED
    BY <1>1, ListedIsComplete, PTL

-----------------------------------------------------------------------------
(* The answers of the walk. *)

(* From a token t the ring covers, the walk visits the entries that leave t
   or a later token. *)
LEMMA WindowIs ==
  ASSUME NEW l \in Log(Email, MaxCounter), Contiguous(l), NEW t \in Floor(l)..(l.counter - 1)
  PROVE  Window(l, t) = {i \in 1..Len(l.ring) : l.ring[i].from >= t} /\ Known(l, t)
  <1>1. /\ l.counter \in Nat /\ Floor(l) \in 0..l.counter /\ Len(l.ring) \in Nat
        /\ \A i \in 1..Len(l.ring) : l.ring[i].from \in Floor(l)..(l.counter - 1)
    BY RingEntries
  <1>2. t - Floor(l) + 1 \in 1..Len(l.ring) /\ l.ring[t - Floor(l) + 1].from = t
    BY RingEntries
  <1>3. \A i \in 1..Len(l.ring) : l.ring[i].from = Floor(l) + i - 1
    BY DEF Contiguous
  <1>4. ASSUME NEW i \in 1..Len(l.ring)
        PROVE  (t = Seed \/ \E j \in 1..i : l.ring[j].from = t) <=> l.ring[i].from >= t
    <2>1. ASSUME t = Seed PROVE l.ring[i].from >= t
      BY <1>1, <2>1 DEF Seed
    <2>2. ASSUME NEW j \in 1..i, l.ring[j].from = t PROVE l.ring[i].from >= t
      <3>1. j \in 1..Len(l.ring)
        BY <1>1
      <3>2. t = Floor(l) + j - 1 /\ l.ring[i].from = Floor(l) + i - 1
        BY <1>3, <2>2, <3>1
      <3> QED
        BY <1>1, <3>2
    <2>3. ASSUME l.ring[i].from >= t PROVE \E j \in 1..i : l.ring[j].from = t
      <3>1. l.ring[i].from = Floor(l) + i - 1
        BY <1>3
      <3>2. t - Floor(l) + 1 \in 1..i
        BY <1>1, <2>3, <3>1
      <3> QED
        BY <1>2, <3>2
    <2> QED
      BY <2>1, <2>2, <2>3
  <1> QED
    BY <1>2, <1>4 DEF Window, Known

(* The steps a walk from t passes in which x appears, disappears, changes. *)
Appears(s, x, p, q) == \E m \in p..q : s[m][x] = 0 /\ s[m + 1][x] # 0
Disappears(s, x, p, q) == \E m \in p..q : s[m][x] # 0 /\ s[m + 1][x] = 0

(* The unions of the walk collect exactly these. *)
LEMMA WalkCollects ==
  ASSUME NEW l \in Log(Email, MaxCounter), Contiguous(l), NEW t \in Floor(l)..(l.counter - 1),
         NEW s, AllTell(l, s), NEW x \in Email
  PROVE  /\ x \in Created(l, Window(l, t)) <=> Appears(s, x, t + 1, l.counter)
         /\ x \in Destroyed(l, Window(l, t)) <=> Disappears(s, x, t + 1, l.counter)
         /\ \A m \in (t + 1)..l.counter :
              s[m][x] # 0 /\ s[m + 1][x] # 0 /\ s[m][x] # s[m + 1][x]
                 => x \in Updated(l, Window(l, t))
  <1> DEFINE W == {i \in 1..Len(l.ring) : l.ring[i].from >= t}
  <1>1. /\ l.counter \in Nat /\ Floor(l) \in 0..l.counter /\ Len(l.ring) \in Nat
        /\ \A i \in 1..Len(l.ring) :
             /\ l.ring[i] \in Entry(Email)
             /\ l.ring[i].from \in Floor(l)..(l.counter - 1) /\ l.ring[i].to = l.ring[i].from + 1
        /\ \A n \in Floor(l)..(l.counter - 1) :
             /\ n - Floor(l) + 1 \in 1..Len(l.ring) /\ l.ring[n - Floor(l) + 1].from = n
    BY RingEntries
  <1>2. Window(l, t) = W
    BY WindowIs
  <1>3. ASSUME NEW i \in W
        PROVE  \E m \in (t + 1)..l.counter : Tells(l.ring[i], s[m], s[m + 1])
    <2> DEFINE f == l.ring[i].from
    <2>1. i \in 1..Len(l.ring) /\ f \in Floor(l)..(l.counter - 1) /\ f >= t
      BY <1>1
    <2>2. Tells(l.ring[i], s[f + 1], s[f + 2])
      BY <2>1 DEF AllTell
    <2> HIDE DEF f
    <2>3. f \in Int /\ t \in Int
      BY <1>1, <2>1
    <2>4. f + 1 \in (t + 1)..l.counter /\ (f + 1) + 1 = f + 2
      BY <1>1, <2>1, <2>3
    <2> QED
      BY <2>2, <2>4
  <1>4. ASSUME NEW m \in (t + 1)..l.counter
        PROVE  \E i \in W : Tells(l.ring[i], s[m], s[m + 1])
    <2> DEFINE i == (m - 1) - Floor(l) + 1
    <2>1. m - 1 \in Floor(l)..(l.counter - 1) /\ m \in Nat /\ m - 1 >= t
      BY <1>1
    <2>2. i \in 1..Len(l.ring) /\ l.ring[i].from = m - 1
      BY <1>1, <2>1
    <2> HIDE DEF i
    <2>3. l.ring[i].from + 1 = m /\ l.ring[i].from + 2 = m + 1 /\ i \in W
      BY <2>1, <2>2
    <2>4. Tells(l.ring[i], s[m], s[m + 1])
      BY <2>2, <2>3 DEF AllTell
    <2> QED
      BY <2>3, <2>4
  <1> HIDE DEF W
  <1>5. /\ x \in Created(l, W) <=> \E i \in W : x \in l.ring[i].created
        /\ x \in Updated(l, W) <=> \E i \in W : x \in l.ring[i].updated
        /\ x \in Destroyed(l, W) <=> \E i \in W : x \in l.ring[i].destroyed
    BY DEF Created, Updated, Destroyed
  <1>6. x \in Created(l, W) <=> Appears(s, x, t + 1, l.counter)
    BY <1>3, <1>4, <1>5 DEF Tells, Appears
  <1>7. x \in Destroyed(l, W) <=> Disappears(s, x, t + 1, l.counter)
    BY <1>3, <1>4, <1>5 DEF Tells, Disappears
  <1>8. ASSUME NEW m \in (t + 1)..l.counter,
               s[m][x] # 0, s[m + 1][x] # 0, s[m][x] # s[m + 1][x]
        PROVE  x \in Updated(l, W)
    BY <1>4, <1>5, <1>8 DEF Tells
  <1> QED
    BY <1>2, <1>6, <1>7, <1>8

(* An email that does not come back: what appeared and did not disappear is
   new, what disappeared and did not appear is gone, and nothing else is. *)
LEMMA LifeLeads ==
  ASSUME NEW s, NEW p \in Nat \ {0}, NEW q \in Nat, p <= q, Len(s) = q + 1, OneLife(s),
         NEW x \in Email
  PROVE  /\ Appears(s, x, p, q) /\ ~Disappears(s, x, p, q) <=> s[p][x] = 0 /\ s[q + 1][x] # 0
         /\ Disappears(s, x, p, q) /\ ~Appears(s, x, p, q) <=> s[p][x] # 0 /\ s[q + 1][x] = 0
         /\ s[p][x] # 0 /\ s[q + 1][x] # 0 /\ s[p][x] # s[q + 1][x] =>
              /\ ~Appears(s, x, p, q) /\ ~Disappears(s, x, p, q)
              /\ \E m \in p..q : s[m][x] # 0 /\ s[m + 1][x] # 0 /\ s[m][x] # s[m + 1][x]
  <1> DEFINE Z == {k \in Nat : s[k][x] = 0}
             N == {k \in Nat : s[k][x] # 0}
  <1>1. ASSUME NEW m \in p..q PROVE m \in Nat /\ m + 1 \in Nat /\ m \in 1..Len(s) /\ m + 1 \in 1..Len(s)
    OBVIOUS
  <1>2. p \in 1..Len(s) /\ q + 1 \in 1..Len(s) /\ q + 1 \in Nat /\ p < q + 1
    OBVIOUS
  <1>3. ASSUME NEW i \in 1..Len(s), NEW j \in 1..Len(s), NEW k \in 1..Len(s),
               i <= j, j <= k, s[i][x] # 0, s[k][x] # 0
        PROVE  s[j][x] # 0
    BY <1>3 DEF OneLife
  <1>4. ASSUME NEW i \in Nat, NEW k \in Nat, i < k, s[i][x] = 0, s[k][x] # 0
        PROVE  \E m \in i..(k - 1) : s[m][x] = 0 /\ s[m + 1][x] # 0
    <2>1. i \notin N /\ k \in N
      BY <1>4
    <2>2. \E m \in i..(k - 1) : m \notin N /\ m + 1 \in N
      <3> HIDE DEF N
      <3> QED
        BY <1>4, <2>1, Crossing
    <2> QED
      BY <2>2
  <1>5. ASSUME NEW i \in Nat, NEW k \in Nat, i < k, s[i][x] # 0, s[k][x] = 0
        PROVE  \E m \in i..(k - 1) : s[m][x] # 0 /\ s[m + 1][x] = 0
    <2>1. i \notin Z /\ k \in Z
      BY <1>5
    <2>2. \E m \in i..(k - 1) : m \notin Z /\ m + 1 \in Z
      <3> HIDE DEF Z
      <3> QED
        BY <1>5, <2>1, Crossing
    <2> QED
      BY <2>2
  <1> HIDE DEF Z, N
  <1>6. s[p][x] = 0 /\ s[q + 1][x] # 0 => Appears(s, x, p, q)
    <2> SUFFICES ASSUME s[p][x] = 0, s[q + 1][x] # 0 PROVE Appears(s, x, p, q)
      OBVIOUS
    <2>1. \E m \in p..((q + 1) - 1) : s[m][x] = 0 /\ s[m + 1][x] # 0
      BY <1>2, <1>4
    <2> QED
      BY <2>1 DEF Appears
  <1>7. s[p][x] # 0 /\ s[q + 1][x] = 0 => Disappears(s, x, p, q)
    <2> SUFFICES ASSUME s[p][x] # 0, s[q + 1][x] = 0 PROVE Disappears(s, x, p, q)
      OBVIOUS
    <2>1. \E m \in p..((q + 1) - 1) : s[m][x] # 0 /\ s[m + 1][x] = 0
      BY <1>2, <1>5
    <2> QED
      BY <2>1 DEF Disappears
  <1>8. ASSUME s[q + 1][x] # 0 PROVE ~Disappears(s, x, p, q)
    <2> SUFFICES ASSUME NEW m \in p..q, s[m][x] # 0, s[m + 1][x] = 0 PROVE FALSE
      BY DEF Disappears
    <2>1. m <= m + 1 /\ m + 1 <= q + 1
      OBVIOUS
    <2> QED
      BY <1>1, <1>2, <1>3, <1>8, <2>1
  <1>9. ASSUME s[p][x] # 0 PROVE ~Appears(s, x, p, q)
    <2> SUFFICES ASSUME NEW m \in p..q, s[m][x] = 0, s[m + 1][x] # 0 PROVE FALSE
      BY DEF Appears
    <2>1. p <= m /\ m <= m + 1
      OBVIOUS
    <2> QED
      BY <1>1, <1>2, <1>3, <1>9, <2>1
  <1>10. ASSUME Appears(s, x, p, q), s[q + 1][x] = 0 PROVE Disappears(s, x, p, q)
    <2>1. PICK m \in p..q : s[m][x] = 0 /\ s[m + 1][x] # 0
      BY <1>10 DEF Appears
    <2>2. m + 1 # q + 1
      BY <1>10, <2>1
    <2>3. m + 1 \in Nat /\ q + 1 \in Nat /\ m + 1 < q + 1
      BY <2>2
    <2>4. \E n \in (m + 1)..((q + 1) - 1) : s[n][x] # 0 /\ s[n + 1][x] = 0
      BY <1>5, <1>10, <2>1, <2>3
    <2>5. PICK n \in (m + 1)..((q + 1) - 1) : s[n][x] # 0 /\ s[n + 1][x] = 0
      BY <2>4
    <2>6. n \in p..q
      OBVIOUS
    <2> QED
      BY <2>5, <2>6 DEF Disappears
  <1>11. ASSUME Disappears(s, x, p, q), s[p][x] = 0 PROVE Appears(s, x, p, q)
    <2>1. PICK m \in p..q : s[m][x] # 0 /\ s[m + 1][x] = 0
      BY <1>11 DEF Disappears
    <2>2. m # p
      BY <1>11, <2>1
    <2>3. m \in Nat /\ p < m
      BY <2>2
    <2>4. \E n \in p..(m - 1) : s[n][x] = 0 /\ s[n + 1][x] # 0
      BY <1>4, <1>11, <2>1, <2>3
    <2>5. PICK n \in p..(m - 1) : s[n][x] = 0 /\ s[n + 1][x] # 0
      BY <2>4
    <2>6. n \in p..q
      OBVIOUS
    <2> QED
      BY <2>5, <2>6 DEF Appears
  <1>12. ASSUME s[p][x] # 0, s[q + 1][x] # 0, s[p][x] # s[q + 1][x]
         PROVE  \E m \in p..q : s[m][x] # 0 /\ s[m + 1][x] # 0 /\ s[m][x] # s[m + 1][x]
    <2> DEFINE B == {k \in Nat : s[k][x] = s[q + 1][x]}
    <2>1. p \notin B /\ q + 1 \in B
      BY <1>2, <1>12
    <2>2. \E m \in p..((q + 1) - 1) : m \notin B /\ m + 1 \in B
      <3> HIDE DEF B
      <3> QED
        BY <1>2, <2>1, Crossing
    <2>3. PICK m \in p..q : m \notin B /\ m + 1 \in B
      BY <2>2
    <2>4. s[m][x] # s[q + 1][x] /\ s[m + 1][x] = s[q + 1][x]
      BY <1>1, <2>3
    <2>5. p <= m /\ m <= q + 1
      OBVIOUS
    <2>6. s[m][x] # 0
      BY <1>1, <1>2, <1>3, <1>12, <2>5
    <2> QED
      BY <1>12, <2>4, <2>6
  <1> QED
    BY <1>6, <1>7, <1>8, <1>9, <1>10, <1>11, <1>12

(* delta_since is exact from every token the ring covers. *)
LEMMA AnswerLeads ==
  ASSUME NEW l \in Log(Email, MaxCounter), Contiguous(l), NEW t \in Floor(l)..l.counter,
         NEW s, Len(s) = l.counter + 1, AllTell(l, s), OneLife(s)
  PROVE  DeltaSince(l, t) # Unknown /\ Feed!Leads(s[t + 1], s[l.counter + 1], DeltaSince(l, t))
  <1> DEFINE v == s[t + 1]
             w == s[l.counter + 1]
             C == Created(l, Window(l, t))
             U == Updated(l, Window(l, t))
             D == Destroyed(l, Window(l, t))
  <1>1. l.counter \in Nat /\ Floor(l) \in 0..l.counter
    BY RingEntries
  <1>2. CASE t = l.counter
    <2>1. DeltaSince(l, t) = EmptyDelta
      BY <1>2 DEF DeltaSince, StateOf
    <2>2. v = w
      BY <1>2
    <2> HIDE DEF v, w
    <2>3. Feed!Leads(v, w, EmptyDelta)
      BY <2>2 DEF Feed!Leads, EmptyDelta
    <2>4. EmptyDelta # Unknown
      BY DEF EmptyDelta, Unknown
    <2> QED
      BY <2>1, <2>3, <2>4 DEF v, w
  <1>3. CASE t # l.counter
    <2>1. t \in Floor(l)..(l.counter - 1) /\ t \in Nat /\ t + 1 \in Nat \ {0} /\ t + 1 <= l.counter
      BY <1>1, <1>3
    <2>2. Known(l, t)
      BY <2>1, WindowIs
    <2>3. DeltaSince(l, t) = Dominance(C, U, D)
      BY <1>3, <2>2 DEF DeltaSince, StateOf
    <2> DEFINE A(x) == Appears(s, x, t + 1, l.counter)
               G(x) == Disappears(s, x, t + 1, l.counter)
    <2>4. ASSUME NEW x \in Email
          PROVE  /\ x \in C <=> A(x)
                 /\ x \in D <=> G(x)
                 /\ (\E m \in (t + 1)..l.counter :
                       s[m][x] # 0 /\ s[m + 1][x] # 0 /\ s[m][x] # s[m + 1][x]) => x \in U
      BY <2>1, WalkCollects
    <2>5. ASSUME NEW x \in Email
          PROVE  /\ A(x) /\ ~G(x) <=> v[x] = 0 /\ w[x] # 0
                 /\ G(x) /\ ~A(x) <=> v[x] # 0 /\ w[x] = 0
                 /\ v[x] # 0 /\ w[x] # 0 /\ v[x] # w[x] =>
                      /\ ~A(x) /\ ~G(x)
                      /\ \E m \in (t + 1)..l.counter :
                           s[m][x] # 0 /\ s[m + 1][x] # 0 /\ s[m][x] # s[m + 1][x]
      <3> DEFINE p == t + 1
                 q == l.counter
      <3>1. p \in Nat \ {0} /\ q \in Nat /\ p <= q /\ Len(s) = q + 1
        BY <1>1, <2>1
      <3> HIDE DEF p, q
      <3>2. /\ Appears(s, x, p, q) /\ ~Disappears(s, x, p, q) <=> s[p][x] = 0 /\ s[q + 1][x] # 0
            /\ Disappears(s, x, p, q) /\ ~Appears(s, x, p, q) <=> s[p][x] # 0 /\ s[q + 1][x] = 0
            /\ s[p][x] # 0 /\ s[q + 1][x] # 0 /\ s[p][x] # s[q + 1][x] =>
                 /\ ~Appears(s, x, p, q) /\ ~Disappears(s, x, p, q)
                 /\ \E m \in p..q : s[m][x] # 0 /\ s[m + 1][x] # 0 /\ s[m][x] # s[m + 1][x]
        BY ONLY <3>1, OneLife(s), x \in Email, LifeLeads
      <3> QED
        BY <3>2 DEF p, q
    <2>6. ASSUME NEW x \in Email
          PROVE  /\ x \in C /\ x \notin D <=> v[x] = 0 /\ w[x] # 0
                 /\ x \in D /\ x \notin C <=> v[x] # 0 /\ w[x] = 0
                 /\ v[x] # 0 /\ w[x] # 0 /\ v[x] # w[x] => x \notin C /\ x \notin D /\ x \in U
      <3> HIDE DEF A, G, C, D, U, v, w
      <3> QED
        BY <2>4, <2>5, Zenon
    <2>7. C \subseteq Email /\ D \subseteq Email
      <3>1. Window(l, t) \subseteq 1..Len(l.ring)
        BY DEF Window
      <3>2. \A i \in 1..Len(l.ring) : l.ring[i] \in Entry(Email)
        BY RingEntries
      <3>3. \A i \in Window(l, t) : l.ring[i].created \subseteq Email
                                    /\ l.ring[i].destroyed \subseteq Email
        BY <3>1, <3>2 DEF Entry
      <3> QED
        BY <3>3 DEF Created, Destroyed
    <2> HIDE DEF v, w, C, D, U
    <2>8. /\ Dominance(C, U, D).created = C \ D
          /\ Dominance(C, U, D).destroyed = D \ C
          /\ Dominance(C, U, D).updated = U \ ((C \ D) \cup (D \ C))
      BY DEF Dominance
    <2>9. C \ D = {x \in Email : v[x] = 0 /\ w[x] # 0}
      BY <2>6, <2>7
    <2>10. D \ C = {x \in Email : v[x] # 0 /\ w[x] = 0}
      BY <2>6, <2>7
    <2>11. {x \in Email : v[x] # 0 /\ w[x] # 0 /\ v[x] # w[x]} \subseteq U \ ((C \ D) \cup (D \ C))
      BY <2>6
    <2>12. Feed!Leads(v, w, Dominance(C, U, D))
      BY <2>8, <2>9, <2>10, <2>11 DEF Feed!Leads
    <2>13. Dominance(C, U, D) # Unknown
      BY DEF Dominance, Unknown
    <2> QED
      BY <2>3, <2>12, <2>13 DEF v, w
  <1> QED
    BY <1>2, <1>3

(* A token the ring no longer covers is refused, the seed excepted. *)
LEMMA ForgottenRefused ==
  ASSUME NEW l \in Log(Email, MaxCounter), Contiguous(l), NEW t \in Nat, t < Floor(l), t # 0
  PROVE  DeltaSince(l, t) = Unknown
  <1>1. l.counter \in Nat /\ Floor(l) \in 0..l.counter
        /\ \A i \in 1..Len(l.ring) : l.ring[i].from \in Floor(l)..(l.counter - 1)
    BY RingEntries
  <1>2. t # l.counter
    BY <1>1
  <1>3. \A i \in 1..Len(l.ring) : l.ring[i].from # t
    BY <1>1
  <1> QED
    BY <1>2, <1>3 DEF DeltaSince, StateOf, Known, Seed

-----------------------------------------------------------------------------
(* The refinement. *)

(* What an account showed at any token was in use, and stays so. *)
Shown == \A a \in Account : \A i \in 1..Len(snap[a]) : \A x \in Email :
            snap[a][i][x] # 0 => x \in used

FeedInv == \A a \in Account : AllTell(log[a], snap[a]) /\ OneLife(snap[a])

LEMMA FeedInvInit == Init => FeedInv /\ Shown
  <1> SUFFICES ASSUME Init PROVE FeedInv /\ Shown
    OBVIOUS
  <1>1. ASSUME NEW a \in Account
        PROVE  /\ AllTell(log[a], snap[a]) /\ Len(snap[a]) = 1
               /\ snap[a][1] = View(InitialOwner, [x \in Email |-> 1], a)
    BY DEF Init, AllTell, EmptyLog
  <1>2. ASSUME NEW a \in Account PROVE OneLife(snap[a])
    <2> SUFFICES ASSUME NEW i \in 1..1, NEW j \in 1..1, NEW k \in 1..1, NEW x \in Email,
                        snap[a][i][x] # 0
                 PROVE  snap[a][j][x] # 0
      BY <1>1 DEF OneLife
    <2>1. i = j
      OBVIOUS
    <2> QED
      BY <2>1, Zenon
  <1>3. ASSUME NEW a \in Account, NEW x \in Email, snap[a][1][x] # 0 PROVE x \in used
    <2>1. View(InitialOwner, [y \in Email |-> 1], a)[x] # 0
      BY <1>1, <1>3, Zenon
    <2>2. InitialOwner[x] = a
      BY <2>1 DEF View
    <2> QED
      BY <2>2, AccountAssumption DEF Init
  <1> QED
    BY <1>1, <1>2, <1>3 DEF FeedInv, Shown

(* One more view: what it shows and an earlier one showed is still shown. *)
LEMMA AppendLife ==
  ASSUME NEW s \in Seq([Email -> Nat]), Len(s) # 0, OneLife(s), NEW w \in [Email -> Nat],
         \A i \in 1..Len(s) : \A x \in Email : s[i][x] # 0 /\ w[x] # 0 => s[Len(s)][x] # 0
  PROVE  OneLife(Append(s, w))
  <1> DEFINE z == Append(s, w)
             n == Len(s)
  <1>1. n \in Nat \ {0} /\ Len(z) = n + 1 /\ z[n + 1] = w /\ \A i \in 1..n : z[i] = s[i]
    OBVIOUS
  <1>2. \A i \in 1..n : \A x \in Email : s[i][x] # 0 /\ w[x] # 0 => s[n][x] # 0
    OBVIOUS
  <1>3. ASSUME NEW i \in 1..n, NEW j \in 1..n, NEW k \in 1..n, i <= j, j <= k,
               NEW x \in Email, s[i][x] # 0, s[k][x] # 0
        PROVE  s[j][x] # 0
    BY <1>3 DEF OneLife
  <1> HIDE DEF z, n
  <1> SUFFICES ASSUME NEW i \in 1..(n + 1), NEW j \in 1..(n + 1), NEW k \in 1..(n + 1),
                      i <= j, j <= k, NEW x \in Email, z[i][x] # 0, z[k][x] # 0
               PROVE  z[j][x] # 0
    BY <1>1, SMTT(30) DEF OneLife, z
  <1>4. CASE k # n + 1
    <2>1. i \in 1..n /\ j \in 1..n /\ k \in 1..n
      BY <1>1, <1>4
    <2>2. z[i] = s[i] /\ z[j] = s[j] /\ z[k] = s[k]
      BY <1>1, <2>1
    <2>3. s[j][x] # 0
      BY <1>3, <2>1, <2>2
    <2> QED
      BY <2>2, <2>3
  <1>5. CASE k = n + 1 /\ j # n + 1
    <2>1. i \in 1..n /\ j \in 1..n /\ n \in 1..n /\ j <= n
      BY <1>1, <1>5
    <2>2. s[n][x] # 0
      BY <1>1, <1>2, <1>5, <2>1
    <2>3. z[i] = s[i] /\ z[j] = s[j]
      BY <1>1, <2>1
    <2>4. s[j][x] # 0
      BY <1>3, <2>1, <2>2, <2>3
    <2> QED
      BY <2>3, <2>4
  <1>6. CASE k = n + 1 /\ j = n + 1
    BY <1>6
  <1> QED
    BY <1>4, <1>5, <1>6

(* A step shows an email it did not show before only under an id that was
   never in use. *)
LEMMA RecordLives ==
  ASSUME IInv, FeedInv, Shown,
         NEW share \in [Account -> Delta], NEW Extra,
         NEW own1 \in [Email -> Account \cup {None}], NEW ver1 \in [Email -> Nat \ {0}],
         Record(share, Extra, own1, ver1), used \subseteq used',
         \A x \in Email : own1[x] # None => x \in used',
         \A x \in Email : own1[x] # None /\ own1[x] # owner[x] => x \notin used
  PROVE  (\A a \in Account : OneLife(snap'[a])) /\ Shown'
  <1> SUFFICES ASSUME NEW a \in Account
               PROVE  /\ OneLife(snap'[a])
                      /\ \A i \in 1..Len(snap'[a]) : \A x \in Email :
                            snap'[a][i][x] # 0 => x \in used'
    BY DEF Shown
  <1> DEFINE s == snap[a]
             w == View(own1, ver1, a)
             n == log[a].counter + 1
  <1>1. /\ s \in Seq([Email -> Nat]) /\ Len(s) = n /\ n \in Nat \ {0}
        /\ s[n] = View(owner, ver, a)
    BY BoundAssumption DEF IInv, TypeOK, TokenFaithful, Log
  <1>2. OneLife(s) /\ \A i \in 1..Len(s) : \A x \in Email : s[i][x] # 0 => x \in used
    BY DEF FeedInv, Shown
  <1>3. w \in [Email -> Nat]
    BY DEF View
  <1>4. \/ log'[a] = log[a] /\ snap'[a] = snap[a]
        \/ log'[a] = Advance(log[a], share[a]) /\ snap'[a] = Append(snap[a], View(own1, ver1, a))
    BY ONLY IInv, share \in [Account -> Delta], own1 \in [Email -> Account \cup {None}],
            ver1 \in [Email -> Nat \ {0}], Record(share, Extra, own1, ver1), a \in Account,
            RecordMoves
  <1>5. ASSUME NEW x \in Email, w[x] # 0
        PROVE  own1[x] = a /\ x \in used' /\ (x \in used => s[n][x] # 0)
    <2>1. own1[x] = a
      BY <1>5 DEF View
    <2>2. own1[x] # None
      BY <2>1, AccountAssumption
    <2>3. x \in used => owner[x] = a
      BY <2>1, <2>2
    <2>4. ver[x] # 0
      BY DEF IInv, TypeOK
    <2>5. owner[x] = a => s[n][x] # 0
      BY <1>1, <2>4 DEF View
    <2> QED
      BY <2>1, <2>2, <2>3, <2>5
  <1> HIDE DEF s, w, n
  <1>6. OneLife(Append(s, w))
    <2>1. \A i \in 1..Len(s) : \A x \in Email : s[i][x] # 0 /\ w[x] # 0 => s[Len(s)][x] # 0
      BY <1>1, <1>2, <1>5
    <2>2. Len(s) # 0
      BY <1>1
    <2> QED
      BY <1>1, <1>2, <1>3, <2>1, <2>2, AppendLife
  <1>7. ASSUME NEW i \in 1..Len(Append(s, w)), NEW x \in Email, Append(s, w)[i][x] # 0
        PROVE  x \in used'
    <2>1. Len(Append(s, w)) = n + 1 /\ Append(s, w)[n + 1] = w
          /\ \A j \in 1..n : Append(s, w)[j] = s[j]
      BY <1>1, <1>3
    <2>2. i \in 1..n \/ i = n + 1
      BY <1>1, <2>1
    <2> QED
      BY <1>1, <1>2, <1>5, <1>7, <2>1, <2>2
  <1>8. snap'[a] = s \/ snap'[a] = Append(s, w)
    BY <1>4 DEF s, w
  <1> QED
    BY <1>2, <1>6, <1>7, <1>8

LEMMA FeedInvNext ==
  ASSUME Overlap = FALSE, Reuse = FALSE, IInv, FeedInv, Shown, [Next]_vars
  PROVE  FeedInv' /\ Shown'
  <1>1. \A a \in Account : AllTell(log'[a], snap'[a])
    BY NextSays DEF FeedInv
  <1> DEFINE Lives == (\A a \in Account : OneLife(snap'[a])) /\ Shown'
  <1>2. ASSUME NEW acct \in Account, NEW C \in SUBSET Email, NEW U \in SUBSET Email,
               NEW D \in SUBSET Email, C \cap used = {},
               Mutate(After(C, acct, D), C, acct, U, D)
        PROVE  Lives
    <2> DEFINE own1 == After(C, acct, D)
               share == [b \in Account |-> SubDiff(own1, C, acct, U, D, b)]
               ver1 == Newer(C, U)
    <2>1. own1 \in [Email -> Account \cup {None}]
      BY AfterType
    <2>2. ver1 \in [Email -> Nat \ {0}]
      BY DEF IInv, TypeOK, Newer
    <2>3. share \in [Account -> Delta]
      BY DEF SubDiff, Delta
    <2>4. Record(share, {}, own1, ver1) /\ used' = used \cup C
      BY <1>2 DEF Mutate, Newer
    <2>5. ASSUME NEW x \in Email, own1[x] # None
          PROVE  x \in used' /\ (own1[x] # owner[x] => x \notin used)
      <3>1. x \in C \/ own1[x] = owner[x]
        BY <2>5, AfterType
      <3>2. owner[x] # None => x \in used
        BY DEF IInv, Live
      <3> QED
        BY <1>2, <2>4, <2>5, <3>1, <3>2
    <2> HIDE DEF own1, share, ver1
    <2> QED
      BY <2>1, <2>2, <2>3, <2>4, <2>5, RecordLives
  <1>3. ASSUME NEW acct \in Account, NEW C \in SUBSET Email, NEW U \in SUBSET Email,
               NEW D \in SUBSET Email, EmailSet(C, acct, U, D)
        PROVE  Lives
    BY <1>2, <1>3 DEF EmailSet
  <1>4. ASSUME NEW acct \in Account, NEW C \in SUBSET Email, NEW U \in SUBSET Email,
               NEW D \in SUBSET Email, ScriptStep(C, acct, U, D)
        PROVE  Lives
    BY <1>2, <1>4 DEF ScriptStep
  <1>5. ASSUME NEW x \in Email, NEW acct \in Account, ScriptReplace(x, acct)
        PROVE  Lives
    BY <1>5 DEF ScriptReplace
  <1>6. ASSUME NEW owning \in Account, NEW grantee \in Account, AclChange(owning, grantee)
        PROVE  Lives
    <2> DEFINE share == [b \in Account |-> EmptyDelta]
    <2>1. share \in [Account -> Delta]
      BY DEF EmptyDelta, Delta
    <2>2. Record(share, {owning, grantee}, owner, ver) /\ used' = used
      BY <1>6 DEF AclChange
    <2>3. owner \in [Email -> Account \cup {None}] /\ ver \in [Email -> Nat \ {0}]
          /\ \A x \in Email : owner[x] # None => x \in used
      BY DEF IInv, TypeOK, Live
    <2> HIDE DEF share
    <2> QED
      BY <2>1, <2>2, <2>3, RecordLives
  <1>7. ASSUME UNCHANGED vars PROVE Lives
    <2>1. snap' = snap /\ used' = used
      BY <1>7 DEF vars
    <2>2. Shown'
      BY <2>1 DEF Shown
    <2> QED
      BY <2>1, <2>2 DEF FeedInv
  <1>8. Lives
    <2> HIDE DEF Lives
    <2> QED
      BY <1>3, <1>4, <1>5, <1>6, <1>7 DEF Next
  <1> QED
    BY <1>1, <1>8 DEF FeedInv

(* What the logs hold makes the feed honest. *)
LEMMA FeedHonest == IInv /\ FeedInv => Feed!Honest
  <1> SUFFICES ASSUME IInv, FeedInv PROVE Feed!Honest
    OBVIOUS
  <1>1. ASSUME NEW a \in Account
        PROVE  /\ Floor(log[a]) \in 0..Feed!Latest(a)
               /\ \A n \in 0..Feed!Latest(a) :
                    /\ n \in 0..log[a].counter
                    /\ IF n >= Floor(log[a])
                       THEN /\ EmailDeltaSince(a, n) # Unknown
                            /\ Feed!Leads(snap[a][n + 1], snap[a][Feed!Latest(a) + 1],
                                          EmailDeltaSince(a, n))
                       ELSE n # 0 => EmailDeltaSince(a, n) = Unknown
    <2> DEFINE l == log[a]
               s == snap[a]
    <2>1. /\ l \in Log(Email, MaxCounter) /\ Contiguous(l) /\ Len(s) = l.counter + 1
          /\ AllTell(l, s) /\ OneLife(s)
      BY DEF IInv, TypeOK, RingContiguous, TokenFaithful, FeedInv
    <2>2. l.counter \in Nat /\ Floor(l) \in 0..l.counter
      BY <2>1, RingEntries
    <2>3. Feed!Latest(a) = l.counter
      BY <2>1, <2>2 DEF Feed!Latest
    <2> HIDE DEF l, s
    <2>4. ASSUME NEW n \in 0..l.counter
          PROVE  IF n >= Floor(l)
                 THEN DeltaSince(l, n) # Unknown
                      /\ Feed!Leads(s[n + 1], s[l.counter + 1], DeltaSince(l, n))
                 ELSE n # 0 => DeltaSince(l, n) = Unknown
      <3>1. CASE n >= Floor(l)
        <4>1. n \in Floor(l)..l.counter
          BY <2>2, <3>1
        <4>2. DeltaSince(l, n) # Unknown
              /\ Feed!Leads(s[n + 1], s[l.counter + 1], DeltaSince(l, n))
          BY <2>1, <4>1, AnswerLeads
        <4> QED
          BY <3>1, <4>2
      <3>2. CASE ~(n >= Floor(l))
        <4>1. n \in Nat /\ n < Floor(l)
          BY <2>2, <3>2
        <4>2. n # 0 => DeltaSince(l, n) = Unknown
          BY <2>1, <4>1, ForgottenRefused
        <4> QED
          BY <3>2, <4>2
      <3> QED
        BY <3>1, <3>2
    <2> QED
      BY <2>2, <2>3, <2>4 DEF EmailDeltaSince, l, s
  <1> QED
    BY <1>1 DEF Feed!Honest

(* Tokens are handed out one at a time, and the ring forgets from its old end
   only. *)
LEMMA LogGrows ==
  ASSUME IInv, [Next]_vars, NEW a \in Account
  PROVE  /\ SubSeq(snap'[a], 1, Len(snap[a])) = snap[a]
         /\ Len(snap'[a]) <= Len(snap[a]) + 1
         /\ Floor(log'[a]) >= Floor(log[a])
  <1> DEFINE Grows == \/ log'[a] = log[a] /\ snap'[a] = snap[a]
                      \/ \E d \in Delta, w \in [Email -> Nat] :
                           log'[a] = Advance(log[a], d) /\ snap'[a] = Append(snap[a], w)
  <1>1. ASSUME NEW share \in [Account -> Delta], NEW Extra,
               NEW own1 \in [Email -> Account \cup {None}], NEW ver1 \in [Email -> Nat \ {0}],
               Record(share, Extra, own1, ver1)
        PROVE  Grows
    <2>1. \/ log'[a] = log[a] /\ snap'[a] = snap[a]
          \/ log'[a] = Advance(log[a], share[a]) /\ snap'[a] = Append(snap[a], View(own1, ver1, a))
      BY ONLY IInv, share \in [Account -> Delta], own1 \in [Email -> Account \cup {None}],
              ver1 \in [Email -> Nat \ {0}], <1>1, a \in Account, RecordMoves
    <2>2. share[a] \in Delta /\ View(own1, ver1, a) \in [Email -> Nat]
      BY DEF View
    <2> QED
      BY <2>1, <2>2
  <1>2. ASSUME NEW own1 \in [Email -> Account \cup {None}], NEW acct \in Account,
               NEW C \in SUBSET Email, NEW U \in SUBSET Email, NEW D \in SUBSET Email,
               Mutate(own1, C, acct, U, D)
        PROVE  Grows
    <2> DEFINE share == [b \in Account |-> SubDiff(own1, C, acct, U, D, b)]
               ver1 == Newer(C, U)
    <2>1. ver1 \in [Email -> Nat \ {0}]
      BY DEF IInv, TypeOK, Newer
    <2>2. share \in [Account -> Delta]
      BY DEF SubDiff, Delta
    <2>3. Record(share, {}, own1, ver1)
      BY <1>2 DEF Mutate, Newer
    <2> HIDE DEF share, ver1, Grows
    <2> QED
      BY <1>1, <2>1, <2>2, <2>3
  <1> HIDE DEF Grows
  <1>3. ASSUME NEW acct \in Account, NEW C \in SUBSET Email, NEW U \in SUBSET Email,
               NEW D \in SUBSET Email, EmailSet(C, acct, U, D)
        PROVE  Grows
    BY <1>2, <1>3, AfterType DEF EmailSet
  <1>4. ASSUME NEW acct \in Account, NEW C \in SUBSET Email, NEW U \in SUBSET Email,
               NEW D \in SUBSET Email, ScriptStep(C, acct, U, D)
        PROVE  Grows
    BY <1>2, <1>4, AfterType DEF ScriptStep
  <1>5. ASSUME NEW x \in Email, NEW acct \in Account, ScriptReplace(x, acct)
        PROVE  Grows
    <2>1. [owner EXCEPT ![x] = acct] \in [Email -> Account \cup {None}]
          /\ {x} \in SUBSET Email /\ {} \in SUBSET Email
      BY DEF IInv, TypeOK
    <2>2. Mutate([owner EXCEPT ![x] = acct], {x}, acct, {}, {x})
      BY <1>5 DEF ScriptReplace
    <2> QED
      BY <1>2, <2>1, <2>2
  <1>6. ASSUME NEW owning \in Account, NEW grantee \in Account, AclChange(owning, grantee)
        PROVE  Grows
    <2> DEFINE share == [b \in Account |-> EmptyDelta]
    <2>1. share \in [Account -> Delta]
      BY DEF EmptyDelta, Delta
    <2>2. Record(share, {owning, grantee}, owner, ver)
      BY <1>6 DEF AclChange
    <2>3. owner \in [Email -> Account \cup {None}] /\ ver \in [Email -> Nat \ {0}]
      BY DEF IInv, TypeOK
    <2> HIDE DEF share
    <2> QED
      BY <1>1, <2>1, <2>2, <2>3
  <1>7. ASSUME UNCHANGED vars PROVE Grows
    BY <1>7 DEF vars, Grows
  <1>8. Grows
    BY <1>3, <1>4, <1>5, <1>6, <1>7 DEF Next
  <1> DEFINE l == log[a]
             s == snap[a]
  <1>9. /\ l \in Log(Email, MaxCounter) /\ Contiguous(l) /\ s \in Seq([Email -> Nat])
        /\ l.counter \in Nat /\ Floor(l) \in Nat
    BY BoundAssumption, RingEntries DEF IInv, TypeOK, RingContiguous, Log
  <1>10. \/ log'[a] = l /\ snap'[a] = s
         \/ \E d \in Delta, w \in [Email -> Nat] :
              log'[a] = Advance(l, d) /\ snap'[a] = Append(s, w)
    BY <1>8 DEF Grows
  <1> HIDE DEF l, s
  <1>11. SubSeq(s, 1, Len(s)) = s
    BY <1>9
  <1>12. ASSUME NEW w \in [Email -> Nat]
         PROVE  SubSeq(Append(s, w), 1, Len(s)) = s /\ Len(Append(s, w)) = Len(s) + 1
    BY <1>9
  <1>13. ASSUME NEW d \in Delta PROVE Floor(Advance(l, d)) >= Floor(l)
    <2> DEFINE t == Transition(l.counter, d)
               r == Push(l.ring, t)
    <2>1. l.ring \in Seq(Entry(Email)) /\ t \in Entry(Email)
      BY <1>9, TransitionType DEF Log
    <2>2. /\ r \in Seq(Entry(Email))
          /\ Len(l.ring) < MAX_TRANSITIONS =>
               Len(r) = Len(l.ring) + 1 /\ \A i \in 1..Len(l.ring) : r[i] = l.ring[i]
          /\ Len(l.ring) >= MAX_TRANSITIONS =>
               Len(r) = Len(l.ring) /\ \A i \in 1..(Len(l.ring) - 1) : r[i] = l.ring[i + 1]
          /\ r[Len(r)] = t
      BY <2>1, PushType
    <2>3. Advance(l, d).counter = l.counter + 1 /\ Advance(l, d).ring = r
      BY DEF Advance
    <2> HIDE DEF t, r
    <2>4. Len(l.ring) \in Nat /\ Len(r) \in Nat /\ Len(r) <= Len(l.ring) + 1
      BY <2>1, <2>2, RetentionAssumption
    <2> QED
      BY <1>9, <2>3, <2>4 DEF Floor
  <1>14. Len(s) \in Nat
    BY <1>9
  <1>15. /\ SubSeq(snap'[a], 1, Len(s)) = s
         /\ Len(snap'[a]) <= Len(s) + 1
         /\ Floor(log'[a]) >= Floor(l)
    <2>1. CASE log'[a] = l /\ snap'[a] = s
      BY <1>9, <1>11, <1>14, <2>1
    <2>2. ASSUME NEW d \in Delta, NEW w \in [Email -> Nat],
                 log'[a] = Advance(l, d), snap'[a] = Append(s, w)
          PROVE  /\ SubSeq(snap'[a], 1, Len(s)) = s
                 /\ Len(snap'[a]) <= Len(s) + 1
                 /\ Floor(log'[a]) >= Floor(l)
      <3>1. SubSeq(Append(s, w), 1, Len(s)) = s /\ Len(Append(s, w)) = Len(s) + 1
        BY <1>12
      <3>2. Floor(Advance(l, d)) >= Floor(l)
        BY <1>13
      <3>3. Len(snap'[a]) <= Len(s) + 1
        BY <1>14, <2>2, <3>1
      <3> QED
        BY <2>2, <3>1, <3>2, <3>3
    <2> QED
      BY <1>10, <2>1, <2>2
  <1> QED
    BY <1>15 DEF l, s

(* The logs implement the change feed (record_transition, ChangeLog::push and
   ChangeLog::delta_since together): every token the ring covers is answered
   with the exact difference between what the client saw and what there is,
   older ones are refused, tokens are handed out one at a time.  For calls that
   do not destroy an id they also create or update, and scripts that do not
   re-create an id. *)
THEOREM StoreImplementsFeed ==
  ASSUME Overlap = FALSE, Reuse = FALSE
  PROVE  Spec => ImplementsFeed
  <1>1. Init => Feed!FeedInit
    <2> SUFFICES ASSUME Init PROVE Feed!FeedInit
      OBVIOUS
    <2>1. Feed!Honest
      BY InitIInv, FeedInvInit, FeedHonest
    <2>2. ASSUME NEW a \in Account PROVE Feed!Latest(a) = 0
      BY DEF Init, Feed!Latest
    <2> QED
      BY <2>1, <2>2 DEF Feed!FeedInit
  <1>2. Init => IInv /\ FeedInv /\ Shown
    BY InitIInv, FeedInvInit
  <1>3. IInv /\ FeedInv /\ Shown /\ [Next]_vars => IInv' /\ FeedInv' /\ Shown'
    BY NextIInv, FeedInvNext
  <1>4. IInv' /\ FeedInv' => Feed!Honest'
    BY FeedHonest, PTL
  <1>5. IInv /\ FeedInv /\ Shown /\ [Next]_vars => [Feed!FeedNext]_(Feed!fvars)
    <2> SUFFICES ASSUME IInv, FeedInv, Shown, [Next]_vars PROVE Feed!FeedNext
      OBVIOUS
    <2>1. Feed!Honest'
      BY <1>3, <1>4
    <2>2. ASSUME NEW a \in Account
          PROVE  /\ SubSeq(snap'[a], 1, Len(snap[a])) = snap[a]
                 /\ Len(snap'[a]) <= Len(snap[a]) + 1
                 /\ Floor(log'[a]) >= Floor(log[a])
      BY LogGrows
    <2> QED
      BY <2>1, <2>2 DEF Feed!FeedNext
  <1> QED
    BY <1>1, <1>2, <1>3, <1>5, PTL DEF Spec, ImplementsFeed, Feed!FeedSpec

-----------------------------------------------------------------------------
(* Gmail history. *)

(* Replay is the one function that starts with what the client holds and applies
   a record at each step. *)
LEMMA ReplayFollows ==
  ASSUME NEW r, Len(r) \in Nat, NEW h, h = [k \in 0..Len(r) |-> h[k]],
         \A k \in 1..Len(r) : h[k] = (h[k - 1] \cup r[k].created) \ r[k].destroyed
  PROVE  Replay(h[0], r) = h[Len(r)]
  <1> DEFINE n == Len(r)
             b == h[0]
             f == CHOOSE held : held = [k \in 0..n |-> IF k = 0 THEN b
                     ELSE (held[k - 1] \cup r[k].created) \ r[k].destroyed]
  <1>1. Replay(b, r) = f[n]
    BY DEF Replay
  <1>2. \A k \in 0..n : k # 0 => k \in 1..n
    OBVIOUS
  <1> HIDE DEF n
  <1>3. h = [k \in 0..n |-> IF k = 0 THEN b
                     ELSE (h[k - 1] \cup r[k].created) \ r[k].destroyed]
    BY <1>2 DEF n
  <1>4. f = [k \in 0..n |-> IF k = 0 THEN b
                     ELSE (f[k - 1] \cup r[k].created) \ r[k].destroyed]
    BY <1>3
  <1> HIDE DEF f
  <1>5. 0 \in 0..n /\ n \in 0..n
    BY DEF n
  <1>6. f[0] = b
    BY <1>4, <1>5
  <1> DEFINE Differ == {k \in 0..n : f[k] # h[k]}
  <1>7. ASSUME n \in Differ PROVE FALSE
    <2>1. 0 \notin Differ /\ 0 < n
      BY <1>5, <1>6, <1>7 DEF n
    <2>2. PICK m \in 0..(n - 1) : m \notin Differ /\ m + 1 \in Differ
      <3>1. n \in Nat
        BY DEF n
      <3> HIDE DEF Differ
      <3> QED
        BY <1>7, <2>1, <3>1, Crossing
    <2>3. m \in 0..n /\ m + 1 \in 1..n /\ m + 1 \in 0..n /\ (m + 1) - 1 = m /\ m + 1 # 0
      BY <2>2 DEF n
    <2>4. f[m] = h[m]
      BY <2>2, <2>3
    <2>5. f[m + 1] = (f[m] \cup r[m + 1].created) \ r[m + 1].destroyed
      BY <1>4, <2>3
    <2>6. h[m + 1] = (h[m] \cup r[m + 1].created) \ r[m + 1].destroyed
      BY <2>3 DEF n
    <2> QED
      BY <2>2, <2>4, <2>5, <2>6
  <1> QED
    BY <1>1, <1>5, <1>7 DEF n

(* The records that history.list returns from a token t of the ring are those of
   the transitions that leave t, t + 1 and so on. *)
LEMMA RecordsAre ==
  ASSUME NEW l \in Log(Email, MaxCounter), Contiguous(l), NEW t \in Floor(l)..l.counter
  PROVE  /\ Len(RecordsSince(l, t)) = l.counter - t
         /\ \A k \in 1..(l.counter - t) :
               \E i \in 1..Len(l.ring) : /\ RecordsSince(l, t)[k] = l.ring[i]
                                         /\ l.ring[i].from = t + k - 1
  <1> DEFINE q == l.ring
             c == l.counter
             b == Floor(l)
             s == SubSeq(q, t - b + 1, Len(q))
  <1>1. c \in Nat /\ b \in 0..c /\ Len(q) \in Nat /\ b = c - Len(q) /\ t \in b..c
    BY RingEntries DEF Floor
  <1>2. q \in Seq(Entry(Email))
    BY DEF Log
  <1>3. RecordsSince(l, t) = IF t < b THEN q ELSE s
    BY DEF RecordsSince
  <1> DEFINE m == t - b + 1
  <1> HIDE DEF q, c, b
  <1>4. m \in 1..(Len(q) + 1) /\ RecordsSince(l, t) = s
    <2>1. t \in Int /\ b \in Int /\ ~(t < b)
      BY <1>1
    <2>2. RecordsSince(l, t) = s
      BY ONLY <1>3, <2>1
    <2> QED
      BY <1>1, <2>1, <2>2
  <1>5. /\ Len(s) = IF m <= Len(q) THEN Len(q) - m + 1 ELSE 0
        /\ \A k \in 1..(Len(q) - m + 1) : s[k] = q[m + k - 1]
    <2>1. s = SubSeq(q, m, Len(q))
      OBVIOUS
    <2> HIDE DEF m, s
    <2> QED
      BY <1>1, <1>2, <1>4, <2>1, SubSeqProperties
  <1>6. Len(q) - m + 1 = c - t /\ (m <= Len(q) <=> c - t > 0) /\ c - t \in Nat
    BY ONLY <1>1 DEF m
  <1>7. Len(s) = c - t
    <2> HIDE DEF s, m
    <2> QED
      BY ONLY <1>1, <1>4, <1>5, <1>6
  <1>8. ASSUME NEW k \in 1..(c - t)
        PROVE  /\ m + k - 1 \in 1..Len(q) /\ s[k] = q[m + k - 1]
               /\ q[m + k - 1].from = t + k - 1
    <2>1. m + k - 1 \in 1..Len(q) /\ b + (m + k - 1) - 1 = t + k - 1
      BY ONLY <1>1, <1>6, k \in 1..(c - t) DEF m
    <2>2. q[m + k - 1].from = b + (m + k - 1) - 1
      BY <2>1 DEF Contiguous, b, q
    <2> QED
      BY <1>5, <1>6, <2>1, <2>2
  <1> HIDE DEF s, m
  <1>9. \A k \in 1..(c - t) : \E i \in 1..Len(q) : s[k] = q[i] /\ q[i].from = t + k - 1
    BY <1>8
  <1> QED
    BY <1>4, <1>7, <1>9 DEF q, c

TellInv == \A a \in Account : AllTell(log[a], snap[a])

LEMMA TellInit == Init => TellInv
  BY DEF Init, TellInv, AllTell, EmptyLog

LEMMA TellNext == Overlap = FALSE /\ IInv /\ TellInv /\ [Next]_vars => TellInv'
  BY NextSays DEF TellInv

(* Each record takes the messages of one view to those of the next. *)
LEMMA HistoryReplays == IInv /\ TellInv => GmailReplay
  <1> SUFFICES ASSUME IInv, TellInv, NEW a \in Account, NEW t \in 0..log[a].counter
               PROVE  LET g == GmailHistorySince(a, t + 1) IN
                      IF t < Floor(log[a]) THEN g = Unknown
                      ELSE Replay({x \in Email : snap[a][t + 1][x] # 0}, g)
                              = {x \in Email : owner[x] = a}
    BY DEF GmailReplay
  <1> DEFINE l == log[a]
             c == l.counter
             g == GmailHistorySince(a, t + 1)
             Held(k) == {x \in Email : snap[a][k + 1][x] # 0}
  <1>1. l \in Log(Email, MaxCounter) /\ Contiguous(l)
    BY DEF IInv, TypeOK, RingContiguous
  <1>2. c \in Nat /\ Floor(l) \in 0..c
    BY <1>1, RingEntries
  <1>3. ~(t + 1 = 0) /\ (t + 1) - 1 = t
    BY <1>2
  <1>4. CASE t < Floor(l)
    <2>1. c # 0
      BY <1>2, <1>4
    <2>2. g = Unknown
      BY <1>3, <1>4, <2>1, Zenon DEF GmailHistorySince
    <2> QED
      BY <1>4, <2>2
  <1>5. CASE ~(t < Floor(l))
    <2>1. t \in Floor(l)..c /\ ~(c = 0 /\ t # 0)
      BY <1>2, <1>5
    <2>2. g = RecordsSince(l, t)
      BY <1>3, <1>5, <2>1, Zenon DEF GmailHistorySince
    <2> DEFINE h == [k \in 0..Len(g) |-> Held(t + k)]
    <2>3. /\ Len(g) = c - t
          /\ \A k \in 1..(c - t) : \E i \in 1..Len(l.ring) :
                g[k] = l.ring[i] /\ l.ring[i].from = t + k - 1
      <3> HIDE DEF g, c, l
      <3> QED
        BY <1>1, <2>1, <2>2, RecordsAre DEF c
    <2>4. Len(g) \in Nat /\ 0 \in 0..Len(g) /\ Len(g) \in 0..Len(g)
      BY <1>2, <2>1, <2>3
    <2>5. ASSUME NEW k \in 1..Len(g)
          PROVE  h[k] = (h[k - 1] \cup g[k].created) \ g[k].destroyed
      <3>1. PICK i \in 1..Len(l.ring) : g[k] = l.ring[i] /\ l.ring[i].from = t + k - 1
        BY <2>3
      <3>2. Tells(g[k], snap[a][l.ring[i].from + 1], snap[a][l.ring[i].from + 2])
        BY <3>1 DEF TellInv, AllTell
      <3>3. l.ring[i].from + 1 = (t + (k - 1)) + 1 /\ l.ring[i].from + 2 = (t + k) + 1
        BY <1>2, <2>4, <3>1
      <3>4. Tells(g[k], snap[a][(t + (k - 1)) + 1], snap[a][(t + k) + 1])
        BY <3>2, <3>3
      <3>5. k \in 0..Len(g) /\ k - 1 \in 0..Len(g)
        BY <2>4
      <3>6. h[k] = Held(t + k) /\ h[k - 1] = Held(t + (k - 1))
        BY <3>5
      <3> HIDE DEF h, g
      <3>7. Held(t + k) = (Held(t + (k - 1)) \cup g[k].created) \ g[k].destroyed
        BY <3>4 DEF Tells
      <3> QED
        BY <3>6, <3>7
    <2>6. h[0] = Held(t)
      BY <1>2, <2>4
    <2>7. h[Len(g)] = Held(c)
      <3> HIDE DEF g, c, h
      <3>1. t + Len(g) = c
        <4>1. t \in Int /\ c \in Int /\ Len(g) = c - t
          BY <1>2, <2>1, <2>3
        <4> QED
          BY ONLY <4>1
      <3> QED
        BY <2>4, <3>1 DEF h
    <2>8. h = [k \in 0..Len(g) |-> h[k]]
      OBVIOUS
    <2> HIDE DEF h, g
    <2>9. Replay(Held(t), g) = Held(c)
      BY <2>4, <2>5, <2>6, <2>7, <2>8, ReplayFollows
    <2>10. Held(c) = {x \in Email : owner[x] = a}
      <3>1. snap[a][c + 1] = View(owner, ver, a) /\ ver \in [Email -> Nat \ {0}]
        BY DEF IInv, TokenFaithful, TypeOK
      <3>2. ASSUME NEW x \in Email PROVE View(owner, ver, a)[x] # 0 <=> owner[x] = a
        BY <3>1 DEF View
      <3> QED
        BY <3>1, <3>2
    <2> QED
      BY <1>5, <2>9, <2>10 DEF g
  <1> HIDE DEF l, g
  <1> QED
    BY <1>4, <1>5 DEF l, g

(* Gmail history.list: whoever applies the records from a historyId that the ring
   covers, in order, holds exactly the messages of the account; an older
   historyId is refused.  For calls that do not destroy an id they also create or
   update; a script may re-create an id. *)
THEOREM HistoriesReplay ==
  ASSUME Overlap = FALSE
  PROVE  Spec => []GmailReplay
  <1>1. Init => IInv /\ TellInv
    BY InitIInv, TellInit
  <1>2. IInv /\ TellInv /\ [Next]_vars => IInv' /\ TellInv'
    BY NextIInv, TellNext
  <1>3. IInv /\ TellInv => GmailReplay
    BY HistoryReplays
  <1> QED
    BY <1>1, <1>2, <1>3, PTL DEF Spec

===============================================================================
