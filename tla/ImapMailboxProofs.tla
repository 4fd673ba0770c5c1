-------------------------- MODULE ImapMailboxProofs --------------------------
(***************************************************************************)
(* UIDs, memberships and what an idling client holds, for every set of     *)
(* mailboxes and emails, every loaded fixture and every bound.             *)
(***************************************************************************)
EXTENDS ImapMailbox, FiniteSetTheorems, SequenceTheorems, WellFoundedInduction, TLAPS

-----------------------------------------------------------------------------
(* Naturals and recursive functions. *)

(* Every nonempty set of naturals has a least member. *)
LEMMA Least ==
  ASSUME NEW T, T \subseteq Nat, T # {}
  PROVE  \E x \in T : \A y \in T : x <= y
  <1>1. \E x \in T : \A y \in T : ~(<<y, x>> \in OpToRel(<, Nat))
    BY NatLessThanWellFounded, WFMin
  <1>2. PICK x \in T : \A y \in T : ~(<<y, x>> \in OpToRel(<, Nat))
    BY <1>1
  <1>3. ASSUME NEW y \in T PROVE x <= y
    <2>1. x \in Nat /\ y \in Nat
      OBVIOUS
    <2>2. y < x => <<y, x>> \in OpToRel(<, Nat)
      BY <2>1 DEF OpToRel
    <2>3. ~(y < x)
      BY <1>2, <2>2, Zenon
    <2> QED
      BY <2>1, <2>3
  <1> QED
    BY <1>3

(* Induction up to n, over a set. *)
LEMMA Induct ==
  ASSUME NEW n \in Nat, NEW T, 0 \in T, \A k \in 1..n : k - 1 \in T => k \in T
  PROVE  0..n \subseteq T
  <1> DEFINE F == {k \in 0..n : k \notin T}
  <1>1. SUFFICES ASSUME F # {} PROVE FALSE
    OBVIOUS
  <1>2. F \subseteq Nat
    OBVIOUS
  <1>3. PICK k \in F : \A j \in F : k <= j
    <2> HIDE DEF F
    <2> QED
      BY <1>1, <1>2, Least
  <1>4. k \in 1..n /\ k - 1 \in 0..n
    OBVIOUS
  <1>5. k - 1 \in T
    BY <1>3, <1>4
  <1> QED
    BY <1>4, <1>5

(* What starts in D and never steps out of it stays in D. *)
LEMMA Stays ==
  ASSUME NEW n \in Nat, NEW D, NEW f, f[0] \in D,
         \A k \in 1..n : f[k - 1] \in D => f[k] \in D
  PROVE  \A k \in 0..n : f[k] \in D
  <1> DEFINE T == {k \in 0..n : f[k] \in D}
  <1>1. 0 \in T
    OBVIOUS
  <1>2. \A k \in 1..n : k - 1 \in T => k \in T
    OBVIOUS
  <1> HIDE DEF T
  <1>3. 0..n \subseteq T
    BY <1>1, <1>2, Induct
  <1> QED
    BY <1>3 DEF T

(* h is built from b over 0..n, in steps of g that stay within D. *)
Built(h, n, D, b, g) ==
    h \in [0..n -> D] /\ h[0] = b /\ \A k \in 1..n : h[k] = g[<<h[k - 1], k>>]

(* A recursive function over 0..n exists when every step stays within D. *)
LEMMA Recursion ==
  ASSUME NEW n \in Nat, NEW D, NEW b \in D, NEW g \in [D \X (1..n) -> D]
  PROVE  \E h : Built(h, n, D, b, g)
  <1> DEFINE Ok(m, h) == /\ h \in [0..m -> D] /\ h[0] = b
                         /\ \A k \in 1..m : h[k] = g[<<h[k - 1], k>>]
             T == {m \in 0..n : \E h : Ok(m, h)}
  <1>1. 0 \in T
    <2>1. Ok(0, [k \in 0..0 |-> b])
      OBVIOUS
    <2>2. 0 \in 0..n
      OBVIOUS
    <2> HIDE DEF Ok
    <2> QED
      BY <2>1, <2>2
  <1>2. ASSUME NEW m \in 1..n, m - 1 \in T PROVE m \in T
    <2>1. PICK h : Ok(m - 1, h)
      BY <1>2
    <2> DEFINE v == g[<<h[m - 1], m>>]
               f == [k \in 0..m |-> IF k = m THEN v ELSE h[k]]
    <2>2. m \in 0..n /\ m - 1 \in 0..(m - 1) /\ m - 1 \in Nat
      OBVIOUS
    <2>3. v \in D
      BY <2>1, <2>2
    <2>4. f \in [0..m -> D]
      <3> HIDE DEF v
      <3> QED
        BY <2>1, <2>3
    <2>5. f[0] = b
      BY <2>1
    <2>6. ASSUME NEW k \in 1..m PROVE f[k] = g[<<f[k - 1], k>>]
      <3>1. CASE k = m
        <4>1. f[m] = v /\ m - 1 # m /\ m - 1 \in 0..m
          BY <2>2
        <4>2. f[m - 1] = h[m - 1]
          BY <4>1
        <4> HIDE DEF f
        <4> QED
          BY <3>1, <4>1, <4>2
      <3>2. CASE k # m
        <4>1. k \in 1..(m - 1) /\ k - 1 \in 0..m /\ k - 1 # m /\ k \in 0..m
          BY <3>2
        <4> QED
          BY <4>1, <3>2, <2>1
      <3> QED
        BY <3>1, <3>2
    <2>7. Ok(m, f)
      BY <2>4, <2>5, <2>6
    <2> HIDE DEF Ok, f
    <2> QED
      BY <2>2, <2>7
  <1>3. n \in T
    <2> HIDE DEF T
    <2>1. 0..n \subseteq T
      BY <1>1, <1>2, Induct
    <2> QED
      BY <2>1
  <1> QED
    BY <1>3 DEF Built

-----------------------------------------------------------------------------
(* Subsequences. *)

(* s only rises. *)
Rising(s) == \A i, j \in DOMAIN s : i < j => s[i] < s[j]

(* f computes Only(s, S), one element of s at a time. *)
Grows(f, E, s, S) ==
    /\ f \in [0..Len(s) -> Seq(E)] /\ f[0] = << >> /\ Only(s, S) = f[Len(s)]
    /\ \A k \in 1..Len(s) :
          f[k] = IF s[k] \in S THEN Append(f[k - 1], s[k]) ELSE f[k - 1]

LEMMA OnlyUnfolds ==
  ASSUME NEW E, NEW s \in Seq(E), NEW S
  PROVE  \E f : Grows(f, E, s, S)
  <1> DEFINE n == Len(s)
             D == Seq(E)
             b == << >>
             g == [p \in D \X (1..n) |-> IF s[p[2]] \in S THEN Append(p[1], s[p[2]]) ELSE p[1]]
             f == CHOOSE kept : kept = [k \in 0..n |-> IF k = 0 THEN b
                     ELSE IF s[k] \in S THEN Append(kept[k - 1], s[k]) ELSE kept[k - 1]]
  <1>1. Only(s, S) = f[n]
    BY DEF Only
  <1>2. g \in [D \X (1..n) -> D] /\ n \in Nat /\ b \in D
    OBVIOUS
  <1>3. \A k \in 1..n : \A x \in D : Append(x, s[k]) \in D
    OBVIOUS
  <1> HIDE DEF b, D, n
  <1>4. PICK h : Built(h, n, D, b, g)
    <2> HIDE DEF g
    <2> QED
      BY <1>2, Recursion
  <1>5. ASSUME NEW k \in 1..n
        PROVE  h[k] = IF s[k] \in S THEN Append(h[k - 1], s[k]) ELSE h[k - 1]
    <2>1. h[k] = g[<<h[k - 1], k>>]
      BY <1>4 DEF Built
    <2>2. k - 1 \in 0..n
      BY <1>2
    <2>3. <<h[k - 1], k>> \in D \X (1..n)
      BY <1>4, <2>2 DEF Built
    <2> QED
      BY <2>1, <2>3
  <1>6. h = [k \in 0..n |-> IF k = 0 THEN b
                     ELSE IF s[k] \in S THEN Append(h[k - 1], s[k]) ELSE h[k - 1]]
    <2>1. \A k \in 0..n : k # 0 => k \in 1..n
      BY <1>2
    <2> QED
      BY <1>4, <1>5, <2>1 DEF Built
  <1>7. f = [k \in 0..n |-> IF k = 0 THEN b
                     ELSE IF s[k] \in S THEN Append(f[k - 1], s[k]) ELSE f[k - 1]]
    BY <1>6
  <1> HIDE DEF f
  <1>8. DOMAIN f = 0..n /\ f = [k \in 0..n |-> f[k]]
    BY <1>7
  <1>9. f[0] = b
    <2>1. 0 \in 0..n
      BY <1>2
    <2> QED
      BY <1>7, <2>1
  <1>10. ASSUME NEW k \in 1..n
         PROVE  f[k] = IF s[k] \in S THEN Append(f[k - 1], s[k]) ELSE f[k - 1]
    <2>1. k \in 0..n /\ k # 0
      BY <1>2
    <2> QED
      BY <1>7, <2>1
  <1>11. \A k \in 0..n : f[k] \in D
    <2>1. ASSUME NEW k \in 1..n, f[k - 1] \in D PROVE f[k] \in D
      <3>1. Append(f[k - 1], s[k]) \in D
        BY <1>3, <2>1
      <3> QED
        BY <1>10, <2>1, <3>1
    <2> QED
      BY <1>2, <1>9, <2>1, Stays
  <1> QED
    BY <1>1, <1>8, <1>9, <1>10, <1>11 DEF n, D, b, Grows

(* t is s[1..k] read at the rising positions p, all those that hold a member of S. *)
Reads(p, t, s, S, k) ==
    /\ p \in Seq(1..k) /\ Len(p) = Len(t) /\ Rising(p)
    /\ \A i \in 1..Len(p) : t[i] = s[p[i]] /\ s[p[i]] \in S
    /\ \A j \in 1..k : s[j] \in S => \E i \in 1..Len(p) : p[i] = j

LEMMA ReadsNone ==
  ASSUME NEW s, NEW S
  PROVE  Reads(<< >>, << >>, s, S, 0)
  BY DEF Reads, Rising

LEMMA ReadsSkip ==
  ASSUME NEW s, NEW S, NEW k \in Nat \ {0}, NEW t, NEW p,
         Reads(p, t, s, S, k - 1), s[k] \notin S
  PROVE  Reads(p, t, s, S, k)
  <1>1. p \in Seq(1..(k - 1)) /\ Len(p) \in Nat
    BY DEF Reads
  <1>2. p \in Seq(1..k)
    BY <1>1
  <1>3. \A j \in 1..k : s[j] \in S => j \in 1..(k - 1)
    OBVIOUS
  <1> QED
    BY <1>2, <1>3 DEF Reads

LEMMA ReadsMore ==
  ASSUME NEW E, NEW s, NEW S, NEW k \in Nat \ {0}, NEW t \in Seq(E), NEW p,
         Reads(p, t, s, S, k - 1), s[k] \in S, s[k] \in E
  PROVE  Reads(Append(p, k), Append(t, s[k]), s, S, k)
  <1> DEFINE q == Append(p, k)
             v == Append(t, s[k])
             n == Len(p)
  <1>1. p \in Seq(1..(k - 1)) /\ n \in Nat /\ Len(t) = n /\ Rising(p)
    BY DEF Reads
  <1>2. /\ q \in Seq(1..k) /\ Len(q) = n + 1 /\ Len(v) = n + 1
        /\ \A i \in 1..n : q[i] = p[i] /\ v[i] = t[i]
        /\ q[n + 1] = k /\ v[n + 1] = s[k] /\ DOMAIN q = 1..(n + 1) /\ DOMAIN p = 1..n
    BY <1>1
  <1>3. \A i \in 1..n : p[i] \in 1..(k - 1)
    BY <1>1
  <1> HIDE DEF q, v, n
  <1>4. \A i \in 1..(n + 1) : i # n + 1 => i \in 1..n
    BY <1>1
  <1>5. Rising(q)
    <2> SUFFICES ASSUME NEW i \in 1..(n + 1), NEW j \in 1..(n + 1), i < j
                 PROVE  q[i] < q[j]
      BY <1>2 DEF Rising
    <2>1. i \in 1..n
      BY <1>1
    <2>2. CASE j = n + 1
      BY <1>2, <1>3, <2>1, <2>2
    <2>3. CASE j # n + 1
      <3>1. j \in 1..n
        BY <1>4, <2>3
      <3>2. p[i] < p[j]
        BY <1>1, <1>2, <2>1, <3>1 DEF Rising
      <3> QED
        BY <1>2, <2>1, <3>1, <3>2
    <2> QED
      BY <2>2, <2>3
  <1>6. ASSUME NEW i \in 1..(n + 1) PROVE v[i] = s[q[i]] /\ s[q[i]] \in S
    <2>1. CASE i = n + 1
      BY <1>2, <2>1
    <2>2. CASE i # n + 1
      <3>1. i \in 1..n
        BY <1>4, <2>2
      <3>2. t[i] = s[p[i]] /\ s[p[i]] \in S
        BY <3>1 DEF Reads, n
      <3> QED
        BY <1>2, <3>1, <3>2
    <2> QED
      BY <2>1, <2>2
  <1>7. ASSUME NEW j \in 1..k, s[j] \in S PROVE \E i \in 1..(n + 1) : q[i] = j
    <2>1. CASE j = k
      <3>1. n + 1 \in 1..(n + 1)
        BY <1>1
      <3> QED
        BY <1>2, <2>1, <3>1
    <2>2. CASE j # k
      <3>1. j \in 1..(k - 1)
        BY <2>2
      <3>2. PICK i \in 1..n : p[i] = j
        BY <1>7, <3>1 DEF Reads, n
      <3>3. i \in 1..(n + 1)
        BY <1>1, <3>2
      <3> QED
        BY <1>2, <3>2, <3>3
    <2> QED
      BY <2>1, <2>2
  <1>8. Reads(q, v, s, S, k)
    BY <1>2, <1>5, <1>6, <1>7 DEF Reads
  <1> QED
    BY <1>8 DEF q, v

(* Only(s, S) reads s at rising positions, all those that hold a member of S. *)
LEMMA OnlyReads ==
  ASSUME NEW E, NEW s \in Seq(E), NEW S
  PROVE  Only(s, S) \in Seq(E) /\ \E p : Reads(p, Only(s, S), s, S, Len(s))
  <1>1. PICK f : Grows(f, E, s, S)
    BY OnlyUnfolds
  <1> DEFINE n == Len(s)
             T == {k \in 0..n : \E p : Reads(p, f[k], s, S, k)}
  <1>2. /\ n \in Nat /\ f[0] = << >> /\ Only(s, S) = f[n]
        /\ \A k \in 0..n : f[k] \in Seq(E)
        /\ \A k \in 1..n : f[k] = IF s[k] \in S THEN Append(f[k - 1], s[k]) ELSE f[k - 1]
        /\ \A k \in 1..n : s[k] \in E
    <2>1. n \in Nat /\ \A k \in 1..n : s[k] \in E
      OBVIOUS
    <2> HIDE DEF n
    <2>2. f \in [0..n -> Seq(E)] /\ f[0] = << >> /\ Only(s, S) = f[n]
      BY <1>1 DEF Grows, n
    <2>3. \A k \in 1..n : f[k] = IF s[k] \in S THEN Append(f[k - 1], s[k]) ELSE f[k - 1]
      BY <1>1 DEF Grows, n
    <2> QED
      BY <2>1, <2>2, <2>3
  <1> HIDE DEF n
  <1>3. 0 \in T
    <2>1. 0 \in 0..n
      BY <1>2
    <2>2. Reads(<< >>, f[0], s, S, 0)
      BY <1>2, ReadsNone
    <2> QED
      BY <2>1, <2>2
  <1>4. ASSUME NEW k \in 1..n, k - 1 \in T PROVE k \in T
    <2>1. k \in 0..n /\ k - 1 \in 0..n /\ k \in Nat \ {0}
      BY <1>2
    <2>2. PICK p : Reads(p, f[k - 1], s, S, k - 1)
      BY <1>4
    <2>3. CASE s[k] \in S
      <3>1. f[k] = Append(f[k - 1], s[k]) /\ f[k - 1] \in Seq(E) /\ s[k] \in E
        BY <1>2, <2>1, <2>3
      <3>2. Reads(Append(p, k), Append(f[k - 1], s[k]), s, S, k)
        BY <2>1, <2>2, <2>3, <3>1, ReadsMore
      <3> QED
        BY <2>1, <3>1, <3>2
    <2>4. CASE s[k] \notin S
      <3>1. f[k] = f[k - 1]
        BY <1>2, <2>4
      <3>2. Reads(p, f[k - 1], s, S, k)
        BY <2>1, <2>2, <2>4, ReadsSkip
      <3> QED
        BY <2>1, <3>1, <3>2
    <2> QED
      BY <2>3, <2>4
  <1> HIDE DEF T
  <1>5. 0..n \subseteq T
    BY <1>2, <1>3, <1>4, Induct
  <1>6. n \in T
    BY <1>2, <1>5
  <1> QED
    BY <1>2, <1>6 DEF T, n

-----------------------------------------------------------------------------
(* What Only keeps. *)

(* Only(s, S) has the members of s that are in S. *)
LEMMA OnlyRange ==
  ASSUME NEW E, NEW s \in Seq(E), NEW S
  PROVE  Only(s, S) \in Seq(E) /\ Range(Only(s, S)) = Range(s) \cap S
  <1> DEFINE t == Only(s, S)
             n == Len(s)
  <1>1. t \in Seq(E)
    BY OnlyReads
  <1>2. PICK p : Reads(p, t, s, S, n)
    BY OnlyReads
  <1> HIDE DEF t
  <1>3. /\ DOMAIN t = 1..Len(t) /\ DOMAIN s = 1..n /\ Len(p) = Len(t)
        /\ \A i \in 1..Len(t) : p[i] \in 1..n /\ t[i] = s[p[i]] /\ s[p[i]] \in S
        /\ \A j \in 1..n : s[j] \in S => \E i \in 1..Len(t) : p[i] = j
    BY <1>1, <1>2 DEF Reads
  <1>4. Range(t) = Range(s) \cap S
    <2> HIDE DEF n
    <2>1. ASSUME NEW i \in 1..Len(t) PROVE t[i] \in Range(s) \cap S
      BY <1>3 DEF Range
    <2>2. ASSUME NEW j \in 1..n, s[j] \in S PROVE s[j] \in Range(t)
      BY <1>3, <2>2 DEF Range
    <2>3. Range(t) \subseteq Range(s) \cap S
      BY <1>3, <2>1 DEF Range
    <2>4. \A x \in Range(s) : x \in S => x \in Range(t)
      <3>1. \A x \in Range(s) : \E j \in 1..n : x = s[j]
        BY <1>3 DEF Range
      <3> QED
        BY <2>2, <3>1
    <2> QED
      BY <2>3, <2>4
  <1> QED
    BY <1>1, <1>4 DEF t

(* A listing without repetitions has none when it is filtered. *)
LEMMA OnlyInjective ==
  ASSUME NEW E, NEW s \in Seq(E), NEW S, IsInjective(s)
  PROVE  IsInjective(Only(s, S))
  <1> DEFINE t == Only(s, S)
             n == Len(s)
  <1>1. t \in Seq(E)
    BY OnlyReads
  <1>2. PICK p : Reads(p, t, s, S, n)
    BY OnlyReads
  <1> HIDE DEF t
  <1>3. /\ DOMAIN t = 1..Len(t) /\ DOMAIN s = 1..n /\ DOMAIN p = 1..Len(t) /\ Len(t) \in Nat
        /\ \A i \in 1..Len(t) : p[i] \in 1..n /\ t[i] = s[p[i]]
        /\ Rising(p) /\ n \in Nat
    BY <1>1, <1>2 DEF Reads
  <1> HIDE DEF n
  <1>4. ASSUME NEW i \in 1..Len(t), NEW j \in 1..Len(t), i < j PROVE t[i] # t[j]
    <2>1. p[i] < p[j] /\ p[i] \in 1..n /\ p[j] \in 1..n
      BY <1>3, <1>4 DEF Rising
    <2>2. s[p[i]] # s[p[j]]
      BY <1>3, <2>1 DEF IsInjective
    <2> QED
      BY <1>3, <2>2
  <1>5. ASSUME NEW i \in 1..Len(t), NEW j \in 1..Len(t), t[i] = t[j] PROVE i = j
    <2>1. ~(i < j) /\ ~(j < i)
      BY <1>4, <1>5
    <2> QED
      BY <1>3, <2>1
  <1>6. IsInjective(t)
    BY <1>3, <1>5 DEF IsInjective
  <1> QED
    BY <1>6 DEF t

(* A selection of the UIDs 1..n is listed ascending, each once. *)
LEMMA UidsRise ==
  ASSUME NEW n \in Nat, NEW S
  PROVE  /\ Only(UpTo(n), S) \in Seq(1..n) /\ Rising(Only(UpTo(n), S))
         /\ Range(Only(UpTo(n), S)) = (1..n) \cap S
  <1> DEFINE s == UpTo(n)
             t == Only(s, S)
  <1>1. s \in Seq(1..n) /\ Len(s) = n /\ DOMAIN s = 1..n /\ \A i \in 1..n : s[i] = i
    BY DEF UpTo
  <1> HIDE DEF s
  <1>2. t \in Seq(1..n) /\ Range(t) = Range(s) \cap S
    BY <1>1, OnlyRange
  <1>3. PICK p : Reads(p, t, s, S, n)
    BY <1>1, OnlyReads
  <1>4. Range(s) = 1..n
    BY <1>1 DEF Range
  <1> HIDE DEF t
  <1>5. /\ DOMAIN t = 1..Len(t) /\ DOMAIN p = 1..Len(t) /\ Rising(p)
        /\ \A i \in 1..Len(t) : t[i] = s[p[i]] /\ p[i] \in 1..n
    BY <1>2, <1>3 DEF Reads
  <1>6. Rising(t)
    BY <1>1, <1>5 DEF Rising
  <1> QED
    BY <1>2, <1>4, <1>6 DEF t, s

(* Where a rising sequence is smaller it is earlier, and no value comes twice. *)
LEMMA RisingOrder ==
  ASSUME NEW s \in Seq(Nat), Rising(s), NEW i \in 1..Len(s), NEW j \in 1..Len(s)
  PROVE  (s[i] < s[j] => i < j) /\ (s[i] = s[j] => i = j)
  <1>1. s[i] \in Nat /\ s[j] \in Nat /\ DOMAIN s = 1..Len(s)
    OBVIOUS
  <1>2. (i < j => s[i] < s[j]) /\ (j < i => s[j] < s[i])
    BY <1>1 DEF Rising
  <1> QED
    BY <1>1, <1>2

(* A rising sequence that extends another one only above it starts with it. *)
LEMMA RisingPrefix ==
  ASSUME NEW s \in Seq(Nat), NEW t \in Seq(Nat), Rising(s), Rising(t),
         Range(s) \subseteq Range(t),
         \A u \in Range(t) \ Range(s) : \A v \in Range(s) : v < u
  PROVE  Len(s) <= Len(t) /\ \A i \in 1..Len(s) : t[i] = s[i]
  <1> DEFINE n == Len(s)
             T == {k \in 0..n : k <= Len(t) /\ \A i \in 1..k : t[i] = s[i]}
  <1>1. /\ n \in Nat /\ Len(t) \in Nat /\ DOMAIN s = 1..n /\ DOMAIN t = 1..Len(t)
        /\ (\A i \in 1..n : s[i] \in Nat) /\ (\A i \in 1..Len(t) : t[i] \in Nat)
    OBVIOUS
  <1>2. \A i, j \in 1..n : (s[i] < s[j] => i < j) /\ (s[i] = s[j] => i = j)
    BY RisingOrder
  <1> HIDE DEF n
  <1>3. 0 \in T
    BY <1>1
  <1>4. ASSUME NEW k \in 1..n, k - 1 \in T PROVE k \in T
    <2>1. \A i \in 1..(k - 1) : t[i] = s[i] /\ i \in 1..n
      BY <1>1, <1>4
    <2>2. PICK j \in 1..Len(t) : t[j] = s[k]
      BY <1>1 DEF Range
    <2>3. ASSUME j < k PROVE FALSE
      <3>1. j \in 1..(k - 1) /\ j \in 1..n
        BY <1>1, <2>3
      <3>2. s[j] = s[k]
        BY <2>1, <2>2, <3>1
      <3> QED
        BY <1>2, <2>3, <3>1, <3>2
    <2>4. k <= j /\ k \in 1..Len(t)
      BY <1>1, <2>3
    <2>5. ASSUME k < j PROVE FALSE
      <3>1. t[k] < s[k]
        BY <1>1, <2>2, <2>4, <2>5 DEF Rising
      <3>2. t[k] \in Range(t) /\ s[k] \in Range(s)
        BY <1>1, <2>4 DEF Range
      <3>3. t[k] \in Range(s)
        BY <1>1, <2>4, <3>1, <3>2
      <3>4. PICK i \in 1..n : s[i] = t[k]
        BY <1>1, <3>3 DEF Range
      <3>5. i < k
        BY <1>2, <3>1, <3>4
      <3>6. i \in 1..(k - 1) /\ i \in 1..Len(t)
        BY <1>1, <2>4, <3>5
      <3>7. t[i] = t[k]
        BY <2>1, <3>4, <3>6
      <3>8. t[i] < t[k]
        BY <1>1, <2>4, <3>5, <3>6 DEF Rising
      <3> QED
        BY <1>1, <2>4, <3>7, <3>8
    <2>6. t[k] = s[k]
      BY <1>1, <2>2, <2>4, <2>5
    <2>7. \A i \in 1..k : i # k => i \in 1..(k - 1)
      OBVIOUS
    <2>8. \A i \in 1..k : t[i] = s[i]
      BY <2>1, <2>6, <2>7
    <2>9. k \in 0..n /\ k <= Len(t)
      BY <1>1, <2>4
    <2> QED
      BY <2>8, <2>9
  <1> HIDE DEF T
  <1>5. 0..n \subseteq T
    BY <1>1, <1>3, <1>4, Induct
  <1>6. n \in T
    BY <1>1, <1>5
  <1> QED
    BY <1>6 DEF T, n

-----------------------------------------------------------------------------
(* UID slots. *)

Histories == [Mailbox -> Seq(Email \cup {Retired})]

(* The UIDs of e in mailbox m. *)
HeldAt(h, m, e) == {i \in 1..Len(h[m]) : h[m][i] = e}

(* One UID of e in each mailbox of M, none in another. *)
Filed(h, M, e) ==
    \A m \in Mailbox : IF m \in M THEN \E i : HeldAt(h, m, e) = {i}
                                  ELSE HeldAt(h, m, e) = {}

(* h2 is h with slots added and retired, none reassigned. *)
Extends(h, h2) ==
    \A m \in Mailbox :
        /\ Len(h2[m]) >= Len(h[m])
        /\ \A i \in 1..Len(h[m]) : h2[m][i] \in {h[m][i], Retired}

LEMMA HistoryType ==
  ASSUME NEW h \in Histories, NEW m \in Mailbox
  PROVE  /\ h[m] \in Seq(Email \cup {Retired}) /\ Len(h[m]) \in Nat
         /\ DOMAIN h[m] = 1..Len(h[m])
         /\ \A i \in 1..Len(h[m]) : h[m][i] \in Email \cup {Retired}
  BY DEF Histories

LEMMA ExtendsRefl ==
  ASSUME NEW h \in Histories
  PROVE  Extends(h, h)
  BY HistoryType DEF Extends

LEMMA ExtendsTrans ==
  ASSUME NEW h \in Histories, NEW h2 \in Histories, NEW h3 \in Histories,
         Extends(h, h2), Extends(h2, h3)
  PROVE  Extends(h, h3)
  <1> SUFFICES ASSUME NEW m \in Mailbox
               PROVE  /\ Len(h3[m]) >= Len(h[m])
                      /\ \A i \in 1..Len(h[m]) : h3[m][i] \in {h[m][i], Retired}
    BY DEF Extends
  <1>1. Len(h[m]) \in Nat /\ Len(h2[m]) \in Nat /\ Len(h3[m]) \in Nat
    BY HistoryType
  <1>2. Len(h2[m]) >= Len(h[m]) /\ Len(h3[m]) >= Len(h2[m])
    BY DEF Extends
  <1>3. ASSUME NEW i \in 1..Len(h[m]) PROVE h3[m][i] \in {h[m][i], Retired}
    <2>1. i \in 1..Len(h2[m])
      BY <1>1, <1>2
    <2>2. h2[m][i] \in {h[m][i], Retired} /\ h3[m][i] \in {h2[m][i], Retired}
      BY <2>1 DEF Extends
    <2> QED
      BY <2>2
  <1> QED
    BY <1>1, <1>2, <1>3

(* assign_uid adds one slot of e to each mailbox of M and touches nothing else. *)
LEMMA AssignUidAdds ==
  ASSUME NEW h \in Histories, NEW M, NEW e \in Email
  PROVE  /\ AssignUid(h, M, e) \in Histories /\ Extends(h, AssignUid(h, M, e))
         /\ \A m \in Mailbox, d \in Email :
               HeldAt(AssignUid(h, M, e), m, d)
                 = IF m \in M /\ d = e THEN HeldAt(h, m, d) \cup {Len(h[m]) + 1}
                                       ELSE HeldAt(h, m, d)
  <1> DEFINE a == AssignUid(h, M, e)
  <1>1. ASSUME NEW m \in Mailbox
        PROVE  a[m] = IF m \in M THEN Append(h[m], e) ELSE h[m]
    BY DEF AssignUid
  <1>2. a = [m \in Mailbox |-> a[m]]
    BY DEF AssignUid
  <1> HIDE DEF a
  <1>3. ASSUME NEW m \in Mailbox, m \in M
        PROVE  /\ a[m] \in Seq(Email \cup {Retired}) /\ Len(a[m]) = Len(h[m]) + 1
               /\ \A i \in 1..Len(h[m]) : a[m][i] = h[m][i]
               /\ a[m][Len(h[m]) + 1] = e
    <2>1. a[m] = Append(h[m], e)
      BY <1>1, <1>3
    <2>2. h[m] \in Seq(Email \cup {Retired}) /\ e \in Email \cup {Retired}
      BY HistoryType
    <2> QED
      BY <2>1, <2>2, AppendProperties
  <1>4. a \in Histories
    <2>1. \A m \in Mailbox : a[m] \in Seq(Email \cup {Retired})
      BY <1>1, <1>3, HistoryType
    <2> QED
      BY <1>2, <2>1 DEF Histories
  <1>5. Extends(h, a)
    <2> SUFFICES ASSUME NEW m \in Mailbox
                 PROVE  /\ Len(a[m]) >= Len(h[m])
                        /\ \A i \in 1..Len(h[m]) : a[m][i] \in {h[m][i], Retired}
      BY DEF Extends
    <2>1. Len(h[m]) \in Nat
      BY HistoryType
    <2>2. CASE m \in M
      BY <1>3, <2>1, <2>2
    <2>3. CASE m \notin M
      BY <1>1, <2>1, <2>3
    <2> QED
      BY <2>2, <2>3
  <1>6. ASSUME NEW m \in Mailbox, NEW d \in Email
        PROVE  HeldAt(a, m, d) = IF m \in M /\ d = e THEN HeldAt(h, m, d) \cup {Len(h[m]) + 1}
                                                     ELSE HeldAt(h, m, d)
    <2>1. CASE m \notin M
      BY <1>1, <2>1 DEF HeldAt
    <2>2. CASE m \in M
      <3>1. Len(h[m]) \in Nat
        BY HistoryType
      <3> DEFINE n == Len(h[m])
      <3>2. 1..Len(a[m]) = (1..n) \cup {n + 1} /\ n + 1 \notin 1..n
        BY <1>3, <2>2, <3>1
      <3>3. (\A i \in 1..n : a[m][i] = h[m][i]) /\ a[m][n + 1] = e
        BY <1>3, <2>2
      <3> HIDE DEF n
      <3>4. HeldAt(a, m, d) = {i \in (1..n) \cup {n + 1} : a[m][i] = d}
        BY <3>2 DEF HeldAt
      <3>5. HeldAt(h, m, d) = {i \in 1..n : h[m][i] = d}
        BY DEF HeldAt, n
      <3>6. {i \in (1..n) \cup {n + 1} : a[m][i] = d}
              = IF d = e THEN {i \in 1..n : h[m][i] = d} \cup {n + 1}
                         ELSE {i \in 1..n : h[m][i] = d}
        BY <3>2, <3>3
      <3> QED
        BY <2>2, <3>4, <3>5, <3>6 DEF n
    <2> QED
      BY <2>1, <2>2
  <1> QED
    BY <1>4, <1>5, <1>6 DEF a

(* retire_uid retires the slot of e in each mailbox of M where e has one, and
   touches nothing else. *)
LEMMA RetireUidFrees ==
  ASSUME ImapAssumption, NEW h \in Histories, NEW M, NEW e \in Email
  PROVE  /\ RetireUid(h, M, e) \in Histories /\ Extends(h, RetireUid(h, M, e))
         /\ \A m \in Mailbox, d \in Email :
               m \notin M \/ d # e => HeldAt(RetireUid(h, M, e), m, d) = HeldAt(h, m, d)
         /\ \A m \in Mailbox :
               m \in M /\ (HeldAt(h, m, e) = {} \/ \E i : HeldAt(h, m, e) = {i})
                 => HeldAt(RetireUid(h, M, e), m, e) = {}
  <1> DEFINE a == RetireUid(h, M, e)
             first(m) == CHOOSE i \in HeldAt(h, m, e) : \A j \in HeldAt(h, m, e) : i <= j
  <1>1. ASSUME NEW m \in Mailbox
        PROVE  a[m] = IF m \notin M \/ HeldAt(h, m, e) = {} THEN h[m]
                      ELSE [h[m] EXCEPT ![first(m)] = Retired]
    BY DEF RetireUid, HeldAt
  <1>2. a = [m \in Mailbox |-> a[m]]
    BY DEF RetireUid
  <1>3. ASSUME NEW m \in Mailbox, HeldAt(h, m, e) # {}
        PROVE  first(m) \in HeldAt(h, m, e)
    <2> DEFINE T == HeldAt(h, m, e)
    <2>1. T \subseteq Nat
      BY HistoryType DEF HeldAt
    <2> HIDE DEF T
    <2>2. \E i \in T : \A j \in T : i <= j
      BY <1>3, <2>1, Least DEF T
    <2> QED
      BY <2>2 DEF T
  <1> HIDE DEF a, first
  <1>4. ASSUME NEW m \in Mailbox, m \in M, HeldAt(h, m, e) # {}
        PROVE  /\ a[m] \in Seq(Email \cup {Retired}) /\ Len(a[m]) = Len(h[m])
               /\ first(m) \in 1..Len(h[m]) /\ h[m][first(m)] = e
               /\ a[m][first(m)] = Retired
               /\ \A i \in 1..Len(h[m]) : i # first(m) => a[m][i] = h[m][i]
    <2>1. first(m) \in 1..Len(h[m]) /\ h[m][first(m)] = e
      BY <1>3, <1>4 DEF HeldAt
    <2>2. a[m] = [h[m] EXCEPT ![first(m)] = Retired]
      BY <1>1, <1>4
    <2>3. h[m] \in Seq(Email \cup {Retired})
      BY HistoryType
    <2> QED
      BY <2>1, <2>2, <2>3
  <1>5. a \in Histories
    <2>1. \A m \in Mailbox : a[m] \in Seq(Email \cup {Retired})
      BY <1>1, <1>4, HistoryType
    <2> QED
      BY <1>2, <2>1 DEF Histories
  <1>6. Extends(h, a)
    <2> SUFFICES ASSUME NEW m \in Mailbox
                 PROVE  /\ Len(a[m]) >= Len(h[m])
                        /\ \A i \in 1..Len(h[m]) : a[m][i] \in {h[m][i], Retired}
      BY DEF Extends
    <2>1. Len(h[m]) \in Nat
      BY HistoryType
    <2>2. CASE m \in M /\ HeldAt(h, m, e) # {}
      <3>1. /\ Len(a[m]) = Len(h[m]) /\ a[m][first(m)] = Retired
            /\ \A i \in 1..Len(h[m]) : i # first(m) => a[m][i] = h[m][i]
        BY <1>4, <2>2
      <3> QED
        BY <2>1, <3>1
    <2>3. CASE ~(m \in M /\ HeldAt(h, m, e) # {})
      <3>1. a[m] = h[m]
        BY <1>1, <2>3
      <3> QED
        BY <2>1, <3>1
    <2> QED
      BY <2>2, <2>3
  <1>7. ASSUME NEW m \in Mailbox, NEW d \in Email, m \notin M \/ d # e
        PROVE  HeldAt(a, m, d) = HeldAt(h, m, d)
    <2>1. CASE ~(m \in M /\ HeldAt(h, m, e) # {})
      BY <1>1, <2>1 DEF HeldAt
    <2>2. CASE m \in M /\ HeldAt(h, m, e) # {}
      <3>1. d # e /\ d # Retired
        BY <1>7, <2>2 DEF ImapAssumption
      <3> QED
        BY <1>4, <2>2, <3>1 DEF HeldAt
    <2> QED
      BY <2>1, <2>2
  <1>8. ASSUME NEW m \in Mailbox, m \in M, HeldAt(h, m, e) = {}
        PROVE  HeldAt(a, m, e) = {}
    BY <1>1, <1>8 DEF HeldAt
  <1>9. ASSUME NEW m \in Mailbox, m \in M, NEW k, HeldAt(h, m, e) = {k}
        PROVE  HeldAt(a, m, e) = {}
    <2>1. HeldAt(h, m, e) # {}
      BY <1>9
    <2>2. first(m) = k
      BY <1>3, <1>9
    <2>3. \A i \in 1..Len(h[m]) : h[m][i] = e => i = k
      BY <1>9 DEF HeldAt
    <2>4. e # Retired
      BY DEF ImapAssumption
    <2> QED
      BY <1>4, <1>9, <2>1, <2>2, <2>3, <2>4 DEF HeldAt
  <1> QED
    BY <1>5, <1>6, <1>7, <1>8, <1>9 DEF a

(* Assigning the UIDs of mailboxes the email is not in keeps one UID in each. *)
LEMMA FiledByAssign ==
  ASSUME NEW h \in Histories, NEW e \in Email, NEW M, NEW N, M \cap N = {}, Filed(h, M, e)
  PROVE  Filed(AssignUid(h, N, e), M \cup N, e)
  <1> SUFFICES ASSUME NEW m \in Mailbox
               PROVE  IF m \in M \cup N THEN \E i : HeldAt(AssignUid(h, N, e), m, e) = {i}
                                        ELSE HeldAt(AssignUid(h, N, e), m, e) = {}
    BY DEF Filed
  <1>1. HeldAt(AssignUid(h, N, e), m, e)
          = IF m \in N THEN HeldAt(h, m, e) \cup {Len(h[m]) + 1} ELSE HeldAt(h, m, e)
    BY AssignUidAdds
  <1>2. IF m \in M THEN \E i : HeldAt(h, m, e) = {i} ELSE HeldAt(h, m, e) = {}
    BY DEF Filed
  <1> DEFINE a == HeldAt(AssignUid(h, N, e), m, e)
             b == HeldAt(h, m, e)
             l == Len(h[m]) + 1
  <1> HIDE DEF a, b, l
  <1>3. CASE m \in N
    <2>1. b = {} /\ a = b \cup {l}
      BY <1>1, <1>2, <1>3 DEF a, b, l
    <2>2. a = {l}
      BY <2>1
    <2> QED
      BY <1>3, <2>2 DEF a
  <1>4. CASE m \notin N
    <2>1. a = b
      BY <1>1, <1>4 DEF a, b
    <2> QED
      BY <1>2, <1>4, <2>1 DEF a, b
  <1> QED
    BY <1>3, <1>4

(* Retiring leaves one UID in each mailbox that remains. *)
LEMMA FiledByRetire ==
  ASSUME ImapAssumption, NEW h \in Histories, NEW e \in Email, NEW M, NEW N, Filed(h, M, e)
  PROVE  Filed(RetireUid(h, N, e), M \ N, e)
  <1> SUFFICES ASSUME NEW m \in Mailbox
               PROVE  IF m \in M \ N THEN \E i : HeldAt(RetireUid(h, N, e), m, e) = {i}
                                     ELSE HeldAt(RetireUid(h, N, e), m, e) = {}
    BY DEF Filed
  <1>1. IF m \in M THEN \E i : HeldAt(h, m, e) = {i} ELSE HeldAt(h, m, e) = {}
    BY DEF Filed
  <1>2. CASE m \in N
    <2>1. HeldAt(h, m, e) = {} \/ \E i : HeldAt(h, m, e) = {i}
      BY <1>1
    <2>2. HeldAt(RetireUid(h, N, e), m, e) = {}
      BY <1>2, <2>1, RetireUidFrees
    <2> QED
      BY <1>2, <2>2
  <1>3. CASE m \notin N
    <2>1. HeldAt(RetireUid(h, N, e), m, e) = HeldAt(h, m, e)
      BY <1>3, RetireUidFrees
    <2> QED
      BY <1>1, <1>3, <2>1
  <1> QED
    BY <1>2, <1>3

(* The other emails are filed as before. *)
LEMMA FiledElse ==
  ASSUME NEW h, NEW h2, NEW e, NEW M, Filed(h, M, e),
         \A m \in Mailbox : HeldAt(h2, m, e) = HeldAt(h, m, e)
  PROVE  Filed(h2, M, e)
  BY DEF Filed

(* sync_mailbox_uids brings the UIDs of an email in line with its mailboxes. *)
LEMMA SyncFiles ==
  ASSUME ImapAssumption, NEW h \in Histories, NEW e \in Email, NEW M, NEW N
  PROVE  /\ SyncMailboxUids(h, e, M, N) \in Histories
         /\ Extends(h, SyncMailboxUids(h, e, M, N))
         /\ Filed(h, M, e) => Filed(SyncMailboxUids(h, e, M, N), N, e)
         /\ \A m \in Mailbox, d \in Email :
               d # e => HeldAt(SyncMailboxUids(h, e, M, N), m, d) = HeldAt(h, m, d)
  <1> DEFINE r == RetireUid(h, M \ N, e)
             s == AssignUid(r, N \ M, e)
  <1>1. SyncMailboxUids(h, e, M, N) = s
    BY DEF SyncMailboxUids
  <1>2. r \in Histories /\ Extends(h, r)
    BY RetireUidFrees
  <1>3. \A m \in Mailbox, d \in Email : d # e => HeldAt(r, m, d) = HeldAt(h, m, d)
    BY RetireUidFrees
  <1>4. Filed(h, M, e) => Filed(r, M \ (M \ N), e)
    BY FiledByRetire
  <1> HIDE DEF r
  <1>5. s \in Histories /\ Extends(r, s)
    BY <1>2, AssignUidAdds
  <1>6. \A m \in Mailbox, d \in Email : d # e => HeldAt(s, m, d) = HeldAt(r, m, d)
    BY <1>2, AssignUidAdds
  <1>7. Filed(r, M \ (M \ N), e) => Filed(s, (M \ (M \ N)) \cup (N \ M), e)
    <2>1. (M \ (M \ N)) \cap (N \ M) = {}
      OBVIOUS
    <2> QED
      BY <1>2, <2>1, FiledByAssign
  <1> HIDE DEF s
  <1>8. (M \ (M \ N)) \cup (N \ M) = N
    OBVIOUS
  <1>9. Extends(h, s)
    BY <1>2, <1>5, ExtendsTrans
  <1>10. Filed(h, M, e) => Filed(s, N, e)
    BY <1>4, <1>7, <1>8
  <1>11. \A m \in Mailbox, d \in Email : d # e => HeldAt(s, m, d) = HeldAt(h, m, d)
    BY <1>3, <1>6
  <1> QED
    BY <1>1, <1>5, <1>9, <1>10, <1>11

-----------------------------------------------------------------------------
(* The store. *)

(* Every email but the doubled ones has one UID in each of its mailboxes, one that
   is not live is in no mailbox, and no email is listed twice. *)
Sound(ord, mem, del, h, dbl) ==
    /\ ord \in Seq(Email) /\ IsInjective(ord)
    /\ mem \in [Email -> SUBSET Mailbox] /\ del \subseteq Range(ord)
    /\ h \in Histories /\ dbl \subseteq Email
    /\ \A e \in Email \ Range(ord) : mem[e] = {}
    /\ \A e \in Email \ dbl : Filed(h, mem[e], e)

StoreOK == Sound(order, member, deleted, hist, doubled)

(* What a mutation leaves behind. *)
Kept(ord1, mem1, del1, h1, dbl1) == Sound(ord1, mem1, del1, h1, dbl1) /\ Extends(hist, h1)

(* CreateEmail keeps the store sound. *)
LEMMA CreateKeeps ==
  ASSUME ImapAssumption, StoreOK, NEW e \in Email, NEW M \in SUBSET Mailbox, e \notin Live
  PROVE  Kept(Append(order, e), [member EXCEPT ![e] = M], deleted, AssignUid(hist, M, e),
              doubled)
  <1> DEFINE o == Append(order, e)
             f == [member EXCEPT ![e] = M]
             h == AssignUid(hist, M, e)
  <1>1. /\ order \in Seq(Email) /\ IsInjective(order) /\ member \in [Email -> SUBSET Mailbox]
        /\ deleted \subseteq Live /\ hist \in Histories /\ doubled \subseteq Email
        /\ (\A d \in Email \ Live : member[d] = {})
        /\ \A d \in Email \ doubled : Filed(hist, member[d], d)
    BY DEF StoreOK, Sound, Live
  <1>2. o \in Seq(Email) /\ Range(o) = Live \cup {e} /\ IsInjective(o)
    <2> DEFINE n == Len(order)
    <2>1. /\ o \in Seq(Email) /\ n \in Nat /\ DOMAIN o = 1..(n + 1) /\ DOMAIN order = 1..n
          /\ \A i \in 1..n : o[i] = order[i]
          /\ o[n + 1] = e
      BY <1>1, AppendProperties, LenProperties
    <2> HIDE DEF n, o
    <2>2. 1..(n + 1) = (1..n) \cup {n + 1}
      BY <2>1
    <2>3. Range(o) = Live \cup {e}
      BY <2>1, <2>2 DEF Live, Range
    <2>4. \A i \in 1..n : order[i] # e
      BY <2>1 DEF Live, Range
    <2>5. IsInjective(o)
      BY <1>1, <2>1, <2>2, <2>4 DEF IsInjective
    <2> QED
      BY <2>1, <2>3, <2>5
  <1>3. f \in [Email -> SUBSET Mailbox] /\ f[e] = M /\ \A d \in Email : d # e => f[d] = member[d]
    BY <1>1
  <1>4. h \in Histories /\ Extends(hist, h)
    BY <1>1, AssignUidAdds
  <1>5. ASSUME NEW d \in Email \ doubled PROVE Filed(h, f[d], d)
    <2>1. CASE d = e
      <3>1. Filed(hist, {}, e)
        BY <1>1, <2>1
      <3>2. Filed(h, {} \cup M, e)
        BY <1>1, <3>1, FiledByAssign
      <3>3. {} \cup M = M
        OBVIOUS
      <3> HIDE DEF h
      <3> QED
        BY <1>3, <2>1, <3>2, <3>3
    <2>2. CASE d # e
      <3>1. \A m \in Mailbox : HeldAt(h, m, d) = HeldAt(hist, m, d)
        BY <1>1, <2>2, AssignUidAdds
      <3>2. Filed(hist, member[d], d)
        BY <1>1
      <3> HIDE DEF h
      <3>3. Filed(h, member[d], d)
        BY <3>1, <3>2, FiledElse
      <3> QED
        BY <1>3, <2>2, <3>3
    <2> QED
      BY <2>1, <2>2
  <1> HIDE DEF o, f, h
  <1>6. Kept(o, f, deleted, h, doubled)
    BY <1>1, <1>2, <1>3, <1>4, <1>5 DEF Kept, Sound
  <1> QED
    BY <1>6 DEF o, f, h

(* Refile keeps the store sound. *)
LEMMA RefileKeeps ==
  ASSUME ImapAssumption, StoreOK, NEW e \in Email, NEW M \in SUBSET Mailbox, e \in Live
  PROVE  Kept(order, [member EXCEPT ![e] = M], deleted,
              SyncMailboxUids(hist, e, member[e], M), doubled)
  <1> DEFINE f == [member EXCEPT ![e] = M]
             h == SyncMailboxUids(hist, e, member[e], M)
  <1>1. /\ order \in Seq(Email) /\ IsInjective(order) /\ member \in [Email -> SUBSET Mailbox]
        /\ deleted \subseteq Live /\ hist \in Histories /\ doubled \subseteq Email
        /\ (\A d \in Email \ Live : member[d] = {})
        /\ \A d \in Email \ doubled : Filed(hist, member[d], d)
    BY DEF StoreOK, Sound, Live
  <1>2. f \in [Email -> SUBSET Mailbox] /\ f[e] = M /\ \A d \in Email : d # e => f[d] = member[d]
    BY <1>1
  <1>3. h \in Histories /\ Extends(hist, h)
    BY <1>1, SyncFiles
  <1>4. Filed(hist, member[e], e) => Filed(h, M, e)
    BY <1>1, SyncFiles
  <1>5. \A m \in Mailbox, d \in Email : d # e => HeldAt(h, m, d) = HeldAt(hist, m, d)
    BY <1>1, SyncFiles
  <1> HIDE DEF f, h
  <1>6. ASSUME NEW d \in Email \ doubled PROVE Filed(h, f[d], d)
    <2>1. Filed(hist, member[d], d)
      BY <1>1
    <2>2. CASE d = e
      BY <1>2, <1>4, <2>1, <2>2
    <2>3. CASE d # e
      <3>1. Filed(h, member[d], d)
        BY <1>5, <2>1, <2>3, FiledElse
      <3> QED
        BY <1>2, <2>3, <3>1
    <2> QED
      BY <2>2, <2>3
  <1>7. \A d \in Email \ Live : f[d] = {}
    BY <1>1, <1>2
  <1>8. Kept(order, f, deleted, h, doubled)
    BY <1>1, <1>2, <1>3, <1>6, <1>7 DEF Kept, Sound, Live
  <1> QED
    BY <1>8 DEF f, h

(* Filtering the listing keeps it a listing. *)
LEMMA ListingKeeps ==
  ASSUME order \in Seq(Email), IsInjective(order), NEW S
  PROVE  /\ Only(order, Live \ S) \in Seq(Email) /\ IsInjective(Only(order, Live \ S))
         /\ Range(Only(order, Live \ S)) = Live \ S
  <1>1. Only(order, Live \ S) \in Seq(Email) /\ Range(Only(order, Live \ S)) = Live \cap (Live \ S)
    BY OnlyRange DEF Live
  <1>2. IsInjective(Only(order, Live \ S))
    BY OnlyInjective
  <1> QED
    BY <1>1, <1>2

(* DestroyEmail keeps the store sound. *)
LEMMA DestroyKeeps ==
  ASSUME ImapAssumption, StoreOK, NEW e \in Email, e \in Live
  PROVE  Kept(Only(order, Live \ {e}), [member EXCEPT ![e] = {}], deleted \ {e},
              RetireUid(hist, member[e], e), doubled)
  <1> DEFINE o == Only(order, Live \ {e})
             f == [member EXCEPT ![e] = {}]
             h == RetireUid(hist, member[e], e)
  <1>1. /\ order \in Seq(Email) /\ IsInjective(order) /\ member \in [Email -> SUBSET Mailbox]
        /\ deleted \subseteq Live /\ hist \in Histories /\ doubled \subseteq Email
        /\ (\A d \in Email \ Live : member[d] = {})
        /\ \A d \in Email \ doubled : Filed(hist, member[d], d)
    BY DEF StoreOK, Sound, Live
  <1>2. f \in [Email -> SUBSET Mailbox] /\ f[e] = {} /\ \A d \in Email : d # e => f[d] = member[d]
    BY <1>1
  <1>3. o \in Seq(Email) /\ IsInjective(o) /\ Range(o) = Live \ {e}
    BY <1>1, ListingKeeps
  <1>4. h \in Histories /\ Extends(hist, h)
    BY <1>1, RetireUidFrees
  <1>5. Filed(hist, member[e], e) => Filed(h, member[e] \ member[e], e)
    BY <1>1, FiledByRetire
  <1>6. \A m \in Mailbox, d \in Email : d # e => HeldAt(h, m, d) = HeldAt(hist, m, d)
    BY <1>1, RetireUidFrees
  <1> HIDE DEF o, f, h
  <1>7. ASSUME NEW d \in Email \ doubled PROVE Filed(h, f[d], d)
    <2>1. Filed(hist, member[d], d)
      BY <1>1
    <2>2. CASE d = e
      <3>1. member[e] \ member[e] = {}
        OBVIOUS
      <3> QED
        BY <1>2, <1>5, <2>1, <2>2, <3>1
    <2>3. CASE d # e
      <3>1. Filed(h, member[d], d)
        BY <1>6, <2>1, <2>3, FiledElse
      <3> QED
        BY <1>2, <2>3, <3>1
    <2> QED
      BY <2>2, <2>3
  <1>8. \A d \in Email \ Range(o) : f[d] = {}
    BY <1>1, <1>2, <1>3
  <1>9. deleted \ {e} \subseteq Range(o)
    BY <1>1, <1>3
  <1>10. Kept(o, f, deleted \ {e}, h, doubled)
    BY <1>1, <1>2, <1>3, <1>4, <1>7, <1>8, <1>9 DEF Kept, Sound
  <1> QED
    BY <1>10 DEF o, f, h

(* A STORE only ever flags live emails. *)
LEMMA StoreKeeps ==
  ASSUME ImapAssumption, StoreOK, NEW m, NEW U, NEW on \in BOOLEAN
  PROVE  Kept(order, member,
              IF on THEN deleted \cup StoreTarget(m, U) ELSE deleted \ StoreTarget(m, U),
              hist, doubled)
  <1> DEFINE S == {e \in Email : m \in member[e]}
             l == Only(order, S)
  <1>1. /\ order \in Seq(Email) /\ deleted \subseteq Live /\ hist \in Histories
    BY DEF StoreOK, Sound, Live
  <1>2. l \in Seq(Email) /\ Range(l) = Range(order) \cap S
    BY <1>1, OnlyRange
  <1>3. StoreTarget(m, U) = {l[u] : u \in U \cap 1..Len(l)}
    BY DEF StoreTarget
  <1> HIDE DEF S, l
  <1>4. StoreTarget(m, U) \subseteq Live
    <2>1. \A u \in 1..Len(l) : l[u] \in Range(l)
      BY <1>2 DEF Range
    <2> QED
      BY <1>2, <1>3, <2>1 DEF Live
  <1>5. Extends(hist, hist)
    BY <1>1, ExtendsRefl
  <1> QED
    BY <1>1, <1>4, <1>5 DEF Kept, StoreOK, Sound, Live

-----------------------------------------------------------------------------
(* UID COPY, email by email. *)

Halves == [member : [Email -> SUBSET Mailbox], hist : Histories]

(* What a copy may leave behind at any point. *)
CopyStates ==
    {a \in Halves :
        /\ Extends(hist, a.hist)
        /\ \A e \in Email \ Live : a.member[e] = {}
        /\ \A e \in Email \ doubled : Filed(a.hist, a.member[e], e)}

(* One email is copied at most once, and only while it is live. *)
LEMMA CopyOneKeeps ==
  ASSUME ImapAssumption, StoreOK, NEW a \in CopyStates, NEW e, NEW target \in Mailbox
  PROVE  CopyOne(a, e, target) \in CopyStates
  <1>1. /\ Live \subseteq Email /\ hist \in Histories
        /\ a \in Halves /\ a.member \in [Email -> SUBSET Mailbox] /\ a.hist \in Histories
        /\ Extends(hist, a.hist)
        /\ (\A d \in Email \ Live : a.member[d] = {})
        /\ \A d \in Email \ doubled : Filed(a.hist, a.member[d], d)
    BY DEF StoreOK, Sound, Live, Range, CopyStates, Halves
  <1>2. CASE e \notin Live \/ target \in a.member[e]
    <2>1. CopyOne(a, e, target) = a
      BY <1>2 DEF CopyOne
    <2> QED
      BY <2>1
  <1>3. CASE e \in Live /\ target \notin a.member[e]
    <2> DEFINE f == [a.member EXCEPT ![e] = @ \cup {target}]
               h == AssignUid(a.hist, {target}, e)
               c == [member |-> f, hist |-> h]
    <2>1. CopyOne(a, e, target) = c
      BY <1>3 DEF CopyOne
    <2>2. e \in Email
      BY <1>1, <1>3
    <2>3. /\ f \in [Email -> SUBSET Mailbox] /\ f[e] = a.member[e] \cup {target}
          /\ \A d \in Email : d # e => f[d] = a.member[d]
      BY <1>1, <2>2
    <2>4. h \in Histories /\ Extends(a.hist, h)
      BY <1>1, <2>2, AssignUidAdds
    <2>5. Extends(hist, h)
      BY <1>1, <2>4, ExtendsTrans
    <2>6. \A m \in Mailbox, d \in Email : d # e => HeldAt(h, m, d) = HeldAt(a.hist, m, d)
      BY <1>1, <2>2, AssignUidAdds
    <2>7. Filed(a.hist, a.member[e], e) => Filed(h, a.member[e] \cup {target}, e)
      <3>1. a.member[e] \cap {target} = {}
        BY <1>3
      <3> QED
        BY <1>1, <2>2, <3>1, FiledByAssign
    <2> HIDE DEF f, h
    <2>8. ASSUME NEW d \in Email \ doubled PROVE Filed(h, f[d], d)
      <3>1. Filed(a.hist, a.member[d], d)
        BY <1>1
      <3>2. CASE d = e
        BY <2>3, <2>7, <3>1, <3>2
      <3>3. CASE d # e
        <4>1. Filed(h, a.member[d], d)
          BY <2>6, <3>1, <3>3, FiledElse
        <4> QED
          BY <2>3, <3>3, <4>1
      <3> QED
        BY <3>2, <3>3
    <2>9. \A d \in Email \ Live : f[d] = {}
      BY <1>1, <1>3, <2>3
    <2>10. c \in Halves /\ c.member = f /\ c.hist = h
      BY <2>3, <2>4 DEF Halves
    <2> HIDE DEF c
    <2>11. c \in CopyStates
      BY <2>5, <2>8, <2>9, <2>10 DEF CopyStates
    <2> QED
      BY <2>1, <2>11
  <1> QED
    BY <1>2, <1>3

(* The loop of cmd_uid_copy keeps what each of its rounds keeps. *)
LEMMA CopiedKeeps ==
  ASSUME ImapAssumption, StoreOK, NEW m, NEW uids, Len(uids) \in Nat, NEW target \in Mailbox
  PROVE  Copied(m, uids, target) \in CopyStates
  <1> DEFINE n == Len(uids)
             D == CopyStates
             b == Files
             g == [p \in D \X (1..n) |-> CopyOne(p[1], hist[m][uids[p[2]]], target)]
             f == CHOOSE acc : acc = [k \in 0..n |-> IF k = 0 THEN b
                     ELSE CopyOne(acc[k - 1], hist[m][uids[k]], target)]
  <1>1. Copied(m, uids, target) = f[n]
    BY DEF Copied
  <1>2. b \in D
    <2>1. b \in Halves /\ b.member = member /\ b.hist = hist
      BY DEF Files, Halves, StoreOK, Sound
    <2>2. Extends(hist, hist)
      BY ExtendsRefl DEF StoreOK, Sound
    <2> QED
      BY <2>1, <2>2 DEF CopyStates, StoreOK, Sound, Live
  <1>3. n \in Nat /\ \A x \in D : \A k \in 1..n : CopyOne(x, hist[m][uids[k]], target) \in D
    BY CopyOneKeeps
  <1> HIDE DEF b, D, n
  <1>4. g \in [D \X (1..n) -> D]
    BY <1>3
  <1>5. PICK h : Built(h, n, D, b, g)
    <2> HIDE DEF g
    <2> QED
      BY <1>2, <1>3, <1>4, Recursion
  <1>6. ASSUME NEW k \in 1..n PROVE h[k] = CopyOne(h[k - 1], hist[m][uids[k]], target)
    <2>1. h[k] = g[<<h[k - 1], k>>]
      BY <1>5 DEF Built
    <2>2. k - 1 \in 0..n
      BY <1>3
    <2>3. <<h[k - 1], k>> \in D \X (1..n)
      BY <1>5, <2>2 DEF Built
    <2> QED
      BY <2>1, <2>3
  <1>7. h = [k \in 0..n |-> IF k = 0 THEN b
                     ELSE CopyOne(h[k - 1], hist[m][uids[k]], target)]
    <2>1. \A k \in 0..n : k # 0 => k \in 1..n
      BY <1>3
    <2> QED
      BY <1>5, <1>6, <2>1 DEF Built
  <1>8. f = [k \in 0..n |-> IF k = 0 THEN b
                     ELSE CopyOne(f[k - 1], hist[m][uids[k]], target)]
    BY <1>7
  <1> HIDE DEF f
  <1>9. 0 \in 0..n /\ n \in 0..n
    BY <1>3
  <1>10. f[0] = b
    BY <1>8, <1>9
  <1>11. ASSUME NEW k \in 1..n, f[k - 1] \in D PROVE f[k] \in D
    <2>1. k \in 0..n /\ k # 0
      BY <1>3
    <2>2. f[k] = CopyOne(f[k - 1], hist[m][uids[k]], target)
      BY <1>8, <2>1
    <2> QED
      BY <1>3, <1>11, <2>2
  <1>12. \A k \in 0..n : f[k] \in D
    BY <1>2, <1>3, <1>10, <1>11, Stays
  <1> QED
    BY <1>1, <1>9, <1>12 DEF D

(* UidCopy keeps the store sound. *)
LEMMA CopyKeeps ==
  ASSUME ImapAssumption, StoreOK, NEW m \in Mailbox, NEW U, NEW target \in Mailbox
  PROVE  Kept(order, Copied(m, Matched(m, U), target).member, deleted,
              Copied(m, Matched(m, U), target).hist, doubled)
  <1> DEFINE c == Copied(m, Matched(m, U), target)
  <1>1. Len(Matched(m, U)) \in Nat
    <2>1. Len(hist[m]) \in Nat
      BY HistoryType DEF StoreOK, Sound
    <2> DEFINE S == {u \in U : hist[m][u] # Retired}
    <2>2. Only(UpTo(Len(hist[m])), S) \in Seq(1..Len(hist[m]))
      BY <2>1, UidsRise
    <2>3. Len(Only(UpTo(Len(hist[m])), S)) \in Nat
      BY <2>2
    <2> QED
      BY <2>3 DEF Matched
  <1>2. c \in CopyStates
    BY <1>1, CopiedKeeps
  <1> HIDE DEF c
  <1>3. c.member \in [Email -> SUBSET Mailbox] /\ c.hist \in Histories
    BY <1>2 DEF CopyStates, Halves
  <1>4. Kept(order, c.member, deleted, c.hist, doubled)
    BY <1>2, <1>3 DEF CopyStates, Kept, Sound, StoreOK, Live
  <1> QED
    BY <1>4 DEF c

-----------------------------------------------------------------------------
(* UID MOVE and UID EXPUNGE, email by email. *)

(* The UIDs a command matches: each once, all in U and in the history. *)
LEMMA MatchedUids ==
  ASSUME StoreOK, NEW m \in Mailbox, NEW U
  PROVE  /\ Matched(m, U) \in Seq(1..Len(hist[m])) /\ Len(Matched(m, U)) \in Nat
         /\ \A k \in 1..Len(Matched(m, U)) :
               Matched(m, U)[k] \in 1..Len(hist[m]) /\ Matched(m, U)[k] \in U
         /\ \A j, k \in 1..Len(Matched(m, U)) : Matched(m, U)[j] = Matched(m, U)[k] => j = k
         /\ \A u \in U : u \in 1..Len(hist[m]) /\ hist[m][u] # Retired
                           => \E k \in 1..Len(Matched(m, U)) : Matched(m, U)[k] = u
  <1> DEFINE n == Len(hist[m])
             S == {u \in U : hist[m][u] # Retired}
             t == Only(UpTo(n), S)
  <1>1. n \in Nat
    BY HistoryType DEF StoreOK, Sound
  <1>2. t \in Seq(1..n) /\ Rising(t) /\ Range(t) = (1..n) \cap S
    BY <1>1, UidsRise
  <1>3. Matched(m, U) = t
    BY DEF Matched
  <1>4. S \subseteq U /\ \A u \in U : hist[m][u] # Retired => u \in S
    OBVIOUS
  <1> HIDE DEF t, S, n
  <1>5. Len(t) \in Nat /\ DOMAIN t = 1..Len(t) /\ \A k \in 1..Len(t) : t[k] \in 1..n
    BY <1>2, LenProperties, ElementOfSeq
  <1>6. \A k \in 1..Len(t) : t[k] \in Range(t)
    BY <1>5 DEF Range
  <1>7. ASSUME NEW j \in 1..Len(t), NEW k \in 1..Len(t), t[j] = t[k] PROVE j = k
    <2>1. t[j] \in Nat /\ t[k] \in Nat
      BY <1>1, <1>5
    <2>2. ~(j < k) /\ ~(k < j)
      BY <1>2, <1>5, <1>7, <2>1 DEF Rising
    <2> QED
      BY <1>5, <2>2
  <1>8. ASSUME NEW u \in U, u \in 1..n, hist[m][u] # Retired
        PROVE  \E k \in 1..Len(t) : t[k] = u
    <2>1. u \in Range(t)
      BY <1>2, <1>4, <1>8
    <2> QED
      BY <1>5, <2>1 DEF Range
  <1>9. \A k \in 1..Len(t) : t[k] \in 1..n /\ t[k] \in U
    BY <1>2, <1>4, <1>5, <1>6
  <1> QED
    BY <1>2, <1>3, <1>5, <1>7, <1>8, <1>9 DEF n

(* Two UIDs of a mailbox that hold the same email are the same UID. *)
LEMMA FiledOnce ==
  ASSUME NEW h, NEW M, NEW e, Filed(h, M, e), NEW m \in Mailbox,
         NEW i \in 1..Len(h[m]), NEW j \in 1..Len(h[m]), h[m][i] = e, h[m][j] = e
  PROVE  i = j /\ m \in M
  <1>1. i \in HeldAt(h, m, e) /\ j \in HeldAt(h, m, e)
    BY DEF HeldAt
  <1>2. IF m \in M THEN \E k : HeldAt(h, m, e) = {k} ELSE HeldAt(h, m, e) = {}
    BY DEF Filed
  <1> QED
    BY <1>1, <1>2

(* c leaves d where a has it. *)
SameFiling(a, c, d) ==
    c.member[d] = a.member[d] /\ \A m \in Mailbox : HeldAt(c.hist, m, d) = HeldAt(a.hist, m, d)

(* A move files the email in the target and out of the source. *)
LEMMA MoveOneFiles ==
  ASSUME ImapAssumption, StoreOK, NEW a \in Halves, NEW e, NEW m \in Mailbox,
         NEW target \in Mailbox
  PROVE  /\ MoveOne(a, e, m, target) \in Halves
         /\ Extends(a.hist, MoveOne(a, e, m, target).hist)
         /\ \A d \in Email : d # e \/ e \notin Live => SameFiling(a, MoveOne(a, e, m, target), d)
         /\ e \in Live /\ target \notin a.member[e] /\ Filed(a.hist, a.member[e], e)
              => Filed(MoveOne(a, e, m, target).hist, MoveOne(a, e, m, target).member[e], e)
  <1>1. /\ Live \subseteq Email /\ a \in Halves
        /\ a.member \in [Email -> SUBSET Mailbox] /\ a.hist \in Histories
    BY DEF StoreOK, Sound, Live, Range, Halves
  <1>2. CASE e \notin Live
    <2>1. MoveOne(a, e, m, target) = a
      BY <1>2 DEF MoveOne
    <2>2. Extends(a.hist, a.hist)
      BY <1>1, ExtendsRefl
    <2>3. \A d : SameFiling(a, a, d)
      BY DEF SameFiling
    <2> QED
      BY <1>1, <1>2, <2>1, <2>2, <2>3
  <1>3. CASE e \in Live
    <2> DEFINE f == [a.member EXCEPT ![e] = (@ \cup {target}) \ {m}]
               g == AssignUid(a.hist, {target}, e)
               h == RetireUid(g, {m}, e)
               c == [member |-> f, hist |-> h]
    <2>1. MoveOne(a, e, m, target) = c
      BY <1>3 DEF MoveOne
    <2>2. e \in Email
      BY <1>1, <1>3
    <2>3. /\ f \in [Email -> SUBSET Mailbox] /\ f[e] = (a.member[e] \cup {target}) \ {m}
          /\ \A d \in Email : d # e => f[d] = a.member[d]
      BY <1>1, <2>2
    <2>4. g \in Histories /\ Extends(a.hist, g)
      BY <1>1, <2>2, AssignUidAdds
    <2>5. \A x \in Mailbox, d \in Email : d # e => HeldAt(g, x, d) = HeldAt(a.hist, x, d)
      BY <1>1, <2>2, AssignUidAdds
    <2>6. target \notin a.member[e] /\ Filed(a.hist, a.member[e], e)
            => Filed(g, a.member[e] \cup {target}, e)
      BY <1>1, <2>2, FiledByAssign
    <2> HIDE DEF g
    <2>7. h \in Histories /\ Extends(g, h)
      BY <2>2, <2>4, RetireUidFrees
    <2>8. \A x \in Mailbox, d \in Email : d # e => HeldAt(h, x, d) = HeldAt(g, x, d)
      BY <2>2, <2>4, RetireUidFrees
    <2>9. Filed(g, a.member[e] \cup {target}, e)
            => Filed(h, (a.member[e] \cup {target}) \ {m}, e)
      BY <2>2, <2>4, FiledByRetire
    <2> HIDE DEF f, h
    <2>10. Extends(a.hist, h)
      BY <1>1, <2>4, <2>7, ExtendsTrans
    <2>11. c \in Halves /\ c.member = f /\ c.hist = h
      BY <2>3, <2>7 DEF Halves
    <2>12. \A d \in Email : d # e => SameFiling(a, c, d)
      BY <2>3, <2>5, <2>8, <2>11 DEF SameFiling
    <2>13. target \notin a.member[e] /\ Filed(a.hist, a.member[e], e)
             => Filed(c.hist, c.member[e], e)
      BY <2>3, <2>6, <2>9, <2>11
    <2> HIDE DEF c
    <2> QED
      BY <1>3, <2>1, <2>10, <2>11, <2>12, <2>13
  <1> QED
    BY <1>2, <1>3

(* f computes Moved(m, uids, target), one email at a time. *)
Moves(f, m, uids, target) ==
    /\ f \in [0..Len(uids) -> Halves] /\ f[0] = Files
    /\ Moved(m, uids, target) = f[Len(uids)]
    /\ \A k \in 1..Len(uids) : f[k] = MoveOne(f[k - 1], hist[m][uids[k]], m, target)

LEMMA MovedUnfolds ==
  ASSUME ImapAssumption, StoreOK, NEW m \in Mailbox, NEW uids, Len(uids) \in Nat,
         NEW target \in Mailbox
  PROVE  \E f : Moves(f, m, uids, target)
  <1> DEFINE n == Len(uids)
             D == Halves
             b == Files
             g == [p \in D \X (1..n) |-> MoveOne(p[1], hist[m][uids[p[2]]], m, target)]
             f == CHOOSE acc : acc = [k \in 0..n |-> IF k = 0 THEN b
                     ELSE MoveOne(acc[k - 1], hist[m][uids[k]], m, target)]
  <1>1. Moved(m, uids, target) = f[n]
    BY DEF Moved
  <1>2. b \in D
    BY DEF Files, Halves, StoreOK, Sound
  <1>3. n \in Nat /\ \A x \in D : \A k \in 1..n : MoveOne(x, hist[m][uids[k]], m, target) \in D
    BY MoveOneFiles
  <1> HIDE DEF b, D, n
  <1>4. g \in [D \X (1..n) -> D]
    BY <1>3
  <1>5. PICK h : Built(h, n, D, b, g)
    <2> HIDE DEF g
    <2> QED
      BY <1>2, <1>3, <1>4, Recursion
  <1>6. ASSUME NEW k \in 1..n PROVE h[k] = MoveOne(h[k - 1], hist[m][uids[k]], m, target)
    <2>1. h[k] = g[<<h[k - 1], k>>]
      BY <1>5 DEF Built
    <2>2. k - 1 \in 0..n
      BY <1>3
    <2>3. <<h[k - 1], k>> \in D \X (1..n)
      BY <1>5, <2>2 DEF Built
    <2> QED
      BY <2>1, <2>3
  <1>7. h = [k \in 0..n |-> IF k = 0 THEN b
                     ELSE MoveOne(h[k - 1], hist[m][uids[k]], m, target)]
    <2>1. \A k \in 0..n : k # 0 => k \in 1..n
      BY <1>3
    <2> QED
      BY <1>5, <1>6, <2>1 DEF Built
  <1>8. f = [k \in 0..n |-> IF k = 0 THEN b
                     ELSE MoveOne(f[k - 1], hist[m][uids[k]], m, target)]
    BY <1>7
  <1> HIDE DEF f
  <1>9. 0 \in 0..n /\ DOMAIN f = 0..n /\ f = [k \in 0..n |-> f[k]]
    BY <1>3, <1>8
  <1>10. f[0] = b
    BY <1>8, <1>9
  <1>11. ASSUME NEW k \in 1..n PROVE f[k] = MoveOne(f[k - 1], hist[m][uids[k]], m, target)
    <2>1. k \in 0..n /\ k # 0
      BY <1>3
    <2> QED
      BY <1>8, <2>1
  <1>12. \A k \in 0..n : f[k] \in D
    <2>1. \A k \in 1..n : f[k - 1] \in D => f[k] \in D
      BY <1>3, <1>11
    <2> QED
      BY <1>2, <1>3, <1>10, <2>1, Stays
  <1> QED
    BY <1>1, <1>9, <1>10, <1>11, <1>12 DEF n, D, b, Moves

(* The emails UID MOVE puts where they were already. *)
Redoubled(m, U, target) == doubled \cup {e \in FetchTarget(m, U) : target \in member[e]}

(* After the first k emails of a move. *)
MoveState(a, k, m, U, target) ==
    /\ a \in Halves /\ Extends(hist, a.hist)
    /\ \A e \in Email \ Live : a.member[e] = {}
    /\ \A e \in Email \ Redoubled(m, U, target) :
          /\ Filed(a.hist, a.member[e], e)
          /\ \/ a.member[e] = member[e]
             \/ \E j \in 1..k : hist[m][Matched(m, U)[j]] = e

LEMMA MoveStep ==
  ASSUME ImapAssumption, StoreOK, NEW m \in Mailbox, NEW U, NEW target \in Mailbox,
         NEW k \in 1..Len(Matched(m, U)), NEW a, MoveState(a, k - 1, m, U, target)
  PROVE  MoveState(MoveOne(a, hist[m][Matched(m, U)[k]], m, target), k, m, U, target)
  <1> DEFINE uids == Matched(m, U)
             e == hist[m][uids[k]]
             c == MoveOne(a, e, m, target)
             dbl == Redoubled(m, U, target)
  <1>1. /\ a \in Halves /\ Extends(hist, a.hist) /\ hist \in Histories
        /\ (\A d \in Email \ Live : a.member[d] = {})
        /\ a.hist \in Histories /\ Live \subseteq Email
        /\ \A d \in Email \ doubled : Filed(hist, member[d], d)
    BY DEF StoreOK, Sound, Live, Range, MoveState, Halves
  <1>2. \A d \in Email \ dbl :
          /\ Filed(a.hist, a.member[d], d)
          /\ a.member[d] = member[d] \/ \E j \in 1..(k - 1) : hist[m][uids[j]] = d
    BY DEF MoveState
  <1>3. /\ uids[k] \in 1..Len(hist[m]) /\ uids[k] \in U /\ Len(uids) \in Nat
        /\ \A j \in 1..Len(uids) : uids[j] \in 1..Len(hist[m])
        /\ \A j \in 1..Len(uids) : uids[j] = uids[k] => j = k
    BY MatchedUids
  <1>4. dbl = doubled \cup {d \in FetchTarget(m, U) : target \in member[d]}
    BY DEF Redoubled
  <1>5. e \in Live => e \in FetchTarget(m, U)
    BY <1>3 DEF FetchTarget
  <1> HIDE DEF uids, dbl
  <1> HIDE DEF e
  <1>6. /\ c \in Halves /\ Extends(a.hist, c.hist)
        /\ \A d \in Email : d # e \/ e \notin Live => SameFiling(a, c, d)
        /\ e \in Live /\ target \notin a.member[e] /\ Filed(a.hist, a.member[e], e)
              => Filed(c.hist, c.member[e], e)
    BY <1>1, MoveOneFiles
  <1> HIDE DEF c
  <1>7. c.hist \in Histories
    BY <1>6 DEF Halves
  <1>8. Extends(hist, c.hist)
    BY <1>1, <1>6, <1>7, ExtendsTrans
  <1>9. \A d \in Email \ Live : c.member[d] = {}
    BY <1>1, <1>6 DEF SameFiling
  <1>10. ASSUME NEW d \in Email \ dbl
         PROVE  /\ Filed(c.hist, c.member[d], d)
                /\ c.member[d] = member[d] \/ \E j \in 1..k : hist[m][uids[j]] = d
    <2>1. CASE d # e \/ e \notin Live
      <3>1. c.member[d] = a.member[d] /\ \A x \in Mailbox : HeldAt(c.hist, x, d) = HeldAt(a.hist, x, d)
        BY <1>6, <2>1 DEF SameFiling
      <3>2. Filed(a.hist, a.member[d], d)
        BY <1>2
      <3>3. Filed(c.hist, a.member[d], d)
        BY <3>1, <3>2, FiledElse
      <3>4. \A j \in 1..(k - 1) : j \in 1..k
        BY <1>3
      <3> QED
        BY <1>2, <3>1, <3>3, <3>4
    <2>2. CASE d = e /\ e \in Live
      <3>1. k \in 1..k /\ \A j \in 1..(k - 1) : j \in 1..Len(uids) /\ j # k
        BY <1>3 DEF uids
      <3>2. ASSUME NEW j \in 1..(k - 1), hist[m][uids[j]] = d PROVE FALSE
        <4>1. Filed(hist, member[d], d)
          BY <1>1, <1>4
        <4>2. uids[j] \in 1..Len(hist[m]) /\ uids[k] \in 1..Len(hist[m]) /\ j \in 1..Len(uids)
          BY <1>3, <3>1
        <4>3. hist[m][uids[j]] = d /\ hist[m][uids[k]] = d
          BY <2>2, <3>2 DEF e
        <4>4. uids[j] = uids[k]
          <5> HIDE DEF e
          <5> QED
            BY <4>1, <4>2, <4>3, FiledOnce, SMTT(30)
        <4> QED
          BY <1>3, <3>1, <4>2, <4>4
      <3>3. a.member[d] = member[d]
        BY <1>2, <3>2
      <3>4. target \notin member[d]
        BY <1>4, <1>5, <2>2
      <3>5. Filed(c.hist, c.member[d], d)
        BY <1>2, <1>6, <2>2, <3>3, <3>4
      <3> QED
        BY <2>2, <3>1, <3>5 DEF e
    <2> QED
      BY <2>1, <2>2
  <1>11. MoveState(c, k, m, U, target)
    BY <1>6, <1>8, <1>9, <1>10 DEF MoveState, uids, dbl
  <1> QED
    BY <1>11 DEF c, e, uids

(* UidMove keeps the store sound, apart from the emails it doubles. *)
LEMMA MoveKeeps ==
  ASSUME ImapAssumption, StoreOK, NEW m \in Mailbox, NEW U, NEW target \in Mailbox
  PROVE  Kept(order, Moved(m, Matched(m, U), target).member, deleted,
              Moved(m, Matched(m, U), target).hist, Redoubled(m, U, target))
  <1> DEFINE uids == Matched(m, U)
             n == Len(uids)
             c == Moved(m, uids, target)
  <1>1. n \in Nat
    BY MatchedUids
  <1>2. PICK f : Moves(f, m, uids, target)
    BY <1>1, MovedUnfolds
  <1>3. f[0] = Files /\ c = f[n] /\ \A k \in 1..n : f[k] = MoveOne(f[k - 1], hist[m][uids[k]], m, target)
    BY <1>2 DEF Moves
  <1> DEFINE T == {k \in 0..n : MoveState(f[k], k, m, U, target)}
  <1>4. 0 \in T
    <2>1. f[0] \in Halves /\ f[0].member = member /\ f[0].hist = hist
      BY <1>3 DEF Files, Halves, StoreOK, Sound
    <2>2. Extends(hist, hist)
      BY ExtendsRefl DEF StoreOK, Sound
    <2>3. \A d \in Email \ Redoubled(m, U, target) : Filed(hist, member[d], d)
      BY DEF StoreOK, Sound, Redoubled
    <2>4. MoveState(f[0], 0, m, U, target)
      BY <2>1, <2>2, <2>3 DEF MoveState, StoreOK, Sound, Live
    <2> QED
      BY <1>1, <2>4
  <1>5. ASSUME NEW k \in 1..n, k - 1 \in T PROVE k \in T
    <2>1. MoveState(f[k - 1], k - 1, m, U, target)
      BY <1>5
    <2>2. MoveState(MoveOne(f[k - 1], hist[m][uids[k]], m, target), k, m, U, target)
      BY <2>1, MoveStep
    <2>3. MoveState(f[k], k, m, U, target) /\ k \in 0..n
      BY <1>1, <1>3, <2>2
    <2> QED
      BY <2>3
  <1>6. MoveState(c, n, m, U, target)
    <2> HIDE DEF T, n
    <2>1. 0..n \subseteq T
      BY <1>1, <1>4, <1>5, Induct
    <2>2. n \in T
      BY <1>1, <2>1
    <2> QED
      BY <1>3, <2>2 DEF T
  <1> HIDE DEF c, n, uids
  <1>7. c.member \in [Email -> SUBSET Mailbox] /\ c.hist \in Histories
    BY <1>6 DEF MoveState, Halves
  <1>8. Redoubled(m, U, target) \subseteq Email
    BY DEF Redoubled, FetchTarget, StoreOK, Sound, Live, Range
  <1>9. Kept(order, c.member, deleted, c.hist, Redoubled(m, U, target))
    BY <1>6, <1>7, <1>8 DEF MoveState, Kept, Sound, StoreOK, Live
  <1> QED
    BY <1>9 DEF c, uids

(* f computes Expunged(m, uids, gone, dead), one email at a time. *)
Expunges(f, m, uids, gone, dead) ==
    /\ f \in [0..Len(uids) -> Histories] /\ f[0] = hist
    /\ Expunged(m, uids, gone, dead) = f[Len(uids)]
    /\ \A k \in 1..Len(uids) : f[k] = ExpungeOne(f[k - 1], m, uids, k, gone, dead)

LEMMA ExpungedUnfolds ==
  ASSUME ImapAssumption, StoreOK, NEW m \in Mailbox, NEW uids, Len(uids) \in Nat,
         NEW gone \in SUBSET Email, NEW dead
  PROVE  \E f : Expunges(f, m, uids, gone, dead)
  <1> DEFINE n == Len(uids)
             D == Histories
             b == hist
             g == [p \in D \X (1..n) |-> ExpungeOne(p[1], m, uids, p[2], gone, dead)]
             f == CHOOSE acc : acc = [k \in 0..n |-> IF k = 0 THEN b
                     ELSE ExpungeOne(acc[k - 1], m, uids, k, gone, dead)]
  <1>1. Expunged(m, uids, gone, dead) = f[n]
    BY DEF Expunged
  <1>2. b \in D
    BY DEF StoreOK, Sound
  <1>3. n \in Nat /\ \A x \in D : \A k \in 1..n : ExpungeOne(x, m, uids, k, gone, dead) \in D
    <2>1. ASSUME NEW x \in D, NEW e, e \in gone PROVE RetireUid(x, {m}, e) \in D
      <3>1. e \in Email
        BY <2>1
      <3> QED
        BY <3>1, RetireUidFrees
    <2> QED
      BY <2>1 DEF ExpungeOne
  <1> HIDE DEF b, D, n
  <1>4. g \in [D \X (1..n) -> D]
    BY <1>3
  <1>5. PICK h : Built(h, n, D, b, g)
    <2> HIDE DEF g
    <2> QED
      BY <1>2, <1>3, <1>4, Recursion
  <1>6. ASSUME NEW k \in 1..n PROVE h[k] = ExpungeOne(h[k - 1], m, uids, k, gone, dead)
    <2>1. h[k] = g[<<h[k - 1], k>>]
      BY <1>5 DEF Built
    <2>2. k - 1 \in 0..n
      BY <1>3
    <2>3. <<h[k - 1], k>> \in D \X (1..n)
      BY <1>5, <2>2 DEF Built
    <2> QED
      BY <2>1, <2>3
  <1>7. h = [k \in 0..n |-> IF k = 0 THEN b
                     ELSE ExpungeOne(h[k - 1], m, uids, k, gone, dead)]
    <2>1. \A k \in 0..n : k # 0 => k \in 1..n
      BY <1>3
    <2> QED
      BY <1>5, <1>6, <2>1 DEF Built
  <1>8. f = [k \in 0..n |-> IF k = 0 THEN b
                     ELSE ExpungeOne(f[k - 1], m, uids, k, gone, dead)]
    BY <1>7
  <1> HIDE DEF f
  <1>9. 0 \in 0..n /\ DOMAIN f = 0..n /\ f = [k \in 0..n |-> f[k]]
    BY <1>3, <1>8
  <1>10. f[0] = b
    BY <1>8, <1>9
  <1>11. ASSUME NEW k \in 1..n PROVE f[k] = ExpungeOne(f[k - 1], m, uids, k, gone, dead)
    <2>1. k \in 0..n /\ k # 0
      BY <1>3
    <2> QED
      BY <1>8, <2>1
  <1>12. \A k \in 0..n : f[k] \in D
    <2>1. \A k \in 1..n : f[k - 1] \in D => f[k] \in D
      BY <1>3, <1>11
    <2> QED
      BY <1>2, <1>3, <1>10, <2>1, Stays
  <1> QED
    BY <1>1, <1>9, <1>10, <1>11, <1>12 DEF n, D, b, Expunges

(* After the first k emails of an expunge. *)
ExpungeState(h, k, m, uids, gone) ==
    /\ h \in Histories /\ Extends(hist, h)
    /\ \A e \in Email \ doubled, x \in Mailbox :
          HeldAt(h, x, e)
            = IF x = m /\ e \in gone /\ \E j \in 1..k : hist[m][uids[j]] = e
              THEN {} ELSE HeldAt(hist, x, e)

LEMMA ExpungeStep ==
  ASSUME ImapAssumption, StoreOK, NEW m \in Mailbox, NEW gone \in SUBSET Email, NEW dead, NEW uids,
         NEW k \in Nat \ {0}, NEW h, ExpungeState(h, k - 1, m, uids, gone)
  PROVE  ExpungeState(ExpungeOne(h, m, uids, k, gone, dead), k, m, uids, gone)
  <1> DEFINE e == hist[m][uids[k]]
             c == ExpungeOne(h, m, uids, k, gone, dead)
             go == e \in gone /\ (e \in dead => \A j \in 1..(k - 1) : hist[m][uids[j]] # e)
  <1>1. /\ h \in Histories /\ Extends(hist, h) /\ hist \in Histories
        /\ \A d \in Email \ doubled : Filed(hist, member[d], d)
    BY DEF StoreOK, Sound, ExpungeState
  <1>2. ASSUME NEW d \in Email \ doubled, NEW x \in Mailbox
        PROVE  HeldAt(h, x, d) = IF x = m /\ d \in gone /\ \E j \in 1..(k - 1) : hist[m][uids[j]] = d
                                 THEN {} ELSE HeldAt(hist, x, d)
    BY DEF ExpungeState
  <1>3. /\ \A j \in 1..k : j # k => j \in 1..(k - 1)
        /\ \A j \in 1..(k - 1) : j \in 1..k
        /\ k \in 1..k
    OBVIOUS
  <1>4. CASE ~go
    <2>1. c = h
      BY <1>4 DEF ExpungeOne
    <2>2. ASSUME NEW d \in gone
          PROVE  (\E j \in 1..k : hist[m][uids[j]] = d) <=> \E j \in 1..(k - 1) : hist[m][uids[j]] = d
      BY <1>3, <1>4
    <2>3. ASSUME NEW d \in Email \ doubled, NEW x \in Mailbox
          PROVE  HeldAt(c, x, d) = IF x = m /\ d \in gone /\ \E j \in 1..k : hist[m][uids[j]] = d
                                   THEN {} ELSE HeldAt(hist, x, d)
      BY <1>2, <2>1, <2>2
    <2> HIDE DEF c
    <2>4. ExpungeState(c, k, m, uids, gone)
      BY <1>1, <2>1, <2>3 DEF ExpungeState
    <2> QED
      BY <2>4 DEF c
  <1>5. CASE go
    <2>1. c = RetireUid(h, {m}, e) /\ e \in Email /\ e \in gone
      BY <1>5 DEF ExpungeOne
    <2>2. c \in Histories /\ Extends(h, c)
      BY <1>1, <2>1, RetireUidFrees
    <2>3. \A x \in Mailbox, d \in Email : x \notin {m} \/ d # e => HeldAt(c, x, d) = HeldAt(h, x, d)
      BY <1>1, <2>1, RetireUidFrees
    <2>4. HeldAt(h, m, e) = {} \/ (\E i : HeldAt(h, m, e) = {i}) => HeldAt(c, m, e) = {}
      <3> DEFINE N == {m}
      <3>1. m \in N /\ c = RetireUid(h, N, e)
        BY <2>1
      <3> HIDE DEF N, c, e
      <3>2. \A x \in Mailbox : x \in N /\ (HeldAt(h, x, e) = {} \/ \E i : HeldAt(h, x, e) = {i})
              => HeldAt(RetireUid(h, N, e), x, e) = {}
        BY <1>1, <2>1, RetireUidFrees
      <3> QED
        BY <3>1, <3>2
    <2>5. Extends(hist, c)
      BY <1>1, <2>2, ExtendsTrans
    <2>6. ASSUME NEW d \in Email, d # e
          PROVE  (\E j \in 1..k : hist[m][uids[j]] = d) <=> \E j \in 1..(k - 1) : hist[m][uids[j]] = d
      BY <1>3, <2>6
    <2>7. \E j \in 1..k : hist[m][uids[j]] = e
      BY <1>3
    <2>8. e \notin doubled => HeldAt(h, m, e) = {} \/ \E i : HeldAt(h, m, e) = {i}
      <3> HAVE e \notin doubled
      <3>1. Filed(hist, member[e], e)
        BY <1>1, <2>1
      <3>2. HeldAt(hist, m, e) = {} \/ \E i : HeldAt(hist, m, e) = {i}
        BY <3>1 DEF Filed
      <3> HIDE DEF e, go
      <3> QED
        BY <1>2, <2>1, <3>2
    <2> HIDE DEF c
    <2>9. ASSUME NEW d \in Email \ doubled, NEW x \in Mailbox
          PROVE  HeldAt(c, x, d) = IF x = m /\ d \in gone /\ \E j \in 1..k : hist[m][uids[j]] = d
                                   THEN {} ELSE HeldAt(hist, x, d)
      <3>1. CASE d = e /\ x = m
        <4>1. HeldAt(c, m, e) = {}
          BY <2>4, <2>8, <3>1
        <4> HIDE DEF e, go
        <4> QED
          BY <2>1, <2>7, <3>1, <4>1
      <3>2. CASE d = e /\ x # m
        BY <1>2, <2>3, <3>2
      <3>3. CASE d # e
        BY <1>2, <2>3, <2>6, <3>3
      <3> QED
        BY <3>1, <3>2, <3>3
    <2>10. ExpungeState(c, k, m, uids, gone)
      BY <2>2, <2>5, <2>9 DEF ExpungeState
    <2> QED
      BY <2>10 DEF c
  <1> QED
    BY <1>4, <1>5

(* The emails an expunge takes out of m, and those it takes out of the store. *)
Gone(m, U) == FetchTarget(m, U) \cap deleted
Dead(m, U) == {e \in Gone(m, U) : member[e] \subseteq {m}}

(* The memberships an expunge leaves. *)
Remaining(m, U) == [e \in Email |-> IF e \in Gone(m, U) THEN member[e] \ {m} ELSE member[e]]

(* UidExpunge keeps the store sound. *)
LEMMA ExpungeKeeps ==
  ASSUME ImapAssumption, StoreOK, NEW m \in Mailbox, NEW U
  PROVE  Kept(Only(order, Live \ Dead(m, U)), Remaining(m, U), deleted \ Dead(m, U),
              Expunged(m, Matched(m, U), Gone(m, U), Dead(m, U)), doubled)
  <1> DEFINE gone == Gone(m, U)
             dead == Dead(m, U)
             uids == Matched(m, U)
             n == Len(uids)
             c == Expunged(m, uids, gone, dead)
             o == Only(order, Live \ dead)
             f == Remaining(m, U)
  <1>0. /\ gone = FetchTarget(m, U) \cap deleted
        /\ dead = {e \in gone : member[e] \subseteq {m}}
        /\ f = [e \in Email |-> IF e \in gone THEN member[e] \ {m} ELSE member[e]]
    BY DEF Gone, Dead, Remaining
  <1> HIDE DEF gone, dead, f
  <1>1. n \in Nat
    BY MatchedUids
  <1>2. /\ order \in Seq(Email) /\ IsInjective(order) /\ member \in [Email -> SUBSET Mailbox]
        /\ deleted \subseteq Live /\ hist \in Histories /\ doubled \subseteq Email
        /\ (\A d \in Email \ Live : member[d] = {})
        /\ \A d \in Email \ doubled : Filed(hist, member[d], d)
    BY DEF StoreOK, Sound, Live
  <1>3. Live \subseteq Email
    BY <1>2 DEF Live, Range
  <1>4. gone \in SUBSET Email /\ gone \subseteq Live
    BY <1>0, <1>3 DEF FetchTarget
  <1>5. PICK g : Expunges(g, m, uids, gone, dead)
    BY <1>1, <1>4, ExpungedUnfolds
  <1>6. /\ g[0] = hist /\ c = g[n]
        /\ \A k \in 1..n : g[k] = ExpungeOne(g[k - 1], m, uids, k, gone, dead)
    BY <1>5 DEF Expunges
  <1> DEFINE T == {k \in 0..n : ExpungeState(g[k], k, m, uids, gone)}
  <1>7. 0 \in T
    <2>1. Extends(hist, hist)
      BY <1>2, ExtendsRefl
    <2> HIDE DEF uids
    <2>2. ExpungeState(g[0], 0, m, uids, gone)
      BY <1>2, <1>6, <2>1 DEF ExpungeState
    <2> QED
      BY <1>1, <2>2
  <1>8. ASSUME NEW k \in 1..n, k - 1 \in T PROVE k \in T
    <2>1. ExpungeState(g[k - 1], k - 1, m, uids, gone) /\ k \in Nat \ {0}
      BY <1>8
    <2>2. ExpungeState(ExpungeOne(g[k - 1], m, uids, k, gone, dead), k, m, uids, gone)
      BY <1>4, <2>1, ExpungeStep
    <2> HIDE DEF uids, n, c
    <2>3. k \in 0..n
      BY <1>1
    <2>4. g[k] = ExpungeOne(g[k - 1], m, uids, k, gone, dead)
      BY <1>6
    <2> QED
      BY <2>2, <2>3, <2>4
  <1>9. ExpungeState(c, n, m, uids, gone)
    <2> HIDE DEF T, n
    <2>1. 0..n \subseteq T
      BY <1>1, <1>7, <1>8, Induct
    <2>2. n \in T
      BY <1>1, <2>1
    <2> QED
      BY <1>6, <2>2 DEF T
  <1>10. \A e \in gone : \E j \in 1..n : hist[m][uids[j]] = e
    <2> SUFFICES ASSUME NEW e \in gone PROVE \E j \in 1..n : hist[m][uids[j]] = e
      OBVIOUS
    <2>1. PICK u \in U \cap 1..Len(hist[m]) : hist[m][u] = e
      BY <1>0 DEF FetchTarget
    <2>2. hist[m][u] # Retired
      BY <1>4, <2>1 DEF ImapAssumption
    <2>3. \A v \in U : v \in 1..Len(hist[m]) /\ hist[m][v] # Retired
                         => \E j \in 1..n : uids[j] = v
      BY MatchedUids
    <2>4. PICK j \in 1..n : uids[j] = u
      BY <2>1, <2>2, <2>3
    <2> QED
      BY <2>1, <2>4
  <1> HIDE DEF c, uids, n
  <1>11. c \in Histories /\ Extends(hist, c)
    BY <1>9 DEF ExpungeState
  <1>12. f \in [Email -> SUBSET Mailbox]
    BY <1>0, <1>2
  <1>13. ASSUME NEW d \in Email \ doubled PROVE Filed(c, f[d], d)
    <2> SUFFICES ASSUME NEW x \in Mailbox
                 PROVE  IF x \in f[d] THEN \E i : HeldAt(c, x, d) = {i} ELSE HeldAt(c, x, d) = {}
      BY DEF Filed
    <2>1. IF x \in member[d] THEN \E i : HeldAt(hist, x, d) = {i} ELSE HeldAt(hist, x, d) = {}
      BY <1>2 DEF Filed
    <2>2. HeldAt(c, x, d) = IF x = m /\ d \in gone /\ \E j \in 1..n : hist[m][uids[j]] = d
                            THEN {} ELSE HeldAt(hist, x, d)
      BY <1>9 DEF ExpungeState
    <2>3. f[d] = IF d \in gone THEN member[d] \ {m} ELSE member[d]
      BY <1>0
    <2>4. CASE x = m /\ d \in gone
      BY <1>10, <2>2, <2>3, <2>4
    <2>5. CASE ~(x = m /\ d \in gone)
      BY <2>1, <2>2, <2>3, <2>5
    <2> QED
      BY <2>4, <2>5
  <1>14. o \in Seq(Email) /\ IsInjective(o) /\ Range(o) = Live \ dead
    BY <1>2, ListingKeeps
  <1>15. \A d \in Email \ Range(o) : f[d] = {}
    <2> SUFFICES ASSUME NEW d \in Email, d \notin Range(o) PROVE f[d] = {}
      OBVIOUS
    <2>1. CASE d \in dead
      BY <1>0, <2>1
    <2>2. CASE d \notin Live
      BY <1>0, <1>2, <1>4, <2>2
    <2> QED
      BY <1>14, <2>1, <2>2
  <1>16. deleted \ dead \subseteq Range(o)
    BY <1>2, <1>14
  <1> HIDE DEF o
  <1>17. Kept(o, f, deleted \ dead, c, doubled)
    BY <1>2, <1>11, <1>12, <1>13, <1>14, <1>15, <1>16 DEF Kept, Sound
  <1> QED
    BY <1>17 DEF o, f, c, uids, gone, dead

-----------------------------------------------------------------------------
(* The steps of the store. *)

(* What Commit makes of the connection and the pushes. *)
CommitFrame ==
    /\ UNCHANGED conn
    /\ \/ steps < MaxSteps /\ steps' = steps + 1 /\ unsent' = unsent + 1
       \/ UNCHANGED <<steps, unsent>>

LEMMA CommitKeeps ==
  ASSUME NEW o, NEW f, NEW h, NEW d, NEW by, Commit(o, f, h, d, by), Kept(o, f, d, h, doubled')
  PROVE  StoreOK' /\ Extends(hist, hist') /\ CommitFrame
  <1>1. order' = o /\ member' = f /\ hist' = h /\ deleted' = d
    BY DEF Commit
  <1>2. StoreOK' /\ Extends(hist, hist')
    BY <1>1 DEF Kept, StoreOK
  <1>3. CommitFrame
    BY DEF Commit, CommitFrame
  <1> QED
    BY <1>2, <1>3

(* Every mutation keeps the store sound, and only adds and retires UIDs. *)
LEMMA MutationKeeps ==
  ASSUME ImapAssumption, StoreOK, Mutation
  PROVE  StoreOK' /\ Extends(hist, hist') /\ CommitFrame /\ doubled \subseteq doubled'
  <1>1. ASSUME NEW by \in {"client", "script"}, NEW e \in Email, NEW M \in SUBSET Mailbox,
               CreateEmail(e, M, by), doubled' = doubled
        PROVE  StoreOK' /\ Extends(hist, hist') /\ CommitFrame
    <2>1. e \notin Live
      BY <1>1 DEF CreateEmail
    <2>2. Kept(Append(order, e), [member EXCEPT ![e] = M], deleted, AssignUid(hist, M, e),
               doubled')
      BY <1>1, <2>1, CreateKeeps
    <2> QED
      BY <1>1, <2>2, CommitKeeps DEF CreateEmail
  <1>2. ASSUME NEW by \in {"client", "script"}, NEW e \in Email, NEW M \in SUBSET Mailbox,
               Refile(e, M, by), doubled' = doubled
        PROVE  StoreOK' /\ Extends(hist, hist') /\ CommitFrame
    <2>1. e \in Live
      BY <1>2 DEF Refile
    <2>2. Kept(order, [member EXCEPT ![e] = M], deleted,
               SyncMailboxUids(hist, e, member[e], M), doubled')
      BY <1>2, <2>1, RefileKeeps
    <2> QED
      BY <1>2, <2>2, CommitKeeps DEF Refile
  <1>3. ASSUME NEW by \in {"client", "script"}, NEW e \in Email,
               DestroyEmail(e, by), doubled' = doubled
        PROVE  StoreOK' /\ Extends(hist, hist') /\ CommitFrame
    <2>1. e \in Live
      BY <1>3 DEF DestroyEmail
    <2>2. Kept(Only(order, Live \ {e}), [member EXCEPT ![e] = {}], deleted \ {e},
               RetireUid(hist, member[e], e), doubled')
      BY <1>3, <2>1, DestroyKeeps
    <2> QED
      BY <1>3, <2>2, CommitKeeps DEF DestroyEmail
  <1>4. ASSUME NEW m \in Mailbox, NEW U, NEW on \in BOOLEAN,
               UidStore(m, U, on), doubled' = doubled
        PROVE  StoreOK' /\ Extends(hist, hist') /\ CommitFrame
    <2>1. Kept(order, member,
               IF on THEN deleted \cup StoreTarget(m, U) ELSE deleted \ StoreTarget(m, U),
               hist, doubled')
      BY <1>4, StoreKeeps
    <2> QED
      BY <1>4, <2>1, CommitKeeps DEF UidStore
  <1>5. ASSUME NEW m \in Mailbox, NEW U, NEW target \in Mailbox,
               UidCopy(m, U, target), doubled' = doubled
        PROVE  StoreOK' /\ Extends(hist, hist') /\ CommitFrame
    <2>1. Kept(order, Copied(m, Matched(m, U), target).member, deleted,
               Copied(m, Matched(m, U), target).hist, doubled')
      BY <1>5, CopyKeeps
    <2> QED
      BY <1>5, <2>1, CommitKeeps DEF UidCopy
  <1>6. ASSUME NEW m \in Mailbox, NEW U, NEW target \in Mailbox, UidMove(m, U, target)
        PROVE  StoreOK' /\ Extends(hist, hist') /\ CommitFrame /\ doubled \subseteq doubled'
    <2>1. doubled' = Redoubled(m, U, target)
      BY <1>6 DEF UidMove, Redoubled
    <2>2. Kept(order, Moved(m, Matched(m, U), target).member, deleted,
               Moved(m, Matched(m, U), target).hist, doubled')
      BY <2>1, MoveKeeps
    <2>3. doubled \subseteq doubled'
      BY <2>1 DEF Redoubled
    <2>4. StoreOK' /\ Extends(hist, hist') /\ CommitFrame
      BY <1>6, <2>2, CommitKeeps DEF UidMove
    <2> QED
      BY <2>3, <2>4
  <1>7. ASSUME NEW m \in Mailbox, NEW U, UidExpunge(m, U), doubled' = doubled
        PROVE  StoreOK' /\ Extends(hist, hist') /\ CommitFrame
    <2>1. Commit(Only(order, Live \ Dead(m, U)), Remaining(m, U),
                 Expunged(m, Matched(m, U), Gone(m, U), Dead(m, U)), deleted \ Dead(m, U), "client")
      BY <1>7 DEF UidExpunge, Gone, Dead, Remaining
    <2>2. Kept(Only(order, Live \ Dead(m, U)), Remaining(m, U), deleted \ Dead(m, U),
               Expunged(m, Matched(m, U), Gone(m, U), Dead(m, U)), doubled')
      BY <1>7, ExpungeKeeps
    <2> QED
      BY <2>1, <2>2, CommitKeeps
  <1> QED
    BY <1>1, <1>2, <1>3, <1>4, <1>5, <1>6, <1>7, Zenon DEF Mutation

(* The loaded fixture is sound. *)
LEMMA InitKeeps ==
  ASSUME ImapAssumption, Init
  PROVE  StoreOK
  <1>1. /\ order = InitialOrder /\ member = InitialMember /\ deleted = {} /\ doubled = {}
        /\ hist = LoadedHistory
    BY DEF Init
  <1>2. /\ InitialOrder \in Seq(Email) /\ IsInjective(InitialOrder)
        /\ InitialMember \in [Email -> SUBSET Mailbox]
        /\ \A e \in Email \ Range(InitialOrder) : InitialMember[e] = {}
    BY DEF ImapAssumption
  <1> DEFINE S(m) == {e \in Email : m \in InitialMember[e]}
  <1>3. ASSUME NEW m \in Mailbox
        PROVE  /\ LoadedHistory[m] \in Seq(Email)
               /\ Range(LoadedHistory[m]) = Range(InitialOrder) \cap S(m)
               /\ IsInjective(LoadedHistory[m])
    <2>1. LoadedHistory[m] = Only(InitialOrder, S(m))
      BY DEF LoadedHistory
    <2> HIDE DEF S
    <2> QED
      BY <1>2, <2>1, OnlyRange, OnlyInjective
  <1>4. hist \in Histories
    <2>1. \A m \in Mailbox : LoadedHistory[m] \in Seq(Email \cup {Retired})
      BY <1>3
    <2>2. LoadedHistory = [m \in Mailbox |-> LoadedHistory[m]]
      BY DEF LoadedHistory
    <2> QED
      BY <1>1, <2>1, <2>2 DEF Histories
  <1>5. ASSUME NEW e \in Email PROVE Filed(hist, member[e], e)
    <2> SUFFICES ASSUME NEW m \in Mailbox
                 PROVE  IF m \in member[e] THEN \E i : HeldAt(hist, m, e) = {i}
                                           ELSE HeldAt(hist, m, e) = {}
      BY DEF Filed
    <2> DEFINE s == LoadedHistory[m]
    <2>1. s \in Seq(Email) /\ Range(s) = Range(InitialOrder) \cap S(m) /\ IsInjective(s)
      BY <1>3
    <2>2. m \in member[e] <=> e \in Range(InitialOrder) \cap S(m)
      BY <1>1, <1>2
    <2>3. HeldAt(hist, m, e) = {i \in 1..Len(s) : s[i] = e}
      BY <1>1 DEF HeldAt
    <2> HIDE DEF s, S
    <2>4. DOMAIN s = 1..Len(s)
      BY <2>1
    <2>5. CASE m \in member[e]
      <3>1. PICK i \in 1..Len(s) : s[i] = e
        BY <2>1, <2>2, <2>4, <2>5 DEF Range
      <3>2. \A j \in 1..Len(s) : s[j] = e => j = i
        BY <2>1, <2>4, <3>1 DEF IsInjective
      <3>3. HeldAt(hist, m, e) = {i}
        BY <2>3, <3>1, <3>2
      <3> QED
        BY <2>5, <3>3
    <2>6. CASE m \notin member[e]
      <3>1. \A i \in 1..Len(s) : s[i] # e
        BY <2>1, <2>2, <2>4, <2>6 DEF Range
      <3> QED
        BY <2>3, <2>6, <3>1
    <2> QED
      BY <2>5, <2>6
  <1> QED
    BY <1>1, <1>2, <1>4, <1>5 DEF StoreOK, Sound

-----------------------------------------------------------------------------
(* What a client makes of the idle updates. *)

LEMMA DropAtType ==
  ASSUME NEW s \in Seq(Nat), NEW n \in Nat \ {0}
  PROVE  DropAt(s, n) \in Seq(Nat)
  <1>1. CASE n <= Len(s)
    <2>1. /\ Len(s) \in Nat /\ n \in Int /\ n - 1 \in Int /\ n + 1 \in Int /\ Len(s) \in Int
          /\ \A i \in 1..(n - 1) : s[i] \in Nat
          /\ \A i \in (n + 1)..Len(s) : s[i] \in Nat
      BY <1>1
    <2>3. SubSeq(s, 1, n - 1) \in Seq(Nat)
      BY <2>1, SubSeqProperties
    <2>4. SubSeq(s, n + 1, Len(s)) \in Seq(Nat)
      BY <2>1, SubSeqProperties
    <2>2. DropAt(s, n) = SubSeq(s, 1, n - 1) \o SubSeq(s, n + 1, Len(s))
      BY <1>1 DEF DropAt, RemoveAt
    <2> QED
      BY <2>2, <2>3, <2>4, ConcatProperties
  <1>2. CASE ~(n <= Len(s))
    BY <1>2 DEF DropAt
  <1> QED
    BY <1>1, <1>2

(* An EXPUNGE takes one UID out of a rising view. *)
LEMMA DropAtRemoves ==
  ASSUME NEW s \in Seq(Nat), Rising(s), NEW n \in 1..Len(s)
  PROVE  /\ DropAt(s, n) \in Seq(Nat) /\ Rising(DropAt(s, n))
         /\ Range(DropAt(s, n)) = Range(s) \ {s[n]}
         /\ Len(DropAt(s, n)) = Len(s) - 1
         /\ \A i \in 1..(n - 1) : DropAt(s, n)[i] = s[i]
  <1> DEFINE a == SubSeq(s, 1, n - 1)
             b == SubSeq(s, n + 1, Len(s))
             t == a \o b
             l == Len(s)
  <1>1. DropAt(s, n) = t /\ l \in Nat /\ DOMAIN s = 1..l /\ n \in 1..l
    <2>1. l \in Nat /\ DOMAIN s = 1..l /\ n \in 1..l /\ n <= Len(s)
      OBVIOUS
    <2>2. DropAt(s, n) = t
      BY <2>1, Zenon DEF DropAt, RemoveAt
    <2> QED
      BY <2>1, <2>2
  <1>2. a \in Seq(Nat) /\ Len(a) = n - 1 /\ \A i \in 1..(n - 1) : a[i] = s[i]
    OBVIOUS
  <1>3. b \in Seq(Nat) /\ Len(b) = l - n /\ \A i \in 1..(l - n) : b[i] = s[i + n]
    <2>1. \A i \in (n + 1)..l : s[i] \in Nat
      BY <1>1
    <2>2. b \in Seq(Nat) /\ Len(b) = IF n + 1 <= l THEN l - (n + 1) + 1 ELSE 0
      BY <1>1, <2>1, SubSeqProperties
    <2>3. \A i \in 1..(l - (n + 1) + 1) : b[i] = s[n + 1 + i - 1]
      BY <1>1, <2>1, SubSeqProperties
    <2> HIDE DEF b
    <2>4. \A i \in 1..(l - n) : n + 1 + i - 1 = i + n /\ i \in 1..(l - (n + 1) + 1)
      BY <1>1
    <2>5. \A i \in 1..(l - n) : b[i] = s[i + n]
      BY <2>3, <2>4
    <2>6. Len(b) = l - n
      <3> HIDE DEF l
      <3> QED
        BY <1>1, <2>2
    <2> QED
      BY <2>2, <2>5, <2>6
  <1> HIDE DEF a, b
  <1>4. /\ t \in Seq(Nat) /\ Len(t) = l - 1
        /\ \A i \in 1..(l - 1) : t[i] = IF i < n THEN s[i] ELSE s[i + 1]
    <2>1. /\ t \in Seq(Nat) /\ Len(t) = Len(a) + Len(b)
          /\ \A i \in 1..(Len(a) + Len(b)) : t[i] = IF i <= Len(a) THEN a[i] ELSE b[i - Len(a)]
      BY <1>2, <1>3, ConcatProperties
    <2>2. Len(a) + Len(b) = l - 1
      BY <1>1, <1>2, <1>3
    <2> HIDE DEF t
    <2>3. ASSUME NEW i \in 1..(l - 1) PROVE t[i] = IF i < n THEN s[i] ELSE s[i + 1]
      <3>1. CASE i < n
        <4>1. i \in 1..(n - 1) /\ i <= Len(a)
          BY <1>1, <1>2, <3>1
        <4> QED
          BY <1>2, <2>1, <2>2, <3>1, <4>1
      <3>2. CASE ~(i < n)
        <4>1. i - Len(a) \in 1..(l - n) /\ ~(i <= Len(a)) /\ (i - Len(a)) + n = i + 1
          BY <1>1, <1>2, <3>2
        <4>2. t[i] = b[i - Len(a)]
          BY <2>1, <2>2, <4>1
        <4>3. b[i - Len(a)] = s[(i - Len(a)) + n]
          BY <1>3, <4>1
        <4> QED
          BY <3>2, <4>1, <4>2, <4>3
      <3> QED
        BY <3>1, <3>2
    <2> QED
      BY <2>1, <2>2, <2>3
  <1> HIDE DEF t
  <1>5. DOMAIN t = 1..(l - 1)
    BY <1>4
  <1> HIDE DEF l
  <1>6. Rising(t)
    <2> SUFFICES ASSUME NEW i \in 1..(l - 1), NEW j \in 1..(l - 1), i < j
                 PROVE  t[i] < t[j]
      BY <1>5 DEF Rising
    <2>1. i \in 1..l /\ j \in 1..l /\ i + 1 \in 1..l /\ j + 1 \in 1..l /\ i + 1 < j + 1 /\ i < j + 1
      BY <1>1
    <2>2. s[i] < s[j] /\ s[i] < s[j + 1] /\ s[i + 1] < s[j + 1]
      BY <1>1, <2>1 DEF Rising
    <2>3. j < n => i < n
      BY <1>1
    <2> QED
      BY <1>4, <2>2, <2>3
  <1>7. Range(t) = Range(s) \ {s[n]}
    <2>1. ASSUME NEW i \in 1..(l - 1) PROVE t[i] \in Range(s) \ {s[n]}
      <3>1. i \in 1..l /\ i + 1 \in 1..l /\ (i < n => i # n) /\ (~(i < n) => i + 1 # n)
        BY <1>1
      <3>2. (i # n => s[i] # s[n]) /\ (i + 1 # n => s[i + 1] # s[n])
        BY <1>1, <3>1, RisingOrder DEF l
      <3> QED
        BY <1>1, <1>4, <3>1, <3>2 DEF Range
    <2>2. ASSUME NEW i \in 1..l, i # n PROVE s[i] \in Range(t)
      <3>1. CASE i < n
        <4>1. i \in 1..(l - 1)
          BY <1>1, <3>1
        <4>2. t[i] = s[i]
          BY <1>4, <3>1, <4>1
        <4> QED
          BY <1>5, <4>1, <4>2 DEF Range
      <3>2. CASE ~(i < n)
        <4>1. i - 1 \in 1..(l - 1) /\ ~(i - 1 < n) /\ (i - 1) + 1 = i
          BY <1>1, <2>2, <3>2
        <4>2. t[i - 1] = s[i]
          BY <1>4, <4>1
        <4> QED
          BY <1>5, <4>1, <4>2 DEF Range
      <3> QED
        BY <3>1, <3>2
    <2> QED
      BY <1>1, <1>5, <2>1, <2>2 DEF Range
  <1>8. \A i \in 1..(n - 1) : t[i] = s[i]
    <2>1. \A i \in 1..(n - 1) : i \in 1..(l - 1) /\ i < n
      BY <1>1
    <2> QED
      BY <1>4, <2>1
  <1> QED
    BY <1>1, <1>4, <1>6, <1>7, <1>8 DEF l

(* The EXPUNGE responses name the positions that went, highest first. *)
LEMMA SeqsFall ==
  ASSUME NEW old \in Seq(Nat), NEW new \in Seq(Nat)
  PROVE  /\ Len(ExpungedSeqs(old, new)) \in Nat
         /\ \A k \in 1..Len(ExpungedSeqs(old, new)) :
               /\ ExpungedSeqs(old, new)[k] \in 1..Len(old)
               /\ old[ExpungedSeqs(old, new)[k]] \notin Range(new)
         /\ \A j, k \in 1..Len(ExpungedSeqs(old, new)) :
               j < k => ExpungedSeqs(old, new)[k] < ExpungedSeqs(old, new)[j]
         /\ \A i \in 1..Len(old) : old[i] \notin Range(new) =>
               \E k \in 1..Len(ExpungedSeqs(old, new)) : ExpungedSeqs(old, new)[k] = i
  <1> DEFINE G == {i \in 1..Len(old) : old[i] \notin Range(new)}
             t == Only(UpTo(Len(old)), G)
             r == ExpungedSeqs(old, new)
             n == Len(t)
  <1>1. Len(old) \in Nat
    OBVIOUS
  <1>2. t \in Seq(1..Len(old)) /\ Rising(t) /\ Range(t) = (1..Len(old)) \cap G
    BY <1>1, UidsRise
  <1>3. r = Reverse(t)
    BY DEF ExpungedSeqs
  <1> HIDE DEF t, r
  <1>4. n \in Nat /\ DOMAIN t = 1..n /\ \A k \in 1..n : t[k] \in 1..Len(old)
    BY <1>2
  <1>5. Len(r) = n /\ \A k \in 1..n : r[k] = t[(n - k) + 1]
    BY <1>3, <1>4 DEF Reverse
  <1> HIDE DEF n
  <1>6. \A k \in 1..n : (n - k) + 1 \in 1..n /\ (n - ((n - k) + 1)) + 1 = k
    BY <1>4
  <1>7. \A k \in 1..n : t[k] \in G
    BY <1>2, <1>4 DEF Range
  <1>8. \A k \in 1..n : r[k] \in 1..Len(old) /\ old[r[k]] \notin Range(new)
    BY <1>5, <1>6, <1>7
  <1>9. ASSUME NEW j \in 1..n, NEW k \in 1..n, j < k PROVE r[k] < r[j]
    <2>1. (n - k) + 1 < (n - j) + 1
      BY <1>4, <1>9
    <2>2. t[(n - k) + 1] < t[(n - j) + 1]
      BY <1>2, <1>4, <1>6, <2>1 DEF Rising
    <2> QED
      BY <1>5, <2>2
  <1>10. ASSUME NEW i \in 1..Len(old), old[i] \notin Range(new) PROVE \E k \in 1..n : r[k] = i
    <2>1. i \in Range(t)
      BY <1>2, <1>10
    <2>2. PICK k \in 1..n : t[k] = i
      BY <1>4, <2>1 DEF Range
    <2>3. r[(n - k) + 1] = i
      BY <1>5, <1>6, <2>2
    <2> QED
      BY <1>6, <2>3
  <1> QED
    BY <1>4, <1>5, <1>8, <1>9, <1>10 DEF r

(* f[k] is the view v after the first k EXPUNGE responses. *)
Drops(f, v, seqs) ==
    /\ f \in [0..Len(seqs) -> Seq(Nat)] /\ f[0] = v
    /\ \A k \in 1..Len(seqs) : f[k] = DropAt(f[k - 1], seqs[k])

(* The responses with the view they leave. *)
Extended(kept, exists, new) ==
    IF exists > Len(kept) THEN kept \o SubSeq(new, Len(kept) + 1, exists) ELSE kept

LEMMA ApplyUnfolds ==
  ASSUME NEW v \in Seq(Nat), NEW seqs, Len(seqs) \in Nat,
         \A k \in 1..Len(seqs) : seqs[k] \in Nat \ {0}, NEW exists, NEW new
  PROVE  \E f : Drops(f, v, seqs) /\ Apply(v, seqs, exists, new) = Extended(f[Len(seqs)], exists, new)
  <1> DEFINE n == Len(seqs)
             D == Seq(Nat)
             g == [p \in D \X (1..n) |-> DropAt(p[1], seqs[p[2]])]
             f == CHOOSE left : left = [k \in 0..n |-> IF k = 0 THEN v
                     ELSE DropAt(left[k - 1], seqs[k])]
  <1>1. Apply(v, seqs, exists, new) = Extended(f[n], exists, new)
    BY DEF Apply, Extended
  <1>2. v \in D /\ n \in Nat /\ \A x \in D : \A k \in 1..n : DropAt(x, seqs[k]) \in D
    BY DropAtType
  <1> HIDE DEF D, n
  <1>4. g \in [D \X (1..n) -> D]
    BY <1>2
  <1>5. PICK h : Built(h, n, D, v, g)
    <2> HIDE DEF g
    <2> QED
      BY <1>2, <1>4, Recursion
  <1>6. ASSUME NEW k \in 1..n PROVE h[k] = DropAt(h[k - 1], seqs[k])
    <2>1. h[k] = g[<<h[k - 1], k>>]
      BY <1>5 DEF Built
    <2>2. k - 1 \in 0..n
      BY <1>2
    <2>3. <<h[k - 1], k>> \in D \X (1..n)
      BY <1>5, <2>2 DEF Built
    <2> QED
      BY <2>1, <2>3
  <1>7. h = [k \in 0..n |-> IF k = 0 THEN v ELSE DropAt(h[k - 1], seqs[k])]
    <2>1. \A k \in 0..n : k # 0 => k \in 1..n
      BY <1>2
    <2> QED
      BY <1>5, <1>6, <2>1 DEF Built
  <1>8. f = [k \in 0..n |-> IF k = 0 THEN v ELSE DropAt(f[k - 1], seqs[k])]
    BY <1>7
  <1> HIDE DEF f
  <1>9. 0 \in 0..n /\ DOMAIN f = 0..n /\ f = [k \in 0..n |-> f[k]]
    BY <1>2, <1>8
  <1>10. f[0] = v
    BY <1>8, <1>9
  <1>11. ASSUME NEW k \in 1..n PROVE f[k] = DropAt(f[k - 1], seqs[k])
    <2>1. k \in 0..n /\ k # 0
      BY <1>2
    <2> QED
      BY <1>8, <2>1
  <1>12. \A k \in 0..n : f[k] \in D
    <2>1. \A k \in 1..n : f[k - 1] \in D => f[k] \in D
      BY <1>2, <1>11
    <2> QED
      BY <1>2, <1>10, <2>1, Stays
  <1>13. Drops(f, v, seqs)
    BY <1>9, <1>10, <1>11, <1>12 DEF Drops, n, D
  <1> QED
    BY <1>1, <1>13 DEF n

(* After the first k EXPUNGE responses: what went is gone, and the positions below
   the last one named are as they were. *)
DropState(s, k, old, seqs) ==
    /\ s \in Seq(Nat) /\ Rising(s)
    /\ Range(s) = Range(old) \ {old[seqs[j]] : j \in 1..k}
    /\ \A i \in 1..Len(old) : (\A j \in 1..k : i < seqs[j]) => i <= Len(s) /\ s[i] = old[i]

LEMMA DropStep ==
  ASSUME NEW old \in Seq(Nat), NEW new \in Seq(Nat),
         NEW k \in 1..Len(ExpungedSeqs(old, new)),
         NEW s, DropState(s, k - 1, old, ExpungedSeqs(old, new))
  PROVE  DropState(DropAt(s, ExpungedSeqs(old, new)[k]), k, old, ExpungedSeqs(old, new))
  <1> DEFINE seqs == ExpungedSeqs(old, new)
             n == seqs[k]
             t == DropAt(s, n)
             l == Len(old)
  <1>1. /\ Len(seqs) \in Nat
        /\ \A j \in 1..Len(seqs) : seqs[j] \in 1..l
        /\ \A i, j \in 1..Len(seqs) : i < j => seqs[j] < seqs[i]
    BY SeqsFall
  <1> HIDE DEF seqs
  <1>2. /\ s \in Seq(Nat) /\ Rising(s) /\ Range(s) = Range(old) \ {old[seqs[j]] : j \in 1..(k - 1)}
        /\ \A i \in 1..l : (\A j \in 1..(k - 1) : i < seqs[j]) => i <= Len(s) /\ s[i] = old[i]
    BY DEF DropState, seqs
  <1>3. /\ k \in 1..Len(seqs) /\ \A j \in 1..(k - 1) : j \in 1..Len(seqs) /\ j < k
    BY DEF seqs
  <1>4. n \in 1..l /\ \A j \in 1..(k - 1) : n < seqs[j]
    BY <1>1, <1>3
  <1>5. n <= Len(s) /\ s[n] = old[n]
    BY <1>2, <1>4
  <1> HIDE DEF l
  <1>6. n \in 1..Len(s) /\ l \in Nat /\ Len(s) \in Nat
    BY <1>2, <1>4, <1>5 DEF l
  <1>7. /\ t \in Seq(Nat) /\ Rising(t) /\ Range(t) = Range(s) \ {s[n]} /\ Len(t) = Len(s) - 1
        /\ \A i \in 1..(n - 1) : t[i] = s[i]
    BY <1>2, <1>6, DropAtRemoves
  <1>8. \A j \in 1..k : j # k => j \in 1..(k - 1)
    BY <1>1, <1>3
  <1>9. \A j \in 1..(k - 1) : j \in 1..k
    BY <1>1, <1>3
  <1>10. k \in 1..k
    BY <1>1, <1>3
  <1> HIDE DEF t
  <1>11. Range(t) = Range(old) \ {old[seqs[j]] : j \in 1..k}
    <2>1. {old[seqs[j]] : j \in 1..k} = {old[seqs[j]] : j \in 1..(k - 1)} \cup {old[n]}
      BY <1>8, <1>9, <1>10
    <2> HIDE DEF n
    <2> QED
      BY <1>2, <1>5, <1>7, <2>1
  <1>12. ASSUME NEW i \in 1..l, \A j \in 1..k : i < seqs[j] PROVE i <= Len(t) /\ t[i] = old[i]
    <2>1. i < n
      BY <1>10, <1>12
    <2>2. \A j \in 1..(k - 1) : i < seqs[j]
      BY <1>9, <1>12
    <2>3. s[i] = old[i]
      BY <1>2, <2>2
    <2> HIDE DEF n
    <2>4. i \in 1..(n - 1) /\ i <= Len(s) - 1
      BY <1>6, <2>1
    <2> QED
      BY <1>7, <2>3, <2>4
  <1>13. DropState(t, k, old, seqs)
    BY <1>7, <1>11, <1>12 DEF DropState, l
  <1> QED
    BY <1>13 DEF t, n, seqs

(* The EXPUNGE responses leave what is in the old and in the new view. *)
LEMMA DropsExact ==
  ASSUME NEW old \in Seq(Nat), Rising(old), NEW new \in Seq(Nat), NEW f,
         Drops(f, old, ExpungedSeqs(old, new))
  PROVE  /\ f[Len(ExpungedSeqs(old, new))] \in Seq(Nat) /\ Rising(f[Len(ExpungedSeqs(old, new))])
         /\ Range(f[Len(ExpungedSeqs(old, new))]) = Range(old) \cap Range(new)
  <1> DEFINE seqs == ExpungedSeqs(old, new)
             n == Len(seqs)
             T == {k \in 0..n : DropState(f[k], k, old, seqs)}
             l == Len(old)
  <1>1. /\ n \in Nat
        /\ \A k \in 1..n : seqs[k] \in 1..l /\ old[seqs[k]] \notin Range(new)
        /\ \A i \in 1..l : old[i] \notin Range(new) => \E k \in 1..n : seqs[k] = i
    BY SeqsFall
  <1>2. f[0] = old /\ \A k \in 1..n : f[k] = DropAt(f[k - 1], seqs[k])
    BY DEF Drops
  <1>3. 0 \in T
    <2> HIDE DEF seqs
    <2>1. /\ {old[seqs[j]] : j \in 1..0} = {}
          /\ \A i \in 1..l : i <= Len(old)
      OBVIOUS
    <2>2. DropState(old, 0, old, seqs)
      BY <2>1 DEF DropState
    <2> QED
      BY <1>1, <1>2, <2>2
  <1>4. ASSUME NEW k \in 1..n, k - 1 \in T PROVE k \in T
    <2>1. DropState(f[k - 1], k - 1, old, seqs)
      BY <1>4
    <2>2. DropState(DropAt(f[k - 1], seqs[k]), k, old, seqs)
      BY <2>1, DropStep
    <2>3. k \in 0..n
      BY <1>1
    <2> HIDE DEF seqs, n
    <2>4. f[k] = DropAt(f[k - 1], seqs[k])
      BY <1>2
    <2> QED
      BY <2>2, <2>3, <2>4
  <1> HIDE DEF T, n
  <1>5. n \in T
    <2>1. 0..n \subseteq T
      BY <1>1, <1>3, <1>4, Induct
    <2> QED
      BY <1>1, <2>1
  <1>6. /\ f[n] \in Seq(Nat) /\ Rising(f[n])
        /\ Range(f[n]) = Range(old) \ {old[seqs[j]] : j \in 1..n}
    BY <1>5 DEF T, DropState
  <1>7. Range(old) \ {old[seqs[j]] : j \in 1..n} = Range(old) \cap Range(new)
    <2>1. DOMAIN old = 1..l
      OBVIOUS
    <2> HIDE DEF seqs, l
    <2>2. ASSUME NEW i \in 1..l, old[i] \notin Range(new)
          PROVE  old[i] \in {old[seqs[j]] : j \in 1..n}
      BY <1>1, <2>2
    <2>3. \A x \in {old[seqs[j]] : j \in 1..n} : x \notin Range(new)
      BY <1>1
    <2>4. \A x \in Range(old) : \E i \in 1..l : x = old[i]
      BY <2>1 DEF Range
    <2> QED
      BY <2>2, <2>3, <2>4
  <1> QED
    BY <1>6, <1>7 DEF n, seqs

(* A client that applies the updates to the old view has the new one, when what is
   new lies above all that is old. *)
LEMMA ApplyExact ==
  ASSUME NEW old \in Seq(Nat), Rising(old), NEW new \in Seq(Nat), Rising(new),
         \A u \in Range(new) \ Range(old) : \A v \in Range(old) : v < u
  PROVE  Apply(old, ExpungedSeqs(old, new), Exists(old, new), new) = new
  <1> DEFINE seqs == ExpungedSeqs(old, new)
             ex == Exists(old, new)
  <1>1. Len(seqs) \in Nat /\ \A k \in 1..Len(seqs) : seqs[k] \in Nat \ {0}
    <2>1. Len(old) \in Nat /\ \A i \in 1..Len(old) : i \in Nat \ {0}
      OBVIOUS
    <2> QED
      BY <2>1, SeqsFall
  <1>2. PICK f : Drops(f, old, seqs) /\ Apply(old, seqs, ex, new) = Extended(f[Len(seqs)], ex, new)
    <2> HIDE DEF seqs, ex
    <2> QED
      BY <1>1, ApplyUnfolds
  <1> DEFINE kept == f[Len(seqs)]
             n == Len(kept)
  <1>3. kept \in Seq(Nat) /\ Rising(kept) /\ Range(kept) = Range(old) \cap Range(new)
    BY <1>2, DropsExact
  <1> HIDE DEF kept
  <1>4. n <= Len(new) /\ \A i \in 1..n : new[i] = kept[i]
    BY <1>3, RisingPrefix
  <1>5. n \in Nat /\ Len(new) \in Nat /\ DOMAIN new = 1..Len(new) /\ DOMAIN kept = 1..n
    BY <1>3
  <1> HIDE DEF n
  <1>6. CASE n = Len(new)
    <2>1. kept = new
      BY <1>3, <1>4, <1>6, SeqEqual DEF n
    <2>2. ~(ex > Len(kept))
      BY <1>5, <1>6 DEF Exists, n
    <2> QED
      BY <1>2, <2>1, <2>2 DEF Extended, kept
  <1>7. CASE n < Len(new)
    <2>1. ~(Range(new) \subseteq Range(old))
      <3> SUFFICES ASSUME Range(new) \subseteq Range(old) PROVE FALSE
        OBVIOUS
      <3>1. Range(new) \subseteq Range(kept)
        BY <1>3
      <3>2. n + 1 \in 1..Len(new)
        BY <1>5, <1>7
      <3>3. new[n + 1] \in Range(kept)
        BY <1>5, <3>1, <3>2 DEF Range
      <3>4. PICK i \in 1..n : kept[i] = new[n + 1]
        BY <1>5, <3>3 DEF Range
      <3>5. i \in 1..Len(new) /\ i # n + 1
        BY <1>5, <1>7
      <3>6. new[i] = new[n + 1]
        BY <1>4, <3>4
      <3> QED
        BY <3>2, <3>5, <3>6, RisingOrder
    <2>2. ex = Len(new)
      BY <2>1 DEF Exists
    <2> DEFINE b == SubSeq(new, n + 1, Len(new))
    <2>3. /\ b \in Seq(Nat) /\ Len(b) = IF n + 1 <= Len(new) THEN Len(new) - (n + 1) + 1 ELSE 0
          /\ \A i \in 1..(Len(new) - (n + 1) + 1) : b[i] = new[(n + 1) + i - 1]
      <3>1. n + 1 \in Int /\ Len(new) \in Int /\ \A i \in (n + 1)..Len(new) : new[i] \in Nat
        BY <1>5
      <3> QED
        BY <3>1, SubSeqProperties
    <2> HIDE DEF b
    <2>4. Len(b) = Len(new) - n
      <3>1. n + 1 <= Len(new) /\ Len(new) - (n + 1) + 1 = Len(new) - n
        BY <1>5, <1>7
      <3> QED
        BY <2>3, <3>1
    <2>5. \A i \in 1..(Len(new) - n) : b[i] = new[n + i]
      <3>1. \A i \in 1..(Len(new) - n) : i \in 1..(Len(new) - (n + 1) + 1) /\ (n + 1) + i - 1 = n + i
        BY <1>5
      <3> QED
        BY <2>3, <3>1
    <2> DEFINE t == kept \o b
    <2>6. /\ t \in Seq(Nat) /\ Len(t) = n + Len(b)
          /\ \A i \in 1..(n + Len(b)) : t[i] = IF i <= n THEN kept[i] ELSE b[i - n]
      BY <1>3, <2>3, ConcatProperties DEF n
    <2> HIDE DEF t
    <2>7. Len(t) = Len(new)
      BY <1>5, <2>4, <2>6
    <2>8. ASSUME NEW i \in 1..Len(new) PROVE t[i] = new[i]
      <3>1. t[i] = IF i <= n THEN kept[i] ELSE b[i - n]
        BY <2>6, <2>7
      <3>2. CASE i <= n
        <4>1. i \in 1..n
          BY <1>5, <3>2
        <4> QED
          BY <1>4, <3>1, <3>2, <4>1
      <3>3. CASE ~(i <= n)
        <4>1. i - n \in 1..(Len(new) - n) /\ n + (i - n) = i
          BY <1>5, <3>3
        <4>2. b[i - n] = new[n + (i - n)]
          BY <2>5, <4>1
        <4> QED
          BY <3>1, <3>3, <4>1, <4>2
      <3> QED
        BY <3>2, <3>3
    <2>9. t = new
      BY <2>6, <2>7, <2>8, SeqEqual
    <2>10. ex > Len(kept)
      BY <1>5, <1>7, <2>2 DEF n
    <2>11. Apply(old, seqs, ex, new) = t
      <3> HIDE DEF seqs, ex
      <3>1. Extended(kept, ex, new) = kept \o SubSeq(new, Len(kept) + 1, Len(new))
        BY <2>2, <2>10 DEF Extended
      <3> QED
        BY <1>2, <3>1 DEF kept, t, b, n
    <2> QED
      BY <2>9, <2>11
  <1>8. n = Len(new) \/ n < Len(new)
    <2>1. n \in Nat /\ Len(new) \in Nat
      BY <1>5
    <2>2. n <= Len(new)
      BY <1>4
    <2> QED
      BY <2>1, <2>2
  <1> QED
    BY <1>6, <1>7, <1>8

-----------------------------------------------------------------------------
(* The invariant. *)

ConnOK ==
    /\ phase \in {"selected", "starting", "idling"}
    /\ wakes \in Nat /\ unsent \in Nat /\ steps \in Nat
    /\ wakes + unsent <= steps /\ steps <= MaxSteps
    /\ seen \in 0..steps

(* What an idling client was told reads in UID order, and what it was not told yet
   lies above all of it. *)
IdleOK ==
    phase = "idling" /\ doubled = {} =>
        /\ last \in Seq(1..Len(hist[Selected])) /\ Rising(last)
        /\ \A u \in 1..Len(hist[Selected]) :
              hist[Selected][u] \in Live /\ u \notin Range(last)
                => \A v \in Range(last) : v < u
        /\ synced => view = last

IInv == StoreOK /\ ConnOK /\ IdleOK /\ NoLostWake

(* What UID FETCH shows, in UID order. *)
LEMMA LiveUidsRise ==
  ASSUME hist \in Histories, NEW m \in Mailbox
  PROVE  /\ LiveUids(order, hist, m) \in Seq(1..Len(hist[m]))
         /\ Rising(LiveUids(order, hist, m))
         /\ Range(LiveUids(order, hist, m)) = {u \in 1..Len(hist[m]) : hist[m][u] \in Live}
  <1> DEFINE n == Len(hist[m])
             S == {i \in 1..n : hist[m][i] \in Live}
  <1>1. n \in Nat
    BY HistoryType
  <1>2. LiveUids(order, hist, m) = Only(UpTo(n), S)
    BY DEF LiveUids, UidsOf, Live
  <1>3. (1..n) \cap S = S
    OBVIOUS
  <1> HIDE DEF n, S
  <1>4. /\ Only(UpTo(n), S) \in Seq(1..n) /\ Rising(Only(UpTo(n), S))
        /\ Range(Only(UpTo(n), S)) = (1..n) \cap S
    BY <1>1, UidsRise
  <1> QED
    BY <1>2, <1>3, <1>4 DEF n, S

(* The slots of a mailbox hold live emails, doubled emails or nothing. *)
LEMMA SlotsHold ==
  ASSUME StoreOK, NEW m \in Mailbox, NEW i \in 1..Len(hist[m])
  PROVE  \/ hist[m][i] = Retired
         \/ hist[m][i] \in Live
         \/ hist[m][i] \in doubled \ Live
  <1>1. hist[m][i] \in Email \cup {Retired}
    BY HistoryType DEF StoreOK, Sound
  <1>2. CASE hist[m][i] \in Email /\ hist[m][i] \notin Live /\ hist[m][i] \notin doubled
    <2> DEFINE e == hist[m][i]
    <2>1. Filed(hist, member[e], e) /\ member[e] = {}
      BY <1>2 DEF StoreOK, Sound, Live
    <2>2. i \in HeldAt(hist, m, e)
      BY DEF HeldAt
    <2>3. HeldAt(hist, m, e) = {}
      BY <2>1 DEF Filed
    <2> QED
      BY <2>2, <2>3
  <1> QED
    BY <1>1, <1>2

(* Init establishes the invariant. *)
LEMMA InitIInv ==
  ASSUME ImapAssumption, Init
  PROVE  IInv
  <1>1. StoreOK
    BY InitKeeps
  <1>2. ConnOK
    BY DEF Init, ConnOK, ImapAssumption
  <1>3. IdleOK /\ NoLostWake
    BY DEF Init, IdleOK, NoLostWake
  <1> QED
    BY <1>1, <1>2, <1>3 DEF IInv

(* A mutation leaves what an idling client was told below what it was not. *)
LEMMA MutationIdle ==
  ASSUME ImapAssumption, StoreOK, IdleOK, StoreOK', Extends(hist, hist'), UNCHANGED conn,
         doubled \subseteq doubled'
  PROVE  IdleOK'
  <1> SUFFICES ASSUME phase = "idling", doubled' = {}
               PROVE  /\ last \in Seq(1..Len(hist'[Selected])) /\ Rising(last)
                      /\ \A u \in 1..Len(hist'[Selected]) :
                            hist'[Selected][u] \in Live' /\ u \notin Range(last)
                              => \A v \in Range(last) : v < u
                      /\ synced => view = last
    BY DEF IdleOK, conn
  <1>1. /\ last \in Seq(1..Len(hist[Selected])) /\ Rising(last) /\ (synced => view = last)
        /\ doubled = {}
        /\ \A u \in 1..Len(hist[Selected]) :
              hist[Selected][u] \in Live /\ u \notin Range(last)
                => \A v \in Range(last) : v < u
    BY DEF IdleOK
  <1>2. /\ Selected \in Mailbox /\ hist \in Histories /\ hist' \in Histories
        /\ Retired \notin Email /\ Live' \subseteq Email
    BY DEF ImapAssumption, StoreOK, Sound, Live, Range
  <1> DEFINE n == Len(hist[Selected])
             n2 == Len(hist'[Selected])
  <1>3. n \in Nat /\ n2 \in Nat
    BY <1>2, HistoryType
  <1>4. n2 >= n /\ \A i \in 1..n : hist'[Selected][i] \in {hist[Selected][i], Retired}
    BY <1>2 DEF Extends
  <1>5. \A v \in Range(last) : v \in 1..n
    BY <1>1 DEF Range
  <1>6. \A i \in 1..n : \/ hist[Selected][i] = Retired
                        \/ hist[Selected][i] \in Live
                        \/ hist[Selected][i] \in doubled \ Live
    BY <1>2, SlotsHold
  <1>7. last \in Seq(1..n)
    BY <1>1
  <1> HIDE DEF n, n2
  <1>8. last \in Seq(1..n2)
    <2>1. 1..n \subseteq 1..n2
      BY <1>3, <1>4
    <2> QED
      BY <1>7, <2>1, SeqMonotonic
  <1>9. ASSUME NEW u \in 1..n2, hist'[Selected][u] \in Live', u \notin Range(last),
               NEW v \in Range(last)
        PROVE  v < u
    <2>1. CASE u \in 1..n
      <3>1. hist[Selected][u] # Retired
        BY <1>2, <1>4, <1>9, <2>1
      <3>2. hist[Selected][u] \in Live
        BY <1>1, <1>6, <2>1, <3>1
      <3> QED
        BY <1>1, <1>9, <2>1, <3>2 DEF n
    <2>2. CASE u \notin 1..n
      BY <1>3, <1>5, <2>2
    <2> QED
      BY <2>1, <2>2
  <1> QED
    BY <1>1, <1>8, <1>9 DEF n2

(* A wake brings an idling client that knew the mailbox up to the server. *)
LEMMA WakeExact ==
  ASSUME ImapAssumption, StoreOK, IdleOK, phase = "idling", doubled = {}, synced
  PROVE  Apply(view, ExpungedSeqs(last, LiveUids(order, hist, Selected)),
               Exists(last, LiveUids(order, hist, Selected)),
               LiveUids(order, hist, Selected)) = LiveUids(order, hist, Selected)
  <1> DEFINE new == LiveUids(order, hist, Selected)
             n == Len(hist[Selected])
  <1>1. Selected \in Mailbox /\ hist \in Histories
    BY DEF ImapAssumption, StoreOK, Sound
  <1>2. /\ new \in Seq(1..n) /\ Rising(new)
        /\ Range(new) = {u \in 1..n : hist[Selected][u] \in Live}
    BY <1>1, LiveUidsRise
  <1>3. /\ last \in Seq(1..n) /\ Rising(last) /\ view = last
        /\ \A u \in 1..n : hist[Selected][u] \in Live /\ u \notin Range(last)
                => \A v \in Range(last) : v < u
    BY DEF IdleOK
  <1>4. 1..n \subseteq Nat
    OBVIOUS
  <1> HIDE DEF new, n
  <1>5. new \in Seq(Nat) /\ last \in Seq(Nat)
    BY <1>2, <1>3, <1>4, SeqMonotonic
  <1>6. \A u \in Range(new) \ Range(last) : \A v \in Range(last) : v < u
    BY <1>2, <1>3
  <1>7. Apply(last, ExpungedSeqs(last, new), Exists(last, new), new) = new
    BY <1>2, <1>3, <1>5, <1>6, ApplyExact
  <1> QED
    BY <1>3, <1>7 DEF new

(* A fresh reading of the mailbox is one an idling client can be told from. *)
LEMMA ReadingOK ==
  ASSUME ImapAssumption, StoreOK, last' = LiveUids(order, hist, Selected), UNCHANGED store,
         synced' /\ doubled = {} => view' = last'
  PROVE  IdleOK'
  <1>1. Selected \in Mailbox /\ hist \in Histories
    BY DEF ImapAssumption, StoreOK, Sound
  <1>2. /\ last' \in Seq(1..Len(hist[Selected])) /\ Rising(last')
        /\ Range(last') = {u \in 1..Len(hist[Selected]) : hist[Selected][u] \in Live}
    BY <1>1, LiveUidsRise
  <1>3. hist' = hist /\ Live' = Live /\ doubled' = doubled
    BY DEF store, Live
  <1>4. \A u \in 1..Len(hist[Selected]) :
           hist[Selected][u] \in Live /\ u \notin Range(last') => FALSE
    BY <1>2
  <1> QED
    BY <1>2, <1>3, <1>4 DEF IdleOK

(* Every step keeps the invariant. *)
LEMMA NextIInv ==
  ASSUME ImapAssumption, IInv, [Next]_vars
  PROVE  IInv' /\ Extends(hist, hist')
  <1>1. StoreOK /\ ConnOK /\ IdleOK /\ NoLostWake /\ hist \in Histories
    BY DEF IInv, StoreOK, Sound
  <1>2. Extends(hist, hist)
    BY <1>1, ExtendsRefl
  <1>3. UNCHANGED store => StoreOK' /\ Extends(hist, hist')
    BY <1>1, <1>2 DEF store, StoreOK, Sound, Live
  <1>4. CASE UNCHANGED vars
    <2>1. ConnOK' /\ IdleOK' /\ NoLostWake'
      BY <1>1, <1>4 DEF vars, store, conn, ConnOK, IdleOK, NoLostWake, Live
    <2>2. UNCHANGED store
      BY <1>4 DEF vars
    <2> QED
      BY <1>3, <2>1, <2>2 DEF IInv
  <1>5. CASE Mutation
    <2>1. StoreOK' /\ Extends(hist, hist') /\ CommitFrame /\ doubled \subseteq doubled'
      BY <1>1, <1>5, MutationKeeps
    <2>2. UNCHANGED conn
      BY <2>1 DEF CommitFrame
    <2>3. IdleOK'
      BY <1>1, <2>1, <2>2, MutationIdle
    <2>4. ConnOK' /\ NoLostWake'
      <3>1. CASE steps < MaxSteps /\ steps' = steps + 1 /\ unsent' = unsent + 1
        BY <1>1, <2>2, <3>1, ImapAssumption DEF ConnOK, NoLostWake, conn, ImapAssumption
      <3>2. CASE UNCHANGED <<steps, unsent>>
        BY <1>1, <2>2, <3>2 DEF ConnOK, NoLostWake, conn
      <3> QED
        BY <2>1, <3>1, <3>2 DEF CommitFrame
    <2> QED
      BY <2>1, <2>3, <2>4 DEF IInv
  <1>6. CASE EmitPush
    <2>1. UNCHANGED store /\ UNCHANGED <<steps, phase, last, seen, view, synced>>
      BY <1>6 DEF EmitPush
    <2>2. IdleOK'
      BY <1>1, <2>1 DEF store, IdleOK, Live
    <2>3. ConnOK'
      BY <1>1, <1>6 DEF EmitPush, ConnOK
    <2>4. NoLostWake'
      BY <1>1, <1>6 DEF EmitPush, NoLostWake, ConnOK, WaiterPhases
    <2> QED
      BY <1>3, <2>1, <2>2, <2>3, <2>4 DEF IInv
  <1>7. CASE IdleRegister
    <2>1. UNCHANGED store
      BY <1>7 DEF IdleRegister
    <2>2. ConnOK' /\ IdleOK' /\ NoLostWake'
      BY <1>1, <1>7 DEF IdleRegister, ConnOK, IdleOK, NoLostWake
    <2> QED
      BY <1>3, <2>1, <2>2 DEF IInv
  <1>8. CASE IdleSnapshot
    <2>1. /\ UNCHANGED store /\ last' = LiveUids(order, hist, Selected)
          /\ seen' = steps /\ UNCHANGED <<unsent, steps, wakes>> /\ phase' = "idling"
      BY <1>8 DEF IdleSnapshot
    <2>2. synced' => view' = last'
      BY <1>8 DEF IdleSnapshot
    <2>3. IdleOK'
      BY <1>1, <2>1, <2>2, ReadingOK
    <2>4. ConnOK' /\ NoLostWake'
      BY <1>1, <2>1 DEF ConnOK, NoLostWake
    <2> QED
      BY <1>3, <2>1, <2>3, <2>4 DEF IInv
  <1>9. CASE IdleWake
    <2>1. /\ UNCHANGED store /\ last' = LiveUids(order, hist, Selected)
          /\ seen' = steps /\ UNCHANGED <<unsent, steps, phase, synced>>
          /\ phase = "idling" /\ wakes > 0 /\ wakes' = wakes - 1
      BY <1>9 DEF IdleWake
    <2>2. synced' /\ doubled = {} => view' = last'
      <3> SUFFICES ASSUME synced', doubled = {} PROVE view' = last'
        OBVIOUS
      <3>1. synced
        BY <2>1
      <3>2. view' = Apply(view, ExpungedSeqs(last, last'), Exists(last, last'), last')
        BY <1>9, <3>1 DEF IdleWake
      <3> QED
        BY <1>1, <2>1, <3>1, <3>2, WakeExact
    <2>3. IdleOK'
      BY <1>1, <2>1, <2>2, ReadingOK
    <2>4. ConnOK' /\ NoLostWake'
      BY <1>1, <2>1 DEF ConnOK, NoLostWake
    <2> QED
      BY <1>3, <2>1, <2>3, <2>4 DEF IInv
  <1>10. CASE IdleDone
    <2>1. UNCHANGED store
      BY <1>10 DEF IdleDone
    <2>2. ConnOK' /\ IdleOK' /\ NoLostWake'
      BY <1>1, <1>10 DEF IdleDone, ConnOK, IdleOK, NoLostWake
    <2> QED
      BY <1>3, <2>1, <2>2 DEF IInv
  <1> QED
    BY <1>4, <1>5, <1>6, <1>7, <1>8, <1>9, <1>10 DEF Next

THEOREM ImapInvariant == Spec => []IInv
  <1>1. Init => IInv
    BY InitIInv, ImapAssumption
  <1>2. IInv /\ [Next]_vars => IInv'
    BY NextIInv, ImapAssumption
  <1> QED
    BY <1>1, <1>2, PTL DEF Spec

-----------------------------------------------------------------------------
(* What it is for. *)

(* A listing without repetitions has as many emails as places. *)
LEMMA ListedOnce ==
  ASSUME NEW s \in Seq(Email), IsInjective(s)
  PROVE  Cardinality(Range(s)) = Len(s)
  <1> DEFINE n == Len(s)
             R == Range(s)
  <1>1. n \in Nat /\ DOMAIN s = 1..n /\ s \in [1..n -> R]
    BY DEF Range
  <1>2. \A x \in R : \E i \in 1..n : s[i] = x
    BY <1>1 DEF Range
  <1> HIDE DEF n, R
  <1>3. s \in Bijection(1..n, R)
    BY <1>1, <1>2 DEF Bijection, Injection, Surjection, IsInjective
  <1>4. ExistsBijection(1..n, R)
    BY <1>3 DEF ExistsBijection
  <1>5. Cardinality(R) = n
    BY <1>1, <1>4, FS_CountingElements
  <1> QED
    BY <1>5 DEF n, R

(* The UID slots and the mailbox memberships of every email agree in every reachable
   state, whatever the protocols do to the store, apart from the emails a UID MOVE
   doubled. *)
THEOREM SlotsAlwaysSound == Spec => []SlotsSound
  <1>1. IInv => SlotsSound
    <2> SUFFICES ASSUME IInv PROVE SlotsSound
      OBVIOUS
    <2>1. StoreOK /\ ConnOK
      BY DEF IInv
    <2>2. Cardinality(Live) = Len(order)
      BY <2>1, ListedOnce DEF StoreOK, Sound, Live
    <2>3. \A m \in Mailbox : hist[m] \in Seq(Email \cup {Retired})
      BY <2>1, HistoryType DEF StoreOK, Sound
    <2>4. wakes \in 0..MaxSteps /\ unsent \in 0..MaxSteps
      BY <2>1, ImapAssumption DEF ConnOK, ImapAssumption
    <2>5. TypeOK
      BY <2>1, <2>2, <2>3, <2>4 DEF StoreOK, Sound, ConnOK, TypeOK, Live
    <2>6. ASSUME NEW e \in Email \ doubled, NEW m \in Mailbox
          PROVE  Cardinality({i \in 1..Len(hist[m]) : hist[m][i] = e})
                   = IF m \in member[e] THEN 1 ELSE 0
      <3>1. Filed(hist, member[e], e)
        BY <2>1 DEF StoreOK, Sound
      <3>2. IF m \in member[e] THEN \E i : HeldAt(hist, m, e) = {i} ELSE HeldAt(hist, m, e) = {}
        BY <3>1 DEF Filed
      <3>3. Cardinality(HeldAt(hist, m, e)) = IF m \in member[e] THEN 1 ELSE 0
        BY <3>2, FS_Singleton, FS_EmptySet
      <3> QED
        BY <3>3 DEF HeldAt
    <2> QED
      BY <2>5, <2>6 DEF SlotsSound, SlotsMatchMembership
  <1> QED
    BY <1>1, ImapInvariant, PTL

(* Every UID ever assigned is shown or reported as vanished, never both. *)
THEOREM QresyncAlwaysPartitions == Spec => []QresyncPartition
  <1>1. IInv => QresyncPartition
    <2> SUFFICES ASSUME IInv, NEW m \in Mailbox
                 PROVE  /\ Range(LiveUids(order, hist, m)) \cap ExpungedUids(hist, m) = {}
                        /\ Range(LiveUids(order, hist, m)) \cup ExpungedUids(hist, m)
                             = {i \in 1..Len(hist[m]) : hist[m][i] \notin doubled \ Live}
      BY DEF QresyncPartition
    <2> DEFINE n == Len(hist[m])
    <2>1. StoreOK /\ hist \in Histories /\ Live \subseteq Email /\ doubled \subseteq Email
      BY DEF IInv, StoreOK, Sound, Live, Range
    <2>2. Range(LiveUids(order, hist, m)) = {u \in 1..n : hist[m][u] \in Live}
      BY <2>1, LiveUidsRise
    <2>3. ExpungedUids(hist, m) = {u \in 1..n : hist[m][u] = Retired}
      <3> DEFINE S == {i \in 1..n : hist[m][i] \in {Retired}}
      <3>1. n \in Nat
        BY <2>1, HistoryType
      <3>2. ExpungedUids(hist, m) = Range(Only(UpTo(n), S))
        BY DEF ExpungedUids, UidsOf
      <3>3. (1..n) \cap S = {u \in 1..n : hist[m][u] = Retired}
        OBVIOUS
      <3> HIDE DEF n, S
      <3>4. Range(Only(UpTo(n), S)) = (1..n) \cap S
        BY <3>1, UidsRise
      <3> QED
        BY <3>2, <3>3, <3>4
    <2>4. Retired \notin Live /\ Retired \notin doubled
      BY <2>1, ImapAssumption DEF ImapAssumption
    <2>5. \A u \in 1..n : \/ hist[m][u] = Retired
                          \/ hist[m][u] \in Live
                          \/ hist[m][u] \in doubled \ Live
      BY <2>1, SlotsHold
    <2> HIDE DEF n
    <2> QED
      BY <2>2, <2>3, <2>4, <2>5 DEF n
  <1> QED
    BY <1>1, ImapInvariant, PTL

(* No step gives a UID to a second message or takes one back. *)
THEOREM UidsAlwaysStable == Spec => UidsStable
  <1>1. IInv /\ [Next]_vars
          => [\A m \in Mailbox :
                /\ Len(hist'[m]) >= Len(hist[m])
                /\ \A i \in 1..Len(hist[m]) : hist'[m][i] \in {hist[m][i], Retired}]_vars
    BY NextIInv, ImapAssumption DEF Extends
  <1> QED
    BY <1>1, ImapInvariant, PTL DEF Spec, UidsStable

(* An idling client that knew the mailbox holds the server's view, and what it has
   not read yet is on its way. *)
THEOREM IdleAlwaysSound == Spec => []IdleSound
  <1>1. IInv => IdleSound
    BY DEF IInv, IdleOK, IdleSound, IdleViewExact
  <1> QED
    BY <1>1, ImapInvariant, PTL

=============================================================================
