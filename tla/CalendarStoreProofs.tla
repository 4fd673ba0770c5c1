------------------------- MODULE CalendarStoreProofs -------------------------
(***************************************************************************)
(* Calendars, their deltas, ETags, CTags and tombstones, for every set of  *)
(* accounts and calendars, every loaded fixture, every retention and every *)
(* bound.                                                                  *)
(***************************************************************************)
EXTENDS CalendarStore, SequenceTheorems, WellFoundedInduction, TLAPS

-----------------------------------------------------------------------------
(* Naturals and recursive functions. *)

(* Every nonempty set of naturals has a least member. *)
LEMMA Least ==
  ASSUME NEW T, T \subseteq Nat, T # {}
  PROVE  \E x \in T : \A y \in T : x <= y
  <1>1. \E x \in T : \A y \in T : ~(<<y, x>> \in OpToRel(<, Nat))
    BY NatLessThanWellFounded, WFMin
  <1>2. PICK x \in T : \A y \in T : ~(<<y, x>> \in OpToRel(<, Nat))
    BY <1>1
  <1>3. ASSUME NEW y \in T PROVE x <= y
    <2>1. x \in Nat /\ y \in Nat
      OBVIOUS
    <2>2. y < x => <<y, x>> \in OpToRel(<, Nat)
      BY <2>1 DEF OpToRel
    <2>3. ~(y < x)
      BY <1>2, <2>2, Zenon
    <2> QED
      BY <2>1, <2>3
  <1> QED
    BY <1>3

(* Induction up to n, over a set. *)
LEMMA Induct ==
  ASSUME NEW n \in Nat, NEW T, 0 \in T, \A k \in 1..n : k - 1 \in T => k \in T
  PROVE  0..n \subseteq T
  <1> DEFINE F == {k \in 0..n : k \notin T}
  <1>1. SUFFICES ASSUME F # {} PROVE FALSE
    OBVIOUS
  <1>2. F \subseteq Nat
    OBVIOUS
  <1>3. PICK k \in F : \A j \in F : k <= j
    <2> HIDE DEF F
    <2> QED
      BY <1>1, <1>2, Least
  <1>4. k \in 1..n /\ k - 1 \in 0..n
    OBVIOUS
  <1>5. k - 1 \in T
    BY <1>3, <1>4
  <1> QED
    BY <1>4, <1>5

(* What starts in D and never steps out of it stays in D. *)
LEMMA Stays ==
  ASSUME NEW n \in Nat, NEW D, NEW f, f[0] \in D,
         \A k \in 1..n : f[k - 1] \in D => f[k] \in D
  PROVE  \A k \in 0..n : f[k] \in D
  <1> DEFINE T == {k \in 0..n : f[k] \in D}
  <1>1. 0 \in T
    OBVIOUS
  <1>2. \A k \in 1..n : k - 1 \in T => k \in T
    OBVIOUS
  <1> HIDE DEF T
  <1>3. 0..n \subseteq T
    BY <1>1, <1>2, Induct
  <1> QED
    BY <1>3 DEF T

(* h is built from b over 0..n, in steps of g that stay within D. *)
Built(h, n, D, b, g) ==
    h \in [0..n -> D] /\ h[0] = b /\ \A k \in 1..n : h[k] = g[<<h[k - 1], k>>]

(* A recursive function over 0..n exists when every step stays within D. *)
LEMMA Recursion ==
  ASSUME NEW n \in Nat, NEW D, NEW b \in D, NEW g \in [D \X (1..n) -> D]
  PROVE  \E h : Built(h, n, D, b, g)
  <1> DEFINE Ok(m, h) == /\ h \in [0..m -> D] /\ h[0] = b
                         /\ \A k \in 1..m : h[k] = g[<<h[k - 1], k>>]
             T == {m \in 0..n : \E h : Ok(m, h)}
  <1>1. 0 \in T
    <2>1. Ok(0, [k \in 0..0 |-> b])
      OBVIOUS
    <2>2. 0 \in 0..n
      OBVIOUS
    <2> HIDE DEF Ok
    <2> QED
      BY <2>1, <2>2
  <1>2. ASSUME NEW m \in 1..n, m - 1 \in T PROVE m \in T
    <2>1. PICK h : Ok(m - 1, h)
      BY <1>2
    <2> DEFINE v == g[<<h[m - 1], m>>]
               f == [k \in 0..m |-> IF k = m THEN v ELSE h[k]]
    <2>2. m \in 0..n /\ m - 1 \in 0..(m - 1) /\ m - 1 \in Nat
      OBVIOUS
    <2>3. v \in D
      BY <2>1, <2>2
    <2>4. f \in [0..m -> D]
      <3> HIDE DEF v
      <3> QED
        BY <2>1, <2>3
    <2>5. f[0] = b
      BY <2>1
    <2>6. ASSUME NEW k \in 1..m PROVE f[k] = g[<<f[k - 1], k>>]
      <3>1. CASE k = m
        <4>1. f[m] = v /\ m - 1 # m /\ m - 1 \in 0..m
          BY <2>2
        <4>2. f[m - 1] = h[m - 1]
          BY <4>1
        <4> HIDE DEF f
        <4> QED
          BY <3>1, <4>1, <4>2
      <3>2. CASE k # m
        <4>1. k \in 1..(m - 1) /\ k - 1 \in 0..m /\ k - 1 # m /\ k \in 0..m
          BY <3>2
        <4> QED
          BY <4>1, <3>2, <2>1
      <3> QED
        BY <3>1, <3>2
    <2>7. Ok(m, f)
      BY <2>4, <2>5, <2>6
    <2> HIDE DEF Ok, f
    <2> QED
      BY <2>2, <2>7
  <1>3. n \in T
    <2> HIDE DEF T
    <2>1. 0..n \subseteq T
      BY <1>1, <1>2, Induct
    <2> QED
      BY <2>1
  <1> QED
    BY <1>3 DEF Built

-----------------------------------------------------------------------------
(* Sequences. *)

(* f computes Only(s, S), one element of s at a time. *)
Grows(f, E, s, S) ==
    /\ f \in [0..Len(s) -> Seq(E)] /\ f[0] = << >> /\ Only(s, S) = f[Len(s)]
    /\ \A k \in 1..Len(s) :
          f[k] = IF s[k] \in S THEN Append(f[k - 1], s[k]) ELSE f[k - 1]

LEMMA OnlyUnfolds ==
  ASSUME NEW E, NEW s \in Seq(E), NEW S
  PROVE  \E f : Grows(f, E, s, S)
  <1> DEFINE n == Len(s)
             D == Seq(E)
             b == << >>
             g == [p \in D \X (1..n) |-> IF s[p[2]] \in S THEN Append(p[1], s[p[2]]) ELSE p[1]]
             f == CHOOSE kept : kept = [k \in 0..n |-> IF k = 0 THEN b
                     ELSE IF s[k] \in S THEN Append(kept[k - 1], s[k]) ELSE kept[k - 1]]
  <1>1. Only(s, S) = f[n]
    BY DEF Only
  <1>2. g \in [D \X (1..n) -> D] /\ n \in Nat /\ b \in D
    OBVIOUS
  <1>3. \A k \in 1..n : \A x \in D : Append(x, s[k]) \in D
    OBVIOUS
  <1> HIDE DEF b, D, n
  <1>4. PICK h : Built(h, n, D, b, g)
    <2> HIDE DEF g
    <2> QED
      BY <1>2, Recursion
  <1>5. ASSUME NEW k \in 1..n
        PROVE  h[k] = IF s[k] \in S THEN Append(h[k - 1], s[k]) ELSE h[k - 1]
    <2>1. h[k] = g[<<h[k - 1], k>>]
      BY <1>4 DEF Built
    <2>2. k - 1 \in 0..n
      BY <1>2
    <2>3. <<h[k - 1], k>> \in D \X (1..n)
      BY <1>4, <2>2 DEF Built
    <2> QED
      BY <2>1, <2>3
  <1>6. h = [k \in 0..n |-> IF k = 0 THEN b
                     ELSE IF s[k] \in S THEN Append(h[k - 1], s[k]) ELSE h[k - 1]]
    <2>1. \A k \in 0..n : k # 0 => k \in 1..n
      BY <1>2
    <2> QED
      BY <1>4, <1>5, <2>1 DEF Built
  <1>7. f = [k \in 0..n |-> IF k = 0 THEN b
                     ELSE IF s[k] \in S THEN Append(f[k - 1], s[k]) ELSE f[k - 1]]
    BY <1>6
  <1> HIDE DEF f
  <1>8. DOMAIN f = 0..n /\ f = [k \in 0..n |-> f[k]]
    BY <1>7
  <1>9. f[0] = b
    <2>1. 0 \in 0..n
      BY <1>2
    <2> QED
      BY <1>7, <2>1
  <1>10. ASSUME NEW k \in 1..n
         PROVE  f[k] = IF s[k] \in S THEN Append(f[k - 1], s[k]) ELSE f[k - 1]
    <2>1. k \in 0..n /\ k # 0
      BY <1>2
    <2> QED
      BY <1>7, <2>1
  <1>11. \A k \in 0..n : f[k] \in D
    <2>1. ASSUME NEW k \in 1..n, f[k - 1] \in D PROVE f[k] \in D
      <3>1. Append(f[k - 1], s[k]) \in D
        BY <1>3, <2>1
      <3> QED
        BY <1>10, <2>1, <3>1
    <2> QED
      BY <1>2, <1>9, <2>1, Stays
  <1> QED
    BY <1>1, <1>8, <1>9, <1>10, <1>11 DEF n, D, b, Grows

(* What Append adds to the range. *)
LEMMA AppendRange ==
  ASSUME NEW E, NEW s \in Seq(E), NEW e \in E
  PROVE  /\ Append(s, e) \in Seq(E) /\ Len(Append(s, e)) = Len(s) + 1
         /\ Range(Append(s, e)) = Range(s) \cup {e}
  <1> DEFINE t == Append(s, e)
  <1>1. /\ t \in Seq(E) /\ Len(t) = Len(s) + 1 /\ t[Len(s) + 1] = e
        /\ \A k \in 1..Len(s) : t[k] = s[k]
    BY AppendProperties
  <1>2. Len(s) \in Nat /\ DOMAIN s = 1..Len(s) /\ DOMAIN t = 1..(Len(s) + 1)
    BY <1>1, LenProperties
  <1> HIDE DEF t
  <1>3. 1..(Len(s) + 1) = 1..Len(s) \cup {Len(s) + 1}
    BY <1>2
  <1> QED
    BY <1>1, <1>2, <1>3 DEF Range, t

(* Only(s, S) has the members of s that are in S. *)
LEMMA OnlyRange ==
  ASSUME NEW E, NEW s \in Seq(E), NEW S
  PROVE  Only(s, S) \in Seq(E) /\ Range(Only(s, S)) = Range(s) \cap S
  <1>1. PICK f : Grows(f, E, s, S)
    BY OnlyUnfolds
  <1> DEFINE n == Len(s)
             First(k) == {s[j] : j \in 1..k} \cap S
             T == {k \in 0..n : Range(f[k]) = First(k)}
  <1>2. /\ n \in Nat /\ f[0] = << >> /\ Only(s, S) = f[n]
        /\ \A k \in 0..n : f[k] \in Seq(E)
        /\ \A k \in 1..n : f[k] = IF s[k] \in S THEN Append(f[k - 1], s[k]) ELSE f[k - 1]
        /\ \A k \in 1..n : s[k] \in E
    <2>1. n \in Nat /\ \A k \in 1..n : s[k] \in E
      OBVIOUS
    <2> HIDE DEF n
    <2>2. f \in [0..n -> Seq(E)] /\ f[0] = << >> /\ Only(s, S) = f[n]
      BY <1>1 DEF Grows, n
    <2>3. \A k \in 1..n : f[k] = IF s[k] \in S THEN Append(f[k - 1], s[k]) ELSE f[k - 1]
      BY <1>1 DEF Grows, n
    <2> QED
      BY <2>1, <2>2, <2>3
  <1>3. Range(s) = {s[j] : j \in 1..n}
    BY DEF Range
  <1> HIDE DEF n
  <1>4. 0 \in T
    <2>1. First(0) = {} /\ Range(f[0]) = {}
      BY <1>2 DEF Range
    <2> QED
      BY <1>2, <2>1
  <1>5. ASSUME NEW k \in 1..n, k - 1 \in T PROVE k \in T
    <2>1. k \in 0..n /\ k - 1 \in 0..n /\ 1..k = 1..(k - 1) \cup {k}
      BY <1>2
    <2>2. First(k) = First(k - 1) \cup ({s[k]} \cap S)
      BY <2>1
    <2>3. Range(f[k - 1]) = First(k - 1) /\ f[k - 1] \in Seq(E)
      BY <1>2, <1>5, <2>1
    <2>4. CASE s[k] \in S
      <3>1. f[k] = Append(f[k - 1], s[k])
        BY <1>2, <2>4
      <3>2. s[k] \in E
        BY <1>2
      <3>3. Range(Append(f[k - 1], s[k])) = Range(f[k - 1]) \cup {s[k]}
        BY <2>3, <3>2, AppendRange
      <3> QED
        BY <2>1, <2>2, <2>3, <2>4, <3>1, <3>3
    <2>5. CASE s[k] \notin S
      BY <1>2, <2>1, <2>2, <2>3, <2>5
    <2> QED
      BY <2>4, <2>5
  <1> HIDE DEF T
  <1>6. 0..n \subseteq T
    BY <1>2, <1>4, <1>5, Induct
  <1> HIDE DEF First
  <1>7. Range(f[n]) = First(n)
    BY <1>2, <1>6 DEF T
  <1> QED
    BY <1>2, <1>3, <1>7 DEF First

-----------------------------------------------------------------------------
(* Events by id. *)

Rows(es, i) == {e \in Range(es) : e.id = i}
Sole(es, i) == \A j, k \in DOMAIN es : es[j].id = i /\ es[k].id = i => j = k

LEMMA MinIn ==
  ASSUME NEW T, T \subseteq Nat, T # {}
  PROVE  Min(T) \in T
  <1>1. PICK x \in T : \A y \in T : x <= y
    BY Least
  <1> QED
    BY <1>1 DEF Min

LEMMA MaxIn ==
  ASSUME NEW n \in Nat, NEW T, T \subseteq 0..n, T # {}
  PROVE  /\ \E x \in T : \A y \in T : x >= y
         /\ Max(T) \in T
  <1> DEFINE S == {n - x : x \in T}
  <1>1. S \subseteq Nat /\ S # {}
    OBVIOUS
  <1>2. PICK m \in S : \A y \in S : m <= y
    <2> HIDE DEF S
    <2> QED
      BY <1>1, Least
  <1>3. PICK x \in T : m = n - x
    OBVIOUS
  <1>4. ASSUME NEW y \in T PROVE x >= y
    <2>1. n - y \in S
      OBVIOUS
    <2>2. m <= n - y
      BY <1>2, <2>1
    <2> QED
      BY <1>3, <2>2
  <1>5. \E z \in T : \A y \in T : z >= y
    BY <1>4
  <1> QED
    BY <1>5 DEF Max

(* Where the look-ups land. *)
LEMMA IdAtFinds ==
  ASSUME NEW es \in Seq(Event), NEW i
  PROVE  /\ IdAt(es, i) \in 0..Len(es)
         /\ IdAt(es, i) = 0 <=> Rows(es, i) = {}
         /\ IdAt(es, i) # 0 => es[IdAt(es, i)].id = i
  <1> DEFINE T == {k \in 1..Len(es) : es[k].id = i}
  <1>1. IdAt(es, i) = IF T # {} THEN Min(T) ELSE 0
    BY DEF IdAt, SelectInSeq
  <1>2. T = {} <=> Rows(es, i) = {}
    BY DEF Rows, Range
  <1>3. T # {} => Min(T) \in T
    <2>1. T \subseteq Nat
      OBVIOUS
    <2> HIDE DEF T
    <2> QED
      BY <2>1, MinIn
  <1> QED
    BY <1>1, <1>2, <1>3

LEMMA LastIdAtFinds ==
  ASSUME NEW es \in Seq(Event), NEW i
  PROVE  /\ LastIdAt(es, i) \in 0..Len(es)
         /\ LastIdAt(es, i) = 0 <=> Rows(es, i) = {}
         /\ LastIdAt(es, i) # 0 => es[LastIdAt(es, i)].id = i
  <1> DEFINE T == {k \in 1..Len(es) : es[k].id = i}
  <1>1. LastIdAt(es, i) = IF T # {} THEN Max(T) ELSE 0
    BY DEF LastIdAt, SelectLastInSeq
  <1>2. T = {} <=> Rows(es, i) = {}
    BY DEF Rows, Range
  <1>3. T # {} => Max(T) \in T
    <2>1. T \subseteq 0..Len(es) /\ Len(es) \in Nat
      OBVIOUS
    <2> HIDE DEF T
    <2> QED
      BY <2>1, MaxIn
  <1> QED
    BY <1>1, <1>2, <1>3

LEMMA OwnAtFinds ==
  ASSUME NEW es \in Seq(Event), NEW a, NEW i
  PROVE  /\ OwnAt(es, a, i) \in 0..Len(es)
         /\ OwnAt(es, a, i) # 0 => es[OwnAt(es, a, i)].id = i /\ es[OwnAt(es, a, i)].acct = a
  <1> DEFINE T == {k \in 1..Len(es) : es[k].acct = a /\ es[k].id = i}
  <1>1. OwnAt(es, a, i) = IF T # {} THEN Min(T) ELSE 0
    BY DEF OwnAt, SelectInSeq
  <1>3. T # {} => Min(T) \in T
    <2>1. T \subseteq Nat
      OBVIOUS
    <2> HIDE DEF T
    <2> QED
      BY <2>1, MinIn
  <1> QED
    BY <1>1, <1>3

LEMMA HeldAtFinds ==
  ASSUME NEW es \in Seq(Event), NEW c, NEW i
  PROVE  /\ HeldAt(es, c, i) \in 0..Len(es)
         /\ HeldAt(es, c, i) # 0 => es[HeldAt(es, c, i)].id = i /\ es[HeldAt(es, c, i)].cal = c
         /\ HeldAt(es, c, i) = 0 => \A e \in Rows(es, i) : e.cal # c
  <1> DEFINE T == {k \in 1..Len(es) : es[k].cal = c /\ es[k].id = i}
  <1>1. HeldAt(es, c, i) = IF T # {} THEN Min(T) ELSE 0
    BY DEF HeldAt, SelectInSeq
  <1>2. T = {} => \A e \in Rows(es, i) : e.cal # c
    BY DEF Rows, Range
  <1>3. T # {} => Min(T) \in T
    <2>1. T \subseteq Nat
      OBVIOUS
    <2> HIDE DEF T
    <2> QED
      BY <2>1, MinIn
  <1>4. T \subseteq 1..Len(es) /\ Len(es) \in Nat
    OBVIOUS
  <1> QED
    BY <1>1, <1>2, <1>3, <1>4

LEMMA RowsAt ==
  ASSUME NEW es \in Seq(Event), NEW k \in 1..Len(es)
  PROVE  es[k] \in Event /\ es[k] \in Rows(es, es[k].id) /\ es[k].id \in Id
  <1>1. es[k] \in Event /\ k \in DOMAIN es
    OBVIOUS
  <1>2. es[k].id \in Id
    BY <1>1 DEF Event
  <1>3. es[k] \in Range(es)
    BY <1>1 DEF Range
  <1> QED
    BY <1>1, <1>2, <1>3 DEF Rows

LEMMA AppendRows ==
  ASSUME NEW es \in Seq(Event), NEW e \in Event
  PROVE  /\ Append(es, e) \in Seq(Event)
         /\ \A i : Rows(Append(es, e), i) = Rows(es, i) \cup {x \in {e} : x.id = i}
         /\ Rows(es, e.id) # {} => ~Sole(Append(es, e), e.id)
         /\ \A i : Sole(es, i) /\ Rows(es, e.id) = {} => Sole(Append(es, e), i)
  <1> DEFINE t == Append(es, e)
  <1>1. t \in Seq(Event) /\ Range(t) = Range(es) \cup {e}
    BY AppendRange
  <1>2. /\ Len(t) = Len(es) + 1 /\ t[Len(es) + 1] = e /\ \A k \in 1..Len(es) : t[k] = es[k]
        /\ Len(es) \in Nat /\ DOMAIN es = 1..Len(es) /\ DOMAIN t = 1..(Len(es) + 1)
    BY AppendProperties, LenProperties
  <1> HIDE DEF t
  <1>3. \A i : Rows(t, i) = Rows(es, i) \cup {x \in {e} : x.id = i}
    BY <1>1 DEF Rows
  <1>4. ASSUME Rows(es, e.id) # {} PROVE ~Sole(t, e.id)
    <2>1. PICK k \in 1..Len(es) : es[k].id = e.id
      BY <1>2, <1>4 DEF Rows, Range
    <2>2. k \in DOMAIN t /\ Len(es) + 1 \in DOMAIN t /\ k # Len(es) + 1
      BY <1>2
    <2> QED
      BY <1>2, <2>1, <2>2 DEF Sole
  <1>5. ASSUME NEW i, Sole(es, i), Rows(es, e.id) = {} PROVE Sole(t, i)
    <2>1. \A k \in 1..Len(es) : es[k].id # e.id
      BY <1>2, <1>5 DEF Rows, Range
    <2>2. \A k \in DOMAIN t : k \in DOMAIN es \/ k = Len(es) + 1
      BY <1>2
    <2> QED
      BY <1>2, <1>5, <2>1, <2>2 DEF Sole
  <1> QED
    BY <1>1, <1>3, <1>4, <1>5 DEF t

LEMMA PutRows ==
  ASSUME NEW es \in Seq(Event), NEW k \in 1..Len(es), NEW e \in Event, e.id = es[k].id
  PROVE  /\ [es EXCEPT ![k] = e] \in Seq(Event)
         /\ \A i : i # e.id => Rows([es EXCEPT ![k] = e], i) = Rows(es, i)
         /\ e \in Rows([es EXCEPT ![k] = e], e.id)
         /\ \A i : Sole([es EXCEPT ![k] = e], i) <=> Sole(es, i)
         /\ Sole(es, e.id) => Rows([es EXCEPT ![k] = e], e.id) = {e}
  <1> DEFINE t == [es EXCEPT ![k] = e]
  <1>1. /\ t \in Seq(Event) /\ DOMAIN t = DOMAIN es /\ DOMAIN es = 1..Len(es)
        /\ t[k] = e /\ \A j \in DOMAIN es : j # k => t[j] = es[j]
    OBVIOUS
  <1> HIDE DEF t
  <1>2. \A j \in DOMAIN es : t[j].id = es[j].id
    BY <1>1
  <1>3. ASSUME NEW i, i # e.id PROVE Rows(t, i) = Rows(es, i)
    <2>1. ASSUME NEW x \in Rows(t, i) PROVE x \in Rows(es, i)
      <3>1. PICK j \in DOMAIN es : x = t[j] /\ x.id = i
        BY <1>1 DEF Rows, Range
      <3>2. j # k
        BY <1>1, <1>3, <3>1
      <3> QED
        BY <1>1, <3>1, <3>2 DEF Rows, Range
    <2>2. ASSUME NEW x \in Rows(es, i) PROVE x \in Rows(t, i)
      <3>1. PICK j \in DOMAIN es : x = es[j] /\ x.id = i
        BY <1>1 DEF Rows, Range
      <3>2. j # k
        BY <1>1, <1>3, <3>1
      <3> QED
        BY <1>1, <3>1, <3>2 DEF Rows, Range
    <2> QED
      BY <2>1, <2>2
  <1>4. e \in Rows(t, e.id)
    BY <1>1 DEF Rows, Range
  <1>5. \A i : Sole(t, i) <=> Sole(es, i)
    BY <1>1, <1>2 DEF Sole
  <1>6. ASSUME Sole(es, e.id) PROVE Rows(t, e.id) = {e}
    <2>1. ASSUME NEW j \in DOMAIN es, t[j].id = e.id PROVE j = k
      BY <1>1, <1>2, <1>6, <2>1 DEF Sole
    <2> QED
      BY <1>1, <1>4, <2>1 DEF Rows, Range
  <1> QED
    BY <1>1, <1>3, <1>4, <1>5, <1>6 DEF t

LEMMA RemoveAtRows ==
  ASSUME NEW es \in Seq(Event), NEW k \in 1..Len(es)
  PROVE  /\ RemoveAt(es, k) \in Seq(Event)
         /\ \A i : Rows(RemoveAt(es, k), i) \subseteq Rows(es, i)
         /\ \A i : i # es[k].id => Rows(RemoveAt(es, k), i) = Rows(es, i)
         /\ Sole(es, es[k].id) => Rows(RemoveAt(es, k), es[k].id) = {}
  <1> DEFINE n == Len(es)
             u == SubSeq(es, 1, k - 1)
             v == SubSeq(es, k + 1, n)
             t == u \o v
  <1>1. n \in Nat /\ DOMAIN es = 1..n /\ k - 1 \in Nat /\ k \in Nat /\ k <= n
    BY LenProperties
  <1>2. /\ u \in Seq(Event) /\ Len(u) = k - 1 /\ \A j \in 1..(k - 1) : u[j] = es[j]
        /\ v \in Seq(Event) /\ Len(v) = n - k /\ \A j \in 1..(n - k) : v[j] = es[k + j]
    <2>1. u \in Seq(Event) /\ Len(u) = k - 1 /\ \A j \in 1..(k - 1) : u[j] = es[j]
      <3>1. \A j \in 1..(k - 1) : es[j] \in Event
        BY <1>1
      <3> QED
        BY <1>1, <3>1, SubSeqProperties
    <2>2. v \in Seq(Event) /\ Len(v) = n - k /\ \A j \in 1..(n - k) : v[j] = es[k + j]
      <3>1. k + 1 \in 1..(n + 1)
        BY <1>1
      <3>2. /\ v \in Seq(Event) /\ Len(v) = (IF k + 1 <= n THEN n - (k + 1) + 1 ELSE 0)
            /\ \A j \in 1..(n - (k + 1) + 1) : v[j] = es[k + 1 + j - 1]
        BY <1>1, <3>1, SubSeqProperties
      <3> HIDE DEF n, v
      <3>3. n - (k + 1) + 1 = n - k /\ (IF k + 1 <= n THEN n - (k + 1) + 1 ELSE 0) = n - k
        BY <1>1
      <3>4. ASSUME NEW j \in 1..(n - k) PROVE v[j] = es[k + j]
        <4>1. k + 1 + j - 1 = k + j
          BY <1>1
        <4>2. v[j] = es[k + 1 + j - 1]
          BY <3>2, <3>3
        <4> QED
          BY <4>1, <4>2
      <3> QED
        BY <3>2, <3>3, <3>4
    <2> QED
      BY <2>1, <2>2
  <1>3. RemoveAt(es, k) = t
    BY DEF RemoveAt
  <1> HIDE DEF u, v, n
  <1>4. /\ t \in Seq(Event) /\ Len(t) = (k - 1) + (n - k)
        /\ \A j \in 1..(k - 1) : t[j] = es[j]
        /\ \A j \in k..(n - 1) : t[j] = es[j + 1]
    <2>1. /\ t \in Seq(Event) /\ Len(t) = Len(u) + Len(v)
          /\ \A j \in 1..Len(u) : t[j] = u[j]
          /\ \A j \in 1..Len(v) : t[Len(u) + j] = v[j]
      <3>1. /\ t \in Seq(Event) /\ Len(t) = Len(u) + Len(v)
            /\ \A j \in 1..(Len(u) + Len(v)) : t[j] = IF j <= Len(u) THEN u[j] ELSE v[j - Len(u)]
        BY <1>2, ConcatProperties DEF t
      <3>2. Len(u) \in Nat /\ Len(v) \in Nat
        BY <1>1, <1>2
      <3>3. \A j \in 1..Len(u) : t[j] = u[j]
        BY <3>1, <3>2
      <3>4. ASSUME NEW j \in 1..Len(v) PROVE t[Len(u) + j] = v[j]
        <4>1. Len(u) + j \in 1..(Len(u) + Len(v)) /\ ~(Len(u) + j <= Len(u)) /\ (Len(u) + j) - Len(u) = j
          BY <3>2
        <4> QED
          BY <3>1, <4>1
      <3> QED
        BY <3>1, <3>3, <3>4
    <2>2. ASSUME NEW j \in k..(n - 1) PROVE t[j] = es[j + 1]
      <3>1. j - (k - 1) \in 1..(n - k) /\ Len(u) + (j - (k - 1)) = j /\ k + (j - (k - 1)) = j + 1
        BY <1>1, <1>2
      <3> QED
        BY <1>2, <2>1, <3>1
    <2> QED
      BY <1>2, <2>1, <2>2
  <1> HIDE DEF t
  <1>5. DOMAIN t = 1..(n - 1)
    BY <1>1, <1>4, LenProperties
  <1>6. ASSUME NEW x \in Range(t) PROVE \E j \in 1..n : j # k /\ x = es[j]
    <2>1. PICK j \in 1..(n - 1) : x = t[j]
      BY <1>5 DEF Range
    <2>2. j \in 1..(k - 1) \/ j \in k..(n - 1)
      BY <1>1
    <2>3. j \in 1..(k - 1) => j \in 1..n /\ j # k
      BY <1>1
    <2>4. j \in k..(n - 1) => j + 1 \in 1..n /\ j + 1 # k
      BY <1>1
    <2> QED
      BY <1>4, <2>1, <2>2, <2>3, <2>4
  <1>7. ASSUME NEW j \in 1..n, j # k PROVE es[j] \in Range(t)
    <2>1. CASE j < k
      <3>1. j \in 1..(k - 1) /\ j \in 1..(n - 1)
        BY <1>1, <2>1
      <3> QED
        BY <1>4, <1>5, <3>1 DEF Range
    <2>2. CASE j > k
      <3>1. j - 1 \in k..(n - 1) /\ j - 1 \in 1..(n - 1) /\ (j - 1) + 1 = j
        BY <1>1, <2>2
      <3> QED
        BY <1>4, <1>5, <3>1 DEF Range
    <2> QED
      BY <1>1, <1>7, <2>1, <2>2
  <1>8. \A i : Rows(t, i) \subseteq Rows(es, i)
    BY <1>1, <1>6 DEF Rows, Range
  <1>9. ASSUME NEW i, i # es[k].id PROVE Rows(es, i) \subseteq Rows(t, i)
    <2>1. ASSUME NEW x \in Rows(es, i) PROVE x \in Rows(t, i)
      <3>1. PICK j \in 1..n : x = es[j] /\ x.id = i
        BY <1>1 DEF Rows, Range
      <3>2. j # k
        BY <1>9, <3>1
      <3> QED
        BY <1>7, <3>1, <3>2 DEF Rows
    <2> QED
      BY <2>1
  <1>10. ASSUME Sole(es, es[k].id) PROVE Rows(t, es[k].id) = {}
    BY <1>1, <1>6, <1>10 DEF Rows, Sole
  <1>11. \A i : i # es[k].id => Rows(t, i) = Rows(es, i)
    <2>1. ASSUME NEW i, i # es[k].id PROVE Rows(t, i) = Rows(es, i)
      <3>1. Rows(t, i) \subseteq Rows(es, i) /\ Rows(es, i) \subseteq Rows(t, i)
        BY <1>8, <1>9, <2>1
      <3> QED
        BY <3>1
    <2> QED
      BY <2>1
  <1> QED
    BY <1>3, <1>4, <1>8, <1>10, <1>11

LEMMA OnlyRows ==
  ASSUME NEW es \in Seq(Event), NEW S
  PROVE  Only(es, S) \in Seq(Event) /\ \A i : Rows(Only(es, S), i) = Rows(es, i) \cap S
  <1>1. Only(es, S) \in Seq(Event) /\ Range(Only(es, S)) = Range(es) \cap S
    BY OnlyRange
  <1> QED
    BY <1>1 DEF Rows

-----------------------------------------------------------------------------
(* What a write does to the events, id by id. *)

(* es1 has new events of the ids C, es3 is es2 without an event for each pair of
   an id and a calendar in D, and es2 has the events of the ids U rewritten. *)
Adds(es, es1, C) ==
    /\ es1 \in Seq(Event) /\ C \subseteq Id
    /\ \A i : i \notin C => Rows(es1, i) = Rows(es, i)
    /\ \A i \in C : Rows(es, i) = {} /\ Rows(es1, i) # {}
    /\ \A i : Sole(es, i) => Sole(es1, i)
Rewrites(es1, es2, U) ==
    /\ es2 \in Seq(Event) /\ U \subseteq Id
    /\ \A i : i \notin U => Rows(es2, i) = Rows(es1, i)
    /\ \A i \in U : Rows(es1, i) # {} /\ Rows(es2, i) # {}
    /\ \A i : Sole(es2, i) <=> Sole(es1, i)
Drops(es2, es3, D) ==
    /\ es3 \in Seq(Event) /\ D \subseteq Id \X Calendar
    /\ \A i : i \notin Ids(D) => Rows(es3, i) = Rows(es2, i)
    /\ \A p \in D : \E e \in Rows(es2, p[1]) : e.cal = p[2]
    /\ \A p \in D : Rows(es3, p[1]) # {} => ~Sole(es2, p[1])

(* A write that takes es to es1 and is logged as C created, U updated and D
   destroyed tells the truth: what it does not name it leaves alone; an id it
   creates is new, or there twice afterwards; what it creates or updates is there
   afterwards unless it destroys it too; what it destroys was there, in the
   calendar that it says, and is gone afterwards, unless the id was there twice. *)
Effect(es, es1, C, U, D) ==
    /\ es1 \in Seq(Event) /\ C \subseteq Id /\ U \subseteq Id /\ D \subseteq Id \X Calendar
    /\ \A i : i \notin C \cup U \cup Ids(D) => Rows(es1, i) = Rows(es, i)
    /\ \A i \in C : Rows(es, i) # {} => ~Sole(es1, i)
    /\ \A i \in C \cup U : Rows(es1, i) # {} \/ i \in Ids(D)
    /\ \A i \in U : Rows(es, i) # {} \/ i \in C
    /\ \A p \in D : /\ Rows(es, p[1]) # {} \/ p[1] \in C
                    /\ Rows(es1, p[1]) # {} => ~Sole(es, p[1])
                    /\ p[1] \in C \cup U \/ \E e \in Rows(es, p[1]) : e.cal = p[2]

LEMMA EffectOfSteps ==
  ASSUME NEW es, NEW es1, NEW es2, NEW es3, NEW C, NEW U, NEW D,
         Adds(es, es1, C), Rewrites(es1, es2, U), Drops(es2, es3, D)
  PROVE  Effect(es, es3, C, U, D)
  <1>1. es3 \in Seq(Event) /\ C \subseteq Id /\ U \subseteq Id /\ D \subseteq Id \X Calendar
    BY DEF Adds, Rewrites, Drops
  <1>2. \A p \in D : p[1] \in Ids(D)
    BY DEF Ids
  <1>3. ASSUME NEW i, i \notin C \cup U \cup Ids(D) PROVE Rows(es3, i) = Rows(es, i)
    BY <1>3 DEF Adds, Rewrites, Drops
  <1>4. \A i \in C : Rows(es, i) # {} => ~Sole(es3, i)
    BY DEF Adds
  <1>5. ASSUME NEW i \in C \cup U, i \notin Ids(D) PROVE Rows(es3, i) # {}
    <2>1. Rows(es3, i) = Rows(es2, i)
      BY <1>5 DEF Drops
    <2>2. i \in U => Rows(es2, i) # {}
      BY DEF Rewrites
    <2>3. i \notin U => i \in C /\ Rows(es2, i) = Rows(es1, i)
      BY DEF Rewrites
    <2>4. i \in C => Rows(es1, i) # {}
      BY DEF Adds
    <2> QED
      BY <2>1, <2>2, <2>3, <2>4
  <1>6. \A i \in U : Rows(es, i) # {} \/ i \in C
    BY DEF Adds, Rewrites
  <1>7. ASSUME NEW p \in D
        PROVE  /\ Rows(es, p[1]) # {} \/ p[1] \in C
               /\ Rows(es3, p[1]) # {} => ~Sole(es, p[1])
               /\ p[1] \in C \cup U \/ \E e \in Rows(es, p[1]) : e.cal = p[2]
    <2>1. PICK e \in Rows(es2, p[1]) : e.cal = p[2]
      BY DEF Drops
    <2>2. p[1] \notin C \cup U => Rows(es2, p[1]) = Rows(es, p[1])
      BY DEF Adds, Rewrites
    <2>3. p[1] \in U => Rows(es, p[1]) # {} \/ p[1] \in C
      BY <1>6
    <2>4. Rows(es3, p[1]) # {} => ~Sole(es2, p[1])
      BY DEF Drops
    <2>5. Sole(es, p[1]) => Sole(es2, p[1])
      BY DEF Adds, Rewrites
    <2> QED
      BY <2>1, <2>2, <2>3, <2>4, <2>5
  <1> QED
    BY <1>1, <1>3, <1>4, <1>5, <1>6, <1>7 DEF Effect

LEMMA StepsSkip ==
  ASSUME NEW es \in Seq(Event)
  PROVE  Adds(es, es, {}) /\ Rewrites(es, es, {}) /\ Drops(es, es, {})
  BY DEF Adds, Rewrites, Drops

LEMMA CreateEffect ==
  ASSUME NEW es \in Seq(Event), NEW e \in Event
  PROVE  /\ Effect(es, Append(es, e), {e.id}, {}, {})
         /\ Rows(es, e.id) = {} => Adds(es, Append(es, e), {e.id})
  <1>1. e.id \in Id
    BY DEF Event
  <1> DEFINE t == Append(es, e)
  <1>2. /\ t \in Seq(Event) /\ \A i : Rows(t, i) = Rows(es, i) \cup {x \in {e} : x.id = i}
        /\ Rows(es, e.id) # {} => ~Sole(t, e.id)
        /\ \A i : Sole(es, i) /\ Rows(es, e.id) = {} => Sole(t, i)
    BY AppendRows
  <1> HIDE DEF t
  <1>3. \A i : i # e.id => Rows(t, i) = Rows(es, i)
    BY <1>2
  <1>4. e \in Rows(t, e.id)
    BY <1>2
  <1>5. Ids({}) = {}
    BY DEF Ids
  <1>6. Effect(es, t, {e.id}, {}, {})
    BY <1>1, <1>2, <1>3, <1>4, <1>5 DEF Effect
  <1>7. Rows(es, e.id) = {} => Adds(es, t, {e.id})
    BY <1>1, <1>2, <1>3, <1>4 DEF Adds
  <1> QED
    BY <1>6, <1>7 DEF t

LEMMA UpdateEffect ==
  ASSUME NEW es \in Seq(Event), NEW k \in 1..Len(es), NEW e \in Event, e.id = es[k].id
  PROVE  /\ Rewrites(es, [es EXCEPT ![k] = e], {e.id})
         /\ Effect(es, [es EXCEPT ![k] = e], {}, {e.id}, {})
  <1> DEFINE t == [es EXCEPT ![k] = e]
  <1>1. /\ t \in Seq(Event)
        /\ \A i : i # e.id => Rows(t, i) = Rows(es, i)
        /\ e \in Rows(t, e.id)
        /\ \A i : Sole(t, i) <=> Sole(es, i)
    BY PutRows
  <1>2. es[k] \in Rows(es, e.id) /\ e.id \in Id
    BY RowsAt
  <1> HIDE DEF t
  <1>3. Rewrites(es, t, {e.id})
    BY <1>1, <1>2 DEF Rewrites
  <1>4. Effect(es, t, {}, {e.id}, {})
    BY <1>1, <1>3, StepsSkip, EffectOfSteps
  <1> QED
    BY <1>3, <1>4 DEF t

LEMMA RemoveEffect ==
  ASSUME NEW es \in Seq(Event), NEW k \in 1..Len(es)
  PROVE  /\ Drops(es, RemoveAt(es, k), {<<es[k].id, es[k].cal>>})
         /\ Effect(es, RemoveAt(es, k), {}, {}, {<<es[k].id, es[k].cal>>})
  <1> DEFINE t == RemoveAt(es, k)
             i == es[k].id
             c == es[k].cal
  <1>1. /\ t \in Seq(Event) /\ \A j : j # i => Rows(t, j) = Rows(es, j)
        /\ Sole(es, i) => Rows(t, i) = {}
    BY RemoveAtRows
  <1>2. es[k] \in Rows(es, i) /\ i \in Id /\ c \in Calendar /\ es[k].cal = c
    <2>1. es[k] \in Event
      OBVIOUS
    <2> QED
      BY <2>1, RowsAt DEF Event
  <1> HIDE DEF t, i, c
  <1>3. Ids({<<i, c>>}) = {i}
    BY DEF Ids
  <1>4. Drops(es, t, {<<i, c>>})
    <2>1. \E e \in Rows(es, i) : e.cal = c
      BY <1>2
    <2>2. \A p \in {<<i, c>>} : p \in Id \X Calendar /\ p[1] = i /\ p[2] = c
      BY <1>2
    <2> QED
      BY <1>1, <1>3, <2>1, <2>2 DEF Drops
  <1>5. Effect(es, t, {}, {}, {<<i, c>>})
    BY <1>4, StepsSkip, EffectOfSteps
  <1> QED
    BY <1>4, <1>5 DEF t, i, c

LEMMA FilterEffect ==
  ASSUME NEW es \in Seq(Event), NEW k \in 1..Len(es), NEW S, es[k] \notin S,
         \A e \in Event : e.id # es[k].id => e \in S
  PROVE  Effect(es, Only(es, S), {}, {}, {<<es[k].id, es[k].cal>>})
  <1> DEFINE t == Only(es, S)
             i == es[k].id
             c == es[k].cal
  <1>1. t \in Seq(Event) /\ \A j : Rows(t, j) = Rows(es, j) \cap S
    BY OnlyRows
  <1>2. es[k] \in Rows(es, i) /\ i \in Id /\ c \in Calendar /\ es[k].cal = c
    <2>1. es[k] \in Event
      OBVIOUS
    <2> QED
      BY <2>1, RowsAt DEF Event
  <1>3. ASSUME NEW j, j # i PROVE Rows(t, j) = Rows(es, j)
    <2>1. \A e \in Rows(es, j) : e \in Event /\ e.id = j
      BY DEF Rows, Range
    <2> QED
      BY <1>1, <1>3, <2>1
  <1>4. ASSUME Sole(es, i) PROVE Rows(t, i) = {}
    <2>1. \A e \in Rows(es, i) : e = es[k]
      BY <1>4 DEF Rows, Range, Sole
    <2> QED
      BY <1>1, <2>1
  <1> HIDE DEF t, i, c
  <1>5. Ids({<<i, c>>}) = {i}
    BY DEF Ids
  <1>6. Drops(es, t, {<<i, c>>})
    <2>1. \E e \in Rows(es, i) : e.cal = c
      BY <1>2
    <2>2. \A p \in {<<i, c>>} : p \in Id \X Calendar /\ p[1] = i /\ p[2] = c
      BY <1>2
    <2> QED
      BY <1>1, <1>3, <1>4, <1>5, <2>1, <2>2 DEF Drops
  <1>7. Effect(es, t, {}, {}, {<<i, c>>})
    BY <1>6, StepsSkip, EffectOfSteps
  <1> QED
    BY <1>7 DEF t, i, c

-----------------------------------------------------------------------------
(* Every verb is a turn: it changes events or calendars, and records what it did. *)

Diff == [created : SUBSET Id, updated : SUBSET Id, destroyed : SUBSET (Id \X Calendar),
         made : SUBSET Calendar, dropped : SUBSET (Calendar \X Account)]

(* Calendars M are made and those of the pairs X deleted, from their owners. *)
Shifts(ow, ow1, M, X) ==
    /\ ow1 \in [Calendar -> Account \cup {None}]
    /\ M \subseteq Calendar /\ X \subseteq Calendar \X Account
    /\ \A c \in M : ow[c] = None /\ ow1[c] \in Account
    /\ \A p \in X : ow[p[1]] = p[2] /\ ow1[p[1]] = None
    /\ \A c \in Calendar : ow1[c] = ow[c] \/ c \in M \/ <<c, ow[c]>> \in X

Recorded(d) ==
    /\ log' = RecordTransition(owner', events', d)
    /\ checked' = [cals |-> checked.cals \cup Found(owner', events').cals,
                   events |-> checked.events \cup Found(owner', events').events]
    /\ snap' = [a \in Account |-> IF log'[a].counter = log[a].counter THEN snap[a]
                                  ELSE Append(snap[a], Held(owner', events', a))]
    /\ served' = served \cup Served(owner', log', events')
    /\ past' = [i \in Id |-> past[i] \cup PastOf(owner', events', d, i)]

Turn(d) ==
    /\ d \in Diff
    /\ Effect(events, events', d.created, d.updated, d.destroyed)
    /\ Shifts(owner, owner', d.made, d.dropped)
    /\ seq' \in 0..MaxMinted /\ seq <= seq' /\ \A i \in d.created : i <= FixtureIds + seq'
    /\ Recorded(d)

StoreOK ==
    /\ owner \in [Calendar -> Account \cup {None}]
    /\ events \in Seq(Event) /\ seq \in 0..MaxMinted
    /\ \A i : Rows(events, i) # {} => i <= FixtureIds + seq
    /\ \A a \in Account : log[a].counter \in Nat

LEMMA MutateTurns ==
  ASSUME NEW ow1, NEW es1, NEW d, Mutate(ow1, es1, d), d \in Diff,
         Effect(events, es1, d.created, d.updated, d.destroyed),
         Shifts(owner, ow1, d.made, d.dropped),
         seq' \in 0..MaxMinted, seq <= seq', \A i \in d.created : i <= FixtureIds + seq'
  PROVE  Turn(d)
  <1>1. owner' = ow1 /\ events' = es1
    BY DEF Mutate
  <1>2. Recorded(d)
    BY <1>1 DEF Mutate, Recorded
  <1> QED
    BY <1>1, <1>2 DEF Turn

(* A write to the events only. *)
LEMMA EventsTurn ==
  ASSUME StoreOK, NEW es1, NEW C, NEW U, NEW D, Effect(events, es1, C, U, D),
         Mutate(owner, es1, EventDiff(C, U, D)),
         seq' \in 0..MaxMinted, seq <= seq', \A i \in C : i <= FixtureIds + seq'
  PROVE  \E d : Turn(d)
  <1> DEFINE d == EventDiff(C, U, D)
  <1>1. /\ d.created = C /\ d.updated = U /\ d.destroyed = D /\ d.made = {} /\ d.dropped = {}
        /\ d = [created |-> C, updated |-> U, destroyed |-> D, made |-> {}, dropped |-> {}]
    BY DEF EventDiff
  <1>2. C \subseteq Id /\ U \subseteq Id /\ D \subseteq Id \X Calendar
    BY DEF Effect
  <1>3. d \in Diff
    BY <1>1, <1>2 DEF Diff
  <1>4. Shifts(owner, owner, {}, {})
    BY DEF Shifts, StoreOK
  <1>5. Mutate(owner, es1, d)
    OBVIOUS
  <1> HIDE DEF d
  <1>6. Turn(d)
    BY <1>1, <1>3, <1>4, <1>5, MutateTurns
  <1> QED
    BY <1>6

(* A write to one calendar. *)
LEMMA CalendarsTurn ==
  ASSUME StoreOK, NEW ow1, NEW M, NEW X, Shifts(owner, ow1, M, X),
         Mutate(ow1, events, CalendarDiff(M, X)), seq' = seq
  PROVE  \E d : Turn(d)
  <1> DEFINE d == CalendarDiff(M, X)
  <1>1. /\ d.created = {} /\ d.updated = {} /\ d.destroyed = {} /\ d.made = M /\ d.dropped = X
        /\ d = [created |-> {}, updated |-> {}, destroyed |-> {}, made |-> M, dropped |-> X]
    BY DEF CalendarDiff
  <1>2. M \subseteq Calendar /\ X \subseteq Calendar \X Account
    BY DEF Shifts
  <1>3. d \in Diff
    BY <1>1, <1>2 DEF Diff
  <1>4. Effect(events, events, {}, {}, {})
    BY StepsSkip, EffectOfSteps DEF StoreOK
  <1>5. Mutate(ow1, events, d) /\ seq' \in 0..MaxMinted /\ seq <= seq'
    BY CalendarAssumption DEF StoreOK
  <1> HIDE DEF d
  <1>6. Turn(d)
    BY <1>1, <1>2, <1>3, <1>4, <1>5, MutateTurns
  <1> QED
    BY <1>6

LEMMA FreshType ==
  ASSUME StoreOK
  PROVE  Fresh \in [Account -> Nat]
  BY DEF Fresh, StoreOK

(* The shape of the writes of one kind, as the verbs put it. *)
LEMMA CreateTurn ==
  ASSUME StoreOK, NEW e \in Event, e.id <= FixtureIds + seq', seq' \in 0..MaxMinted, seq <= seq',
         Mutate(owner, Append(events, e), EventDiff({e.id}, {}, {}))
  PROVE  \E d : Turn(d)
  <1>1. Effect(events, Append(events, e), {e.id}, {}, {})
    BY CreateEffect DEF StoreOK
  <1> QED
    BY <1>1, EventsTurn

LEMMA UpdateTurn ==
  ASSUME StoreOK, NEW k \in 1..Len(events), NEW e \in Event, e.id = events[k].id, seq' = seq,
         Mutate(owner, [events EXCEPT ![k] = e], EventDiff({}, {e.id}, {}))
  PROVE  \E d : Turn(d)
  <1>1. Effect(events, [events EXCEPT ![k] = e], {}, {e.id}, {})
    BY UpdateEffect DEF StoreOK
  <1>2. seq' \in 0..MaxMinted /\ seq <= seq'
    BY CalendarAssumption DEF StoreOK
  <1> QED
    BY <1>1, <1>2, EventsTurn

LEMMA DestroyTurn ==
  ASSUME StoreOK, NEW k \in 1..Len(events), seq' = seq, NEW es1,
         Effect(events, es1, {}, {}, {<<events[k].id, events[k].cal>>}),
         Mutate(owner, es1, EventDiff({}, {}, {<<events[k].id, events[k].cal>>}))
  PROVE  \E d : Turn(d)
  <1>1. seq' \in 0..MaxMinted /\ seq <= seq'
    BY CalendarAssumption DEF StoreOK
  <1> QED
    BY <1>1, EventsTurn

-----------------------------------------------------------------------------
(* The verbs are turns. *)

LEMMA MintIs ==
  ASSUME StoreOK, seq < MaxMinted
  PROVE  /\ Mint \in Id /\ Mint = FixtureIds + seq + 1 /\ Rows(events, Mint) = {}
         /\ seq + 1 \in 0..MaxMinted /\ seq <= seq + 1 /\ Mint <= FixtureIds + (seq + 1)
  <1>1. seq \in Nat /\ FixtureIds \in Nat /\ MaxMinted \in Nat
    BY CalendarAssumption DEF StoreOK
  <1>2. Mint \in Id /\ Mint = FixtureIds + seq + 1 /\ seq + 1 \in 0..MaxMinted /\ seq <= seq + 1
    BY <1>1 DEF Mint, Id
  <1>3. ~(Mint <= FixtureIds + seq)
    BY <1>1 DEF Mint
  <1> QED
    BY <1>1, <1>2, <1>3 DEF StoreOK

(* What a write builds is an event. *)
LEMMA EventIs ==
  ASSUME NEW i \in Id, NEW a \in Account, NEW c \in Calendar, NEW x \in [Account -> Nat],
         NEW s \in Status \cup {None}
  PROVE  [id |-> i, acct |-> a, cal |-> c, text |-> x, status |-> s] \in Event
  BY DEF Event

(* What a patch leaves is an event, with the id and the account it had. *)
LEMMA PatchIs ==
  ASSUME NEW e \in Event, NEW x \in [Account -> Nat], NEW s \in Status \cup {None},
         NEW c \in Calendar
  PROVE  /\ [e EXCEPT !.text = x] \in Event /\ [e EXCEPT !.text = x].id = e.id
         /\ [e EXCEPT !.status = s] \in Event /\ [e EXCEPT !.status = s].id = e.id
         /\ [e EXCEPT !.text = x, !.cal = c] \in Event
         /\ [e EXCEPT !.text = x, !.cal = c].id = e.id
  BY DEF Event

LEMMA FieldsOf ==
  ASSUME NEW e \in Event
  PROVE  /\ e.id \in Id /\ e.acct \in Account /\ e.cal \in Calendar
         /\ e.text \in [Account -> Nat] /\ e.status \in Status \cup {None}
  BY DEF Event

LEMMA OwnedBy ==
  ASSUME StoreOK, NEW c \in Calendar
  PROVE  AccountOfCalendar(owner, c) \in Account
  BY CalendarAssumption DEF StoreOK, AccountOfCalendar

(* An update in place of the event at position k. *)
LEMMA PatchTurn ==
  ASSUME StoreOK, NEW k \in 1..Len(events), NEW e \in Event, NEW i, e.id = events[k].id,
         events[k].id = i, seq' = seq,
         Mutate(owner, [events EXCEPT ![k] = e], EventDiff({}, {i}, {}))
  PROVE  \E d : Turn(d)
  BY UpdateTurn

LEMMA GraphCreateTurns ==
  ASSUME StoreOK, NEW a \in Account, NEW c \in Calendar, GraphCreate(a, c)
  PROVE  \E d : Turn(d)
  <1>1. seq < MaxMinted /\ seq' = seq + 1
        /\ Mutate(owner, Append(events, GraphEvent(a, c)), EventDiff({Mint}, {}, {}))
    BY DEF GraphCreate
  <1>2. GraphEvent(a, c) \in Event /\ GraphEvent(a, c).id = Mint
    BY <1>1, MintIs, FreshType, EventIs DEF GraphEvent
  <1> QED
    BY <1>1, <1>2, MintIs, CreateTurn

LEMMA GcalCreateTurns ==
  ASSUME StoreOK, NEW a \in Account, NEW c \in Calendar, GcalCreate(a, c)
  PROVE  \E d : Turn(d)
  <1>1. seq < MaxMinted /\ seq' = seq + 1
        /\ Mutate(owner, Append(events, GcalEvent(c)), EventDiff({Mint}, {}, {}))
    BY DEF GcalCreate
  <1>2. GcalEvent(c) \in Event /\ GcalEvent(c).id = Mint
    BY <1>1, MintIs, FreshType, EventIs, OwnedBy DEF GcalEvent
  <1> QED
    BY <1>1, <1>2, MintIs, CreateTurn

LEMMA GraphPatchTurns ==
  ASSUME StoreOK, NEW a \in Account, NEW i \in Id, NEW invited \in BOOLEAN,
         GraphPatch(a, i, invited)
  PROVE  \E d : Turn(d)
  <1> DEFINE k == OwnAt(events, a, i)
  <1>1. /\ k # 0 /\ seq' = seq
        /\ Mutate(owner, [events EXCEPT ![k] = GraphPatched(@, invited)], EventDiff({}, {i}, {}))
    BY DEF GraphPatch
  <1>2. k \in 1..Len(events) /\ events[k].id = i
    BY <1>1, OwnAtFinds DEF StoreOK
  <1> HIDE DEF k
  <1>3. events[k] \in Event
    BY <1>2 DEF StoreOK
  <1> DEFINE s == IF invited THEN events[k].status ELSE None
  <1>4. GraphPatched(events[k], invited) \in Event
        /\ GraphPatched(events[k], invited).id = events[k].id
    <2>1. s \in Status \cup {None}
      BY <1>3, FieldsOf
    <2>2. Fresh \in [Account -> Nat]
      BY FreshType
    <2> HIDE DEF s
    <2>3. [events[k] EXCEPT !.text = Fresh, !.status = s] \in Event
          /\ [events[k] EXCEPT !.text = Fresh, !.status = s].id = events[k].id
      BY <1>3, <2>1, <2>2 DEF Event
    <2> QED
      BY <2>3 DEF s, GraphPatched
  <1>5. Mutate(owner, [events EXCEPT ![k] = GraphPatched(events[k], invited)],
               EventDiff({}, {i}, {}))
    BY <1>1
  <1> QED
    BY <1>1, <1>2, <1>4, <1>5, PatchTurn

LEMMA GcalPatchTurns ==
  ASSUME StoreOK, NEW a \in Account, NEW c \in Calendar, NEW i \in Id, NEW invited \in BOOLEAN,
         GcalPatch(a, c, i, invited)
  PROVE  \E d : Turn(d)
  <1> DEFINE k == OwnAt(events, a, i)
  <1>1. /\ k # 0 /\ seq' = seq
        /\ Mutate(owner, [events EXCEPT ![k] = GcalPatched(@, invited)], EventDiff({}, {i}, {}))
    BY DEF GcalPatch
  <1>2. k \in 1..Len(events) /\ events[k].id = i
    BY <1>1, OwnAtFinds DEF StoreOK
  <1> HIDE DEF k
  <1>3. events[k] \in Event
    BY <1>2 DEF StoreOK
  <1> DEFINE s == IF invited THEN events[k].status ELSE None
  <1>4. GcalPatched(events[k], invited) \in Event
        /\ GcalPatched(events[k], invited).id = events[k].id
    <2>1. s \in Status \cup {None}
      BY <1>3, FieldsOf
    <2>2. Fresh \in [Account -> Nat]
      BY FreshType
    <2> HIDE DEF s
    <2>3. [events[k] EXCEPT !.text = Fresh, !.status = s] \in Event
          /\ [events[k] EXCEPT !.text = Fresh, !.status = s].id = events[k].id
      BY <1>3, <2>1, <2>2 DEF Event
    <2> QED
      BY <2>3 DEF s, GcalPatched
  <1>5. Mutate(owner, [events EXCEPT ![k] = GcalPatched(events[k], invited)],
               EventDiff({}, {i}, {}))
    BY <1>1
  <1> QED
    BY <1>1, <1>2, <1>4, <1>5, PatchTurn

LEMMA RsvpTurns ==
  ASSUME StoreOK, NEW a \in Account, NEW i \in Id, NEW s \in Status, Rsvp(a, i, s)
  PROVE  \E d : Turn(d)
  <1> DEFINE k == OwnAt(events, a, i)
  <1>1. /\ k # 0 /\ seq' = seq
        /\ Mutate(owner, [events EXCEPT ![k].status = s], EventDiff({}, {i}, {}))
    BY DEF Rsvp
  <1>2. k \in 1..Len(events) /\ events[k].id = i
    BY <1>1, OwnAtFinds DEF StoreOK
  <1> HIDE DEF k
  <1>3. events[k] \in Event
    BY <1>2 DEF StoreOK
  <1> DEFINE e == [events[k] EXCEPT !.status = s]
  <1>4. e \in Event /\ e.id = events[k].id
    BY <1>3, FieldsOf, PatchIs
  <1>5. Mutate(owner, [events EXCEPT ![k] = e], EventDiff({}, {i}, {}))
    BY <1>1
  <1> HIDE DEF e
  <1> QED
    BY <1>1, <1>2, <1>4, <1>5, PatchTurn

LEMMA DeleteOwnTurns ==
  ASSUME StoreOK, NEW a \in Account, NEW i \in Id, DeleteOwn(a, i)
  PROVE  \E d : Turn(d)
  <1> DEFINE k == OwnAt(events, a, i)
             S == {e \in Event : ~(e.acct = a /\ e.id = i)}
  <1>1. /\ k # 0 /\ seq' = seq
        /\ Mutate(owner, Only(events, S), EventDiff({}, {}, {<<i, events[k].cal>>}))
    BY DEF DeleteOwn
  <1>2. k \in 1..Len(events) /\ events[k].id = i /\ events[k].acct = a
    BY <1>1, OwnAtFinds DEF StoreOK
  <1> HIDE DEF k
  <1>3. events[k] \notin S /\ \A e \in Event : e.id # events[k].id => e \in S
    BY <1>2
  <1> HIDE DEF S
  <1>4. Effect(events, Only(events, S), {}, {}, {<<events[k].id, events[k].cal>>})
    BY <1>2, <1>3, FilterEffect DEF StoreOK
  <1> QED
    BY <1>1, <1>2, <1>4, DestroyTurn

LEMMA CaldavPutTurns ==
  ASSUME StoreOK, NEW a \in Account, NEW c \in Calendar, NEW i \in 1..FixtureIds, NEW tag,
         CaldavPut(a, c, i, tag)
  PROVE  \E d : Turn(d)
  <1> DEFINE k == HeldAt(events, c, i)
             new == [id |-> i, acct |-> a, cal |-> c, text |-> Fresh, status |-> None]
  <1>1. /\ seq' = seq
        /\ IF k = 0
           THEN Mutate(owner, Append(events, new), EventDiff({i}, {}, {}))
           ELSE Mutate(owner, [events EXCEPT ![k] = new], EventDiff({}, {i}, {}))
    BY DEF CaldavPut
  <1>2. FixtureIds \in Nat /\ MaxMinted \in Nat /\ seq \in 0..MaxMinted
    BY CalendarAssumption DEF StoreOK
  <1>3. /\ i \in Id /\ i <= FixtureIds + seq' /\ seq' \in 0..MaxMinted /\ seq <= seq'
    BY <1>1, <1>2 DEF Id
  <1>4. new \in Event /\ new.id = i
    BY <1>3, FreshType, EventIs
  <1>5. k \in 0..Len(events) /\ (k # 0 => events[k].id = i) /\ Len(events) \in Nat
    BY HeldAtFinds DEF StoreOK
  <1> HIDE DEF k, new
  <1>6. CASE k = 0
    BY <1>1, <1>3, <1>4, <1>6, CreateTurn
  <1>7. CASE k # 0
    <2>1. k \in 1..Len(events)
      BY <1>5, <1>7
    <2> QED
      BY <1>1, <1>4, <1>5, <1>7, <2>1, PatchTurn
  <1> QED
    BY <1>6, <1>7

LEMMA CaldavDeleteTurns ==
  ASSUME StoreOK, NEW a \in Account, NEW c \in Calendar, NEW i \in Id, NEW tag,
         CaldavDelete(a, c, i, tag)
  PROVE  \E d : Turn(d)
  <1> DEFINE k == HeldAt(events, c, i)
  <1>1. /\ k # 0 /\ seq' = seq
        /\ Mutate(owner, RemoveAt(events, k), EventDiff({}, {}, {<<i, c>>}))
    BY DEF CaldavDelete
  <1>2. k \in 1..Len(events) /\ events[k].id = i /\ events[k].cal = c
    BY <1>1, HeldAtFinds DEF StoreOK
  <1> HIDE DEF k
  <1>3. Effect(events, RemoveAt(events, k), {}, {}, {<<events[k].id, events[k].cal>>})
    BY <1>2, RemoveEffect DEF StoreOK
  <1> QED
    BY <1>1, <1>2, <1>3, DestroyTurn

LEMMA DeleteCalendarTurns ==
  ASSUME StoreOK, NEW a \in Account, NEW c \in Calendar, DeleteCalendar(a, c)
  PROVE  \E d : Turn(d)
  <1> DEFINE ow1 == [owner EXCEPT ![c] = None]
  <1>1. owner[c] = a /\ Mutate(ow1, events, CalendarDiff({}, {<<c, a>>})) /\ seq' = seq
    BY DEF DeleteCalendar
  <1>2. /\ ow1 \in [Calendar -> Account \cup {None}] /\ ow1[c] = None
        /\ \A x \in Calendar : x # c => ow1[x] = owner[x]
    BY DEF StoreOK
  <1> HIDE DEF ow1
  <1>3. Shifts(owner, ow1, {}, {<<c, a>>})
    BY <1>1, <1>2 DEF Shifts
  <1> QED
    BY <1>1, <1>3, CalendarsTurn

LEMMA MkcalendarTurns ==
  ASSUME StoreOK, NEW a \in Account, NEW c \in Calendar, Mkcalendar(a, c)
  PROVE  \E d : Turn(d)
  <1> DEFINE ow1 == [owner EXCEPT ![c] = a]
  <1>1. owner[c] = None /\ Mutate(ow1, events, CalendarDiff({c}, {})) /\ seq' = seq
    BY DEF Mkcalendar
  <1>2. /\ ow1 \in [Calendar -> Account \cup {None}] /\ ow1[c] = a
        /\ \A x \in Calendar : x # c => ow1[x] = owner[x]
    BY DEF StoreOK
  <1> HIDE DEF ow1
  <1>3. Shifts(owner, ow1, {c}, {})
    BY <1>1, <1>2 DEF Shifts
  <1> QED
    BY <1>1, <1>3, CalendarsTurn

LEMMA ScriptCreateTurns ==
  ASSUME StoreOK, NEW c \in Calendar, NEW i \in 1..FixtureIds, ScriptCreate(c, i)
  PROVE  \E d : Turn(d)
  <1> DEFINE e == [id |-> i, acct |-> owner[c], cal |-> c, text |-> Fresh, status |-> None]
  <1>1. /\ seq' = seq /\ owner[c] # None
        /\ Mutate(owner, Append(events, e), EventDiff({i}, {}, {}))
    BY DEF ScriptCreate
  <1>2. FixtureIds \in Nat /\ MaxMinted \in Nat /\ seq \in 0..MaxMinted /\ owner[c] \in Account
    BY <1>1, CalendarAssumption DEF StoreOK
  <1>3. /\ i \in Id /\ i <= FixtureIds + seq' /\ seq' \in 0..MaxMinted /\ seq <= seq'
    BY <1>1, <1>2 DEF Id
  <1>4. e \in Event /\ e.id = i
    BY <1>2, <1>3, FreshType, EventIs
  <1> HIDE DEF e
  <1> QED
    BY <1>1, <1>3, <1>4, CreateTurn

LEMMA ScriptUpdateTurns ==
  ASSUME StoreOK, NEW i \in Id, ScriptUpdate(i)
  PROVE  \E d : Turn(d)
  <1> DEFINE k == IdAt(events, i)
  <1>1. /\ k # 0 /\ seq' = seq
        /\ Mutate(owner, [events EXCEPT ![k] = ScriptPatched(@)], EventDiff({}, {i}, {}))
    BY DEF ScriptUpdate
  <1>2. k \in 1..Len(events) /\ events[k].id = i
    BY <1>1, IdAtFinds DEF StoreOK
  <1> HIDE DEF k
  <1>3. events[k] \in Event
    BY <1>2 DEF StoreOK
  <1>4. ScriptPatched(events[k]) \in Event /\ ScriptPatched(events[k]).id = events[k].id
    BY <1>3, FieldsOf, FreshType, PatchIs DEF ScriptPatched
  <1>5. Mutate(owner, [events EXCEPT ![k] = ScriptPatched(events[k])], EventDiff({}, {i}, {}))
    BY <1>1
  <1> QED
    BY <1>1, <1>2, <1>4, <1>5, PatchTurn

LEMMA ScriptDestroyTurns ==
  ASSUME StoreOK, NEW i \in Id, ScriptDestroy(i)
  PROVE  \E d : Turn(d)
  <1> DEFINE k == IdAt(events, i)
             S == {e \in Event : e.id # i}
  <1>1. /\ k # 0 /\ seq' = seq
        /\ Mutate(owner, Only(events, S), EventDiff({}, {}, {<<i, events[k].cal>>}))
    BY DEF ScriptDestroy
  <1>2. k \in 1..Len(events) /\ events[k].id = i
    BY <1>1, IdAtFinds DEF StoreOK
  <1> HIDE DEF k
  <1>3. events[k] \notin S /\ \A e \in Event : e.id # events[k].id => e \in S
    BY <1>2
  <1> HIDE DEF S
  <1>4. Effect(events, Only(events, S), {}, {}, {<<events[k].id, events[k].cal>>})
    BY <1>2, <1>3, FilterEffect DEF StoreOK
  <1> QED
    BY <1>1, <1>2, <1>4, DestroyTurn

(* CalendarEvent/set: a create, then an update, then a destroy. *)
LEMMA BuiltAdds ==
  ASSUME StoreOK, NEW new \in Calendar \cup {None}, seq + Len(BuildEvent(new)) <= MaxMinted
  PROVE  /\ Adds(events, events \o BuildEvent(new), {e.id : e \in ToSet(BuildEvent(new))})
         /\ \A i \in {e.id : e \in ToSet(BuildEvent(new))} :
                i <= FixtureIds + (seq + Len(BuildEvent(new)))
         /\ seq + Len(BuildEvent(new)) \in 0..MaxMinted /\ seq <= seq + Len(BuildEvent(new))
  <1> DEFINE built == BuildEvent(new)
             C == {e.id : e \in ToSet(built)}
  <1>1. seq \in Nat /\ FixtureIds \in Nat /\ MaxMinted \in Nat /\ events \in Seq(Event)
    BY CalendarAssumption DEF StoreOK
  <1>2. CASE new # None /\ owner[new] # None
    <2> DEFINE e == [id |-> Mint, acct |-> owner[new], cal |-> new, text |-> Fresh,
                     status |-> None]
    <2>1. built = <<e>> /\ ToSet(built) = {e} /\ Len(built) = 1
      BY <1>2 DEF BuildEvent, ToSet
    <2>2. seq < MaxMinted
      BY <1>1, <2>1
    <2>3. /\ Mint \in Id /\ Rows(events, Mint) = {} /\ Mint <= FixtureIds + (seq + 1)
          /\ seq + 1 \in 0..MaxMinted /\ seq <= seq + 1
      BY <2>2, MintIs
    <2>4. new \in Calendar /\ owner[new] \in Account
      BY <1>2 DEF StoreOK
    <2>5. e \in Event /\ e.id = Mint
      BY <2>3, <2>4, FreshType, EventIs
    <2> HIDE DEF e
    <2>6. events \o <<e>> = Append(events, e)
      BY <1>1, <2>5, AppendIsConcat
    <2>7. Adds(events, Append(events, e), {Mint})
      BY <1>1, <2>3, <2>5, CreateEffect
    <2>8. C = {Mint}
      BY <2>1, <2>5
    <2> QED
      BY <2>1, <2>3, <2>6, <2>7, <2>8
  <1>3. CASE ~(new # None /\ owner[new] # None)
    <2>1. built = << >> /\ ToSet(built) = {} /\ Len(built) = 0
      BY <1>3 DEF BuildEvent, ToSet
    <2>2. events \o << >> = events
      BY <1>1, ConcatEmptySeq
    <2>3. C = {}
      BY <2>1
    <2>4. Adds(events, events, {})
      BY <1>1, StepsSkip
    <2>5. seq \in 0..MaxMinted
      BY DEF StoreOK
    <2>6. seq + Len(built) = seq
      BY <1>1, <2>1
    <2> HIDE DEF built, C
    <2>7. seq + Len(built) \in 0..MaxMinted /\ seq <= seq + Len(built)
      BY <1>1, <2>5, <2>6
    <2>8. Adds(events, events \o built, C)
      BY <2>1, <2>2, <2>3, <2>4
    <2> QED
      BY <2>3, <2>7, <2>8 DEF built, C
  <1> QED
    BY <1>2, <1>3

LEMMA PatchedIs ==
  ASSUME StoreOK, NEW e \in Event, NEW p \in Patches
  PROVE  Patched(e, p) \in Event /\ Patched(e, p).id = e.id
  <1>1. /\ p.text \in BOOLEAN /\ p.status \in Status \cup {None} /\ p.cal \in Calendar \cup {None}
    BY CalendarAssumption
  <1> DEFINE f == IF p.status = None THEN e ELSE Answered(e, p.status)
  <1>2. f \in Event /\ f.id = e.id
    BY <1>1 DEF Answered, Event
  <1> DEFINE x == IF p.text THEN Fresh ELSE f.text
             c == IF p.cal = None THEN f.cal ELSE p.cal
  <1>3. x \in [Account -> Nat] /\ c \in Calendar
    <2>1. Fresh \in [Account -> Nat]
      BY FreshType
    <2>2. f.text \in [Account -> Nat] /\ f.cal \in Calendar
      <3> HIDE DEF f
      <3> QED
        BY <1>2, FieldsOf
    <2> HIDE DEF f
    <2> QED
      BY <1>1, <2>1, <2>2
  <1>4. Patched(e, p) = [f EXCEPT !.text = x, !.cal = c]
    BY DEF Patched
  <1> HIDE DEF f, x, c
  <1>5. [f EXCEPT !.text = x, !.cal = c] \in Event /\ [f EXCEPT !.text = x, !.cal = c].id = f.id
    BY <1>2, <1>3 DEF Event
  <1> QED
    BY <1>2, <1>4, <1>5

LEMMA PatchRewrites ==
  ASSUME StoreOK, NEW es \in Seq(Event), NEW upd \in {<< >>} \cup (Id \X Patches),
         NEW u, u = IF upd = << >> THEN 0 ELSE IdAt(es, upd[1]), NEW es2,
         es2 = IF u = 0 THEN es ELSE [es EXCEPT ![u] = Patched(@, upd[2])]
  PROVE  es2 \in Seq(Event) /\ Rewrites(es, es2, {upd[1] : k \in {u} \ {0}})
  <1>1. CASE u = 0
    <2>1. {upd[1] : k \in {u} \ {0}} = {} /\ es2 = es
      BY <1>1
    <2> QED
      BY <2>1, StepsSkip
  <1>2. CASE u # 0
    <2>1. upd # << >> /\ u = IdAt(es, upd[1])
      BY <1>2
    <2>2. upd \in Id \X Patches
      BY <2>1
    <2>3. upd[1] \in Id /\ upd[2] \in Patches
      BY <2>2
    <2>4. u \in 1..Len(es) /\ es[u].id = upd[1]
      BY <1>2, <2>1, IdAtFinds
    <2>5. es[u] \in Event
      BY <2>4
    <2> DEFINE e == Patched(es[u], upd[2])
    <2>6. e \in Event /\ e.id = es[u].id
      BY <2>3, <2>5, PatchedIs
    <2>7. es2 = [es EXCEPT ![u] = e]
      BY <1>2
    <2>8. {upd[1] : k \in {u} \ {0}} = {upd[1]}
      BY <1>2
    <2> HIDE DEF e
    <2>9. Rewrites(es, [es EXCEPT ![u] = e], {e.id})
      BY <2>4, <2>6, UpdateEffect
    <2> QED
      BY <2>4, <2>6, <2>7, <2>8, <2>9 DEF Rewrites
  <1> QED
    BY <1>1, <1>2

LEMMA RemoveDrops ==
  ASSUME NEW es \in Seq(Event), NEW i, NEW x, x = IdAt(es, i), NEW es3,
         es3 = IF x = 0 THEN es ELSE RemoveAt(es, x)
  PROVE  Drops(es, es3, {<<i, es[k].cal>> : k \in {x} \ {0}})
  <1>1. CASE x = 0
    <2>1. {<<i, es[k].cal>> : k \in {x} \ {0}} = {} /\ es3 = es
      BY <1>1
    <2> QED
      BY <2>1, StepsSkip
  <1>2. CASE x # 0
    <2>1. x \in 1..Len(es) /\ es[x].id = i
      BY <1>2, IdAtFinds
    <2>2. {<<i, es[k].cal>> : k \in {x} \ {0}} = {<<i, es[x].cal>>} /\ es3 = RemoveAt(es, x)
      BY <1>2
    <2>3. Drops(es, RemoveAt(es, x), {<<es[x].id, es[x].cal>>})
      BY <2>1, RemoveEffect
    <2> QED
      BY <2>1, <2>2, <2>3
  <1> QED
    BY <1>1, <1>2

LEMMA CalendarEventSetTurns ==
  ASSUME StoreOK, NEW new \in Calendar \cup {None}, NEW del \in {0} \cup Id,
         NEW upd \in {<< >>} \cup (Id \X Patches), CalendarEventSet(new, upd, del)
  PROVE  \E d : Turn(d)
  <1> DEFINE built == BuildEvent(new)
             es1 == events \o built
             u   == IF upd = << >> THEN 0 ELSE IdAt(es1, upd[1])
             es2 == IF u = 0 THEN es1 ELSE [es1 EXCEPT ![u] = Patched(@, upd[2])]
             x   == IdAt(es2, del)
             es3 == IF x = 0 THEN es2 ELSE RemoveAt(es2, x)
             C == {e.id : e \in ToSet(built)}
             U == {upd[1] : k \in {u} \ {0}}
             D == {<<del, es2[k].cal>> : k \in {x} \ {0}}
  <1>1. /\ seq + Len(built) <= MaxMinted /\ seq' = seq + Len(built)
        /\ Mutate(owner, es3, EventDiff(C, U, D))
    BY DEF CalendarEventSet
  <1>2. /\ Adds(events, es1, C) /\ \A i \in C : i <= FixtureIds + seq'
        /\ seq' \in 0..MaxMinted /\ seq <= seq'
    BY <1>1, BuiltAdds
  <1> HIDE DEF built, C
  <1>3. es1 \in Seq(Event)
    BY <1>2 DEF Adds
  <1> HIDE DEF es1
  <1>4. es2 \in Seq(Event) /\ Rewrites(es1, es2, U)
    BY <1>3, PatchRewrites
  <1> HIDE DEF es2, u, U
  <1>5. Drops(es2, es3, D)
    BY <1>4, RemoveDrops
  <1> HIDE DEF es3, x, D
  <1>6. Effect(events, es3, C, U, D)
    BY <1>2, <1>4, <1>5, EffectOfSteps
  <1> QED
    BY <1>1, <1>2, <1>6, EventsTurn

(* The step relation of the properties. *)
LEMMA NextTurns ==
  ASSUME StoreOK, Next
  PROVE  \E d : Turn(d)
  <1>1. CASE JmapCalls
    BY <1>1, CalendarEventSetTurns DEF JmapCalls
  <1>2. CASE GraphVerbs
    <2>1. PICK a \in Account :
            \/ \E c \in Calendar : GraphCreate(a, c)
            \/ \E i \in Id, invited \in BOOLEAN : GraphPatch(a, i, invited)
            \/ \E i \in Id : GraphDelete(a, i)
            \/ \E i \in Id, s \in Status : Rsvp(a, i, s)
      BY <1>2 DEF GraphVerbs
    <2>2. CASE \E c \in Calendar : GraphCreate(a, c)
      BY <2>2, GraphCreateTurns
    <2>3. CASE \E i \in Id, invited \in BOOLEAN : GraphPatch(a, i, invited)
      BY <2>3, GraphPatchTurns
    <2>4. CASE \E i \in Id : GraphDelete(a, i)
      BY <2>4, DeleteOwnTurns DEF GraphDelete
    <2>5. CASE \E i \in Id, s \in Status : Rsvp(a, i, s)
      BY <2>5, RsvpTurns
    <2> QED
      BY <2>1, <2>2, <2>3, <2>4, <2>5
  <1>3. CASE GcalVerbs
    <2>1. PICK a \in Account, c \in Calendar :
            \/ GcalCreate(a, c)
            \/ \E i \in Id, invited \in BOOLEAN : GcalPatch(a, c, i, invited)
            \/ \E i \in Id : GcalDelete(a, c, i)
      BY <1>3 DEF GcalVerbs
    <2>2. CASE GcalCreate(a, c)
      BY <2>2, GcalCreateTurns
    <2>3. CASE \E i \in Id, invited \in BOOLEAN : GcalPatch(a, c, i, invited)
      BY <2>3, GcalPatchTurns
    <2>4. CASE \E i \in Id : GcalDelete(a, c, i)
      BY <2>4, DeleteOwnTurns DEF GcalDelete
    <2> QED
      BY <2>1, <2>2, <2>3, <2>4
  <1>4. CASE CaldavVerbs
    <2>1. PICK a \in Account, c \in Calendar :
            \/ \E i \in 1..FixtureIds : \E tag \in Tags(c, i) : CaldavPut(a, c, i, tag)
            \/ \E i \in Id : \E tag \in Tags(c, i) : CaldavDelete(a, c, i, tag)
            \/ DeleteCalendar(a, c)
            \/ a \in Makers /\ Mkcalendar(a, c)
      BY <1>4 DEF CaldavVerbs
    <2>2. CASE \E i \in 1..FixtureIds : \E tag \in Tags(c, i) : CaldavPut(a, c, i, tag)
      BY <2>2, CaldavPutTurns
    <2>3. CASE \E i \in Id : \E tag \in Tags(c, i) : CaldavDelete(a, c, i, tag)
      BY <2>3, CaldavDeleteTurns
    <2>4. CASE DeleteCalendar(a, c)
      BY <2>4, DeleteCalendarTurns
    <2>5. CASE Mkcalendar(a, c)
      BY <2>5, MkcalendarTurns
    <2> QED
      BY <2>1, <2>2, <2>3, <2>4, <2>5
  <1>5. CASE ScriptOps
    BY <1>5, ScriptCreateTurns, ScriptUpdateTurns, ScriptDestroyTurns DEF ScriptOps
  <1> QED
    BY <1>1, <1>2, <1>3, <1>4, <1>5 DEF Next

-----------------------------------------------------------------------------
(* The inductive invariant. *)

(* What a view shows of the id i. *)
Seen(v, i) == {r \in v.events : r[2] = i}

Content == [Account -> Nat] \X (Status \cup {None})
Views == [cals : SUBSET Calendar, events : SUBSET (Calendar \X Id \X Content)]
Records == [from : Nat, to : Nat, created : SUBSET Id, updated : SUBSET Id,
            destroyed : SUBSET (Id \X Calendar), made : SUBSET Calendar,
            dropped : SUBSET Calendar]

(* The log of an account is a contiguous ring and every token has its view. *)
LogOK(a) ==
    /\ log[a].counter \in Nat /\ log[a].ring \in Seq(Records) /\ Contiguous(log[a])
    /\ snap[a] \in Seq(Views) /\ Len(snap[a]) = log[a].counter + 1

(* The history of an id is right: an id that exists twice is twinned, one that
   was destroyed is away until it is made again, and one that a view ever showed
   is still there or was destroyed. *)
Twins == \A i \in Id : ~Sole(events, i) => "twinned" \in past[i]
Gone == \A i \in Id : Plain(i) /\ "gone" \in past[i] => Rows(events, i) = {}
Ever == \A a \in Account, i \in Id : \A m \in 1..Len(snap[a]) :
            Seen(snap[a][m], i) # {} => Rows(events, i) # {} \/ "gone" \in past[i]

(* An event stays with the account that ever showed it and, unless it was moved,
   in the calendar it was shown in. *)
Keeps(a, i) ==
    Plain(i) => \A m \in 1..Len(snap[a]) : \A r \in Seen(snap[a][m], i) :
        \A e \in Rows(events, i) : /\ e.acct = a
                                   /\ "moved" \notin past[i] => e.cal = r[1]

(* The newest view of an account is what it holds: whatever changed since was
   not logged with it, and is neither its calendars nor a plain id. *)
Fresh1(a) ==
    /\ snap[a][log[a].counter + 1].cals = Held(owner, events, a).cals
    /\ \A i \in Id : Plain(i) => Seen(snap[a][log[a].counter + 1], i)
                                   = Seen(Held(owner, events, a), i)

Names(e) == e.created \cup e.updated \cup Ids(e.destroyed)

(* What a retained transition says of the views it lies between. *)
Tells(a, e) ==
    /\ \A i \in Id : Plain(i) /\ Seen(snap[a][e.to], i) # Seen(snap[a][e.to + 1], i)
                       => i \in Names(e)
    /\ \A i \in Id : Plain(i) /\ Seen(snap[a][e.to], i) # {} /\ Seen(snap[a][e.to + 1], i) = {}
                       => i \in Ids(e.destroyed)
    /\ e.made = snap[a][e.to + 1].cals \ snap[a][e.to].cals
    /\ e.dropped = snap[a][e.to].cals \ snap[a][e.to + 1].cals
(* An id it creates no earlier view shows. *)
Creates(a, e) ==
    \A i \in e.created : Plain(i) => \A m \in 1..e.to : Seen(snap[a][m], i) = {}
(* A tombstone is final, its event had been looked up in its calendar, and no view
   shows it in another one. *)
Buries(a, e) ==
    \A p \in e.destroyed :
        /\ "gone" \in past[p[1]]
        /\ Plain(p[1]) => \A m \in (e.to + 1)..Len(snap[a]) : Seen(snap[a][m], p[1]) = {}
        /\ "flitted" \in past[p[1]] \/ \E b \in Account : <<b, p[2], p[1]>> \in checked.events
        /\ Plain(p[1]) /\ "moved" \notin past[p[1]] =>
              \A m \in 1..Len(snap[a]) : \A r \in Seen(snap[a][m], p[1]) : r[1] = p[2]

(* A version that was served is the live one, or its id was written since: the
   log has a newer entry for it, or evicted one. *)
Clean(i) == past[i] \cap {"strayed", "twinned"} = {}
Live(r) == \E e \in Rows(events, r.id) : e.acct = r.home /\ Contents(e) = r.contents
Since(r) == \/ r.etag <= Floor(log[r.home])
            \/ \E k \in 1..Len(log[r.home].ring) :
                  /\ log[r.home].ring[k].to > r.etag /\ r.id \in Names(log[r.home].ring[k])
Serves(r) ==
    /\ r.id \in Id /\ r.home \in Account
    /\ r.acct = r.home /\ r.etag # Seed /\ Clean(r.id) =>
          r.etag \in 1..log[r.home].counter /\ (Live(r) \/ Since(r))

CalInv ==
    /\ StoreOK
    /\ Found(owner, events).cals \subseteq checked.cals
    /\ Found(owner, events).events \subseteq checked.events
    /\ Twins /\ Gone /\ Ever
    /\ \A a \in Account : /\ LogOK(a) /\ Fresh1(a)
                          /\ \A i \in Id : Keeps(a, i)
                          /\ \A k \in 1..Len(log[a].ring) :
                                /\ Tells(a, log[a].ring[k])
                                /\ Creates(a, log[a].ring[k])
                                /\ Buries(a, log[a].ring[k])
    /\ \A r \in served : Serves(r)
    /\ EtagIdentifies

-----------------------------------------------------------------------------
(* The ring. *)

RingOK(l) == l.counter \in Nat /\ l.ring \in Seq(Records) /\ Contiguous(l)

(* ChangeLog::push grows the ring up to the retention, then shifts it. *)
LEMMA PushShifts ==
  ASSUME NEW S, NEW ring \in Seq(S), NEW t \in S
  PROVE  /\ Push(ring, t) \in Seq(S)
         /\ Len(ring) < MAX_TRANSITIONS =>
              /\ Len(Push(ring, t)) = Len(ring) + 1
              /\ \A i \in 1..Len(ring) : Push(ring, t)[i] = ring[i]
         /\ Len(ring) >= MAX_TRANSITIONS =>
              /\ Len(Push(ring, t)) = Len(ring)
              /\ \A i \in 1..(Len(ring) - 1) : Push(ring, t)[i] = ring[i + 1]
         /\ Push(ring, t)[Len(Push(ring, t))] = t
  <1>0. Len(ring) \in Nat /\ MAX_TRANSITIONS \in Nat /\ MAX_TRANSITIONS > 0
    BY RetentionAssumption
  <1>1. CASE Len(ring) < MAX_TRANSITIONS
    <2>1. Push(ring, t) = Append(ring, t)
      BY <1>0, <1>1 DEF Push
    <2>2. /\ Append(ring, t) \in Seq(S) /\ Len(Append(ring, t)) = Len(ring) + 1
          /\ \A i \in 1..Len(ring) : Append(ring, t)[i] = ring[i]
          /\ Append(ring, t)[Len(ring) + 1] = t
      BY AppendProperties
    <2> QED
      BY <1>0, <1>1, <2>1, <2>2
  <1>2. CASE Len(ring) >= MAX_TRANSITIONS
    <2> DEFINE T == Tail(ring)
    <2>1. ring # << >>
      BY <1>0, <1>2
    <2>2. T \in Seq(S) /\ Len(T) = Len(ring) - 1 /\ \A i \in 1..(Len(ring) - 1) : T[i] = ring[i + 1]
      BY <2>1
    <2>3. Push(ring, t) = Append(T, t)
      BY <1>0, <1>2 DEF Push
    <2> HIDE DEF T
    <2>4. /\ Append(T, t) \in Seq(S) /\ Len(Append(T, t)) = Len(T) + 1
          /\ \A i \in 1..Len(T) : Append(T, t)[i] = T[i]
          /\ Append(T, t)[Len(T) + 1] = t
      BY <2>2, AppendProperties
    <2>5. Len(T) + 1 = Len(ring)
      BY <1>0, <2>2
    <2>6. /\ Push(ring, t) \in Seq(S) /\ Len(Push(ring, t)) = Len(ring)
          /\ Push(ring, t)[Len(ring)] = t
      BY <2>3, <2>4, <2>5
    <2>7. \A i \in 1..(Len(ring) - 1) : Push(ring, t)[i] = ring[i + 1]
      BY <2>2, <2>3, <2>4
    <2> QED
      BY <1>0, <1>2, <2>6, <2>7
  <1> QED
    BY <1>0, <1>1, <1>2

(* m is l with the transition t: its entries are t and those of l that are not
   evicted. *)
Grown(l, m, t) ==
    /\ RingOK(m) /\ Len(m.ring) \in Nat \ {0} /\ m.ring[Len(m.ring)] = t
    /\ \A k \in 1..Len(m.ring) : m.ring[k] = t \/ \E j \in 1..Len(l.ring) : m.ring[k] = l.ring[j]
    /\ Floor(l) <= Floor(m)
    /\ \A j \in 1..Len(l.ring) :
          l.ring[j].to <= Floor(m) \/ \E k \in 1..Len(m.ring) : m.ring[k] = l.ring[j]

(* One more transition. *)
LEMMA RingGrows ==
  ASSUME NEW l, RingOK(l), NEW t \in Records, t.from = l.counter, t.to = l.counter + 1,
         NEW m, m.counter = l.counter + 1, m.ring = Push(l.ring, t)
  PROVE  Grown(l, m, t)
  <1> DEFINE q == l.ring
             r == m.ring
             n == l.counter
  <1>1. n \in Nat /\ q \in Seq(Records) /\ Contiguous(l)
    BY DEF RingOK
  <1>2. /\ r \in Seq(Records)
        /\ Len(q) < MAX_TRANSITIONS =>
             Len(r) = Len(q) + 1 /\ \A i \in 1..Len(q) : r[i] = q[i]
        /\ Len(q) >= MAX_TRANSITIONS =>
             Len(r) = Len(q) /\ \A i \in 1..(Len(q) - 1) : r[i] = q[i + 1]
        /\ r[Len(r)] = t
    <2>1. r = Push(q, t)
      OBVIOUS
    <2> DEFINE S == Records
    <2>2. q \in Seq(S) /\ t \in S
      BY <1>1
    <2> HIDE DEF q, r, S
    <2>3. /\ Push(q, t) \in Seq(S)
          /\ Len(q) < MAX_TRANSITIONS =>
               Len(Push(q, t)) = Len(q) + 1 /\ \A i \in 1..Len(q) : Push(q, t)[i] = q[i]
          /\ Len(q) >= MAX_TRANSITIONS =>
               Len(Push(q, t)) = Len(q) /\ \A i \in 1..(Len(q) - 1) : Push(q, t)[i] = q[i + 1]
          /\ Push(q, t)[Len(Push(q, t))] = t
      BY ONLY <2>2, PushShifts
    <2> QED
      BY ONLY <2>1, <2>3 DEF S
  <1>3. /\ Len(q) = IF n < MAX_TRANSITIONS THEN n ELSE MAX_TRANSITIONS
        /\ \A i \in 1..Len(q) : q[i].from = n - Len(q) + i - 1 /\ q[i].to = q[i].from + 1
        /\ Floor(l) = n - Len(q) /\ Floor(m) = n + 1 - Len(r)
    BY <1>1 DEF Contiguous, Floor
  <1>4. Len(q) \in Nat /\ Len(r) \in Nat /\ MAX_TRANSITIONS \in Nat /\ MAX_TRANSITIONS > 0
    BY <1>1, <1>2, RetentionAssumption
  <1>5. m.counter = n + 1 /\ t.from = n /\ t.to = n + 1
    OBVIOUS
  <1> HIDE DEF q, r, n
  <1>6. Len(r) = IF n + 1 < MAX_TRANSITIONS THEN n + 1 ELSE MAX_TRANSITIONS
    BY <1>1, <1>2, <1>3, <1>4
  <1>7. \A i \in 1..Len(r) : r[i].from = n + 1 - Len(r) + i - 1 /\ r[i].to = r[i].from + 1
    <2> TAKE i \in 1..Len(r)
    <2>1. CASE i = Len(r)
      <3>1. r[i] = t
        BY <2>1, <1>2
      <3>2. n = n + 1 - Len(r) + i - 1
        BY <2>1, <1>1, <1>4
      <3> QED
        BY <3>1, <3>2, <1>5
    <2>2. CASE i # Len(r) /\ Len(q) < MAX_TRANSITIONS
      <3>1. i \in 1..Len(q) /\ r[i] = q[i] /\ Len(r) = Len(q) + 1
        BY <2>2, <1>2, <1>4
      <3>2. q[i].from = n - Len(q) + i - 1 /\ q[i].to = q[i].from + 1
        BY <3>1, <1>3
      <3>3. n - Len(q) + i - 1 = n + 1 - Len(r) + i - 1
        BY <3>1, <1>1, <1>4
      <3> QED
        BY <3>1, <3>2, <3>3
    <2>3. CASE i # Len(r) /\ Len(q) >= MAX_TRANSITIONS
      <3>1. i \in 1..(Len(q) - 1) /\ r[i] = q[i + 1] /\ Len(r) = Len(q) /\ i + 1 \in 1..Len(q)
        BY <2>3, <1>2, <1>4
      <3>2. q[i + 1].from = n - Len(q) + (i + 1) - 1 /\ q[i + 1].to = q[i + 1].from + 1
        BY <3>1, <1>3
      <3>3. n - Len(q) + (i + 1) - 1 = n + 1 - Len(r) + i - 1
        BY <3>1, <1>1, <1>4
      <3> QED
        BY <3>1, <3>2, <3>3
    <2> QED
      BY <2>1, <2>2, <2>3, <1>4
  <1>8. \A k \in 1..Len(r) : r[k] = t \/ \E j \in 1..Len(q) : r[k] = q[j]
    <2> TAKE k \in 1..Len(r)
    <2>1. CASE k = Len(r)
      BY <2>1, <1>2
    <2>2. CASE k # Len(r) /\ Len(q) < MAX_TRANSITIONS
      <3>1. k \in 1..Len(q)
        BY <2>2, <1>2, <1>4
      <3> QED
        BY <2>2, <3>1, <1>2
    <2>3. CASE k # Len(r) /\ Len(q) >= MAX_TRANSITIONS
      <3>1. k \in 1..(Len(q) - 1) /\ k + 1 \in 1..Len(q)
        BY <2>3, <1>2, <1>4
      <3> QED
        BY <2>3, <3>1, <1>2
    <2> QED
      BY <2>1, <2>2, <2>3, <1>4
  <1>9. ASSUME NEW j \in 1..Len(q), ~(q[j].to <= n + 1 - Len(r))
        PROVE  \E k \in 1..Len(r) : r[k] = q[j]
    <2>1. q[j].from = n - Len(q) + j - 1 /\ q[j].to = q[j].from + 1
      BY <1>3
    <2>2. q[j].to = n - Len(q) + j
      BY <2>1, <1>1, <1>4
    <2>3. CASE Len(q) < MAX_TRANSITIONS
      BY <2>3, <1>2, <1>4
    <2>4. CASE Len(q) >= MAX_TRANSITIONS
      <3>1. j - 1 \in 1..(Len(q) - 1) /\ j - 1 \in 1..Len(r) /\ (j - 1) + 1 = j
        BY <2>2, <2>4, <1>1, <1>2, <1>4, <1>9
      <3> QED
        BY <2>4, <3>1, <1>2
    <2> QED
      BY <2>3, <2>4, <1>4
  <1>10. RingOK(m)
    <2>1. m.counter \in Nat
      BY <1>1, <1>5
    <2>2. Contiguous(m)
      BY <1>3, <1>5, <1>6, <1>7 DEF Contiguous, r
    <2> QED
      BY <1>2, <2>1, <2>2 DEF RingOK, r
  <1>11. Len(r) > 0 /\ n - Len(q) <= n + 1 - Len(r)
    BY <1>1, <1>2, <1>4, <1>6
  <1>12. \A j \in 1..Len(q) : q[j].to <= n + 1 - Len(r) \/ \E k \in 1..Len(r) : r[k] = q[j]
    BY <1>9
  <1>13. Len(r) \in Nat \ {0} /\ Floor(l) <= Floor(m)
    BY <1>3, <1>4, <1>11
  <1>14. \A j \in 1..Len(q) : q[j].to <= Floor(m) \/ \E k \in 1..Len(r) : r[k] = q[j]
    BY <1>3, <1>12
  <1> QED
    BY <1>2, <1>8, <1>10, <1>13, <1>14 DEF Grown, q, r

(* The entries of a ring are numbered by the tokens they lead between. *)
LEMMA RingNumbers ==
  ASSUME NEW l, RingOK(l)
  PROVE  /\ l.counter \in Nat /\ Floor(l) \in 0..l.counter /\ Len(l.ring) \in Nat
         /\ Len(l.ring) <= MAX_TRANSITIONS
         /\ \A i \in 1..Len(l.ring) :
              /\ l.ring[i] \in Records /\ l.ring[i].to = Floor(l) + i
              /\ l.ring[i].from = Floor(l) + i - 1
              /\ l.ring[i].to \in (Floor(l) + 1)..l.counter
  <1>1. l.counter \in Nat /\ l.ring \in Seq(Records) /\ Len(l.ring) \in Nat
    BY DEF RingOK
  <1>2. Len(l.ring) <= l.counter /\ Len(l.ring) <= MAX_TRANSITIONS
    BY <1>1, RetentionAssumption DEF Contiguous, RingOK
  <1>3. Floor(l) = l.counter - Len(l.ring)
    BY DEF Floor
  <1>4. ASSUME NEW i \in 1..Len(l.ring)
        PROVE  /\ l.ring[i] \in Records /\ l.ring[i].to = Floor(l) + i
               /\ l.ring[i].from = Floor(l) + i - 1
               /\ l.ring[i].to \in (Floor(l) + 1)..l.counter
    <2>1. l.ring[i].from = Floor(l) + i - 1 /\ l.ring[i].to = l.ring[i].from + 1
      BY DEF Contiguous, RingOK
    <2>2. l.ring[i] \in Records
      BY <1>1
    <2> DEFINE F == Floor(l)
               n == Len(l.ring)
    <2>3. F = l.counter - n /\ n \in Nat /\ n <= l.counter /\ i \in 1..n /\ l.counter \in Nat
      BY <1>1, <1>2, <1>3
    <2> HIDE DEF F, n
    <2>4. F + i - 1 + 1 = F + i /\ F + i \in (F + 1)..l.counter
      BY <2>3
    <2>5. l.ring[i].to = F + i
      BY <2>1, <2>3, <2>4 DEF F
    <2> QED
      BY <2>1, <2>2, <2>4, <2>5 DEF F
  <1> QED
    BY <1>1, <1>2, <1>3, <1>4

(* From a token t the ring covers, the walk visits the entries that lead to a
   later token. *)
LEMMA WindowIs ==
  ASSUME NEW l, RingOK(l), NEW t \in Floor(l)..(l.counter - 1)
  PROVE  Window(l, t) = {i \in 1..Len(l.ring) : l.ring[i].to > t} /\ Known(l, t)
  <1>1. /\ l.counter \in Nat /\ Floor(l) \in 0..l.counter /\ Len(l.ring) \in Nat
        /\ Floor(l) = l.counter - Len(l.ring)
        /\ \A i \in 1..Len(l.ring) : l.ring[i].to = Floor(l) + i
                                     /\ l.ring[i].from = Floor(l) + i - 1
    BY RingNumbers DEF Floor
  <1> DEFINE F == Floor(l)
             n == Len(l.ring)
  <1>2. F \in Nat /\ n \in Nat /\ t \in F..(F + n - 1)
    BY <1>1
  <1>3. \A i \in 1..n : l.ring[i].to = F + i /\ l.ring[i].from = F + i - 1
    BY <1>1
  <1> HIDE DEF F, n
  <1>4. t - F + 1 \in 1..n /\ l.ring[t - F + 1].from = t
    <2>1. t - F + 1 \in 1..n /\ F + (t - F + 1) - 1 = t
      BY <1>2
    <2> QED
      BY <1>3, <2>1
  <1>5. ASSUME NEW i \in 1..n
        PROVE  (t = Seed \/ \E j \in 1..i : l.ring[j].from = t) <=> l.ring[i].to > t
    <2>1. ASSUME t = Seed PROVE l.ring[i].to > t
      BY <1>2, <1>3, <2>1 DEF Seed
    <2>2. ASSUME NEW j \in 1..i, l.ring[j].from = t PROVE l.ring[i].to > t
      <3>1. j \in 1..n
        BY <1>2
      <3>2. t = F + j - 1 /\ l.ring[i].to = F + i
        BY <1>3, <2>2, <3>1
      <3> QED
        BY <1>2, <3>2
    <2>3. ASSUME l.ring[i].to > t PROVE \E j \in 1..i : l.ring[j].from = t
      <3>1. t - F + 1 \in 1..i
        BY <1>2, <1>3, <2>3
      <3> QED
        BY <1>4, <3>1
    <2> QED
      BY <2>1, <2>2, <2>3
  <1> QED
    BY <1>4, <1>5 DEF Window, Known, n

(* A walk from p to q that starts outside of B and ends in it enters it. *)
LEMMA Crossing ==
  ASSUME NEW B, NEW p \in Nat, NEW q \in Nat, p <= q, p \notin B, q \in B
  PROVE  \E m \in (p + 1)..q : m - 1 \notin B /\ m \in B
  <1> DEFINE T == {k \in Nat : k >= p /\ k \in B}
  <1>1. T \subseteq Nat /\ q \in T
    OBVIOUS
  <1>2. PICK x \in T : \A y \in T : x <= y
    <2> HIDE DEF T
    <2> QED
      BY <1>1, Least
  <1>3. x \in Nat /\ x >= p /\ x \in B /\ x # p /\ x <= q
    BY <1>1, <1>2
  <1>4. x \in (p + 1)..q /\ x - 1 \notin T /\ x - 1 \in Nat /\ x - 1 >= p
    BY <1>2, <1>3
  <1> QED
    BY <1>3, <1>4

-----------------------------------------------------------------------------
(* What a turn writes into the history of an id. *)

Cals(es, i) == {e.cal : e \in Rows(es, i)}
Accts(es, i) == {e.acct : e \in Rows(es, i)}

(* The id is in the diff. *)
Named(d, i) == i \in d.created \cup d.updated \/ \E p \in d.destroyed : p[1] = i

(* The calendars an id is in after a turn or was removed from. *)
Where(es1, d, i) == Cals(es1, i) \cup {p[2] : p \in {p \in d.destroyed : p[1] = i}}

LEMMA CalsAt ==
  ASSUME NEW es \in Seq(Event), NEW i
  PROVE  {es[k].cal : k \in {k \in DOMAIN es : es[k].id = i}} = Cals(es, i)
  BY DEF Cals, Rows, Range

LEMMA AcctsAt ==
  ASSUME NEW es \in Seq(Event), NEW es1 \in Seq(Event), NEW i
  PROVE  Accts(es, i) \cup Accts(es1, i) \subseteq
            {(es \o es1)[k].acct : k \in {k \in DOMAIN (es \o es1) : (es \o es1)[k].id = i}}
  <1> DEFINE t == es \o es1
  <1>1. /\ Len(es) \in Nat /\ Len(es1) \in Nat /\ DOMAIN t = 1..(Len(es) + Len(es1))
        /\ \A k \in 1..(Len(es) + Len(es1)) : t[k] = IF k <= Len(es) THEN es[k] ELSE es1[k - Len(es)]
        /\ DOMAIN es = 1..Len(es) /\ DOMAIN es1 = 1..Len(es1)
    <2>1. t \in Seq(Event) /\ Len(t) = Len(es) + Len(es1)
      BY ConcatProperties
    <2>2. DOMAIN t = 1..Len(t)
      BY <2>1
    <2> QED
      BY <2>1, <2>2, ConcatProperties
  <1> HIDE DEF t
  <1>2. ASSUME NEW e \in Rows(es, i) PROVE \E k \in DOMAIN t : t[k] = e
    <2>1. PICK k \in 1..Len(es) : es[k] = e
      BY <1>1 DEF Rows, Range
    <2>2. k \in 1..(Len(es) + Len(es1)) /\ k <= Len(es)
      BY <1>1
    <2> QED
      BY <1>1, <2>1, <2>2
  <1>3. ASSUME NEW e \in Rows(es1, i) PROVE \E k \in DOMAIN t : t[k] = e
    <2>1. PICK k \in 1..Len(es1) : es1[k] = e
      BY <1>1 DEF Rows, Range
    <2>2. k + Len(es) \in 1..(Len(es) + Len(es1)) /\ ~(k + Len(es) <= Len(es))
          /\ (k + Len(es)) - Len(es) = k
      BY <1>1
    <2> QED
      BY <1>1, <2>1, <2>2
  <1>4. \A e \in Rows(es, i) \cup Rows(es1, i) : e.id = i
    BY DEF Rows
  <1> QED
    BY <1>2, <1>3, <1>4 DEF Accts, t

LEMMA GoneIs ==
  ASSUME NEW ow1, NEW es1, NEW d, NEW i, "gone" \in PastOf(ow1, es1, d, i)
  PROVE  \E p \in d.destroyed : p[1] = i
  BY DEF PastOf

LEMMA PastOfIs ==
  ASSUME NEW ow1, NEW es1 \in Seq(Event), NEW d, NEW i, events \in Seq(Event)
  PROVE  LET h == PastOf(ow1, es1, d, i)
         IN  /\ (\E p \in d.destroyed : p[1] = i) => "gone" \in h
             /\ i \in d.created \cup d.updated
                  /\ (\E p \in d.destroyed : p[1] = i /\ p[2] \notin Cals(events, i))
                  => "flitted" \in h
             /\ i \in d.created /\ "gone" \in past[i] => "reborn" \in h
             /\ i \notin d.created /\ ~(Where(es1, d, i) \subseteq Cals(events, i)) => "moved" \in h
             /\ Named(d, i) /\ (\E a \in Accts(events, i) \cup Accts(es1, i),
                                   c \in Where(es1, d, i) : a # AccountOfCalendar(ow1, c))
                  => "strayed" \in h
             /\ ~Sole(es1, i) => "twinned" \in h
  <1> DEFINE at(es, x) == {es[k][x] : k \in {k \in DOMAIN es : es[k].id = i}}
             where == at(es1, "cal") \cup {p[2] : p \in {p \in d.destroyed : p[1] = i}}
             written == i \in d.created \cup d.updated \/ \E p \in d.destroyed : p[1] = i
             gone == \E p \in d.destroyed : p[1] = i
             flitted == /\ i \in d.created \cup d.updated
                        /\ \E p \in d.destroyed : p[1] = i /\ p[2] \notin at(events, "cal")
             reborn == i \in d.created /\ "gone" \in past[i]
             moved == i \notin d.created /\ ~(where \subseteq at(events, "cal"))
             strayed == written /\ \E a \in at(events \o es1, "acct"), c \in where :
                                      a # AccountOfCalendar(ow1, c)
             twinned == \E j, k \in DOMAIN es1 : j # k /\ es1[j].id = i /\ es1[k].id = i
  <1>1. PastOf(ow1, es1, d, i) =
          {h \in {"gone", "flitted", "reborn", "moved", "strayed", "twinned"} :
             CASE h = "gone" -> gone [] h = "flitted" -> flitted [] h = "reborn" -> reborn
               [] h = "moved" -> moved [] h = "strayed" -> strayed [] h = "twinned" -> twinned}
    BY DEF PastOf
  <1>2. at(es1, "cal") = Cals(es1, i) /\ at(events, "cal") = Cals(events, i)
    BY CalsAt
  <1>3. Accts(events, i) \cup Accts(es1, i) \subseteq at(events \o es1, "acct")
    BY AcctsAt
  <1>4. where = Where(es1, d, i)
    BY <1>2 DEF Where
  <1>5. twinned <=> ~Sole(es1, i)
    BY DEF Sole
  <1> HIDE DEF at
  <1>6. /\ i \in d.created \cup d.updated
             /\ (\E p \in d.destroyed : p[1] = i /\ p[2] \notin Cals(events, i)) => flitted
        /\ i \notin d.created /\ ~(Where(es1, d, i) \subseteq Cals(events, i)) => moved
        /\ Named(d, i) /\ (\E a \in Accts(events, i) \cup Accts(es1, i),
                                   c \in Where(es1, d, i) : a # AccountOfCalendar(ow1, c))
                  => strayed
    BY <1>2, <1>3, <1>4 DEF Named
  <1>7. (gone <=> "gone" \in PastOf(ow1, es1, d, i)) /\ (reborn => "reborn" \in PastOf(ow1, es1, d, i))
    <2> HIDE DEF gone, flitted, reborn, moved, strayed, twinned
    <2> QED
      BY <1>1
  <1>8. (flitted => "flitted" \in PastOf(ow1, es1, d, i)) /\ (moved => "moved" \in PastOf(ow1, es1, d, i))
    <2> HIDE DEF gone, flitted, reborn, moved, strayed, twinned
    <2> QED
      BY <1>1
  <1>9. (strayed => "strayed" \in PastOf(ow1, es1, d, i))
        /\ (twinned => "twinned" \in PastOf(ow1, es1, d, i))
    <2> HIDE DEF gone, flitted, reborn, moved, strayed, twinned
    <2> QED
      BY <1>1
  <1> HIDE DEF flitted, moved, strayed, twinned
  <1> QED
    BY <1>5, <1>6, <1>7, <1>8, <1>9

-----------------------------------------------------------------------------
(* A turn, id by id. *)

(* Everything the turn does with the id i. *)
Turned(d, i) ==
    /\ past[i] \subseteq past'[i]
    /\ "gone" \in past'[i] => "gone" \in past[i] \/ \E p \in d.destroyed : p[1] = i
    /\ ~Named(d, i) => Rows(events', i) = Rows(events, i)
    /\ i \in d.created => /\ Rows(events, i) # {} => "twinned" \in past'[i]
                          /\ "gone" \in past[i] => "reborn" \in past'[i]
    /\ i \in d.updated => Rows(events, i) # {} \/ i \in d.created
    /\ i \in d.created \cup d.updated =>
          Rows(events', i) # {} \/ \E p \in d.destroyed : p[1] = i
    /\ i \notin d.created /\ "moved" \notin past'[i] =>
          Where(events', d, i) \subseteq Cals(events, i)
    /\ Named(d, i) /\ "strayed" \notin past'[i] =>
          \A a \in Accts(events, i) \cup Accts(events', i), c \in Where(events', d, i) :
              a = AccountOfCalendar(owner', c)
    /\ ~Sole(events', i) => "twinned" \in past'[i]
Buried(d, p) ==
    /\ p \in Id \X Calendar /\ "gone" \in past'[p[1]]
    /\ Rows(events, p[1]) # {} \/ p[1] \in d.created
    /\ Rows(events', p[1]) # {} => "twinned" \in past'[p[1]]
    /\ \/ p[2] \in Cals(events, p[1])
       \/ p[1] \in d.created \cup d.updated /\ "flitted" \in past'[p[1]]

LEMMA TurnedIs ==
  ASSUME StoreOK, NEW d, Turn(d), NEW i \in Id
  PROVE  Turned(d, i)
  <1>1. past' = [j \in Id |-> past[j] \cup PastOf(owner', events', d, j)]
    BY DEF Turn, Recorded
  <1>2. past'[i] = past[i] \cup PastOf(owner', events', d, i)
    BY <1>1
  <1>3. events \in Seq(Event) /\ events' \in Seq(Event)
    BY DEF StoreOK, Turn, Effect
  <1>0. "gone" \in past'[i] => "gone" \in past[i] \/ \E p \in d.destroyed : p[1] = i
    <2>1. "gone" \in PastOf(owner', events', d, i) => \E p \in d.destroyed : p[1] = i
      BY GoneIs
    <2> QED
      BY <1>2, <2>1
  <1>4. /\ i \in d.created /\ "gone" \in past[i] => "reborn" \in past'[i]
        /\ i \notin d.created /\ ~(Where(events', d, i) \subseteq Cals(events, i))
              => "moved" \in past'[i]
        /\ Named(d, i) /\ (\E a \in Accts(events, i) \cup Accts(events', i),
                              c \in Where(events', d, i) : a # AccountOfCalendar(owner', c))
              => "strayed" \in past'[i]
        /\ ~Sole(events', i) => "twinned" \in past'[i]
    BY <1>2, <1>3, PastOfIs
  <1>5. /\ ~Named(d, i) => Rows(events', i) = Rows(events, i)
        /\ i \in d.created => (Rows(events, i) # {} => ~Sole(events', i))
        /\ i \in d.updated => Rows(events, i) # {} \/ i \in d.created
        /\ i \in d.created \cup d.updated =>
              Rows(events', i) # {} \/ \E p \in d.destroyed : p[1] = i
    BY DEF Turn, Effect, Named, Ids
  <1> QED
    BY <1>0, <1>2, <1>4, <1>5 DEF Turned

LEMMA BuriedIs ==
  ASSUME StoreOK, Twins, NEW d, Turn(d), NEW p \in d.destroyed
  PROVE  Buried(d, p)
  <1>1. past' = [j \in Id |-> past[j] \cup PastOf(owner', events', d, j)]
    BY DEF Turn, Recorded
  <1>2. p \in Id \X Calendar
    BY DEF Turn, Effect
  <1>3. p[1] \in Id
    BY <1>2
  <1>4. past'[p[1]] = past[p[1]] \cup PastOf(owner', events', d, p[1])
    BY <1>1, <1>3
  <1>5. events \in Seq(Event) /\ events' \in Seq(Event)
    BY DEF StoreOK, Turn, Effect
  <1>6. /\ "gone" \in past'[p[1]]
        /\ p[1] \in d.created \cup d.updated /\ p[2] \notin Cals(events, p[1])
              => "flitted" \in past'[p[1]]
    BY <1>4, <1>5, PastOfIs
  <1>7. /\ Rows(events, p[1]) # {} \/ p[1] \in d.created
        /\ Rows(events', p[1]) # {} => ~Sole(events, p[1])
        /\ p[1] \in d.created \cup d.updated \/ \E e \in Rows(events, p[1]) : e.cal = p[2]
    BY DEF Turn, Effect
  <1>8. (\E e \in Rows(events, p[1]) : e.cal = p[2]) => p[2] \in Cals(events, p[1])
    BY DEF Cals
  <1>9. ~Sole(events, p[1]) => "twinned" \in past'[p[1]]
    BY <1>3, <1>4 DEF Twins
  <1>10. Rows(events', p[1]) # {} => "twinned" \in past'[p[1]]
    BY <1>7, <1>9
  <1>11. \/ p[2] \in Cals(events, p[1])
         \/ p[1] \in d.created \cup d.updated /\ "flitted" \in past'[p[1]]
    BY <1>6, <1>7, <1>8
  <1> QED
    BY <1>2, <1>6, <1>7, <1>10, <1>11 DEF Buried

(* The part of a turn that goes to account a. *)
Share(d, a) == SubDiff(owner', events', d, a)

LEMMA RowIs ==
  ASSUME NEW es \in Seq(Event), NEW i, NEW e \in Rows(es, i)
  PROVE  /\ e \in Event /\ e.id = i /\ i \in Id /\ e.acct \in Account /\ e.cal \in Calendar
         /\ e.cal \in Cals(es, i) /\ e.acct \in Accts(es, i)
  <1>1. e \in Event /\ e.id = i
    BY DEF Rows, Range
  <1> QED
    BY <1>1 DEF Event, Cals, Accts

(* What is there is accounted to the calendar of its last event. *)
LEMMA AccountOf ==
  ASSUME NEW es \in Seq(Event), NEW i, Rows(es, i) # {}, NEW ow
  PROVE  \E c \in Cals(es, i) : AccountOfEvent(ow, es, i) = AccountOfCalendar(ow, c)
  <1> DEFINE k == LastIdAt(es, i)
  <1>1. IdAt(es, i) # 0 /\ k # 0 /\ k \in 0..Len(es) /\ es[k].id = i
    BY IdAtFinds, LastIdAtFinds
  <1>2. AccountOfEvent(ow, es, i) = AccountOfCalendar(ow, es[k].cal)
    BY <1>1 DEF AccountOfEvent
  <1> HIDE DEF k
  <1>3. k \in 1..Len(es)
    BY <1>1
  <1>4. es[k] \in Rows(es, i)
    BY <1>1, <1>3, RowsAt
  <1> QED
    BY <1>2, <1>4 DEF Cals

(* An id that is written by the book is logged with the one account it has. *)
LEMMA OneAccount ==
  ASSUME StoreOK, Twins, NEW d, Turn(d), NEW i \in Id, Named(d, i), "strayed" \notin past'[i],
         NEW a \in Accts(events, i) \cup Accts(events', i)
  PROVE  /\ a \in Account
         /\ \A e \in Rows(events, i) \cup Rows(events', i) : e.acct = a
         /\ i \in Names(Share(d, a))
         /\ \A p \in d.destroyed : p[1] = i => p \in Share(d, a).destroyed
  <1>1. events \in Seq(Event) /\ events' \in Seq(Event)
    BY DEF StoreOK, Turn, Effect
  <1>2. a \in Account
    BY <1>1, RowIs DEF Accts
  <1>3. \A b \in Accts(events, i) \cup Accts(events', i), c \in Where(events', d, i) :
              b = AccountOfCalendar(owner', c)
    BY TurnedIs DEF Turned
  <1>4. \A p \in d.destroyed : p[1] = i => p[2] \in Where(events', d, i) /\ p \in Share(d, a).destroyed
    <2> SUFFICES ASSUME NEW p \in d.destroyed, p[1] = i
                 PROVE  p[2] \in Where(events', d, i) /\ p \in Share(d, a).destroyed
      OBVIOUS
    <2>1. p[2] \in Where(events', d, i)
      BY DEF Where
    <2>2. a = AccountOfCalendar(owner', p[2])
      BY <1>3, <2>1
    <2> QED
      BY <2>1, <2>2 DEF Share, SubDiff
  <1>5. ASSUME i \in d.created \cup d.updated, Rows(events', i) # {}
        PROVE  /\ Where(events', d, i) # {}
               /\ i \in Share(d, a).created \cup Share(d, a).updated
    <2>1. PICK c \in Cals(events', i) : AccountOfEvent(owner', events', i) = AccountOfCalendar(owner', c)
      BY <1>1, <1>5, AccountOf
    <2>2. c \in Where(events', d, i)
      BY DEF Where
    <2>3. AccountOfEvent(owner', events', i) = a
      BY <1>3, <2>1, <2>2
    <2> QED
      BY <1>5, <2>2, <2>3 DEF Share, SubDiff
  <1>6. Where(events', d, i) # {} /\ i \in Names(Share(d, a))
    <2>1. CASE \E p \in d.destroyed : p[1] = i
      BY <1>4, <2>1 DEF Names, Ids
    <2>2. CASE ~\E p \in d.destroyed : p[1] = i
      <3>1. i \in d.created \cup d.updated
        BY <2>2 DEF Named
      <3>2. Rows(events', i) # {}
        BY <2>2, <3>1, TurnedIs DEF Turned
      <3> QED
        BY <1>5, <3>1, <3>2 DEF Names
    <2> QED
      BY <2>1, <2>2
  <1>7. \A e \in Rows(events, i) \cup Rows(events', i) : e.acct = a
    <2>1. \A e \in Rows(events, i) \cup Rows(events', i) :
              e.acct \in Accts(events, i) \cup Accts(events', i)
      BY DEF Accts
    <2> QED
      BY <1>3, <1>6, <2>1
  <1> QED
    BY <1>2, <1>4, <1>6, <1>7

-----------------------------------------------------------------------------
(* A turn, log by log. *)

(* The log of account a takes one more transition and its view. *)
Advanced(d, a) ==
    /\ log'[a].counter = log[a].counter + 1
    /\ log'[a].ring = Push(log[a].ring, EventTransition(log[a].counter, Share(d, a)))
    /\ snap'[a] = Append(snap[a], Held(owner', events', a))
(* Or it stays as it is. *)
Rested(d, a) ==
    /\ \A i : i \notin Names(Share(d, a))
    /\ Share(d, a).destroyed = {} /\ Share(d, a).made = {} /\ Share(d, a).dropped = {}
    /\ log'[a] = log[a] /\ snap'[a] = snap[a]

LEMMA ShareIs ==
  ASSUME NEW d, Turn(d), NEW a, NEW n \in Nat
  PROVE  /\ EventTransition(n, Share(d, a)) \in Records
         /\ EventTransition(n, Share(d, a)).from = n
         /\ EventTransition(n, Share(d, a)).to = n + 1
         /\ EventTransition(n, Share(d, a)).created = Share(d, a).created
         /\ EventTransition(n, Share(d, a)).updated = Share(d, a).updated
         /\ EventTransition(n, Share(d, a)).destroyed = Share(d, a).destroyed
         /\ EventTransition(n, Share(d, a)).made = Share(d, a).made
         /\ EventTransition(n, Share(d, a)).dropped = Share(d, a).dropped
  <1> DEFINE s == Share(d, a)
  <1>1. /\ d.created \subseteq Id /\ d.updated \subseteq Id /\ d.destroyed \subseteq Id \X Calendar
        /\ d.made \subseteq Calendar /\ d.dropped \subseteq Calendar \X Account
    BY DEF Turn, Effect, Shifts
  <1>2. \A p \in d.dropped : p[1] \in Calendar
    BY <1>1
  <1>3. /\ s.created \subseteq Id /\ s.updated \subseteq Id /\ s.destroyed \subseteq Id \X Calendar
        /\ s.made \subseteq Calendar /\ s.dropped \subseteq Calendar
    BY <1>1, <1>2 DEF Share, SubDiff
  <1> HIDE DEF s
  <1> QED
    BY <1>3 DEF EventTransition, Records, s

LEMMA LogMoves ==
  ASSUME StoreOK, NEW d, Turn(d), NEW a \in Account
  PROVE  Advanced(d, a) \/ Rested(d, a)
  <1>1. log' = RecordTransition(owner', events', d)
    BY DEF Turn, Recorded
  <1>2. snap' = [b \in Account |-> IF log'[b].counter = log[b].counter THEN snap[b]
                                  ELSE Append(snap[b], Held(owner', events', b))]
    BY DEF Turn, Recorded
  <1>3. snap'[a] = IF log'[a].counter = log[a].counter THEN snap[a]
                   ELSE Append(snap[a], Held(owner', events', a))
    BY <1>2
  <1>4. log'[a] = IF Share(d, a) = NoDiff THEN log[a]
                  ELSE [counter |-> log[a].counter + 1,
                        ring |-> Push(log[a].ring,
                                      EventTransition(log[a].counter, Share(d, a)))]
    BY <1>1 DEF RecordTransition, Share
  <1>5. log[a].counter \in Nat
    BY DEF StoreOK
  <1>6. CASE Share(d, a) = NoDiff
    <2>1. log'[a] = log[a] /\ snap'[a] = snap[a]
      BY <1>3, <1>4, <1>6
    <2>2. /\ Share(d, a).created = {} /\ Share(d, a).updated = {} /\ Share(d, a).destroyed = {}
          /\ Share(d, a).made = {} /\ Share(d, a).dropped = {}
      BY <1>6 DEF NoDiff, EventDiff
    <2> QED
      BY <2>1, <2>2 DEF Rested, Names, Ids
  <1>7. CASE Share(d, a) # NoDiff
    <2>1. log'[a].counter = log[a].counter + 1
          /\ log'[a].ring = Push(log[a].ring, EventTransition(log[a].counter, Share(d, a)))
      BY <1>4, <1>7
    <2>2. snap'[a] = Append(snap[a], Held(owner', events', a))
      BY <1>3, <1>5, <2>1
    <2> QED
      BY <2>1, <2>2 DEF Advanced
  <1> QED
    BY <1>6, <1>7

(* The events of account a among those of the id i, and how a view shows them. *)
Mine(es, a, i) == {e \in Rows(es, i) : e.acct = a}
Shown(es, a, i) == {<<e.cal, i, Contents(e)>> : e \in Mine(es, a, i)}

LEMMA SeenHeld ==
  ASSUME NEW ow, NEW es, NEW a, NEW i
  PROVE  Seen(Held(ow, es, a), i) = Shown(es, a, i)
  <1>1. Held(ow, es, a).events
          = {<<es[k].cal, es[k].id, Contents(es[k])>> : k \in EventsFor(es, a)}
    BY DEF Held
  <1> QED
    BY <1>1 DEF Seen, EventsFor, Rows, Range, Shown, Mine

LEMMA HeldIs ==
  ASSUME NEW ow, NEW es \in Seq(Event), NEW a
  PROVE  /\ Held(ow, es, a) \in Views
         /\ Held(ow, es, a).cals = {c \in Calendar : ow[c] = a}
  <1>1. \A k \in DOMAIN es : es[k] \in Event
    OBVIOUS
  <1>2. \A e \in Event : <<e.cal, e.id, Contents(e)>> \in Calendar \X Id \X Content
    BY DEF Contents, Content, Event
  <1> DEFINE E == {<<es[k].cal, es[k].id, Contents(es[k])>> : k \in EventsFor(es, a)}
             X == {c \in Calendar : ow[c] = a}
  <1>3. E \subseteq Calendar \X Id \X Content
    BY <1>1, <1>2 DEF EventsFor
  <1>4. Held(ow, es, a) = [cals |-> X, events |-> E]
    BY DEF Held
  <1>6. Held(ow, es, a).events = E /\ Held(ow, es, a).cals = X
    BY <1>4
  <1> HIDE DEF E
  <1>7. Held(ow, es, a) \in Views
    BY <1>3, <1>4 DEF Views
  <1> QED
    BY <1>6, <1>7

-----------------------------------------------------------------------------
(* The store and the histories of the ids, after a turn. *)

LEMMA StoreKept ==
  ASSUME StoreOK, Twins, NEW d, Turn(d)
  PROVE  StoreOK'
  <1>1. owner' \in [Calendar -> Account \cup {None}] /\ events' \in Seq(Event)
        /\ seq' \in 0..MaxMinted /\ seq <= seq'
    BY DEF Turn, Shifts, Effect
  <1>2. ASSUME NEW i, Rows(events', i) # {} PROVE i <= FixtureIds + seq'
    <2>1. i \in Id
      BY <1>1, <1>2, RowIs
    <2>2. i \in d.created => i <= FixtureIds + seq'
      BY DEF Turn
    <2>3. Turned(d, i)
      BY <2>1, TurnedIs
    <2>4. i \notin d.created => Rows(events, i) # {}
      <3>1. ASSUME NEW p \in d.destroyed, p[1] = i, i \notin d.created PROVE Rows(events, i) # {}
        BY <3>1, BuriedIs DEF Buried
      <3> QED
        BY <1>2, <2>3, <3>1 DEF Turned, Named
    <2>5. Rows(events, i) # {} => i <= FixtureIds + seq
      BY DEF StoreOK
    <2>6. MaxMinted \in Nat /\ FixtureIds \in Nat
      BY CalendarAssumption
    <2>7. i \in Nat
      BY <2>1, <2>6 DEF Id
    <2>8. seq \in Nat /\ seq' \in Nat /\ seq <= seq'
      BY <1>1, <2>6 DEF StoreOK
    <2> DEFINE x == seq
               y == seq'
    <2>9. x \in Nat /\ y \in Nat /\ x <= y
      BY <2>8
    <2> HIDE DEF x, y
    <2>10. i <= FixtureIds + x => i <= FixtureIds + y
      BY ONLY <2>6, <2>7, <2>9
    <2>11. i <= FixtureIds + seq => i <= FixtureIds + seq'
      BY <2>10 DEF x, y
    <2> QED
      BY <2>2, <2>4, <2>5, <2>11
  <1>3. ASSUME NEW a \in Account PROVE log'[a].counter \in Nat
    BY LogMoves DEF StoreOK, Advanced, Rested
  <1> QED
    BY <1>1, <1>2, <1>3 DEF StoreOK

LEMMA CheckedKept ==
  ASSUME NEW d, Turn(d)
  PROVE  /\ Found(owner', events').cals \subseteq checked'.cals
         /\ Found(owner', events').events \subseteq checked'.events
         /\ checked.events \subseteq checked'.events
  BY DEF Turn, Recorded

LEMMA TwinsKept ==
  ASSUME StoreOK, NEW d, Turn(d)
  PROVE  Twins'
  BY TurnedIs DEF Twins, Turned

LEMMA PlainBefore ==
  ASSUME NEW i, past[i] \subseteq past'[i]
  PROVE  /\ Plain(i)' => Plain(i)
         /\ Plain(i)' => {"strayed", "twinned", "reborn"} \cap past'[i] = {}
  BY DEF Plain

LEMMA GoneKept ==
  ASSUME StoreOK, Twins, Gone, NEW d, Turn(d)
  PROVE  Gone'
  <1> SUFFICES ASSUME NEW i \in Id, Plain(i)', "gone" \in past'[i]
               PROVE  Rows(events', i) = {}
    BY DEF Gone
  <1>1. Turned(d, i)
    BY TurnedIs
  <1>2. Plain(i) /\ "twinned" \notin past'[i] /\ "reborn" \notin past'[i]
    BY <1>1 DEF Turned, Plain
  <1>3. CASE \E p \in d.destroyed : p[1] = i
    BY <1>2, <1>3, BuriedIs DEF Buried
  <1>4. CASE ~\E p \in d.destroyed : p[1] = i
    <2>1. "gone" \in past[i]
      BY <1>1, <1>4 DEF Turned
    <2>2. Rows(events, i) = {}
      BY <1>2, <2>1 DEF Gone
    <2>3. ~Named(d, i)
      BY <1>1, <1>2, <1>4, <2>1, <2>2 DEF Named, Turned
    <2> QED
      BY <1>1, <2>2, <2>3 DEF Turned
  <1> QED
    BY <1>3, <1>4

(* What is no longer there was destroyed. *)
LEMMA LostIsGone ==
  ASSUME StoreOK, NEW d, Turn(d), NEW i \in Id, Rows(events, i) # {}, Rows(events', i) = {}
  PROVE  \E p \in d.destroyed : p[1] = i
  <1>1. Turned(d, i)
    BY TurnedIs
  <1> QED
    BY <1>1 DEF Turned, Named

LEMMA NewIsNew ==
  ASSUME StoreOK, Ever, NEW d, Turn(d), NEW i \in Id, i \in d.created, Plain(i)',
         NEW a \in Account, NEW m \in 1..Len(snap[a])
  PROVE  Seen(snap[a][m], i) = {}
  <1>1. Turned(d, i)
    BY TurnedIs
  <1>2. Rows(events, i) = {} /\ "gone" \notin past[i]
    BY <1>1 DEF Turned, Plain
  <1> QED
    BY <1>2 DEF Ever

-----------------------------------------------------------------------------
(* The views and the log of one account, after a turn. *)

(* The transition an account takes. *)
Step(d, a) == EventTransition(log[a].counter, Share(d, a))

LEMMA AdvancedIs ==
  ASSUME StoreOK, NEW d, Turn(d), NEW a \in Account, LogOK(a), Advanced(d, a)
  PROVE  /\ LogOK(a)'
         /\ Len(snap[a]) = log[a].counter + 1 /\ Len(snap'[a]) = log[a].counter + 2
         /\ \A m \in 1..Len(snap[a]) : m \in 1..Len(snap'[a]) /\ snap'[a][m] = snap[a][m]
         /\ snap'[a][log[a].counter + 2] = Held(owner', events', a)
         /\ Step(d, a).to = log[a].counter + 1
         /\ Len(log'[a].ring) \in Nat \ {0} /\ log'[a].ring[Len(log'[a].ring)] = Step(d, a)
         /\ \A k \in 1..Len(log'[a].ring) :
               \/ log'[a].ring[k] = Step(d, a)
               \/ \E j \in 1..Len(log[a].ring) : log'[a].ring[k] = log[a].ring[j]
         /\ Floor(log[a]) <= Floor(log'[a])
         /\ \A j \in 1..Len(log[a].ring) :
               \/ log[a].ring[j].to <= Floor(log'[a])
               \/ \E k \in 1..Len(log'[a].ring) : log'[a].ring[k] = log[a].ring[j]
  <1> DEFINE t == Step(d, a)
             v == Held(owner', events', a)
             s == snap[a]
             l == log[a]
             m1 == log'[a]
  <1>1. RingOK(l) /\ s \in Seq(Views) /\ Len(s) = l.counter + 1 /\ l.counter \in Nat
    BY DEF LogOK, RingOK
  <1>2. t \in Records /\ t.from = l.counter /\ t.to = l.counter + 1
    <2> DEFINE n == l.counter
    <2>1. n \in Nat /\ t = EventTransition(n, Share(d, a))
      BY <1>1 DEF Step
    <2> HIDE DEF n, t
    <2>2. t \in Records /\ t.from = n /\ t.to = n + 1
      BY <2>1, ShareIs
    <2> QED
      BY <2>2 DEF n
  <1>3. m1.counter = l.counter + 1 /\ m1.ring = Push(l.ring, t) /\ snap'[a] = Append(s, v)
    BY DEF Advanced, Step
  <1>4. v \in Views
    BY HeldIs DEF Turn, Effect
  <1> HIDE DEF t, v, s, l, m1
  <1>5. /\ RingOK(m1) /\ Len(m1.ring) \in Nat \ {0} /\ m1.ring[Len(m1.ring)] = t
        /\ \A k \in 1..Len(m1.ring) : m1.ring[k] = t \/ \E j \in 1..Len(l.ring) : m1.ring[k] = l.ring[j]
        /\ Floor(l) <= Floor(m1)
        /\ \A j \in 1..Len(l.ring) :
               l.ring[j].to <= Floor(m1) \/ \E k \in 1..Len(m1.ring) : m1.ring[k] = l.ring[j]
    <2>1. Grown(l, m1, t)
      BY <1>1, <1>2, <1>3, RingGrows
    <2> QED
      BY ONLY <2>1 DEF Grown
  <1>6. /\ Append(s, v) \in Seq(Views) /\ Len(Append(s, v)) = l.counter + 2
        /\ \A m \in 1..Len(s) : m \in 1..(l.counter + 2) /\ Append(s, v)[m] = s[m]
        /\ Append(s, v)[l.counter + 2] = v
    <2>1. /\ Append(s, v) \in Seq(Views) /\ Len(Append(s, v)) = Len(s) + 1
          /\ \A m \in 1..Len(s) : Append(s, v)[m] = s[m]
          /\ Append(s, v)[Len(s) + 1] = v
      BY <1>1, <1>4, AppendProperties
    <2>2. Len(s) + 1 = l.counter + 2 /\ \A m \in 1..Len(s) : m \in 1..(l.counter + 2)
      BY <1>1
    <2> QED
      BY <2>1, <2>2
  <1>7. LogOK(a)'
    <2>1. snap'[a] \in Seq(Views) /\ Len(snap'[a]) = m1.counter + 1
      BY <1>1, <1>3, <1>6
    <2> QED
      BY <1>5, <2>1 DEF LogOK, RingOK, m1
  <1> QED
    BY <1>1, <1>2, <1>3, <1>5, <1>6, <1>7 DEF t, v, s, l, m1

LEMMA LogKept ==
  ASSUME StoreOK, NEW d, Turn(d), NEW a \in Account, LogOK(a)
  PROVE  LogOK(a)'
  <1>1. CASE Advanced(d, a)
    BY <1>1, AdvancedIs
  <1>2. CASE Rested(d, a)
    BY <1>2 DEF LogOK, Rested
  <1> QED
    BY <1>1, <1>2, LogMoves

(* The calendars of account a change exactly as the share says. *)
LEMMA CalendarsMove ==
  ASSUME StoreOK, NEW d, Turn(d), NEW a \in Account
  PROVE  /\ Share(d, a).made = Held(owner', events', a).cals \ Held(owner, events, a).cals
         /\ Share(d, a).dropped = Held(owner, events, a).cals \ Held(owner', events', a).cals
  <1> DEFINE M == d.made
             X == d.dropped
  <1>1. /\ owner \in [Calendar -> Account \cup {None}]
        /\ M \subseteq Calendar /\ X \subseteq Calendar \X Account
        /\ \A c \in M : owner[c] = None /\ owner'[c] \in Account
        /\ \A p \in X : owner[p[1]] = p[2] /\ owner'[p[1]] = None
        /\ \A c \in Calendar : owner'[c] = owner[c] \/ c \in M \/ <<c, owner[c]>> \in X
        /\ None \notin Account
    BY CalendarAssumption DEF StoreOK, Turn, Shifts
  <1>2. events \in Seq(Event) /\ events' \in Seq(Event)
    BY DEF StoreOK, Turn, Effect
  <1>3. /\ Held(owner, events, a).cals = {c \in Calendar : owner[c] = a}
        /\ Held(owner', events', a).cals = {c \in Calendar : owner'[c] = a}
    BY <1>2, HeldIs
  <1>4. /\ Share(d, a).made = {c \in M : owner'[c] = a}
        /\ Share(d, a).dropped = {p[1] : p \in {p \in X : p[2] = a}}
    BY DEF Share, SubDiff
  <1> HIDE DEF M, X
  <1>5. \A c \in Calendar : owner'[c] = a /\ owner[c] # a <=> c \in M /\ owner'[c] = a
    BY <1>1
  <1>6. ASSUME NEW c \in Calendar
        PROVE  owner[c] = a /\ owner'[c] # a <=> \E p \in X : p[2] = a /\ p[1] = c
    <2>1. <<c, a>>[1] = c /\ <<c, a>>[2] = a
      OBVIOUS
    <2>2. owner[c] = a /\ owner'[c] # a => <<c, a>> \in X
      BY <1>1
    <2>3. ASSUME NEW p \in X, p[2] = a, p[1] = c PROVE owner[c] = a /\ owner'[c] # a
      BY <1>1, <2>3
    <2> QED
      BY <2>1, <2>2, <2>3
  <1>7. \A p \in X : p[1] \in Calendar
    BY <1>1
  <1>8. Share(d, a).made = Held(owner', events', a).cals \ Held(owner, events, a).cals
    BY <1>1, <1>3, <1>4, <1>5
  <1>9. Share(d, a).dropped = Held(owner, events, a).cals \ Held(owner', events', a).cals
    BY <1>3, <1>4, <1>6, <1>7
  <1> QED
    BY <1>8, <1>9

(* What account a shows of a plain id changes only when its share names it. *)
LEMMA SeenMoves ==
  ASSUME StoreOK, Twins, NEW d, Turn(d), NEW a \in Account, NEW i \in Id, Plain(i)'
  PROVE  /\ Seen(Held(owner, events, a), i) # Seen(Held(owner', events', a), i)
              => i \in Names(Share(d, a))
         /\ Seen(Held(owner, events, a), i) # {} /\ Seen(Held(owner', events', a), i) = {}
              => i \in Ids(Share(d, a).destroyed)
  <1> DEFINE R(es) == Mine(es, a, i)
  <1>1. events \in Seq(Event) /\ events' \in Seq(Event)
    BY DEF StoreOK, Turn, Effect
  <1>2. /\ Seen(Held(owner, events, a), i) = {<<e.cal, i, Contents(e)>> : e \in R(events)}
        /\ Seen(Held(owner', events', a), i) = {<<e.cal, i, Contents(e)>> : e \in R(events')}
    BY SeenHeld DEF Shown
  <1>3. Turned(d, i) /\ "strayed" \notin past'[i]
    BY TurnedIs DEF Plain
  <1>4. ASSUME R(events) # R(events') PROVE Named(d, i) /\ i \in Names(Share(d, a))
    <2>1. Named(d, i)
      BY <1>3, <1>4 DEF Turned, Mine
    <2>2. a \in Accts(events, i) \cup Accts(events', i)
      BY <1>4 DEF Accts, Mine
    <2> QED
      BY <1>3, <2>1, <2>2, OneAccount
  <1>5. ASSUME R(events) # {}, R(events') = {} PROVE i \in Ids(Share(d, a).destroyed)
    <2>1. Named(d, i)
      BY <1>4, <1>5
    <2>2. a \in Accts(events, i) \cup Accts(events', i)
      BY <1>5 DEF Accts, Mine
    <2>3. /\ \A e \in Rows(events, i) \cup Rows(events', i) : e.acct = a
          /\ \A p \in d.destroyed : p[1] = i => p \in Share(d, a).destroyed
      BY <1>3, <2>1, <2>2, OneAccount
    <2>4. Rows(events, i) # {} /\ Rows(events', i) = {}
      BY <1>5, <2>3 DEF Mine
    <2> QED
      BY <2>3, <2>4, LostIsGone DEF Ids
  <1> HIDE DEF R
  <1>6. Seen(Held(owner, events, a), i) # Seen(Held(owner', events', a), i) => R(events) # R(events')
    BY <1>2
  <1>7. Seen(Held(owner, events, a), i) # {} => R(events) # {}
    BY <1>2
  <1>8. Seen(Held(owner', events', a), i) = {} => R(events') = {}
    <2>1. \A e \in R(events') : <<e.cal, i, Contents(e)>> \in Seen(Held(owner', events', a), i)
      BY <1>2
    <2> QED
      BY <2>1
  <1> QED
    BY <1>4, <1>5, <1>6, <1>7, <1>8

-----------------------------------------------------------------------------
(* Views and transitions, after a turn. *)

(* Every view of account a after a turn is one it had, or what it holds then. *)
LEMMA ViewsAre ==
  ASSUME StoreOK, NEW d, Turn(d), NEW a \in Account, LogOK(a), NEW m \in 1..Len(snap'[a])
  PROVE  \/ m \in 1..Len(snap[a]) /\ snap'[a][m] = snap[a][m]
         \/ m = log[a].counter + 2 /\ snap'[a][m] = Held(owner', events', a)
  <1>1. CASE Advanced(d, a)
    <2>1. /\ Len(snap[a]) = log[a].counter + 1 /\ Len(snap'[a]) = log[a].counter + 2
          /\ \A n \in 1..Len(snap[a]) : snap'[a][n] = snap[a][n]
          /\ snap'[a][log[a].counter + 2] = Held(owner', events', a)
      BY <1>1, AdvancedIs
    <2>2. log[a].counter \in Nat
      BY DEF StoreOK
    <2>3. m \in 1..Len(snap[a]) \/ m = log[a].counter + 2
      BY <2>1, <2>2
    <2> QED
      BY <2>1, <2>3
  <1>2. CASE Rested(d, a)
    BY <1>2 DEF Rested
  <1> QED
    BY <1>1, <1>2, LogMoves

LEMMA RowShown ==
  ASSUME NEW ow, NEW es, NEW a, NEW i, NEW r \in Seen(Held(ow, es, a), i)
  PROVE  \E e \in Rows(es, i) : e.acct = a /\ r[1] = e.cal
  BY SeenHeld DEF Shown, Mine

LEMMA SoleRow ==
  ASSUME NEW es, NEW i, Sole(es, i), NEW e \in Rows(es, i), NEW f \in Rows(es, i)
  PROVE  e = f
  BY DEF Sole, Rows, Range

LEMMA EverKept ==
  ASSUME StoreOK, Ever, \A a \in Account : LogOK(a), NEW d, Turn(d)
  PROVE  Ever'
  <1> SUFFICES ASSUME NEW a \in Account, NEW i \in Id, NEW m \in 1..Len(snap'[a]),
                      Seen(snap'[a][m], i) # {}, Rows(events', i) = {}
               PROVE  "gone" \in past'[i]
    BY DEF Ever
  <1>1. Turned(d, i) /\ events' \in Seq(Event)
    BY TurnedIs DEF Turn, Effect
  <1>2. ASSUME NEW p \in d.destroyed, p[1] = i PROVE "gone" \in past'[i]
    <2>1. past' = [j \in Id |-> past[j] \cup PastOf(owner', events', d, j)]
      BY DEF Turn, Recorded
    <2>2. events \in Seq(Event)
      BY DEF StoreOK
    <2>3. "gone" \in PastOf(owner', events', d, i)
      BY <1>1, <1>2, <2>2, PastOfIs
    <2> QED
      BY <2>1, <2>3
  <1>3. CASE m \in 1..Len(snap[a]) /\ snap'[a][m] = snap[a][m]
    <2>1. Rows(events, i) # {} \/ "gone" \in past[i]
      BY <1>3 DEF Ever
    <2>2. Rows(events, i) # {} => \E p \in d.destroyed : p[1] = i
      BY LostIsGone
    <2> QED
      BY <1>1, <1>2, <2>1, <2>2 DEF Turned
  <1>4. CASE snap'[a][m] = Held(owner', events', a)
    <2>1. PICK r \in Seen(Held(owner', events', a), i) : TRUE
      BY <1>4
    <2>2. \E e \in Rows(events', i) : e.acct = a /\ r[1] = e.cal
      BY <2>1, RowShown
    <2> QED
      BY <2>2
  <1> QED
    BY <1>3, <1>4, ViewsAre

LEMMA KeepsKept ==
  ASSUME StoreOK, Twins, Gone, Ever, NEW a \in Account, LogOK(a), NEW i \in Id, Keeps(a, i),
         NEW d, Turn(d)
  PROVE  Keeps(a, i)'
  <1> SUFFICES ASSUME Plain(i)', NEW m \in 1..Len(snap'[a]), NEW r \in Seen(snap'[a][m], i),
                      NEW e \in Rows(events', i)
               PROVE  e.acct = a /\ ("moved" \notin past'[i] => e.cal = r[1])
    BY DEF Keeps
  <1>1. Turned(d, i) /\ events' \in Seq(Event) /\ events \in Seq(Event)
    BY TurnedIs DEF Turn, Effect, StoreOK
  <1>2. /\ Plain(i) /\ "twinned" \notin past'[i] /\ "strayed" \notin past'[i]
        /\ "reborn" \notin past'[i]
    BY <1>1 DEF Turned, Plain
  <1>3. CASE snap'[a][m] = Held(owner', events', a)
    <2>1. PICK f \in Rows(events', i) : f.acct = a /\ r[1] = f.cal
      BY <1>3, RowShown
    <2>2. Sole(events', i)
      BY <1>1, <1>2 DEF Turned
    <2>3. e = f
      BY <2>2, SoleRow
    <2> QED
      BY <2>1, <2>3
  <1>4. CASE m \in 1..Len(snap[a]) /\ snap'[a][m] = snap[a][m]
    <2>1. \A f \in Rows(events, i) : f.acct = a /\ ("moved" \notin past[i] => f.cal = r[1])
      BY <1>2, <1>4 DEF Keeps
    <2>2. Rows(events, i) # {} \/ "gone" \in past[i]
      BY <1>4 DEF Ever
    <2>3. CASE ~Named(d, i)
      BY <1>1, <2>1, <2>3 DEF Turned
    <2>4. CASE Named(d, i)
      <3>1. i \notin d.created
        BY <1>1, <1>2, <2>2 DEF Turned
      <3>2. Rows(events, i) # {}
        <4>1. ASSUME NEW p \in d.destroyed, p[1] = i PROVE Rows(events, i) # {}
          BY <3>1, <4>1, BuriedIs DEF Buried
        <4> QED
          BY <1>1, <2>4, <3>1, <4>1 DEF Turned, Named
      <3>3. PICK f \in Rows(events, i) : TRUE
        BY <3>2
      <3>4. e.acct \in Accts(events', i) /\ e.cal \in Cals(events', i)
        BY <1>1, RowIs
      <3>5. f.acct = e.acct
        BY <1>2, <2>4, <3>4, OneAccount
      <3>6. ASSUME "moved" \notin past'[i] PROVE e.cal = r[1]
        <4>1. e.cal \in Cals(events, i) /\ "moved" \notin past[i]
          BY <1>1, <3>1, <3>4, <3>6 DEF Turned, Where
        <4> QED
          BY <2>1, <4>1 DEF Cals
      <3> QED
        BY <2>1, <3>5, <3>6
    <2> QED
      BY <2>3, <2>4
  <1> QED
    BY <1>3, <1>4, ViewsAre

LEMMA FreshKept ==
  ASSUME StoreOK, Twins, NEW a \in Account, LogOK(a), Fresh1(a), NEW d, Turn(d)
  PROVE  Fresh1(a)'
  <1>1. CASE Advanced(d, a)
    <2>1. log'[a].counter = log[a].counter + 1 /\ log[a].counter \in Nat
      BY <1>1 DEF Advanced, StoreOK
    <2>2. log'[a].counter + 1 = log[a].counter + 2
      BY <2>1
    <2>3. snap'[a][log'[a].counter + 1] = Held(owner', events', a)
      BY <1>1, <2>2, AdvancedIs
    <2> QED
      BY <2>3 DEF Fresh1
  <1>2. CASE Rested(d, a)
    <2>1. /\ log'[a] = log[a] /\ snap'[a] = snap[a]
          /\ Share(d, a).made = {} /\ Share(d, a).dropped = {}
      BY <1>2 DEF Rested
    <2>2. Held(owner', events', a).cals = Held(owner, events, a).cals
      BY <2>1, CalendarsMove
    <2>3. ASSUME NEW i \in Id, Plain(i)'
          PROVE  Seen(snap[a][log[a].counter + 1], i) = Seen(Held(owner', events', a), i)
      <3>1. Plain(i)
        BY <2>3, TurnedIs DEF Turned, Plain
      <3>2. i \notin Names(Share(d, a))
        BY <1>2 DEF Rested
      <3>3. Seen(Held(owner, events, a), i) = Seen(Held(owner', events', a), i)
        BY <2>3, <3>2, SeenMoves
      <3> QED
        BY <3>1, <3>3 DEF Fresh1
    <2> QED
      BY <2>1, <2>2, <2>3 DEF Fresh1
  <1> QED
    BY <1>1, <1>2, LogMoves

-----------------------------------------------------------------------------

(* The new transition. *)
LEMMA StepTells ==
  ASSUME StoreOK, Twins, Gone, Ever, Found(owner, events).events \subseteq checked.events,
         NEW a \in Account, LogOK(a), Fresh1(a), \A i \in Id : Keeps(a, i), NEW d, Turn(d),
         Advanced(d, a), NEW e, e = Step(d, a)
  PROVE  Tells(a, e)' /\ Creates(a, e)' /\ Buries(a, e)'
  <1> DEFINE n == log[a].counter
             s == Share(d, a)
             old == Held(owner, events, a)
             new == Held(owner', events', a)
  <1>1. /\ n \in Nat /\ Len(snap[a]) = n + 1 /\ Len(snap'[a]) = n + 2
        /\ \A m \in 1..Len(snap[a]) : snap'[a][m] = snap[a][m]
        /\ snap'[a][n + 2] = new /\ e.to = n + 1
    BY AdvancedIs DEF StoreOK
  <1>2. /\ e.created = s.created /\ e.updated = s.updated /\ e.destroyed = s.destroyed
        /\ e.made = s.made /\ e.dropped = s.dropped
    <2>1. n \in Nat /\ e = EventTransition(n, Share(d, a))
      BY <1>1 DEF Step
    <2> HIDE DEF n
    <2> QED
      BY <2>1, ShareIs
  <1>3. s.created \subseteq d.created /\ s.destroyed \subseteq d.destroyed
    BY DEF Share, SubDiff
  <1>4. d.created \subseteq Id /\ d.destroyed \subseteq Id \X Calendar
        /\ events \in Seq(Event) /\ events' \in Seq(Event)
    BY DEF Turn, Effect, StoreOK
  <1>5. /\ snap[a][n + 1].cals = old.cals
        /\ \A i \in Id : Plain(i) => Seen(snap[a][n + 1], i) = Seen(old, i)
    BY DEF Fresh1
  <1>6. e.to + 1 = n + 2 /\ n + 1 \in 1..Len(snap[a]) /\ 1..e.to = 1..Len(snap[a])
        /\ (e.to + 1)..Len(snap'[a]) = {n + 2}
    BY <1>1
  <1>7. snap'[a][e.to] = snap[a][n + 1] /\ snap'[a][e.to + 1] = new
    BY <1>1, <1>6
  <1>8. e.made = new.cals \ old.cals /\ e.dropped = old.cals \ new.cals
    BY <1>2, CalendarsMove
  <1>9. \A i \in Id : Plain(i)' => Plain(i) /\ "twinned" \notin past'[i]
    BY TurnedIs DEF Turned, Plain
  <1>10. ASSUME NEW i \in Id, Plain(i)'
         PROVE  /\ Seen(old, i) # Seen(new, i) => i \in Names(e)
                /\ Seen(old, i) # {} /\ Seen(new, i) = {} => i \in Ids(e.destroyed)
    BY <1>2, <1>10, SeenMoves DEF Names
  <1>11. ASSUME NEW i \in s.created, Plain(i)', NEW m \in 1..Len(snap[a])
         PROVE  Seen(snap[a][m], i) = {}
    BY <1>3, <1>4, <1>11, NewIsNew
  <1> HIDE DEF n, s, old, new
  <1>12. Tells(a, e)'
    <2>1. \A i \in Id : Plain(i)' => Seen(snap'[a][e.to], i) = Seen(old, i)
                                     /\ Seen(snap'[a][e.to + 1], i) = Seen(new, i)
      BY <1>5, <1>7, <1>9
    <2>2. \A i \in Id : Plain(i)' /\ Seen(snap'[a][e.to], i) # Seen(snap'[a][e.to + 1], i)
                            => i \in Names(e)
      BY <1>10, <2>1
    <2>3. \A i \in Id : Plain(i)' /\ Seen(snap'[a][e.to], i) # {}
                            /\ Seen(snap'[a][e.to + 1], i) = {} => i \in Ids(e.destroyed)
      BY <1>10, <2>1
    <2>4. e.made = snap'[a][e.to + 1].cals \ snap'[a][e.to].cals
          /\ e.dropped = snap'[a][e.to].cals \ snap'[a][e.to + 1].cals
      BY <1>5, <1>7, <1>8
    <2> QED
      BY <2>2, <2>3, <2>4 DEF Tells
  <1>13. Creates(a, e)'
    <2>1. \A i \in e.created : Plain(i)' => \A m \in 1..e.to : Seen(snap'[a][m], i) = {}
      BY <1>1, <1>2, <1>6, <1>11
    <2> QED
      BY <2>1 DEF Creates
  <1>14. ASSUME NEW p \in e.destroyed
         PROVE  /\ "gone" \in past'[p[1]]
                /\ Plain(p[1])' => \A m \in (e.to + 1)..Len(snap'[a]) : Seen(snap'[a][m], p[1]) = {}
                /\ \/ "flitted" \in past'[p[1]]
                   \/ \E b \in Account : <<b, p[2], p[1]>> \in checked'.events
                /\ Plain(p[1])' /\ "moved" \notin past'[p[1]] =>
                      \A m \in 1..Len(snap'[a]) : \A r \in Seen(snap'[a][m], p[1]) : r[1] = p[2]
    <2> DEFINE i == p[1]
    <2>1. p \in d.destroyed /\ i \in Id
      BY <1>2, <1>3, <1>4, <1>14
    <2>2. Buried(d, p) /\ Turned(d, i)
      BY <2>1, BuriedIs, TurnedIs
    <2> HIDE DEF i
    <2>3. Plain(i)' => Seen(new, i) = {}
      <3> SUFFICES ASSUME Plain(i)' PROVE Seen(new, i) = {}
        OBVIOUS
      <3>1. Rows(events', i) = {}
        BY <1>9, <2>1, <2>2 DEF Buried, i
      <3> QED
        BY <3>1, RowShown DEF new
    <2>4. "flitted" \in past'[i] \/ \E b \in Account : <<b, p[2], i>> \in checked'.events
      <3>1. ASSUME p[2] \in Cals(events, i) PROVE \E b \in Account : <<b, p[2], i>> \in checked'.events
        <4>1. PICK f \in Rows(events, i) : f.cal = p[2]
          BY <3>1 DEF Cals
        <4>2. f.acct \in Account /\ f.id = i
          BY <1>4, RowIs
        <4>3. PICK k \in DOMAIN events : events[k] = f
          BY DEF Rows, Range
        <4>4. <<f.acct, p[2], i>> \in Found(owner, events).events
          BY <4>1, <4>2, <4>3 DEF Found
        <4>5. <<f.acct, p[2], i>> \in checked'.events
          BY <4>4, CheckedKept
        <4> QED
          BY <4>2, <4>5
      <3> QED
        BY <2>2, <3>1 DEF Buried, i
    <2>5. ASSUME Plain(i)', "moved" \notin past'[i], NEW m \in 1..Len(snap[a]),
                 NEW r \in Seen(snap[a][m], i)
          PROVE  r[1] = p[2]
      <3>1. i \notin d.created
        BY <2>1, <2>5, NewIsNew
      <3>2. p[2] \in Where(events', d, i)
        BY <2>1 DEF Where, i
      <3>3. p[2] \in Cals(events, i) /\ "moved" \notin past[i]
        BY <2>2, <2>5, <3>1, <3>2 DEF Turned
      <3>4. \A f \in Rows(events, i) : f.cal = r[1]
        BY <1>9, <2>1, <2>5, <3>3 DEF Keeps
      <3> QED
        BY <3>3, <3>4 DEF Cals
    <2>6. \A m \in 1..Len(snap'[a]) : m \in 1..Len(snap[a]) \/ m = n + 2
      BY <1>1
    <2>7. Plain(i)' /\ "moved" \notin past'[i] =>
              \A m \in 1..Len(snap'[a]) : \A r \in Seen(snap'[a][m], i) : r[1] = p[2]
      BY <1>1, <2>3, <2>5, <2>6
    <2>8. Plain(i)' => \A m \in (e.to + 1)..Len(snap'[a]) : Seen(snap'[a][m], i) = {}
      BY <1>1, <1>6, <2>3
    <2>9. "gone" \in past'[i]
      BY <2>2 DEF Buried, i
    <2> QED
      BY <2>4, <2>7, <2>8, <2>9 DEF i
  <1>15. Buries(a, e)'
    BY <1>14 DEF Buries
  <1> QED
    BY <1>12, <1>13, <1>15

(* A transition that was there already. *)
LEMMA OldTells ==
  ASSUME StoreOK, Twins, Gone, NEW a \in Account, LogOK(a), NEW d, Turn(d), Gone',
         NEW e, e.to \in 1..log[a].counter, e.created \subseteq Id,
         e.destroyed \subseteq Id \X Calendar,
         Tells(a, e), Creates(a, e), Buries(a, e)
  PROVE  Tells(a, e)' /\ Creates(a, e)' /\ Buries(a, e)'
  <1> DEFINE n == log[a].counter
             q == Len(snap'[a])
  <1>1. n \in Nat /\ Len(snap[a]) = n + 1
    BY DEF LogOK
  <1>2. \A m \in 1..(n + 1) : m \in 1..q /\ snap'[a][m] = snap[a][m]
    <2>1. CASE Advanced(d, a)
      BY <1>1, <2>1, AdvancedIs
    <2>2. CASE Rested(d, a)
      BY <1>1, <2>2 DEF Rested
    <2> QED
      BY <2>1, <2>2, LogMoves
  <1>3. \A m \in 1..q : m \in 1..(n + 1) \/ snap'[a][m] = Held(owner', events', a)
    BY <1>1, ViewsAre
  <1>4. /\ e.to \in 1..(n + 1) /\ e.to + 1 \in 1..(n + 1)
        /\ \A m \in 1..e.to : m \in 1..(n + 1)
        /\ \A m \in (e.to + 1)..q : m \in 1..q
        /\ \A m \in (e.to + 1)..q : m \in 1..(n + 1) => m \in (e.to + 1)..(n + 1)
    <2> DEFINE x == e.to
    <2>1. x \in 1..n
      OBVIOUS
    <2> HIDE DEF x, n, q
    <2>2. /\ x \in 1..(n + 1) /\ x + 1 \in 1..(n + 1)
          /\ \A m \in 1..x : m \in 1..(n + 1)
          /\ \A m \in (x + 1)..q : m \in 1..q
          /\ \A m \in (x + 1)..q : m \in 1..(n + 1) => m \in (x + 1)..(n + 1)
      BY <1>1, <2>1
    <2> QED
      BY <2>2 DEF x
  <1>5. \A i \in Id : past[i] \subseteq past'[i] /\ (Plain(i)' => Plain(i))
    BY TurnedIs DEF Turned, Plain
  <1>6. /\ snap'[a][e.to] = snap[a][e.to] /\ snap'[a][e.to + 1] = snap[a][e.to + 1]
    BY <1>2, <1>4
  <1>7. \A i \in Id : Plain(i)' /\ "gone" \in past'[i] => Seen(Held(owner', events', a), i) = {}
    BY RowShown DEF Gone
  <1> HIDE DEF n, q
  <1>8. Tells(a, e)'
    <2>1. \A i \in Id : Plain(i)' /\ Seen(snap'[a][e.to], i) # Seen(snap'[a][e.to + 1], i)
                            => i \in Names(e)
      BY <1>5, <1>6 DEF Tells
    <2>2. \A i \in Id : Plain(i)' /\ Seen(snap'[a][e.to], i) # {}
                            /\ Seen(snap'[a][e.to + 1], i) = {} => i \in Ids(e.destroyed)
      BY <1>5, <1>6 DEF Tells
    <2>3. e.made = snap'[a][e.to + 1].cals \ snap'[a][e.to].cals
          /\ e.dropped = snap'[a][e.to].cals \ snap'[a][e.to + 1].cals
      BY <1>6 DEF Tells
    <2> QED
      BY <2>1, <2>2, <2>3 DEF Tells
  <1>9. Creates(a, e)'
    <2>1. \A i \in e.created : Plain(i)' => \A m \in 1..e.to : Seen(snap'[a][m], i) = {}
      BY <1>2, <1>4, <1>5 DEF Creates
    <2> QED
      BY <2>1 DEF Creates
  <1>10. ASSUME NEW p \in e.destroyed
         PROVE  /\ "gone" \in past'[p[1]]
                /\ Plain(p[1])' => \A m \in (e.to + 1)..q : Seen(snap'[a][m], p[1]) = {}
                /\ \/ "flitted" \in past'[p[1]]
                   \/ \E b \in Account : <<b, p[2], p[1]>> \in checked'.events
                /\ Plain(p[1])' /\ "moved" \notin past'[p[1]] =>
                      \A m \in 1..q : \A r \in Seen(snap'[a][m], p[1]) : r[1] = p[2]
    <2>1. p[1] \in Id
      OBVIOUS
    <2>2. "gone" \in past'[p[1]]
      BY <1>5, <2>1 DEF Buries
    <2>3. \/ "flitted" \in past'[p[1]]
          \/ \E b \in Account : <<b, p[2], p[1]>> \in checked'.events
      BY <1>5, <2>1, CheckedKept DEF Buries
    <2>4. ASSUME Plain(p[1])', NEW m \in (e.to + 1)..q PROVE Seen(snap'[a][m], p[1]) = {}
      <3>1. CASE m \in 1..(n + 1)
        <4>1. m \in (e.to + 1)..Len(snap[a]) /\ snap'[a][m] = snap[a][m]
          BY <1>1, <1>2, <1>4, <3>1
        <4> QED
          BY <1>5, <2>1, <2>4, <4>1 DEF Buries
      <3>2. CASE snap'[a][m] = Held(owner', events', a)
        BY <1>7, <2>1, <2>2, <2>4, <3>2
      <3> QED
        BY <1>3, <1>4, <3>1, <3>2
    <2>5. ASSUME Plain(p[1])', "moved" \notin past'[p[1]], NEW m \in 1..q,
                 NEW r \in Seen(snap'[a][m], p[1])
          PROVE  r[1] = p[2]
      <3>1. CASE m \in 1..(n + 1)
        <4>1. m \in 1..Len(snap[a]) /\ snap'[a][m] = snap[a][m]
          BY <1>1, <1>2, <3>1
        <4>2. "moved" \notin past[p[1]] /\ Plain(p[1])
          BY <1>5, <2>1, <2>5
        <4> QED
          BY <2>5, <4>1, <4>2 DEF Buries
      <3>2. CASE snap'[a][m] = Held(owner', events', a)
        BY <1>7, <2>1, <2>2, <2>5, <3>2
      <3> QED
        BY <1>3, <3>1, <3>2
    <2> QED
      BY <2>2, <2>3, <2>4, <2>5
  <1>11. Buries(a, e)'
    BY <1>10 DEF Buries, q
  <1> QED
    BY <1>8, <1>9, <1>11

(* What the entries of the log of account a say. *)
Reports(a) == \A k \in 1..Len(log[a].ring) :
    Tells(a, log[a].ring[k]) /\ Creates(a, log[a].ring[k]) /\ Buries(a, log[a].ring[k])

LEMMA ReportsKept ==
  ASSUME StoreOK, Twins, Gone, Ever, Found(owner, events).events \subseteq checked.events,
         NEW a \in Account, LogOK(a), Fresh1(a), \A i \in Id : Keeps(a, i), Reports(a),
         NEW d, Turn(d), Gone'
  PROVE  Reports(a)'
  <1>1. RingOK(log[a])
    BY DEF LogOK, RingOK
  <1>2. ASSUME NEW j \in 1..Len(log[a].ring), NEW e, e = log[a].ring[j]
        PROVE  Tells(a, e)' /\ Creates(a, e)' /\ Buries(a, e)'
    <2>1. e \in Records /\ e.to \in (Floor(log[a]) + 1)..log[a].counter
          /\ Floor(log[a]) \in 0..log[a].counter /\ log[a].counter \in Nat
      BY <1>1, <1>2, RingNumbers
    <2>2. e.to \in 1..log[a].counter
      BY <2>1
    <2>3. e.created \subseteq Id /\ e.destroyed \subseteq Id \X Calendar
      BY <2>1 DEF Records
    <2>4. Tells(a, e) /\ Creates(a, e) /\ Buries(a, e)
      BY <1>2 DEF Reports
    <2> QED
      BY <2>2, <2>3, <2>4, OldTells
  <1>3. ASSUME NEW k \in 1..Len(log'[a].ring), NEW e, e = log'[a].ring[k]
        PROVE  Tells(a, e)' /\ Creates(a, e)' /\ Buries(a, e)'
    <2>1. CASE Advanced(d, a)
      <3>1. log'[a].ring[k] = Step(d, a) \/ \E j \in 1..Len(log[a].ring) : log'[a].ring[k] = log[a].ring[j]
        BY <2>1, AdvancedIs
      <3>2. CASE e = Step(d, a)
        BY <2>1, <3>2, StepTells
      <3>3. CASE \E j \in 1..Len(log[a].ring) : e = log[a].ring[j]
        BY <1>2, <3>3
      <3> QED
        BY <1>3, <3>1, <3>2, <3>3
    <2>2. CASE Rested(d, a)
      <3>1. k \in 1..Len(log[a].ring) /\ e = log[a].ring[k]
        BY <1>3, <2>2 DEF Rested
      <3> QED
        BY <1>2, <3>1
    <2> QED
      BY <2>1, <2>2, LogMoves
  <1>4. ASSUME NEW k \in 1..Len(log'[a].ring)
        PROVE  (Tells(a, log[a].ring[k]) /\ Creates(a, log[a].ring[k])
                  /\ Buries(a, log[a].ring[k]))'
    <2>1. PICK e : e = log'[a].ring[k]
      OBVIOUS
    <2>2. Tells(a, e)' /\ Creates(a, e)' /\ Buries(a, e)'
      BY <1>3, <2>1
    <2>3. Tells(a, log[a].ring[k])'
      BY <2>1, <2>2 DEF Tells
    <2>4. Creates(a, log[a].ring[k])'
      BY <2>1, <2>2 DEF Creates
    <2>5. Buries(a, log[a].ring[k])'
      BY <2>1, <2>2 DEF Buries
    <2> QED
      BY <2>3, <2>4, <2>5
  <1> QED
    BY <1>4 DEF Reports

-----------------------------------------------------------------------------
(* ETags. *)

(* The tokens of the retained transitions that name the id i. *)
Hits(l, i) == {l.ring[n].to : n \in {n \in DOMAIN l.ring : i \in Names(l.ring[n])}}

(* The newest of them. *)
LEMMA LastToIs ==
  ASSUME NEW n \in Nat, NEW T, T \subseteq 0..n
  PROVE  /\ T = {} => LastTo(T) = Seed
         /\ T # {} => LastTo(T) \in T /\ \A m \in T : m <= LastTo(T)
  <1>1. CASE T = {}
    BY <1>1 DEF LastTo
  <1>2. CASE T # {}
    <2>1. \E x \in T : \A y \in T : x >= y
      BY <1>2, MaxIn
    <2>2. \E x \in T : \A y \in T : y <= x
      BY <2>1
    <2>3. LastTo(T) = CHOOSE x \in T : \A y \in T : y <= x
      BY <1>2 DEF LastTo
    <2> QED
      BY <1>2, <2>2, <2>3
  <1> QED
    BY <1>1, <1>2

LEMMA HitsAre ==
  ASSUME NEW l, RingOK(l), NEW i
  PROVE  /\ l.counter \in Nat /\ Floor(l) \in 0..l.counter
         /\ Hits(l, i) \subseteq (Floor(l) + 1)..l.counter
         /\ Hits(l, i) \subseteq 0..l.counter
         /\ \A k \in 1..Len(l.ring) : i \in Names(l.ring[k]) => l.ring[k].to \in Hits(l, i)
  <1>1. DOMAIN l.ring = 1..Len(l.ring)
    BY DEF RingOK
  <1>2. /\ l.counter \in Nat /\ Floor(l) \in 0..l.counter
        /\ \A k \in 1..Len(l.ring) : l.ring[k].to \in (Floor(l) + 1)..l.counter
    BY RingNumbers
  <1>3. Hits(l, i) \subseteq (Floor(l) + 1)..l.counter
    BY <1>1, <1>2 DEF Hits
  <1>4. (Floor(l) + 1)..l.counter \subseteq 0..l.counter
    <2> DEFINE F == Floor(l)
    <2> HIDE DEF F
    <2> QED
      BY <1>2 DEF F
  <1> QED
    BY <1>1, <1>2, <1>3, <1>4 DEF Hits

(* The ETag of an event that is there once. *)
LEMMA EtagIs ==
  ASSUME NEW es \in Seq(Event), NEW ow, NEW l, NEW i, NEW e \in Rows(es, i), Sole(es, i),
         NEW h, ow[e.cal] = h, h # None
  PROVE  Etag(ow, l, es, i) = LastTo(Hits(l[h], i))
  <1> DEFINE k == IdAt(es, i)
             q == l[ow[es[k].cal]]
             names(t) == i \in t.created \cup t.updated \/ \E p \in t.destroyed : p[1] = i
  <1>1. k # 0 /\ es[k].id = i /\ k \in 0..Len(es)
    BY IdAtFinds
  <1>2. es[k] \in Rows(es, i)
    <2>1. k \in 1..Len(es)
      BY <1>1
    <2> HIDE DEF k
    <2>2. es[k] \in Rows(es, es[k].id)
      BY <2>1, RowsAt
    <2> QED
      BY <1>1, <2>2
  <1>3. es[k] = e
    BY <1>2, SoleRow
  <1>4. Etag(ow, l, es, i) = LastTo({q.ring[n].to : n \in {n \in DOMAIN q.ring : names(q.ring[n])}})
    BY <1>1, <1>3 DEF Etag
  <1>5. \A n \in DOMAIN q.ring : names(q.ring[n]) <=> i \in Names(q.ring[n])
    BY DEF Names, Ids
  <1>6. q = l[h]
    BY <1>3
  <1> HIDE DEF q, names
  <1>7. {q.ring[n].to : n \in {n \in DOMAIN q.ring : names(q.ring[n])}} = Hits(q, i)
    BY <1>5 DEF Hits
  <1> QED
    BY <1>4, <1>6, <1>7

(* A row that CalDAV serves. *)
Row(ow, l, es, r, e) ==
    /\ e \in Rows(es, r.id) /\ e.cal = r.cal /\ e.acct = r.acct /\ Contents(e) = r.contents
    /\ ow[r.cal] = r.home /\ r.etag = Etag(ow, l, es, r.id)
    /\ Sole(es, r.id) => r.etag = LastTo(Hits(l[r.home], r.id))

LEMMA ServedIs ==
  ASSUME NEW es \in Seq(Event), NEW ow \in [Calendar -> Account \cup {None}], NEW l,
         NEW r \in Served(ow, l, es)
  PROVE  r.id \in Id /\ r.home \in Account /\ \E e : Row(ow, l, es, r, e)
  <1>1. PICK k \in DOMAIN es :
          /\ ow[es[k].cal] # None
          /\ r = [home |-> ow[es[k].cal], cal |-> es[k].cal, id |-> es[k].id, acct |-> es[k].acct,
                  etag |-> Etag(ow, l, es, es[k].id), contents |-> Contents(es[k])]
    BY DEF Served
  <1> DEFINE e == es[k]
  <1>2. /\ r.home = ow[e.cal] /\ r.cal = e.cal /\ r.id = e.id /\ r.acct = e.acct
        /\ r.etag = Etag(ow, l, es, e.id) /\ r.contents = Contents(e)
    BY <1>1
  <1>3. e \in Event /\ e.id \in Id /\ e.cal \in Calendar
    <2>1. e \in Event
      OBVIOUS
    <2> HIDE DEF e
    <2> QED
      BY <2>1 DEF Event
  <1>4. e \in Rows(es, r.id)
    BY <1>2 DEF Rows, Range
  <1>5. r.home \in Account
    BY <1>1, <1>2, <1>3
  <1>6. Sole(es, r.id) => r.etag = LastTo(Hits(l[r.home], r.id))
    <2>1. ASSUME NEW i, e \in Rows(es, i), Sole(es, i), NEW h, ow[e.cal] = h, h # None
          PROVE  Etag(ow, l, es, i) = LastTo(Hits(l[h], i))
      <3> HIDE DEF e
      <3> QED
        BY <2>1, EtagIs
    <2>2. r.etag = Etag(ow, l, es, r.id) /\ ow[e.cal] = r.home /\ r.home # None
      BY <1>1, <1>2
    <2> HIDE DEF e
    <2> QED
      BY <1>4, <2>1, <2>2
  <1>7. Row(ow, l, es, r, e)
    BY <1>2, <1>4, <1>6 DEF Row
  <1> QED
    BY <1>2, <1>3, <1>5, <1>7

(* A version that a newer transition names stays superseded. *)
LEMMA SinceStays ==
  ASSUME StoreOK, NEW d, Turn(d), NEW r, r.home \in Account, LogOK(r.home), r.etag \in Nat, Since(r)
  PROVE  Since(r)'
  <1> DEFINE l == log[r.home]
             m == log'[r.home]
  <1>1. CASE Rested(d, r.home)
    BY <1>1 DEF Rested, Since
  <1>2. CASE Advanced(d, r.home)
    <2>1. /\ Floor(l) <= Floor(m)
          /\ \A j \in 1..Len(l.ring) :
               l.ring[j].to <= Floor(m) \/ \E k \in 1..Len(m.ring) : m.ring[k] = l.ring[j]
          /\ LogOK(r.home)'
      BY <1>2, AdvancedIs
    <2>2. RingOK(l) /\ RingOK(m)
      BY <2>1 DEF LogOK, RingOK
    <2>3. Floor(l) \in 0..l.counter /\ l.counter \in Nat /\ Floor(m) \in 0..m.counter /\ m.counter \in Nat
          /\ \A j \in 1..Len(l.ring) : l.ring[j].to \in (Floor(l) + 1)..l.counter
      BY <2>2, RingNumbers
    <2>4. Floor(l) \in Nat /\ Floor(m) \in Nat
      BY <2>3
    <2>5. CASE r.etag <= Floor(l)
      <3>1. r.etag <= Floor(m)
        BY <2>1, <2>4, <2>5
      <3> QED
        BY <3>1 DEF Since
    <2>6. CASE \E j \in 1..Len(l.ring) : l.ring[j].to > r.etag /\ r.id \in Names(l.ring[j])
      <3>1. PICK j \in 1..Len(l.ring) : l.ring[j].to > r.etag /\ r.id \in Names(l.ring[j])
        BY <2>6
      <3>2. CASE l.ring[j].to <= Floor(m)
        <4> DEFINE x == l.ring[j].to
        <4>1. x \in Nat /\ x > r.etag /\ x <= Floor(m)
          BY <2>3, <2>4, <3>1, <3>2
        <4> HIDE DEF x
        <4>2. r.etag <= Floor(m)
          BY <2>4, <4>1
        <4> QED
          BY <4>2 DEF Since
      <3>3. CASE \E k \in 1..Len(m.ring) : m.ring[k] = l.ring[j]
        BY <3>1, <3>3 DEF Since
      <3> QED
        BY <2>1, <3>2, <3>3
    <2> QED
      BY <2>5, <2>6 DEF Since
  <1> QED
    BY <1>1, <1>2, LogMoves

(* A version that was served is live or superseded after a turn, too. *)
LEMMA ServesKept ==
  ASSUME StoreOK, Twins, \A a \in Account : LogOK(a), NEW d, Turn(d), NEW r, Serves(r)
  PROVE  Serves(r)'
  <1> DEFINE h == r.home
             i == r.id
  <1>1. i \in Id /\ h \in Account
    BY DEF Serves
  <1>2. SUFFICES ASSUME r.acct = h, r.etag # Seed, Clean(i)'
                 PROVE  r.etag \in 1..log'[h].counter /\ (Live(r)' \/ Since(r)')
    BY <1>1 DEF Serves
  <1>3. Turned(d, i) /\ Clean(i) /\ "strayed" \notin past'[i]
    BY <1>1, <1>2, TurnedIs DEF Turned, Clean
  <1>4. r.etag \in 1..log[h].counter /\ (Live(r) \/ Since(r)) /\ log[h].counter \in Nat
    BY <1>1, <1>2, <1>3 DEF Serves, StoreOK
  <1>5. log'[h].counter = log[h].counter + 1 \/ log'[h].counter = log[h].counter
    BY <1>1, LogMoves DEF Advanced, Rested
  <1>6. r.etag \in 1..log'[h].counter /\ r.etag \in Nat
    BY <1>4, <1>5
  <1>7. Since(r) => Since(r)'
    BY <1>1, <1>6, SinceStays
  <1>8. ASSUME Live(r) PROVE Live(r)' \/ Since(r)'
    <2>1. PICK e \in Rows(events, i) : e.acct = h /\ Contents(e) = r.contents
      BY <1>8 DEF Live
    <2>2. CASE ~Named(d, i)
      BY <1>3, <2>1, <2>2 DEF Turned, Live
    <2>3. CASE Named(d, i)
      <3>1. h \in Accts(events, i)
        BY <2>1 DEF Accts
      <3>2. i \in Names(Share(d, h))
        BY <1>1, <1>3, <2>3, <3>1, OneAccount
      <3>3. Advanced(d, h)
        BY <1>1, <3>2, LogMoves DEF Rested
      <3>4. /\ Len(log'[h].ring) \in Nat \ {0} /\ log'[h].ring[Len(log'[h].ring)] = Step(d, h)
            /\ Step(d, h).to = log[h].counter + 1
        BY <1>1, <3>3, AdvancedIs
      <3>5. Names(Step(d, h)) = Names(Share(d, h))
        BY DEF Step, EventTransition, Names
      <3>6. Step(d, h).to > r.etag
        BY <1>4, <3>4
      <3>7. Len(log'[h].ring) \in 1..Len(log'[h].ring)
        BY <3>4
      <3>8. Since(r)'
        BY <3>2, <3>4, <3>5, <3>6, <3>7 DEF Since
      <3> QED
        BY <3>8
    <2> QED
      BY <2>2, <2>3
  <1> QED
    BY <1>4, <1>6, <1>7, <1>8

(* What is served after a turn is live. *)
LEMMA NewServes ==
  ASSUME StoreOK', Twins', (\A a \in Account : LogOK(a))', NEW r \in Served(owner', log', events')
  PROVE  Serves(r)'
  <1>1. owner' \in [Calendar -> Account \cup {None}] /\ events' \in Seq(Event)
    BY DEF StoreOK
  <1>2. r.id \in Id /\ r.home \in Account /\ \E e : Row(owner', log', events', r, e)
    BY <1>1, ServedIs
  <1>3. PICK e : Row(owner', log', events', r, e)
    BY <1>2
  <1>4. RingOK(log'[r.home])
    BY <1>2 DEF LogOK, RingOK
  <1>5. SUFFICES ASSUME r.acct = r.home, r.etag # Seed, Clean(r.id)'
                 PROVE  r.etag \in 1..log'[r.home].counter /\ Live(r)'
    BY <1>2 DEF Serves
  <1>6. Sole(events', r.id)
    BY <1>2, <1>5 DEF Twins, Clean
  <1>7. r.etag = LastTo(Hits(log'[r.home], r.id))
    BY <1>3, <1>6 DEF Row
  <1>8. r.etag \in 0..log'[r.home].counter
    BY <1>4, <1>5, <1>7, HitsAre, LastToIs
  <1>9. r.etag \in 1..log'[r.home].counter
    BY <1>5, <1>8 DEF Seed
  <1> QED
    BY <1>3, <1>5, <1>9 DEF Row, Live

(* A version that was ever served under the ETag of what is served now is that
   version. *)
LEMMA Match ==
  ASSUME StoreOK', Twins', (\A a \in Account : LogOK(a))', NEW s \in Served(owner', log', events'),
         NEW r, Serves(r)', r.home = s.home, r.cal = s.cal, r.id = s.id, r.etag = s.etag,
         r.acct = r.home, s.acct = s.home, r.etag # Seed, Clean(r.id)'
  PROVE  r.contents = s.contents
  <1> DEFINE m == log'[s.home]
  <1>1. owner' \in [Calendar -> Account \cup {None}] /\ events' \in Seq(Event)
    BY DEF StoreOK
  <1>2. s.id \in Id /\ s.home \in Account /\ \E e : Row(owner', log', events', s, e)
    BY <1>1, ServedIs
  <1>3. PICK e : Row(owner', log', events', s, e)
    BY <1>2
  <1>4. RingOK(m)
    BY <1>2 DEF LogOK, RingOK
  <1>5. Sole(events', s.id)
    BY <1>2 DEF Twins, Clean
  <1>6. s.etag = LastTo(Hits(m, s.id))
    BY <1>3, <1>5 DEF Row
  <1> HIDE DEF m
  <1>7. /\ m.counter \in Nat /\ Floor(m) \in 0..m.counter
        /\ Hits(m, s.id) \subseteq (Floor(m) + 1)..m.counter
        /\ Hits(m, s.id) \subseteq 0..m.counter
        /\ \A k \in 1..Len(m.ring) : s.id \in Names(m.ring[k]) => m.ring[k].to \in Hits(m, s.id)
    BY <1>4, HitsAre
  <1>8. s.etag \in Hits(m, s.id) /\ \A x \in Hits(m, s.id) : x <= s.etag
    BY <1>6, <1>7, LastToIs
  <1>9. Live(r)' \/ Since(r)'
    BY DEF Serves
  <1>10. CASE Live(r)'
    <2>1. PICK f \in Rows(events', r.id) : f.acct = r.home /\ Contents(f) = r.contents
      BY <1>10 DEF Live
    <2>2. e \in Rows(events', s.id) /\ Contents(e) = s.contents
      BY <1>3 DEF Row
    <2>3. e = f
      BY <1>5, <2>1, <2>2, SoleRow
    <2> QED
      BY <2>1, <2>2, <2>3
  <1>11. CASE Since(r)'
    <2>1. s.etag \in (Floor(m) + 1)..m.counter
      BY <1>7, <1>8
    <2>2. ~(s.etag <= Floor(m))
      BY <1>7, <2>1
    <2>3. PICK k \in 1..Len(m.ring) : m.ring[k].to > s.etag /\ s.id \in Names(m.ring[k])
      BY <1>11, <2>2 DEF Since, m
    <2>4. m.ring[k].to \in Hits(m, s.id)
      BY <1>7, <2>3
    <2> DEFINE x == m.ring[k].to
    <2>5. x \in 0..m.counter /\ x <= s.etag /\ x > s.etag /\ s.etag \in 0..m.counter
      BY <1>7, <1>8, <2>3, <2>4
    <2> HIDE DEF x
    <2> QED
      BY <1>7, <2>5
  <1> QED
    BY <1>9, <1>10, <1>11

LEMMA EtagsKept ==
  ASSUME StoreOK, Twins, \A a \in Account : LogOK(a), \A r \in served : Serves(r), EtagIdentifies,
         NEW d, Turn(d), StoreOK', Twins', (\A a \in Account : LogOK(a))'
  PROVE  (\A r \in served : Serves(r))' /\ EtagIdentifies'
  <1>1. served' = served \cup Served(owner', log', events')
    BY DEF Turn, Recorded
  <1>2. ASSUME NEW r \in served' PROVE Serves(r)'
    <2>1. CASE r \in served
      BY <2>1, ServesKept
    <2>2. CASE r \in Served(owner', log', events')
      BY <2>2, NewServes
    <2> QED
      BY <1>1, <2>1, <2>2
  <1>3. ASSUME NEW r \in served', NEW s \in served',
               r.home = s.home, r.cal = s.cal, r.id = s.id, r.etag = s.etag,
               r.acct = r.home, s.acct = s.home, r.etag # Seed, Clean(r.id)'
        PROVE  r.contents = s.contents
    <2>1. CASE s \in Served(owner', log', events')
      BY <1>2, <1>3, <2>1, Match
    <2>2. CASE r \in Served(owner', log', events')
      BY <1>2, <1>3, <2>2, Match
    <2>3. CASE r \in served /\ s \in served
      <3>1. r.id \in Id
        BY <2>3 DEF Serves
      <3>2. Clean(r.id)
        BY <1>3, <3>1, TurnedIs DEF Turned, Clean
      <3> QED
        BY <1>3, <2>3, <3>2 DEF EtagIdentifies, Clean
    <2> QED
      BY <1>1, <2>1, <2>2, <2>3
  <1>4. EtagIdentifies'
    BY <1>3 DEF EtagIdentifies, Clean
  <1> QED
    BY <1>2, <1>4

-----------------------------------------------------------------------------
(* The invariant is inductive. *)

LEMMA CalParts ==
  CalInv <=> /\ StoreOK /\ Found(owner, events).cals \subseteq checked.cals
             /\ Found(owner, events).events \subseteq checked.events
             /\ Twins /\ Gone /\ Ever
             /\ \A a \in Account : LogOK(a)
             /\ \A a \in Account : Fresh1(a)
             /\ \A a \in Account : \A i \in Id : Keeps(a, i)
             /\ \A a \in Account : Reports(a)
             /\ \A r \in served : Serves(r)
             /\ EtagIdentifies
  BY DEF CalInv, Reports

LEMMA CalInit ==
  ASSUME Init
  PROVE  CalInv
  <1>1. /\ owner = InitialOwner /\ events = InitialEvents /\ seq = 0
        /\ owner \in [Calendar -> Account \cup {None}] /\ events \in Seq(Event)
        /\ Loadable(owner, events) /\ FixtureIds \in Nat /\ MaxMinted \in Nat
        /\ log = [a \in Account |-> EmptyLog] /\ past = [i \in Id |-> {}]
        /\ snap = [a \in Account |-> <<Held(owner, events, a)>>]
        /\ checked = Found(owner, events) /\ served = Served(owner, log, events)
    BY CalendarAssumption DEF Init
  <1>2. \A i : Sole(events, i)
    BY <1>1 DEF Loadable, Sole
  <1>3. \A a \in Account : log[a].counter = 0 /\ log[a].ring = << >>
    BY <1>1 DEF EmptyLog
  <1>4. \A a \in Account : snap[a] = <<Held(owner, events, a)>> /\ Len(snap[a]) = 1
                           /\ snap[a][1] = Held(owner, events, a)
    BY <1>1
  <1>5. StoreOK
    <2>1. ASSUME NEW i, Rows(events, i) # {} PROVE i <= FixtureIds + seq
      <3>1. PICK k \in DOMAIN events : events[k].id = i
        BY <2>1 DEF Rows, Range
      <3>2. events[k].id <= FixtureIds
        BY <1>1 DEF Loadable
      <3>3. FixtureIds + seq = FixtureIds
        BY <1>1
      <3> QED
        BY <3>1, <3>2, <3>3
    <2> QED
      BY <1>1, <1>3, <2>1 DEF StoreOK
  <1>6. Found(owner, events).cals \subseteq checked.cals
        /\ Found(owner, events).events \subseteq checked.events
    BY <1>1
  <1>7. Twins /\ Gone
    BY <1>1, <1>2 DEF Twins, Gone
  <1>8. \A a \in Account : \A m \in 1..Len(snap[a]) : snap[a][m] = Held(owner, events, a)
    BY <1>4
  <1>9. Ever
    BY <1>8, RowShown DEF Ever
  <1>10. ASSUME NEW a \in Account PROVE LogOK(a)
    <2>1. Held(owner, events, a) \in Views
      BY <1>1, HeldIs
    <2> DEFINE v == Held(owner, events, a)
    <2>2. v \in Views /\ snap[a] = <<v>> /\ Len(snap[a]) = 1
      BY <1>4, <2>1
    <2> HIDE DEF v
    <2>3. <<v>> \in Seq(Views)
      BY <2>2
    <2>4. snap[a] \in Seq(Views) /\ Len(snap[a]) = log[a].counter + 1
      BY <1>3, <2>2, <2>3
    <2>5. log[a].counter = 0 /\ log[a].ring = << >> /\ Len(log[a].ring) = 0
      BY <1>3
    <2>6. Contiguous(log[a])
      BY <2>5, RetentionAssumption DEF Contiguous
    <2>7. log[a].counter \in Nat /\ log[a].ring \in Seq(Records)
      BY <2>5
    <2> QED
      BY <2>4, <2>6, <2>7 DEF LogOK
  <1>11. \A a \in Account : Fresh1(a)
    BY <1>3, <1>4 DEF Fresh1
  <1>12. ASSUME NEW a \in Account, NEW i \in Id PROVE Keeps(a, i)
    <2> SUFFICES ASSUME NEW m \in 1..Len(snap[a]), NEW r \in Seen(snap[a][m], i),
                        NEW e \in Rows(events, i)
                 PROVE  e.acct = a /\ e.cal = r[1]
      BY DEF Keeps
    <2>1. \E f \in Rows(events, i) : f.acct = a /\ r[1] = f.cal
      BY <1>8, RowShown
    <2> QED
      BY <1>2, <2>1, SoleRow
  <1>13. \A a \in Account : Reports(a)
    <2>1. \A a \in Account : Len(log[a].ring) = 0
      BY <1>3
    <2> QED
      BY <2>1 DEF Reports
  <1>14. ASSUME NEW r \in served
         PROVE  r.id \in Id /\ r.home \in Account /\ r.etag = Seed
    <2>1. r.id \in Id /\ r.home \in Account /\ \E e : Row(owner, log, events, r, e)
      BY <1>1, ServedIs
    <2>2. PICK e : Row(owner, log, events, r, e)
      BY <2>1
    <2>3. Hits(log[r.home], r.id) = {}
      BY <1>3, <2>1 DEF Hits
    <2>4. r.etag = LastTo(Hits(log[r.home], r.id))
      BY <1>2, <2>2 DEF Row
    <2> QED
      BY <2>1, <2>3, <2>4 DEF LastTo
  <1>15. (\A r \in served : Serves(r)) /\ EtagIdentifies
    BY <1>14 DEF Serves, EtagIdentifies
  <1> QED
    BY <1>5, <1>6, <1>7, <1>9, <1>10, <1>11, <1>12, <1>13, <1>15, CalParts

LEMMA CalTurn ==
  ASSUME CalInv, NEW d, Turn(d)
  PROVE  CalInv'
  <1>1. /\ StoreOK /\ Found(owner, events).events \subseteq checked.events
        /\ Twins /\ Gone /\ Ever
        /\ \A a \in Account : LogOK(a)
        /\ \A a \in Account : Fresh1(a)
        /\ \A a \in Account : \A i \in Id : Keeps(a, i)
        /\ \A a \in Account : Reports(a)
        /\ \A r \in served : Serves(r)
        /\ EtagIdentifies
    BY CalParts
  <1>2. StoreOK' /\ Twins' /\ Gone' /\ Ever'
    BY <1>1, StoreKept, TwinsKept, GoneKept, EverKept
  <1>3. (\A a \in Account : LogOK(a))'
    BY <1>1, LogKept
  <1>4. (\A a \in Account : Fresh1(a))'
    BY <1>1, FreshKept
  <1>5. (\A a \in Account : \A i \in Id : Keeps(a, i))'
    BY <1>1, KeepsKept
  <1>6. (\A a \in Account : Reports(a))'
    BY <1>1, <1>2, ReportsKept
  <1>7. (\A r \in served : Serves(r))' /\ EtagIdentifies'
    BY <1>1, <1>2, <1>3, EtagsKept
  <1>8. Found(owner', events').cals \subseteq checked'.cals
        /\ Found(owner', events').events \subseteq checked'.events
    BY CheckedKept
  <1> QED
    BY <1>2, <1>3, <1>4, <1>5, <1>6, <1>7, <1>8 DEF CalInv, Reports

LEMMA CalStutter ==
  ASSUME CalInv, UNCHANGED vars
  PROVE  CalInv'
  <1>1. /\ owner' = owner /\ events' = events /\ seq' = seq /\ log' = log
        /\ checked' = checked /\ snap' = snap /\ served' = served /\ past' = past
    BY DEF vars
  <1>2. StoreOK' /\ Twins' /\ Gone' /\ Ever'
    BY <1>1 DEF CalInv, StoreOK, Twins, Gone, Ever, Plain
  <1>3. Found(owner', events').cals \subseteq checked'.cals
        /\ Found(owner', events').events \subseteq checked'.events
    BY <1>1 DEF CalInv
  <1>4. \A a \in Account : LogOK(a)'
    BY <1>1 DEF CalInv, LogOK
  <1>5. \A a \in Account : Fresh1(a)'
    BY <1>1 DEF CalInv, Fresh1, Plain
  <1>6. \A a \in Account : \A i \in Id : Keeps(a, i)'
    BY <1>1 DEF CalInv, Keeps, Plain
  <1>7. (\A r \in served : Serves(r))'
    BY <1>1 DEF CalInv, Serves, Clean, Live, Since
  <1>8. EtagIdentifies'
    BY <1>1 DEF CalInv, EtagIdentifies
  <1>9. \A a \in Account : Reports(a)'
    <2>1. \A a \in Account : Reports(a)
      BY CalParts
    <2>2. ASSUME NEW a, NEW e, Tells(a, e), Creates(a, e), Buries(a, e)
          PROVE  Tells(a, e)' /\ Creates(a, e)' /\ Buries(a, e)'
      <3>1. Tells(a, e)'
        BY <1>1, <2>2 DEF Tells, Plain
      <3>2. Creates(a, e)'
        BY <1>1, <2>2 DEF Creates, Plain
      <3>3. Buries(a, e)'
        BY <1>1, <2>2 DEF Buries, Plain
      <3> QED
        BY <3>1, <3>2, <3>3
    <2>3. ASSUME NEW a \in Account, NEW k \in 1..Len(log[a].ring), NEW e, e = log[a].ring[k]
          PROVE  Tells(a, e)' /\ Creates(a, e)' /\ Buries(a, e)'
      BY <2>1, <2>2, <2>3 DEF Reports
    <2>4. ASSUME NEW a \in Account, NEW k \in 1..Len(log[a].ring)
          PROVE  (Tells(a, log[a].ring[k]) /\ Creates(a, log[a].ring[k])
                    /\ Buries(a, log[a].ring[k]))'
      <3>1. PICK e : e = log[a].ring[k]
        OBVIOUS
      <3>2. Tells(a, e)' /\ Creates(a, e)' /\ Buries(a, e)'
        BY <2>3, <3>1
      <3>3. e = log'[a].ring[k]
        BY <1>1, <3>1
      <3>4. Tells(a, log[a].ring[k])'
        BY <3>2, <3>3 DEF Tells
      <3>5. Creates(a, log[a].ring[k])'
        BY <3>2, <3>3 DEF Creates
      <3>6. Buries(a, log[a].ring[k])'
        BY <3>2, <3>3 DEF Buries
      <3> QED
        BY <3>4, <3>5, <3>6
    <2> QED
      BY <1>1, <2>4 DEF Reports
  <1> QED
    BY <1>2, <1>3, <1>4, <1>5, <1>6, <1>7, <1>8, <1>9 DEF CalInv, Reports

(* Every step keeps the invariant. *)
LEMMA CalNext ==
  ASSUME CalInv, [Next]_vars
  PROVE  CalInv'
  <1>1. ASSUME Next PROVE CalInv'
    <2>1. StoreOK
      BY CalParts
    <2>2. PICK d : Turn(d)
      BY <1>1, <2>1, NextTurns
    <2> QED
      BY <2>2, CalTurn
  <1>2. ASSUME UNCHANGED vars PROVE CalInv'
    BY <1>2, CalStutter
  <1> QED
    BY <1>1, <1>2

-----------------------------------------------------------------------------
(* What the walkers answer. *)

(* The transitions after the token t. *)
Recent(l, t) == {n \in 1..Len(l.ring) : l.ring[n].to > t}

LEMMA RecentIs ==
  ASSUME NEW l, RingOK(l), NEW t \in Floor(l)..l.counter
  PROVE  /\ t = l.counter => Recent(l, t) = {}
         /\ t # l.counter => Window(l, t) = Recent(l, t) /\ Known(l, t)
  <1>1. /\ l.counter \in Nat /\ Floor(l) \in 0..l.counter
        /\ \A n \in 1..Len(l.ring) : l.ring[n].to \in (Floor(l) + 1)..l.counter
    BY RingNumbers
  <1> DEFINE F == Floor(l)
             c == l.counter
  <1>2. c \in Nat /\ F \in 0..c /\ t \in F..c /\ \A n \in 1..Len(l.ring) : l.ring[n].to \in (F + 1)..c
    BY <1>1
  <1> HIDE DEF F, c
  <1>3. ASSUME t = c, NEW n \in 1..Len(l.ring) PROVE ~(l.ring[n].to > t)
    <2> DEFINE x == l.ring[n].to
    <2>1. x \in (F + 1)..c
      BY <1>2
    <2> HIDE DEF x
    <2>2. ~(x > t)
      BY <1>2, <1>3, <2>1
    <2> QED
      BY <2>2 DEF x
  <1>4. t # c => t \in F..(c - 1)
    BY <1>2
  <1>5. t # c => Window(l, t) = Recent(l, t) /\ Known(l, t)
    BY <1>4, WindowIs DEF Recent, F, c
  <1> QED
    BY <1>3, <1>5 DEF Recent, c

LEMMA DominanceIs ==
  ASSUME NEW C, NEW U, NEW D
  PROVE  /\ Dominance(C, U, D) = [created |-> C \ (C \cap D),
                                  updated |-> U \ ((C \ (C \cap D)) \cup (D \ (C \cap D))),
                                  destroyed |-> D \ (C \cap D)]
         /\ Dominance(C, U, D).created = C \ (C \cap D)
         /\ Dominance(C, U, D).updated = U \ ((C \ (C \cap D)) \cup (D \ (C \cap D)))
         /\ Dominance(C, U, D).destroyed = D \ (C \cap D)
         /\ Dominance(C, U, D) # Unknown
         /\ C = {} /\ U = {} /\ D = {} => Dominance(C, U, D) = EmptyDelta
  <1>1. Dominance(C, U, D) = [created |-> C \ (C \cap D),
                              updated |-> U \ ((C \ (C \cap D)) \cup (D \ (C \cap D))),
                              destroyed |-> D \ (C \cap D)]
    BY DEF Dominance
  <1>2. Dominance(C, U, D) # Unknown
    <2>1. "refused" \in DOMAIN Unknown
      BY DEF Unknown
    <2>2. "refused" \notin DOMAIN Dominance(C, U, D)
      BY <1>1
    <2> QED
      BY <2>1, <2>2
  <1>3. C = {} /\ U = {} /\ D = {} => Dominance(C, U, D) = EmptyDelta
    BY <1>1 DEF EmptyDelta
  <1> QED
    BY <1>1, <1>2, <1>3

GoneFrom(l, W, c) == {p[1] : p \in {q \in Destroyed(l, W) : q[2] = c}}

LEMMA FilteredIs ==
  ASSUME NEW l, RingOK(l), NEW t \in Floor(l)..l.counter, NEW c, NEW W, W = Recent(l, t)
  PROVE  DeltaSinceFilteredDestroys(l, t, c) = Dominance(Created(l, W), Updated(l, W), GoneFrom(l, W, c))
  <1>1. CASE t = l.counter
    <2>1. W = {}
      BY <1>1, RecentIs
    <2>2. Created(l, W) = {} /\ Updated(l, W) = {} /\ Destroyed(l, W) = {}
      BY <2>1 DEF Created, Updated, Destroyed
    <2>3. GoneFrom(l, W, c) = {}
      BY <2>2 DEF GoneFrom
    <2>4. DeltaSinceFilteredDestroys(l, t, c) = EmptyDelta
      BY <1>1 DEF DeltaSinceFilteredDestroys, StateOf
    <2> QED
      BY <2>2, <2>3, <2>4, DominanceIs
  <1>2. CASE t # l.counter
    <2>1. Window(l, t) = W /\ Known(l, t)
      BY <1>2, RecentIs
    <2> QED
      BY <1>2, <2>1 DEF DeltaSinceFilteredDestroys, StateOf, GoneFrom
  <1> QED
    BY <1>1, <1>2

Made(l, W) == UNION {l.ring[n].made : n \in W}
Dropped(l, W) == UNION {l.ring[n].dropped : n \in W}

LEMMA ChangesAre ==
  ASSUME NEW a, RingOK(log[a]), NEW t \in Floor(log[a])..log[a].counter,
         NEW W, W = Recent(log[a], t)
  PROVE  /\ CalendarEventChanges(a, t)
              = Dominance(Created(log[a], W), Updated(log[a], W), Ids(Destroyed(log[a], W)))
         /\ CalendarChanges(a, t) = Dominance(Made(log[a], W), {}, Dropped(log[a], W))
  <1>1. CASE t = log[a].counter
    <2>1. W = {}
      BY <1>1, RecentIs
    <2>2. /\ Created(log[a], W) = {} /\ Updated(log[a], W) = {} /\ Ids(Destroyed(log[a], W)) = {}
          /\ Made(log[a], W) = {} /\ Dropped(log[a], W) = {}
      BY <2>1 DEF Created, Updated, Destroyed, Ids, Made, Dropped
    <2>3. CalendarEventChanges(a, t) = EmptyDelta /\ CalendarChanges(a, t) = EmptyDelta
      BY <1>1 DEF CalendarEventChanges, CalendarChanges, StateOf
    <2> QED
      BY <2>2, <2>3, DominanceIs
  <1>2. CASE t # log[a].counter
    <2>1. Window(log[a], t) = W /\ Known(log[a], t)
      BY <1>2, RecentIs
    <2> QED
      BY <1>2, <2>1 DEF CalendarEventChanges, CalendarChanges, StateOf, Made, Dropped
  <1> QED
    BY <1>1, <1>2

(* Between two tokens of which only the later is in B, a retained transition leads
   into B. *)
LEMMA EntryBetween ==
  ASSUME NEW l, RingOK(l), NEW B, NEW p \in (Floor(l) + 1)..(l.counter + 1),
         NEW q \in (Floor(l) + 1)..(l.counter + 1), p <= q, p \notin B, q \in B
  PROVE  \E n \in 1..Len(l.ring) : /\ l.ring[n].to \in p..(q - 1)
                                   /\ l.ring[n].to \notin B /\ l.ring[n].to + 1 \in B
  <1>1. /\ l.counter \in Nat /\ Floor(l) \in 0..l.counter /\ Len(l.ring) \in Nat
        /\ Floor(l) = l.counter - Len(l.ring)
        /\ \A i \in 1..Len(l.ring) : l.ring[i].to = Floor(l) + i
    BY RingNumbers DEF Floor
  <1> DEFINE F == Floor(l)
             k == Len(l.ring)
             c == l.counter
  <1>2. /\ F \in Nat /\ k \in Nat /\ c = F + k /\ p \in (F + 1)..(c + 1) /\ q \in (F + 1)..(c + 1)
        /\ \A i \in 1..k : l.ring[i].to = F + i
    BY <1>1
  <1> HIDE DEF F, k, c
  <1>3. p \in Nat /\ q \in Nat
    BY <1>2
  <1>4. PICK m \in (p + 1)..q : m - 1 \notin B /\ m \in B
    BY <1>3, Crossing
  <1>5. /\ m - 1 - F \in 1..k /\ F + (m - 1 - F) = m - 1 /\ m - 1 \in p..(q - 1)
        /\ m - 1 + 1 = m
    BY <1>2
  <1>6. l.ring[m - 1 - F].to = m - 1
    BY <1>2, <1>5
  <1> QED
    BY <1>4, <1>5, <1>6 DEF k

(* What the invariant says of account a and a token t that it gave out. *)
LEMMA AtToken ==
  ASSUME CalInv, NEW a \in Account, NEW t \in Tokens(a)
  PROVE  /\ RingOK(log[a]) /\ LogOK(a) /\ Fresh1(a) /\ Reports(a)
         /\ t \in Floor(log[a])..log[a].counter /\ log[a].counter \in Nat
         /\ t + 1 \in (Floor(log[a]) + 1)..(log[a].counter + 1)
         /\ log[a].counter + 1 \in (Floor(log[a]) + 1)..(log[a].counter + 1)
         /\ t + 1 <= log[a].counter + 1
         /\ Len(snap[a]) = log[a].counter + 1
         /\ t + 1 \in 1..Len(snap[a]) /\ log[a].counter + 1 \in 1..Len(snap[a])
         /\ snap[a][t + 1] \in Views
         /\ \A n \in Recent(log[a], t) : /\ n \in 1..Len(log[a].ring)
                                         /\ t + 1 \in 1..log[a].ring[n].to
                                         /\ log[a].counter + 1 \in (log[a].ring[n].to + 1)..Len(snap[a])
  <1>1. /\ LogOK(a) /\ Fresh1(a) /\ Reports(a)
    BY CalParts
  <1>2. RingOK(log[a])
    BY <1>1 DEF LogOK, RingOK
  <1>3. /\ log[a].counter \in Nat /\ Floor(log[a]) \in 0..log[a].counter
        /\ \A i \in 1..Len(log[a].ring) : log[a].ring[i].to \in (Floor(log[a]) + 1)..log[a].counter
    BY <1>2, RingNumbers
  <1>4. Len(snap[a]) = log[a].counter + 1 /\ snap[a] \in Seq(Views)
    BY <1>1 DEF LogOK
  <1> DEFINE F == Floor(log[a])
             c == log[a].counter
             k == Len(snap[a])
  <1>5. c \in Nat /\ F \in 0..c /\ t \in F..c /\ k = c + 1
    BY <1>3, <1>4 DEF Tokens
  <1>6. ASSUME NEW n \in Recent(log[a], t)
        PROVE  n \in 1..Len(log[a].ring) /\ t + 1 \in 1..log[a].ring[n].to
               /\ c + 1 \in (log[a].ring[n].to + 1)..k
    <2> DEFINE x == log[a].ring[n].to
    <2>1. n \in 1..Len(log[a].ring) /\ x > t /\ x \in (F + 1)..c
      BY <1>3 DEF Recent
    <2> HIDE DEF F, c, k, x
    <2>2. t + 1 \in 1..x /\ c + 1 \in (x + 1)..k
      BY <1>5, <2>1
    <2> QED
      BY <2>1, <2>2 DEF x
  <1> HIDE DEF F, c, k
  <1>7. /\ t \in F..c /\ t + 1 \in (F + 1)..(c + 1) /\ c + 1 \in (F + 1)..(c + 1)
        /\ t + 1 <= c + 1 /\ t + 1 \in 1..k /\ c + 1 \in 1..k
    BY <1>5
  <1>8. snap[a][t + 1] \in Views
    BY <1>4, <1>7 DEF k
  <1> QED
    BY <1>1, <1>2, <1>4, <1>5, <1>6, <1>7, <1>8 DEF F, c, k

(* What a plain id looked like at a token and no longer does is named by a later
   transition; if it is no longer there, one destroyed it. *)
LEMMA NamedSince ==
  ASSUME CalInv, NEW a \in Account, NEW t \in Tokens(a), NEW i \in Id, Plain(i),
         NEW W, W = Recent(log[a], t), NEW u, u = Seen(snap[a][t + 1], i),
         NEW w, w = Seen(Held(owner, events, a), i)
  PROVE  /\ u # w => i \in Created(log[a], W) \cup Updated(log[a], W) \cup Ids(Destroyed(log[a], W))
         /\ u # {} /\ w = {} => \E p \in Destroyed(log[a], W) : p[1] = i
         /\ u # {} => i \notin Created(log[a], W)
         /\ w # {} => i \notin Ids(Destroyed(log[a], W))
  <1> DEFINE c == log[a].counter
             l == log[a]
  <1>1. /\ RingOK(l) /\ t + 1 \in (Floor(l) + 1)..(c + 1) /\ c + 1 \in (Floor(l) + 1)..(c + 1)
        /\ t + 1 <= c + 1 /\ t \in Floor(l)..c /\ c \in Nat /\ t + 1 \in Nat
        /\ \A n \in W : /\ n \in 1..Len(l.ring) /\ t + 1 \in 1..l.ring[n].to
                        /\ c + 1 \in (l.ring[n].to + 1)..Len(snap[a])
    BY AtToken DEF Tokens
  <1>2. Reports(a) /\ Fresh1(a)
    BY AtToken
  <1>3. Seen(snap[a][c + 1], i) = w
    BY <1>2 DEF Fresh1
  <1>4. ASSUME NEW p, p = t + 1, NEW q, NEW n \in 1..Len(l.ring), l.ring[n].to \in p..(q - 1)
        PROVE  n \in W
    <2> DEFINE x == l.ring[n].to
    <2>1. x \in p..(q - 1) /\ t \in Int
      BY <1>1, <1>4
    <2> HIDE DEF x
    <2>2. x > t
      BY <1>4, <2>1
    <2> QED
      BY <2>2 DEF x, Recent
  <1>9. ASSUME NEW B, t + 1 \notin B, c + 1 \in B
        PROVE  \E n \in W : /\ n \in 1..Len(l.ring) /\ l.ring[n].to \in Nat
                            /\ l.ring[n].to \notin B /\ l.ring[n].to + 1 \in B
    <2> DEFINE p == t + 1
               q == c + 1
    <2>1. /\ p \in (Floor(l) + 1)..(l.counter + 1) /\ q \in (Floor(l) + 1)..(l.counter + 1)
          /\ p <= q /\ p \notin B /\ q \in B /\ p \in Nat
      BY <1>1, <1>9
    <2>2. \A n \in 1..Len(l.ring) : l.ring[n].to \in p..(q - 1) => n \in W
      BY <1>4
    <2> HIDE DEF p, q, l
    <2>3. PICK n \in 1..Len(l.ring) : l.ring[n].to \in p..(q - 1)
                                      /\ l.ring[n].to \notin B /\ l.ring[n].to + 1 \in B
      BY <1>1, <2>1, EntryBetween
    <2> DEFINE x == l.ring[n].to
    <2>4. x \in p..(q - 1) => x \in Nat
      <3> HIDE DEF x
      <3> QED
        BY <2>1
    <2> QED
      BY <2>2, <2>3, <2>4
  <1>5. ASSUME u # w
        PROVE  i \in Created(l, W) \cup Updated(l, W) \cup Ids(Destroyed(l, W))
    <2> DEFINE B == {m \in Nat : Seen(snap[a][m], i) # u}
    <2>1. t + 1 \notin B /\ c + 1 \in B
      BY <1>1, <1>3, <1>5
    <2> HIDE DEF B
    <2>2. PICK n \in W : /\ n \in 1..Len(l.ring) /\ l.ring[n].to \in Nat
                         /\ l.ring[n].to \notin B /\ l.ring[n].to + 1 \in B
      BY <1>9, <2>1
    <2>3. n \in W /\ l.ring[n].to \in Nat
      BY <2>2
    <2>4. Seen(snap[a][l.ring[n].to], i) # Seen(snap[a][l.ring[n].to + 1], i)
      BY <2>2, <2>3 DEF B
    <2>5. Tells(a, l.ring[n])
      BY <1>2, <2>2 DEF Reports
    <2>6. i \in Names(l.ring[n])
      BY <2>4, <2>5 DEF Tells
    <2> QED
      BY <2>3, <2>6 DEF Names, Created, Updated, Destroyed, Ids
  <1>6. ASSUME u # {}, w = {}
        PROVE  \E p \in Destroyed(l, W) : p[1] = i
    <2> DEFINE B == {m \in Nat : Seen(snap[a][m], i) = {}}
    <2>1. t + 1 \notin B /\ c + 1 \in B
      BY <1>1, <1>3, <1>6
    <2> HIDE DEF B
    <2>2. PICK n \in W : /\ n \in 1..Len(l.ring) /\ l.ring[n].to \in Nat
                         /\ l.ring[n].to \notin B /\ l.ring[n].to + 1 \in B
      BY <1>9, <2>1
    <2>3. n \in W /\ l.ring[n].to \in Nat
      BY <2>2
    <2>4. Seen(snap[a][l.ring[n].to], i) # {} /\ Seen(snap[a][l.ring[n].to + 1], i) = {}
      BY <2>2, <2>3 DEF B
    <2>5. Tells(a, l.ring[n])
      BY <1>2, <2>2 DEF Reports
    <2>6. i \in Ids(l.ring[n].destroyed)
      BY <2>4, <2>5 DEF Tells
    <2> QED
      BY <2>3, <2>6 DEF Destroyed, Ids
  <1>7. ASSUME i \in Created(l, W) PROVE u = {}
    <2>1. PICK n \in W : i \in l.ring[n].created
      BY <1>7 DEF Created
    <2>2. t + 1 \in 1..l.ring[n].to /\ n \in 1..Len(l.ring)
      BY <1>1
    <2> QED
      BY <1>2, <2>1, <2>2 DEF Reports, Creates
  <1>8. ASSUME i \in Ids(Destroyed(l, W)) PROVE w = {}
    <2>1. PICK n \in W : \E p \in l.ring[n].destroyed : p[1] = i
      BY <1>8 DEF Destroyed, Ids
    <2>2. c + 1 \in (l.ring[n].to + 1)..Len(snap[a]) /\ n \in 1..Len(l.ring)
      BY <1>1
    <2>3. Seen(snap[a][c + 1], i) = {}
      BY <1>2, <2>1, <2>2 DEF Reports, Buries
    <2> QED
      BY <1>3, <2>3
  <1> QED
    BY <1>5, <1>6, <1>7, <1>8

-----------------------------------------------------------------------------
(* CalendarEvent/changes and Calendar/changes. *)

LEMMA EventChangesComplete ==
  ASSUME CalInv, NEW a \in Account, NEW t \in Tokens(a),
         NEW r \in Held(owner, events, a).events \cup snap[a][t + 1].events,
         ~(r \in Held(owner, events, a).events /\ r \in snap[a][t + 1].events), Plain(r[2]),
         NEW d, d = CalendarEventChanges(a, t)
  PROVE  r[2] \in d.created \cup d.updated \cup d.destroyed
  <1> DEFINE l == log[a]
             now == Held(owner, events, a)
             then == snap[a][t + 1]
             i == r[2]
             u == Seen(then, i)
             w == Seen(now, i)
             W == Recent(l, t)
             C == Created(l, W)
             U == Updated(l, W)
             D == Ids(Destroyed(l, W))
  <1>1. RingOK(l) /\ then \in Views /\ t \in Floor(l)..l.counter
    BY AtToken
  <1>2. now \in Views
    BY HeldIs, CalParts DEF StoreOK
  <1>3. i \in Id
    BY <1>1, <1>2 DEF Views
  <1>4. u # w
    BY DEF Seen
  <1>5. /\ u # w => i \in C \cup U \cup D
        /\ u # {} => i \notin C
        /\ w # {} => i \notin D
    BY <1>3, NamedSince
  <1>6. d = Dominance(C, U, D)
    BY <1>1, ChangesAre
  <1> HIDE DEF C, U, D, u, w
  <1>7. i \in C \cup U \cup D /\ ~(i \in C /\ i \in D)
    BY <1>4, <1>5
  <1>8. /\ d.created = C \ (C \cap D)
        /\ d.updated = U \ ((C \ (C \cap D)) \cup (D \ (C \cap D)))
        /\ d.destroyed = D \ (C \cap D)
    BY <1>6, DominanceIs
  <1> QED
    BY <1>7, <1>8

(* A calendar that is there at p and not at q was dropped in between, and made if
   it is the other way around. *)
LEMMA CalendarBetween ==
  ASSUME CalInv, NEW a \in Account, NEW c, NEW l, l = log[a],
         NEW p \in (Floor(l) + 1)..(l.counter + 1),
         NEW q \in (Floor(l) + 1)..(l.counter + 1), p <= q
  PROVE  /\ c \in snap[a][p].cals /\ c \notin snap[a][q].cals =>
               \E n \in 1..Len(l.ring) : l.ring[n].to \in p..(q - 1) /\ c \in l.ring[n].dropped
         /\ c \notin snap[a][p].cals /\ c \in snap[a][q].cals =>
               \E n \in 1..Len(l.ring) : l.ring[n].to \in p..(q - 1) /\ c \in l.ring[n].made
  <1>1. LogOK(a) /\ Reports(a)
    BY CalParts
  <1>2. RingOK(l)
    BY <1>1 DEF LogOK, RingOK
  <1>3. \A n \in 1..Len(l.ring) : l.ring[n].to \in Nat
    BY <1>2, RingNumbers DEF Records
  <1>4. p \in Nat /\ q \in Nat
    <2> DEFINE F == Floor(l)
               k == l.counter
    <2>1. F \in 0..k /\ k \in Nat /\ p \in (F + 1)..(k + 1) /\ q \in (F + 1)..(k + 1)
      BY <1>2, RingNumbers
    <2> HIDE DEF F, k
    <2> QED
      BY <2>1
  <1>5. ASSUME c \in snap[a][p].cals, c \notin snap[a][q].cals
        PROVE  \E n \in 1..Len(l.ring) : l.ring[n].to \in p..(q - 1) /\ c \in l.ring[n].dropped
    <2> DEFINE B == {m \in Nat : c \notin snap[a][m].cals}
    <2>1. p \notin B /\ q \in B
      BY <1>4, <1>5
    <2> HIDE DEF B
    <2>2. PICK n \in 1..Len(l.ring) : l.ring[n].to \in p..(q - 1)
                                      /\ l.ring[n].to \notin B /\ l.ring[n].to + 1 \in B
      BY <1>2, <2>1, EntryBetween
    <2>3. c \in snap[a][l.ring[n].to].cals /\ c \notin snap[a][l.ring[n].to + 1].cals
      BY <1>3, <2>2 DEF B
    <2>4. Tells(a, l.ring[n])
      BY <1>1 DEF Reports
    <2> QED
      BY <2>2, <2>3, <2>4 DEF Tells
  <1>6. ASSUME c \notin snap[a][p].cals, c \in snap[a][q].cals
        PROVE  \E n \in 1..Len(l.ring) : l.ring[n].to \in p..(q - 1) /\ c \in l.ring[n].made
    <2> DEFINE B == {m \in Nat : c \in snap[a][m].cals}
    <2>1. p \notin B /\ q \in B
      BY <1>4, <1>6
    <2> HIDE DEF B
    <2>2. PICK n \in 1..Len(l.ring) : l.ring[n].to \in p..(q - 1)
                                      /\ l.ring[n].to \notin B /\ l.ring[n].to + 1 \in B
      BY <1>2, <2>1, EntryBetween
    <2>3. c \notin snap[a][l.ring[n].to].cals /\ c \in snap[a][l.ring[n].to + 1].cals
      BY <1>3, <2>2 DEF B
    <2>4. Tells(a, l.ring[n])
      BY <1>1 DEF Reports
    <2> QED
      BY <2>2, <2>3, <2>4 DEF Tells
  <1> QED
    BY <1>5, <1>6

LEMMA CalendarChangesComplete ==
  ASSUME CalInv, NEW a \in Account, NEW t \in Tokens(a), NEW c \in Calendar,
         ~Flapped(log[a], Window(log[a], t), c), NEW k, k = CalendarChanges(a, t)
  PROVE  c \in Held(owner, events, a).cals
            <=> c \in (snap[a][t + 1].cals \cup k.created) \ k.destroyed
  <1> DEFINE l == log[a]
             W == Recent(l, t)
             M == Made(l, W)
             D == Dropped(l, W)
             p == t + 1
             q == l.counter + 1
             In(m) == c \in snap[a][m].cals
  <1>1. /\ RingOK(l) /\ t \in Floor(l)..l.counter /\ l.counter \in Nat /\ Fresh1(a) /\ Reports(a)
        /\ p \in (Floor(l) + 1)..(l.counter + 1) /\ q \in (Floor(l) + 1)..(l.counter + 1) /\ p <= q
    BY AtToken
  <1>2. Held(owner, events, a).cals = snap[a][q].cals
    BY <1>1 DEF Fresh1
  <1>3. k = Dominance(M, {}, D)
    BY <1>1, ChangesAre
  <1> HIDE DEF M, D
  <1>4. k.created = M \ (M \cap D) /\ k.destroyed = D \ (M \cap D)
    BY <1>3, DominanceIs
  <1>5. \A m \in W, n \in W : m # n => ~(c \in l.ring[m].made /\ c \in l.ring[n].made)
                                   /\ ~(c \in l.ring[m].dropped /\ c \in l.ring[n].dropped)
    <2>1. CASE t = l.counter
      BY <1>1, <2>1, RecentIs
    <2>2. CASE t # l.counter
      <3>1. Window(l, t) = W
        BY <1>1, <2>2, RecentIs
      <3> QED
        BY <3>1 DEF Flapped
    <2> QED
      BY <2>1, <2>2
  <1>6. /\ \A n \in 1..Len(l.ring) : l.ring[n].to \in (Floor(l) + 1)..l.counter
        /\ Floor(l) \in 0..l.counter
    BY <1>1, RingNumbers
  <1>7. \A n \in W : /\ n \in 1..Len(l.ring) /\ l.ring[n].to > t
                     /\ (c \in l.ring[n].made => ~In(l.ring[n].to) /\ In(l.ring[n].to + 1))
                     /\ (c \in l.ring[n].dropped => In(l.ring[n].to) /\ ~In(l.ring[n].to + 1))
    <2> SUFFICES ASSUME NEW n \in W
                 PROVE  /\ n \in 1..Len(l.ring) /\ l.ring[n].to > t
                        /\ (c \in l.ring[n].made => ~In(l.ring[n].to) /\ In(l.ring[n].to + 1))
                        /\ (c \in l.ring[n].dropped => In(l.ring[n].to) /\ ~In(l.ring[n].to + 1))
      OBVIOUS
    <2>1. n \in 1..Len(l.ring) /\ l.ring[n].to > t
      BY DEF Recent
    <2>2. Tells(a, l.ring[n])
      BY <1>1, <2>1 DEF Reports
    <2>3. l.ring[n].made = snap[a][l.ring[n].to + 1].cals \ snap[a][l.ring[n].to].cals
          /\ l.ring[n].dropped = snap[a][l.ring[n].to].cals \ snap[a][l.ring[n].to + 1].cals
      BY <2>2 DEF Tells
    <2> QED
      BY <2>1, <2>3
  <1>8. /\ c \in M <=> \E n \in W : c \in l.ring[n].made
        /\ c \in D <=> \E n \in W : c \in l.ring[n].dropped
    BY DEF Made, Dropped, M, D
  (* In goes down, or up, from x to y at most once, by an entry in between. *)
  <1>9. ASSUME NEW x \in p..q, NEW y \in p..q, x <= y
        PROVE  /\ In(x) /\ ~In(y) => \E n \in W : l.ring[n].to \in x..(y - 1) /\ c \in l.ring[n].dropped
               /\ ~In(x) /\ In(y) => \E n \in W : l.ring[n].to \in x..(y - 1) /\ c \in l.ring[n].made
    <2> DEFINE F == Floor(l)
               j == l.counter
    <2>1. /\ j \in Nat /\ F \in 0..j /\ t \in F..j /\ p = t + 1 /\ q = j + 1 /\ x \in p..q /\ y \in p..q
      BY <1>1, <1>6
    <2>2. \A n \in 1..Len(l.ring) : l.ring[n].to \in x..(y - 1) => l.ring[n].to > t
      <3> SUFFICES ASSUME NEW n \in 1..Len(l.ring), l.ring[n].to \in x..(y - 1)
                   PROVE  l.ring[n].to > t
        OBVIOUS
      <3> DEFINE z == l.ring[n].to
      <3>1. z \in x..(y - 1)
        OBVIOUS
      <3> HIDE DEF z, F, j, p, q
      <3>2. z > t
        BY <2>1, <3>1
      <3> QED
        BY <3>2 DEF z
    <2>3. x \in (F + 1)..(j + 1) /\ y \in (F + 1)..(j + 1)
      <3> HIDE DEF F, j, p, q
      <3> QED
        BY <2>1
    <2>4. /\ In(x) /\ ~In(y) => \E n \in 1..Len(l.ring) : l.ring[n].to \in x..(y - 1) /\ c \in l.ring[n].dropped
          /\ ~In(x) /\ In(y) => \E n \in 1..Len(l.ring) : l.ring[n].to \in x..(y - 1) /\ c \in l.ring[n].made
      BY <1>9, <2>3, CalendarBetween
    <2> QED
      BY <2>2, <2>4 DEF Recent
  <1>10. p \in p..q /\ q \in p..q /\ \A n \in W : l.ring[n].to \in p..q /\ l.ring[n].to + 1 \in p..q
    <2> DEFINE F == Floor(l)
               j == l.counter
    <2>1. /\ j \in Nat /\ F \in 0..j /\ t \in F..j /\ p = t + 1 /\ q = j + 1
      BY <1>1, <1>6
    <2>2. ASSUME NEW n \in W PROVE l.ring[n].to \in p..q /\ l.ring[n].to + 1 \in p..q
      <3> DEFINE z == l.ring[n].to
      <3>1. z > t /\ z \in (F + 1)..j
        BY <1>6, <1>7
      <3> HIDE DEF z, F, j, p, q
      <3>2. z \in p..q /\ z + 1 \in p..q
        BY <2>1, <3>1
      <3> QED
        BY <3>2 DEF z
    <2>3. p \in p..q /\ q \in p..q
      <3> HIDE DEF F, j, p, q
      <3> QED
        BY <2>1
    <2> QED
      BY <2>2, <2>3
  <1>11. p \in Int /\ q \in Int /\ \A n \in W : l.ring[n].to \in Int
    BY <1>1, <1>6, <1>7, <1>10
  <1> HIDE DEF In, p, q, l, W
  <1>12. CASE c \notin M /\ c \notin D
    BY <1>1, <1>2, <1>4, <1>8, <1>9, <1>10, <1>12 DEF In, p
  (* After its only making, or its only dropping, nothing changes any more. *)
  <1>13. ASSUME NEW n \in W, c \in l.ring[n].made,
                \A m \in W : c \in l.ring[m].dropped => l.ring[m].to < l.ring[n].to
         PROVE  In(q)
    <2> DEFINE x == l.ring[n].to + 1
    <2>1. x \in p..q /\ In(x) /\ x <= q
      BY <1>7, <1>10, <1>11, <1>13
    <2>2. \A m \in W : c \in l.ring[m].dropped => l.ring[m].to \notin x..(q - 1)
      BY <1>11, <1>13
    <2> HIDE DEF x
    <2> QED
      BY <1>9, <1>10, <2>1, <2>2
  <1>14. ASSUME NEW n \in W, c \in l.ring[n].dropped,
                \A m \in W : c \in l.ring[m].made => l.ring[m].to < l.ring[n].to
         PROVE  ~In(q)
    <2> DEFINE x == l.ring[n].to + 1
    <2>1. x \in p..q /\ ~In(x) /\ x <= q
      BY <1>7, <1>10, <1>11, <1>14
    <2>2. \A m \in W : c \in l.ring[m].made => l.ring[m].to \notin x..(q - 1)
      BY <1>11, <1>14
    <2> HIDE DEF x
    <2> QED
      BY <1>9, <1>10, <2>1, <2>2
  (* Nor did anything change before it. *)
  <1>15. ASSUME NEW n \in W, c \in l.ring[n].made,
                \A m \in W : c \in l.ring[m].dropped => l.ring[m].to > l.ring[n].to
         PROVE  ~In(p)
    <2> DEFINE x == l.ring[n].to
    <2>1. x \in p..q /\ ~In(x) /\ p <= x
      BY <1>7, <1>10, <1>11, <1>15
    <2>2. \A m \in W : c \in l.ring[m].dropped => l.ring[m].to \notin p..(x - 1)
      BY <1>11, <1>15
    <2> HIDE DEF x
    <2> QED
      BY <1>9, <1>10, <2>1, <2>2
  <1>16. ASSUME NEW n \in W, c \in l.ring[n].dropped,
                \A m \in W : c \in l.ring[m].made => l.ring[m].to > l.ring[n].to
         PROVE  In(p)
    <2> DEFINE x == l.ring[n].to
    <2>1. x \in p..q /\ In(x) /\ p <= x
      BY <1>7, <1>10, <1>11, <1>16
    <2>2. \A m \in W : c \in l.ring[m].made => l.ring[m].to \notin p..(x - 1)
      BY <1>11, <1>16
    <2> HIDE DEF x
    <2> QED
      BY <1>9, <1>10, <2>1, <2>2
  <1>17. CASE c \in M /\ c \notin D
    BY <1>2, <1>4, <1>8, <1>13, <1>17 DEF In
  <1>18. CASE c \notin M /\ c \in D
    BY <1>2, <1>4, <1>8, <1>14, <1>18 DEF In
  <1>19. CASE c \in M /\ c \in D
    <2>1. PICK m \in W : c \in l.ring[m].made
      BY <1>8, <1>19
    <2>2. PICK n \in W : c \in l.ring[n].dropped
      BY <1>8, <1>19
    <2>3. \A j \in W : (c \in l.ring[j].made => j = m) /\ (c \in l.ring[j].dropped => j = n)
      BY <1>5, <2>1, <2>2
    <2>4. l.ring[m].to # l.ring[n].to
      BY <1>7, <2>1, <2>2
    <2>5. l.ring[m].to < l.ring[n].to \/ l.ring[n].to < l.ring[m].to
      BY <1>11, <2>4
    <2>6. In(p) <=> In(q)
      <3>1. CASE l.ring[m].to < l.ring[n].to
        <4>1. ~In(p)
          <5>1. \A j \in W : c \in l.ring[j].dropped => l.ring[j].to > l.ring[m].to
            BY <1>11, <2>3, <3>1
          <5> QED
            BY <1>15, <2>1, <5>1
        <4>2. ~In(q)
          <5>1. \A j \in W : c \in l.ring[j].made => l.ring[j].to < l.ring[n].to
            BY <2>3, <3>1
          <5> QED
            BY <1>14, <2>2, <5>1
        <4> QED
          BY <4>1, <4>2
      <3>2. CASE l.ring[n].to < l.ring[m].to
        <4>1. In(p)
          <5>1. \A j \in W : c \in l.ring[j].made => l.ring[j].to > l.ring[n].to
            BY <1>11, <2>3, <3>2
          <5> QED
            BY <1>16, <2>2, <5>1
        <4>2. In(q)
          <5>1. \A j \in W : c \in l.ring[j].dropped => l.ring[j].to < l.ring[m].to
            BY <2>3, <3>2
          <5> QED
            BY <1>13, <2>1, <5>1
        <4> QED
          BY <4>1, <4>2
      <3> QED
        BY <2>5, <3>1, <3>2
    <2> QED
      BY <1>2, <1>4, <1>19, <2>6 DEF In, p
  <1> QED
    BY <1>12, <1>17, <1>18, <1>19

LEMMA JmapComplete ==
  ASSUME CalInv
  PROVE  JmapChangesComplete
  <1>1. ASSUME NEW a \in Account, NEW t \in Tokens(a),
               NEW d, d = CalendarEventChanges(a, t), NEW k, k = CalendarChanges(a, t),
               NEW then, then = snap[a][t + 1], NEW now, now = Held(owner, events, a)
        PROVE  /\ \A r \in (now.events \ then.events) \cup (then.events \ now.events) :
                     Plain(r[2]) => r[2] \in d.created \cup d.updated \cup d.destroyed
               /\ \A c \in Calendar : ~Flapped(log[a], Window(log[a], t), c) =>
                     (c \in now.cals <=> c \in (then.cals \cup k.created) \ k.destroyed)
    <2>1. ASSUME NEW r \in (now.events \ then.events) \cup (then.events \ now.events), Plain(r[2])
          PROVE  r[2] \in d.created \cup d.updated \cup d.destroyed
      BY <1>1, <2>1, EventChangesComplete
    <2>2. ASSUME NEW c \in Calendar, ~Flapped(log[a], Window(log[a], t), c)
          PROVE  c \in now.cals <=> c \in (then.cals \cup k.created) \ k.destroyed
      BY <1>1, <2>2, CalendarChangesComplete
    <2> QED
      BY <2>1, <2>2
  <1> QED
    BY <1>1 DEF JmapChangesComplete

-----------------------------------------------------------------------------
(* The delta of one calendar. *)

(* The ids of S that live in calendar c. *)
Here(S, c) == {i \in S : IdAt(events, i) # 0 /\ events[LastIdAt(events, i)].cal = c}

(* What the transitions of account h after the token t created, updated, destroyed,
   and destroyed in calendar c. *)
CreatedSince(h, t) == Created(log[h], Recent(log[h], t))
UpdatedSince(h, t) == Updated(log[h], Recent(log[h], t))
DestroyedSince(h, t) == Destroyed(log[h], Recent(log[h], t))
GoneSince(h, t, c) == GoneFrom(log[h], Recent(log[h], t), c)

LEMMA DeltaIs ==
  ASSUME CalInv, NEW c \in Calendar, NEW h \in Account, owner[c] = h, NEW t \in Tokens(h)
  PROVE  LET C == CreatedSince(h, t)
             U == UpdatedSince(h, t)
             G == GoneSince(h, t, c)
         IN  /\ EventDeltaSince(c, t).created = Here(C \ (C \cap G), c)
             /\ EventDeltaSince(c, t).updated = Here(U \ ((C \ (C \cap G)) \cup (G \ (C \cap G))), c)
             /\ EventDeltaSince(c, t).destroyed = G \ (C \cap G)
             /\ EventDeltaSince(c, t) # Unknown
             /\ t = log[h].counter => C = {} /\ U = {} /\ G = {}
  <1> DEFINE C == CreatedSince(h, t)
             U == UpdatedSince(h, t)
             G == GoneSince(h, t, c)
             d == Dominance(C, U, G)
             f == DeltaSinceFilteredDestroys(log[owner[c]], t, c)
  <1>1. RingOK(log[h]) /\ t \in Floor(log[h])..log[h].counter
    BY AtToken
  <1>2. f = d
    <2>1. PICK W : W = Recent(log[h], t)
      OBVIOUS
    <2>2. DeltaSinceFilteredDestroys(log[h], t, c)
            = Dominance(Created(log[h], W), Updated(log[h], W), GoneFrom(log[h], W, c))
      BY <1>1, <2>1, FilteredIs
    <2> QED
      BY <2>1, <2>2 DEF CreatedSince, UpdatedSince, GoneSince
  <1>3. /\ d = [created |-> C \ (C \cap G),
                updated |-> U \ ((C \ (C \cap G)) \cup (G \ (C \cap G))),
                destroyed |-> G \ (C \cap G)]
        /\ d # Unknown
    <2> HIDE DEF C, U, G
    <2> QED
      BY DominanceIs
  <1>4. EventDeltaSince(c, t) = [d EXCEPT !.created = Here(@, c), !.updated = Here(@, c)]
    <2>1. f # Unknown
      BY <1>2, <1>3
    <2>2. EventDeltaSince(c, t) = [f EXCEPT !.created = Here(@, c), !.updated = Here(@, c)]
      BY <2>1 DEF EventDeltaSince, Here
    <2> QED
      BY <1>2, <2>2
  <1> HIDE DEF d, f, C, U, G
  <1>5. EventDeltaSince(c, t) = [created |-> Here(C \ (C \cap G), c),
            updated |-> Here(U \ ((C \ (C \cap G)) \cup (G \ (C \cap G))), c),
            destroyed |-> G \ (C \cap G)]
    BY <1>3, <1>4
  <1>6. EventDeltaSince(c, t) # Unknown
    <2>1. "refused" \in DOMAIN Unknown
      BY DEF Unknown
    <2>2. "refused" \notin DOMAIN EventDeltaSince(c, t)
      BY <1>5
    <2> QED
      BY <2>1, <2>2
  <1>7. ASSUME t = log[h].counter PROVE C = {} /\ U = {} /\ G = {}
    <2>1. Recent(log[h], t) = {}
      BY <1>1, <1>7, RecentIs
    <2>2. C = {} /\ U = {} /\ DestroyedSince(h, t) = {}
      BY <2>1 DEF Created, Updated, Destroyed, CreatedSince, UpdatedSince, DestroyedSince, C, U
    <2> QED
      BY <2>2 DEF GoneFrom, GoneSince, DestroyedSince, G
  <1>8. /\ EventDeltaSince(c, t).created = Here(C \ (C \cap G), c)
        /\ EventDeltaSince(c, t).updated = Here(U \ ((C \ (C \cap G)) \cup (G \ (C \cap G))), c)
        /\ EventDeltaSince(c, t).destroyed = G \ (C \cap G)
    BY <1>5
  <1> QED
    BY <1>6, <1>7, <1>8 DEF C, U, G

(* Graph and Google send the same answer for a token that was given out. *)
LEMMA AnswerIs ==
  ASSUME CalInv, NEW c \in Calendar, NEW h \in Account, owner[c] = h, NEW t \in Tokens(h),
         NEW answer \in {GraphDelta(c, t), GcalDelta(c, t)},
         NEW d, d = EventDeltaSince(c, t)
  PROVE  /\ answer.items = {r \in View(events, h, c) : r[1] \in d.created \cup d.updated}
         /\ answer.gone = d.destroyed
  <1> DEFINE items == {r \in View(events, h, c) : r[1] \in d.created \cup d.updated}
  <1>1. d # Unknown
    BY DeltaIs
  <1>2. Sent(c, d) = [items |-> items, gone |-> d.destroyed]
    BY DEF Sent
  <1>3. GraphDelta(c, t) = Sent(c, d)
    BY <1>1 DEF GraphDelta
  <1>4. GcalDelta(c, t) = Sent(c, d)
    <2>1. CASE t = log[h].counter
      <3>1. d.created = {} /\ d.updated = {} /\ d.destroyed = {}
        <4>1. \A S : S = {} => Here(S, c) = {}
          BY DEF Here
        <4> DEFINE C == CreatedSince(h, t)
                   U == UpdatedSince(h, t)
                   G == GoneSince(h, t, c)
        <4>2. /\ d.created = Here(C \ (C \cap G), c)
              /\ d.updated = Here(U \ ((C \ (C \cap G)) \cup (G \ (C \cap G))), c)
              /\ d.destroyed = G \ (C \cap G)
          BY DeltaIs
        <4>3. t = log[h].counter => C = {} /\ U = {} /\ G = {}
          BY DeltaIs
        <4> HIDE DEF C, U, G
        <4> QED
          BY <2>1, <4>1, <4>2, <4>3
      <3>2. GcalDelta(c, t) = [items |-> {}, gone |-> {}]
        BY <2>1 DEF GcalDelta, StateOf
      <3> QED
        BY <1>2, <3>1, <3>2
    <2>2. CASE t # log[h].counter
      BY <1>1, <2>2 DEF GcalDelta, StateOf
    <2> QED
      BY <2>1, <2>2
  <1> QED
    BY <1>2, <1>3, <1>4

LEMMA ViewIs ==
  ASSUME NEW es, NEW a, NEW c, NEW i, NEW x
  PROVE  <<i, x>> \in View(es, a, c) <=>
            \E e \in Rows(es, i) : e.acct = a /\ e.cal = c /\ x = Contents(e)
  <1>1. ASSUME <<i, x>> \in View(es, a, c)
        PROVE  \E e \in Rows(es, i) : e.acct = a /\ e.cal = c /\ x = Contents(e)
    <2>1. PICK k \in DOMAIN es : /\ es[k].acct = a /\ es[k].cal = c
                                 /\ <<i, x>> = <<es[k].id, Contents(es[k])>>
      BY <1>1 DEF View, EventsFor
    <2>2. es[k] \in Rows(es, i) /\ x = Contents(es[k])
      BY <2>1 DEF Rows, Range
    <2> QED
      BY <2>1, <2>2
  <1>2. ASSUME NEW e \in Rows(es, i), e.acct = a, e.cal = c, x = Contents(e)
        PROVE  <<i, x>> \in View(es, a, c)
    <2>1. PICK k \in DOMAIN es : es[k] = e
      BY DEF Rows, Range
    <2>2. e.id = i
      BY DEF Rows
    <2> QED
      BY <1>2, <2>1, <2>2 DEF View, EventsFor
  <1> QED
    BY <1>1, <1>2

(* An id that calendar c shows is in the delta when a later transition wrote it. *)
LEMMA HereIs ==
  ASSUME events \in Seq(Event), NEW i, Sole(events, i), NEW e \in Rows(events, i), NEW S, NEW c,
         e.cal = c
  PROVE  i \in Here(S, c) <=> i \in S
  <1> DEFINE k == LastIdAt(events, i)
  <1>1. IdAt(events, i) # 0 /\ k # 0 /\ k \in 0..Len(events) /\ events[k].id = i
    BY IdAtFinds, LastIdAtFinds
  <1>2. k \in 1..Len(events)
    BY <1>1
  <1> HIDE DEF k
  <1>3. events[k] \in Rows(events, i)
    BY <1>1, <1>2, RowsAt
  <1>4. events[k] = e
    BY <1>3, SoleRow
  <1> QED
    BY <1>1, <1>4 DEF Here, k

LEMMA HereWithin ==
  ASSUME NEW S, NEW c
  PROVE  Here(S, c) \subseteq S
  BY DEF Here

(* What the view at a token showed of calendar c. *)
Then(a, t, c) == {<<r[2], r[3]>> : r \in {r \in snap[a][t + 1].events : r[1] = c}}

LEMMA ThenIs ==
  ASSUME CalInv, NEW a \in Account, NEW t \in Tokens(a), NEW c, NEW i, NEW x
  PROVE  /\ <<i, x>> \in Then(a, t, c) <=> <<c, i, x>> \in Seen(snap[a][t + 1], i)
         /\ <<i, x>> \in Then(a, t, c) => i \in Id
  <1> DEFINE E == snap[a][t + 1].events
  <1>1. E \subseteq Calendar \X Id \X Content
    BY AtToken DEF Views
  <1>2. Then(a, t, c) = {<<r[2], r[3]>> : r \in {r \in E : r[1] = c}}
    BY DEF Then
  <1>3. Seen(snap[a][t + 1], i) = {r \in E : r[2] = i}
    BY DEF Seen
  <1> HIDE DEF E
  <1>4. ASSUME <<i, x>> \in Then(a, t, c) PROVE <<c, i, x>> \in E /\ i \in Id
    <2>1. PICK r \in E : r[1] = c /\ <<i, x>> = <<r[2], r[3]>>
      BY <1>2, <1>4
    <2>2. r = <<r[1], r[2], r[3]>> /\ r[2] \in Id
      BY <1>1
    <2>3. i = r[2] /\ x = r[3]
      BY <2>1
    <2> QED
      BY <2>1, <2>2, <2>3
  <1>5. <<c, i, x>>[1] = c /\ <<c, i, x>>[2] = i /\ <<c, i, x>>[3] = x
    OBVIOUS
  <1>6. <<c, i, x>> \in E => <<i, x>> \in Then(a, t, c)
    <2> DEFINE r == <<c, i, x>>
    <2>1. r[1] = c /\ <<r[2], r[3]>> = <<i, x>>
      OBVIOUS
    <2> HIDE DEF r
    <2>2. r \in E => <<i, x>> \in Then(a, t, c)
      BY <1>2, <2>1
    <2> QED
      BY <2>2 DEF r
  <1> QED
    BY <1>3, <1>4, <1>5, <1>6

(* A row of calendar c that Graph and Google show now was there at the token, or
   they send it. *)
LEMMA ShownNow ==
  ASSUME CalInv, NEW c \in Calendar, NEW h \in Account, owner[c] = h, NEW t \in Tokens(h),
         NEW d, d = EventDeltaSince(c, t),
         NEW i, NEW x, <<i, x>> \in View(events, h, c), Plain(i),
         i \notin d.created \cup d.updated
  PROVE  i \notin d.destroyed /\ <<i, x>> \in Then(h, t, c)
  <1> DEFINE C == CreatedSince(h, t)
             U == UpdatedSince(h, t)
             D == DestroyedSince(h, t)
             G == GoneSince(h, t, c)
             u == Seen(snap[h][t + 1], i)
             w == Seen(Held(owner, events, h), i)
  <1>1. PICK e \in Rows(events, i) : e.acct = h /\ e.cal = c /\ x = Contents(e)
    BY ViewIs
  <1>2. events \in Seq(Event) /\ Twins
    BY CalParts DEF StoreOK
  <1>3. i \in Id
    BY <1>2, RowIs
  <1>4. Sole(events, i)
    BY <1>2, <1>3 DEF Twins, Plain
  <1>5. /\ d.created = Here(C \ (C \cap G), c)
        /\ d.updated = Here(U \ ((C \ (C \cap G)) \cup (G \ (C \cap G))), c)
        /\ d.destroyed = G \ (C \cap G)
    BY DeltaIs
  <1>6. w = Shown(events, h, i)
    BY SeenHeld
  <1>7. <<c, i, x>> \in w
    BY <1>1, <1>6 DEF Shown, Mine
  <1>8. /\ u # w => i \in C \cup U \cup Ids(D)
        /\ w # {} => i \notin Ids(D)
    BY <1>3, NamedSince DEF CreatedSince, UpdatedSince, DestroyedSince
  <1>9. i \in G => i \in Ids(D)
    BY DEF GoneFrom, GoneSince, DestroyedSince, Ids
  <1> HIDE DEF C, U, D, G, u, w
  <1>10. i \notin Ids(D) /\ i \notin G
    BY <1>7, <1>8, <1>9
  <1>11. i \notin C \ (C \cap G) /\ i \notin U \ ((C \ (C \cap G)) \cup (G \ (C \cap G)))
    BY <1>1, <1>2, <1>4, <1>5, HereIs
  <1>12. u = w
    BY <1>8, <1>10, <1>11
  <1>13. <<i, x>> \in Then(h, t, c)
    BY <1>7, <1>12, ThenIs DEF u
  <1> QED
    BY <1>5, <1>10, <1>13

(* A row the client keeps is there now. *)
LEMMA KeptRow ==
  ASSUME CalInv, NEW c \in Calendar, NEW h \in Account, owner[c] = h, NEW t \in Tokens(h),
         NEW d, d = EventDeltaSince(c, t),
         NEW i, NEW x, <<i, x>> \in Then(h, t, c), Plain(i), i \notin d.destroyed,
         \A y : <<i, y>> \in View(events, h, c) => i \notin d.created \cup d.updated,
         "moved" \in past[i] => \E y : <<i, y>> \in View(events, h, c)
  PROVE  <<i, x>> \in View(events, h, c)
  <1> DEFINE C == CreatedSince(h, t)
             U == UpdatedSince(h, t)
             D == DestroyedSince(h, t)
             G == GoneSince(h, t, c)
             u == Seen(snap[h][t + 1], i)
             w == Seen(Held(owner, events, h), i)
  <1>1. i \in Id /\ <<c, i, x>> \in u
    BY ThenIs
  <1>2. events \in Seq(Event) /\ Twins /\ Gone /\ Keeps(h, i) /\ Reports(h)
    BY <1>1, CalParts DEF StoreOK
  <1>3. Sole(events, i)
    BY <1>1, <1>2 DEF Twins, Plain
  <1>4. /\ d.created = Here(C \ (C \cap G), c)
        /\ d.updated = Here(U \ ((C \ (C \cap G)) \cup (G \ (C \cap G))), c)
        /\ d.destroyed = G \ (C \cap G)
    BY DeltaIs
  <1>5. w = Shown(events, h, i)
    BY SeenHeld
  <1>6. /\ u # w => i \in C \cup U \cup Ids(D)
        /\ u # {} /\ w = {} => \E p \in D : p[1] = i
        /\ u # {} => i \notin C
    BY <1>1, NamedSince DEF CreatedSince, UpdatedSince, DestroyedSince
  <1>7. \A y : <<c, i, y>> \in w => <<i, y>> \in View(events, h, c)
    <2> SUFFICES ASSUME NEW y, <<c, i, y>> \in w PROVE <<i, y>> \in View(events, h, c)
      OBVIOUS
    <2>1. PICK e \in Rows(events, i) : e.acct = h /\ <<c, i, y>> = <<e.cal, i, Contents(e)>>
      BY <1>5 DEF Shown, Mine
    <2>2. e.cal = c /\ y = Contents(e)
      BY <2>1
    <2> QED
      BY <2>1, <2>2, ViewIs
  <1>8. ASSUME NEW p \in D, p[1] = i PROVE "gone" \in past[i]
    <2>1. PICK n \in Recent(log[h], t) : p \in log[h].ring[n].destroyed
      BY DEF Destroyed, DestroyedSince
    <2>2. n \in 1..Len(log[h].ring)
      BY DEF Recent
    <2> QED
      BY <1>2, <1>8, <2>1, <2>2 DEF Reports, Buries
  <1>9. ASSUME NEW p \in D, p[1] = i, "moved" \notin past[i] PROVE p[2] = c
    <2>1. PICK n \in Recent(log[h], t) : p \in log[h].ring[n].destroyed
      BY DEF Destroyed, DestroyedSince
    <2>2. n \in 1..Len(log[h].ring)
      BY DEF Recent
    <2>3. t + 1 \in 1..Len(snap[h])
      BY AtToken
    <2>4. <<c, i, x>>[1] = p[2]
      <3>1. Buries(h, log[h].ring[n])
        BY <1>2, <2>2 DEF Reports
      <3>2. \A r \in Seen(snap[h][t + 1], p[1]) : r[1] = p[2]
        BY <1>9, <2>1, <2>3, <3>1 DEF Buries
      <3> QED
        BY <1>1, <1>9, <3>2
    <2> QED
      BY <2>4
  <1>10. ASSUME NEW p \in D, p[1] = i, p[2] = c PROVE i \in G
    BY <1>10 DEF GoneFrom, GoneSince, DestroyedSince
  <1>11. t + 1 \in 1..Len(snap[h])
    BY AtToken
  <1> HIDE DEF C, U, D, G, w
  <1>12. CASE u = w
    BY <1>1, <1>7, <1>12
  <1>13. CASE u # w /\ Rows(events, i) = {}
    <2>1. w = {}
      BY <1>5, <1>13 DEF Shown, Mine
    <2>2. \A y : <<i, y>> \notin View(events, h, c)
      BY <1>13, ViewIs
    <2>3. "moved" \notin past[i]
      BY <2>2
    <2>4. i \in G /\ i \notin C
      BY <1>1, <1>6, <1>9, <1>10, <2>1, <2>3
    <2> QED
      BY <1>4, <2>4
  <1>14. CASE u # w /\ Rows(events, i) # {}
    <2>1. PICK e \in Rows(events, i) : TRUE
      BY <1>14
    <2>2. "gone" \notin past[i]
      BY <1>1, <1>2, <1>14 DEF Gone
    <2>3. i \notin Ids(D)
      BY <1>8, <2>2 DEF Ids
    <2>4. i \in U /\ i \notin C
      BY <1>1, <1>6, <1>14, <2>3
    <2>5. i \notin G
      BY <2>3 DEF GoneFrom, GoneSince, DestroyedSince, Ids, D, G
    <2>6. e.acct = h /\ ("moved" \notin past[i] => e.cal = c)
      <3>1. e.acct = h /\ ("moved" \notin past[i] => e.cal = <<c, i, x>>[1])
        BY <1>1, <1>2, <1>11, <2>1 DEF Keeps
      <3> QED
        BY <3>1
    <2>7. e.cal = c
      <3>1. ASSUME "moved" \in past[i] PROVE e.cal = c
        <4>1. PICK y : <<i, y>> \in View(events, h, c)
          BY <3>1
        <4>2. \E f \in Rows(events, i) : f.acct = h /\ f.cal = c /\ y = Contents(f)
          BY <4>1, ViewIs
        <4> QED
          BY <1>3, <2>1, <4>2, SoleRow
      <3> QED
        BY <2>6, <3>1
    <2>8. <<i, Contents(e)>> \in View(events, h, c)
      BY <2>1, <2>6, <2>7, ViewIs
    <2>9. i \in d.updated
      <3>1. i \in U \ ((C \ (C \cap G)) \cup (G \ (C \cap G)))
        BY <2>4, <2>5
      <3> QED
        BY <1>2, <1>3, <1>4, <2>1, <2>7, <3>1, HereIs
    <2> QED
      BY <2>8, <2>9
  <1> QED
    BY <1>12, <1>13, <1>14

LEMMA DeltaComplete ==
  ASSUME CalInv
  PROVE  CalendarDeltaComplete
  <1> SUFFICES ASSUME NEW c \in Calendar, owner[c] # None, NEW t \in Tokens(owner[c]),
                      NEW answer \in {GraphDelta(c, t), GcalDelta(c, t)}
               PROVE  LET then == {<<r[2], r[3]>> : r \in {r \in snap[owner[c]][t + 1].events : r[1] = c}}
                          kept == {r \in then : r[1] \notin Ids(answer.items) \cup answer.gone}
                          now == View(events, owner[c], c)
                          judged(S) == {r \in S : Plain(r[1])
                                                  /\ ("moved" \in past[r[1]] => r[1] \in Ids(now))}
                      IN  judged(kept \cup answer.items) = judged(now)
    BY DEF CalendarDeltaComplete
  <1> DEFINE h == owner[c]
             d == EventDeltaSince(c, t)
             then == Then(h, t, c)
             items == answer.items
             kept == {r \in then : r[1] \notin Ids(items) \cup answer.gone}
             now == View(events, h, c)
             judged(S) == {r \in S : Plain(r[1]) /\ ("moved" \in past[r[1]] => r[1] \in Ids(now))}
  <1>1. h \in Account
    BY CalParts DEF StoreOK
  <1>2. /\ items = {r \in now : r[1] \in d.created \cup d.updated} /\ answer.gone = d.destroyed
    BY <1>1, AnswerIs
  <1>3. \A r \in then : r = <<r[1], r[2]>>
    BY DEF Then
  <1>4. \A r \in now : r = <<r[1], r[2]>>
    BY DEF View
  <1>5. ASSUME NEW i, NEW x, <<i, x>> \in now, Plain(i), i \notin d.created \cup d.updated
        PROVE  i \notin d.destroyed /\ <<i, x>> \in then
    BY <1>1, <1>5, ShownNow
  <1>6. ASSUME NEW i, NEW x, <<i, x>> \in then, Plain(i), i \notin d.destroyed,
               \A y : <<i, y>> \in now => i \notin d.created \cup d.updated,
               "moved" \in past[i] => \E y : <<i, y>> \in now
        PROVE  <<i, x>> \in now
    BY <1>1, <1>6, KeptRow
  <1> HIDE DEF h, d, then, items, now
  <1>7. ASSUME NEW r \in now, Plain(r[1]) PROVE r \in kept \cup items
    <2>1. CASE r[1] \in d.created \cup d.updated
      BY <1>2, <2>1
    <2>2. CASE r[1] \notin d.created \cup d.updated
      <3>1. r[1] \notin d.destroyed /\ r \in then
        <4>1. <<r[1], r[2]>> \in now /\ r = <<r[1], r[2]>>
          BY <1>4
        <4>2. r[1] \notin d.destroyed /\ <<r[1], r[2]>> \in then
          BY <1>5, <1>7, <2>2, <4>1
        <4> QED
          BY <4>1, <4>2
      <3>2. r[1] \notin Ids(items)
        BY <1>2, <2>2 DEF Ids
      <3> QED
        BY <1>2, <3>1, <3>2
    <2> QED
      BY <2>1, <2>2
  <1>8. ASSUME NEW r \in kept, Plain(r[1]), "moved" \in past[r[1]] => r[1] \in Ids(now)
        PROVE  r \in now
    <2> DEFINE i == r[1]
               x == r[2]
    <2>1. r = <<i, x>> /\ r \in then /\ i \notin Ids(items) /\ i \notin d.destroyed
      BY <1>2, <1>3
    <2>2. \A y : <<i, y>> \in now => i \notin d.created \cup d.updated
      <3> SUFFICES ASSUME NEW y, <<i, y>> \in now, i \in d.created \cup d.updated PROVE FALSE
        OBVIOUS
      <3> DEFINE s == <<i, y>>
      <3>1. s[1] = i /\ s \in now
        OBVIOUS
      <3> HIDE DEF s, i
      <3>2. s \in items
        BY <1>2, <3>1
      <3> QED
        BY <2>1, <3>1, <3>2 DEF Ids
    <2>3. "moved" \in past[i] => \E y : <<i, y>> \in now
      <3> SUFFICES ASSUME "moved" \in past[i] PROVE \E y : <<i, y>> \in now
        OBVIOUS
      <3>1. PICK s \in now : s[1] = i
        BY <1>8 DEF Ids
      <3>2. s = <<i, s[2]>>
        BY <1>4, <3>1
      <3> QED
        BY <3>2
    <2>4. Plain(i)
      BY <1>8
    <2> HIDE DEF i, x
    <2>5. <<i, x>> \in now
      BY <1>6, <2>1, <2>2, <2>3, <2>4
    <2> QED
      BY <2>1, <2>5
  <1>9. items \subseteq now
    BY <1>2
  <1> HIDE DEF kept
  <1>10. judged(kept \cup items) = judged(now)
    BY <1>7, <1>8, <1>9
  <1> QED
    BY <1>10 DEF kept, items, then, now, h, Then

LEMMA DeltaScoped ==
  ASSUME CalInv
  PROVE  CalendarDeltaScoped
  <1> SUFFICES ASSUME NEW c \in Calendar, owner[c] # None, NEW t \in Tokens(owner[c]),
                      NEW i \in EventDeltaSince(c, t).destroyed
               PROVE  "flitted" \in past[i] \/ \E a \in Account : <<a, c, i>> \in checked.events
    BY DEF CalendarDeltaScoped
  <1> DEFINE h == owner[c]
  <1>1. h \in Account
    BY CalParts DEF StoreOK
  <1>2. i \in GoneSince(h, t, c)
    BY <1>1, DeltaIs
  <1>3. PICK p \in DestroyedSince(h, t) : p[1] = i /\ p[2] = c
    BY <1>2 DEF GoneSince, GoneFrom, DestroyedSince
  <1>4. PICK n \in Recent(log[h], t) : p \in log[h].ring[n].destroyed
    BY DEF DestroyedSince, Destroyed
  <1>5. n \in 1..Len(log[h].ring) /\ Reports(h)
    BY <1>1, CalParts DEF Recent
  <1>6. Buries(h, log[h].ring[n])
    BY <1>5 DEF Reports
  <1>7. "flitted" \in past[p[1]] \/ \E b \in Account : <<b, p[2], p[1]>> \in checked.events
    BY <1>4, <1>6 DEF Buries
  <1> QED
    BY <1>3, <1>7

LEMMA Typed ==
  ASSUME CalInv
  PROVE  TypeOK
  <1>1. StoreOK /\ \A a \in Account : LogOK(a)
    BY CalParts
  <1>2. ASSUME NEW a \in Account
        PROVE  Len(log[a].ring) <= MAX_TRANSITIONS /\ Len(snap[a]) = log[a].counter + 1
    <2>1. RingOK(log[a])
      BY <1>1 DEF LogOK, RingOK
    <2> QED
      BY <1>1, <2>1, RingNumbers DEF LogOK
  <1> QED
    BY <1>1, <1>2 DEF StoreOK, TypeOK

-----------------------------------------------------------------------------
(* Tombstones and CTags. *)

LEMMA TombstonesStep ==
  ASSUME CalInv, NEW d, Turn(d), NEW a \in Account, log'[a].counter > log[a].counter,
         NEW p \in log'[a].ring[Len(log'[a].ring)].destroyed
  PROVE  /\ HeldAt(events, p[2], p[1]) # 0 \/ "flitted" \in past'[p[1]]
         /\ IdAt(events', p[1]) = 0 \/ "twinned" \in past'[p[1]]
  <1>1. StoreOK /\ Twins /\ LogOK(a) /\ log[a].counter \in Nat
    BY CalParts DEF StoreOK
  <1>2. ~Rested(d, a)
    BY <1>1 DEF Rested
  <1>3. Advanced(d, a)
    BY <1>1, <1>2, LogMoves
  <1>4. log'[a].ring[Len(log'[a].ring)] = Step(d, a)
    BY <1>1, <1>3, AdvancedIs
  <1>5. p \in d.destroyed
    BY <1>4 DEF Step, EventTransition, Share, SubDiff
  <1>6. Buried(d, p)
    BY <1>1, <1>5, BuriedIs
  <1>7. events \in Seq(Event) /\ events' \in Seq(Event)
    BY <1>1 DEF StoreOK, Turn, Effect
  <1>8. p[2] \in Cals(events, p[1]) => HeldAt(events, p[2], p[1]) # 0
    BY <1>7, HeldAtFinds DEF Cals
  <1>9. Rows(events', p[1]) = {} => IdAt(events', p[1]) = 0
    BY <1>7, IdAtFinds
  <1> QED
    BY <1>6, <1>8, <1>9 DEF Buried

LEMMA TombstonesNext ==
  ASSUME CalInv, [Next]_vars
  PROVE  [\A a \in Account : log'[a].counter > log[a].counter =>
            \A p \in log'[a].ring[Len(log'[a].ring)].destroyed :
                /\ \/ HeldAt(events, p[2], p[1]) # 0
                   \/ "flitted" \in past'[p[1]]
                /\ IdAt(events', p[1]) = 0 \/ "twinned" \in past'[p[1]]]_vars
  <1>1. ASSUME Next PROVE \E d : Turn(d)
    BY <1>1, CalParts, NextTurns
  <1> QED
    BY <1>1, TombstonesStep

(* The transition t touches calendar c. *)
Touches(es, t, c) == TouchesLive(es, t, c) \/ \E p \in t.destroyed : p[2] = c

LEMMA CtagIs ==
  ASSUME NEW ow, NEW l, NEW es, NEW c, NEW h, ow[c] = h, RingOK(l[h])
  PROVE  /\ Ctag(ow, l, es, c) \in 0..l[h].counter
         /\ \A n \in 1..Len(l[h].ring) :
               Touches(es, l[h].ring[n], c) => l[h].ring[n].to <= Ctag(ow, l, es, c)
  <1> DEFINE ring == l[h].ring
             T == {ring[n].to : n \in {n \in DOMAIN ring : Touches(es, ring[n], c)}}
             k == l[h].counter
  <1>1. Ctag(ow, l, es, c) = LastTo(T)
    BY DEF Ctag, Touches
  <1>2. DOMAIN ring = 1..Len(ring)
    BY DEF RingOK
  <1>3. k \in Nat /\ Floor(l[h]) \in 0..k /\ \A n \in 1..Len(ring) : ring[n].to \in (Floor(l[h]) + 1)..k
    BY RingNumbers
  <1>4. \A n \in 1..Len(ring) : ring[n].to \in 0..k
    <2> SUFFICES ASSUME NEW n \in 1..Len(ring) PROVE ring[n].to \in 0..k
      OBVIOUS
    <2> DEFINE F == Floor(l[h])
               x == ring[n].to
    <2>1. k \in Nat /\ F \in 0..k /\ x \in (F + 1)..k
      BY <1>3
    <2> HIDE DEF F, x, k
    <2>2. x \in 0..k
      BY <2>1
    <2> QED
      BY <2>2 DEF x
  <1>5. T \subseteq 0..k
    BY <1>2, <1>4
  <1>6. \A n \in 1..Len(ring) : Touches(es, ring[n], c) => ring[n].to \in T
    BY <1>2
  <1> HIDE DEF T, ring, k
  <1>7. /\ T = {} => LastTo(T) = Seed
        /\ T # {} => LastTo(T) \in T /\ \A m \in T : m <= LastTo(T)
    BY <1>3, <1>5, LastToIs
  <1>8. LastTo(T) \in 0..k
    BY <1>3, <1>5, <1>7 DEF Seed
  <1> QED
    BY <1>1, <1>6, <1>7, <1>8 DEF ring, k

(* What is there once is accounted to its calendar. *)
LEMMA AccountOfSole ==
  ASSUME NEW es \in Seq(Event), NEW i, Sole(es, i), NEW e \in Rows(es, i), NEW ow
  PROVE  AccountOfEvent(ow, es, i) = AccountOfCalendar(ow, e.cal)
  <1>1. PICK c \in Cals(es, i) : AccountOfEvent(ow, es, i) = AccountOfCalendar(ow, c)
    BY AccountOf
  <1>2. c = e.cal
    BY SoleRow DEF Cals
  <1> QED
    BY <1>1, <1>2

LEMMA CtagStep ==
  ASSUME CalInv, NEW d, Turn(d), NEW c \in Calendar, NEW a, owner[c] = a, a # None, owner'[c] = a,
         View(events, a, c) # View(events', a, c),
         \A r \in (View(events, a, c) \ View(events', a, c))
                  \cup (View(events', a, c) \ View(events, a, c)) :
             past'[r[1]] \cap {"twinned", "flitted"} = {},
         \A k \in DOMAIN events : events[k].cal = c =>
             \A j \in DOMAIN events' : events'[j].id = events[k].id => events'[j].cal = c
  PROVE  Ctag(owner', log', events', c) # Ctag(owner, log, events, c)
  <1>1. StoreOK /\ Twins /\ events \in Seq(Event) /\ events' \in Seq(Event)
    BY CalParts DEF StoreOK, Turn, Effect
  <1>2. a \in Account /\ LogOK(a)
    BY <1>1, CalParts DEF StoreOK
  <1>3. AccountOfCalendar(owner', c) = a
    BY DEF AccountOfCalendar
  <1>4. \E i, x : /\ past'[i] \cap {"twinned", "flitted"} = {}
                  /\ <<i, x>> \in View(events, a, c) <=> <<i, x>> \notin View(events', a, c)
    <2>1. \A r \in View(events, a, c) \cup View(events', a, c) : r = <<r[1], r[2]>>
      BY DEF View
    <2>2. PICK r : r \in (View(events, a, c) \ View(events', a, c))
                         \cup (View(events', a, c) \ View(events, a, c))
      OBVIOUS
    <2>3. past'[r[1]] \cap {"twinned", "flitted"} = {}
      BY <2>2
    <2>4. <<r[1], r[2]>> \in View(events, a, c) <=> <<r[1], r[2]>> \notin View(events', a, c)
      BY <2>1, <2>2
    <2> QED
      BY <2>3, <2>4
  <1>5. PICK i, x : /\ past'[i] \cap {"twinned", "flitted"} = {}
                    /\ <<i, x>> \in View(events, a, c) <=> <<i, x>> \notin View(events', a, c)
    BY <1>4
  <1>6. /\ <<i, x>> \in View(events, a, c) <=>
              \E e \in Rows(events, i) : e.acct = a /\ e.cal = c /\ x = Contents(e)
        /\ <<i, x>> \in View(events', a, c) <=>
              \E e \in Rows(events', i) : e.acct = a /\ e.cal = c /\ x = Contents(e)
    BY ViewIs
  <1>7. i \in Id /\ Rows(events, i) # Rows(events', i)
    BY <1>1, <1>5, <1>6, RowIs
  <1>8. Turned(d, i) /\ "twinned" \notin past'[i] /\ "flitted" \notin past'[i]
    BY <1>1, <1>5, <1>7, TurnedIs
  <1>9. Sole(events', i) /\ Sole(events, i)
    BY <1>1, <1>7, <1>8 DEF Turned, Twins
  <1>10. \A p \in d.destroyed : p[1] = i => Rows(events', i) = {} /\ p[2] \in Cals(events, i)
    BY <1>1, <1>8, BuriedIs DEF Buried
  <1>11. Named(d, i)
    BY <1>7, <1>8 DEF Turned
  <1>12. Touches(events', Step(d, a), c)
    <2>1. ASSUME NEW f \in Rows(events', i), f.cal = c PROVE Touches(events', Step(d, a), c)
      <3>1. i \in d.created \cup d.updated
        BY <1>10, <1>11 DEF Named
      <3>2. AccountOfEvent(owner', events', i) = a
        BY <1>1, <1>3, <1>9, <2>1, AccountOfSole
      <3>3. i \in Share(d, a).created \cup Share(d, a).updated
        BY <3>1, <3>2 DEF Share, SubDiff
      <3>4. i \in Step(d, a).created \cup Step(d, a).updated
        BY <3>3 DEF Step, EventTransition
      <3>5. PICK k \in DOMAIN events' : events'[k] = f
        BY DEF Rows, Range
      <3>6. events'[k].id = i /\ events'[k].cal = c
        BY <2>1, <3>5 DEF Rows
      <3> QED
        BY <3>4, <3>6 DEF Touches, TouchesLive
    <2>2. CASE <<i, x>> \in View(events', a, c)
      BY <1>6, <2>1, <2>2
    <2>3. CASE <<i, x>> \in View(events, a, c)
      <3>1. PICK e \in Rows(events, i) : e.acct = a /\ e.cal = c
        BY <1>6, <2>3
      <3>2. CASE Rows(events', i) # {}
        <4>1. PICK f \in Rows(events', i) : TRUE
          BY <3>2
        <4>2. PICK k \in DOMAIN events : events[k] = e
          BY DEF Rows, Range
        <4>3. PICK j \in DOMAIN events' : events'[j] = f
          BY DEF Rows, Range
        <4>4. e.id = i /\ f.id = i
          BY DEF Rows
        <4>5. f.cal = c
          BY <3>1, <4>2, <4>3, <4>4
        <4> QED
          BY <2>1, <4>5
      <3>3. CASE Rows(events', i) = {}
        <4>1. PICK p \in d.destroyed : p[1] = i
          BY <1>1, <1>7, <3>1, <3>3, LostIsGone
        <4>2. PICK f \in Rows(events, i) : f.cal = p[2]
          BY <1>10, <4>1 DEF Cals
        <4>3. p[2] = c
          BY <1>9, <3>1, <4>2, SoleRow
        <4>4. p \in Share(d, a).destroyed
          BY <1>3, <4>3 DEF Share, SubDiff
        <4>5. p \in Step(d, a).destroyed
          BY <4>4 DEF Step, EventTransition
        <4> QED
          BY <4>3, <4>5 DEF Touches
      <3> QED
        BY <3>2, <3>3
    <2> QED
      BY <1>5, <2>2, <2>3
  <1>13. ~Rested(d, a)
    <2>1. Step(d, a).created = Share(d, a).created /\ Step(d, a).updated = Share(d, a).updated
          /\ Step(d, a).destroyed = Share(d, a).destroyed
      BY DEF Step, EventTransition
    <2> QED
      BY <1>12, <2>1 DEF Rested, Names, Touches, TouchesLive
  <1>14. Advanced(d, a)
    BY <1>1, <1>2, <1>13, LogMoves
  <1> DEFINE m == log'[a]
  <1>15. /\ LogOK(a)' /\ Step(d, a).to = log[a].counter + 1
         /\ Len(m.ring) \in Nat \ {0} /\ m.ring[Len(m.ring)] = Step(d, a)
    BY <1>1, <1>2, <1>14, AdvancedIs
  <1>16. RingOK(log[a]) /\ RingOK(m)
    BY <1>2, <1>15 DEF LogOK, RingOK
  <1>17. /\ Ctag(owner', log', events', c) \in 0..m.counter
         /\ \A n \in 1..Len(m.ring) :
               Touches(events', m.ring[n], c) => m.ring[n].to <= Ctag(owner', log', events', c)
    BY <1>16, CtagIs
  <1>18. Ctag(owner, log, events, c) \in 0..log[a].counter
    BY <1>16, CtagIs
  <1>19. Len(m.ring) \in 1..Len(m.ring)
    BY <1>15
  <1>20. Step(d, a).to <= Ctag(owner', log', events', c)
    BY <1>12, <1>15, <1>17, <1>19
  <1> DEFINE y == Ctag(owner', log', events', c)
             z == Ctag(owner, log, events, c)
             k == log[a].counter
  <1>21. k \in Nat /\ k + 1 <= y /\ z \in 0..k /\ y \in 0..m.counter /\ m.counter \in Nat
    BY <1>2, <1>15, <1>16, <1>17, <1>18, <1>20 DEF LogOK, RingOK
  <1> HIDE DEF y, z, k, m
  <1>22. y # z
    BY <1>21
  <1> QED
    BY <1>22 DEF y, z

LEMMA CtagNext ==
  ASSUME CalInv, [Next]_vars
  PROVE  [\A c \in {c \in Calendar : owner[c] # None /\ owner'[c] = owner[c]} :
            LET then == View(events, owner[c], c)
                now == View(events', owner[c], c)
            IN  /\ then # now
                /\ \A r \in (then \ now) \cup (now \ then) : past'[r[1]] \cap {"twinned", "flitted"} = {}
                /\ \A k \in DOMAIN events : events[k].cal = c =>
                       \A j \in DOMAIN events' : events'[j].id = events[k].id => events'[j].cal = c
                => Ctag(owner', log', events', c) # Ctag(owner, log, events, c)]_vars
  <1>1. ASSUME Next PROVE \E d : Turn(d)
    BY <1>1, CalParts, NextTurns
  <1> QED
    BY <1>1, CtagStep

-----------------------------------------------------------------------------
(* The theorems. *)

(* The invariant holds of every run: the ring and the views of each account go
   together, and what its transitions and the histories say is so. *)
THEOREM CalendarInvariant == Spec => []CalInv
  <1>1. Init => CalInv
    BY CalInit
  <1>2. CalInv /\ [Next]_vars => CalInv'
    BY CalNext
  <1> QED
    BY <1>1, <1>2, PTL DEF Spec

(* Whichever surface wrote the events, a client that syncs one calendar from any
   remembered token, over calendarView/delta or with a syncToken, ends up with
   what the calendar holds and hears nothing of another calendar. *)
THEOREM CalendarDeltasAlwaysSound == Spec => []CalendarDeltaSound
  <1>1. CalInv => CalendarDeltaSound
    BY DeltaComplete, DeltaScoped, Typed DEF CalendarDeltaSound
  <1> QED
    BY <1>1, CalendarInvariant, PTL

(* CalendarEvent/changes names every event that changed since a token, and
   Calendar/changes takes the calendars of then to those of now. *)
THEOREM JmapChangesAlwaysComplete == Spec => []JmapChangesComplete
  <1>1. CalInv => JmapChangesComplete
    BY JmapComplete
  <1> QED
    BY <1>1, CalendarInvariant, PTL

(* CalDAV never serves two versions of a resource under one ETag, so an If-Match
   never overwrites a version that the client has not seen. *)
THEOREM EtagsAlwaysIdentify == Spec => []EtagIdentifies
  <1>1. CalInv => EtagIdentifies
    BY CalParts
  <1> QED
    BY <1>1, CalendarInvariant, PTL

(* The CTag of a calendar changes with its contents. *)
THEOREM CtagsAlwaysMove == Spec => CtagMoves
  <1>1. CalInv /\ [Next]_vars =>
          [\A c \in {c \in Calendar : owner[c] # None /\ owner'[c] = owner[c]} :
            LET then == View(events, owner[c], c)
                now == View(events', owner[c], c)
            IN  /\ then # now
                /\ \A r \in (then \ now) \cup (now \ then) : past'[r[1]] \cap {"twinned", "flitted"} = {}
                /\ \A k \in DOMAIN events : events[k].cal = c =>
                       \A j \in DOMAIN events' : events'[j].id = events[k].id => events'[j].cal = c
                => Ctag(owner', log', events', c) # Ctag(owner, log, events, c)]_vars
    BY CtagNext
  <1> QED
    BY <1>1, CalendarInvariant, PTL DEF Spec, CtagMoves

(* A DELETE that lost its race leaves no tombstone: whatever a step logs as
   destroyed was in that calendar before it and is gone after it. *)
THEOREM TombstonesAlwaysTrue == Spec => TombstonesTrue
  <1>1. CalInv /\ [Next]_vars =>
          [\A a \in Account : log'[a].counter > log[a].counter =>
            \A p \in log'[a].ring[Len(log'[a].ring)].destroyed :
                /\ \/ HeldAt(events, p[2], p[1]) # 0
                   \/ "flitted" \in past'[p[1]]
                /\ IdAt(events', p[1]) = 0 \/ "twinned" \in past'[p[1]]]_vars
    BY TombstonesNext
  <1> QED
    BY <1>1, CalendarInvariant, PTL DEF Spec, TombstonesTrue

=============================================================================
