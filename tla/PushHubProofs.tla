---------------------------- MODULE PushHubProofs ----------------------------
(***************************************************************************)
(* Proofs about PushHub: for any number of accounts, listeners, clients    *)
(* and concurrent emissions, and for every bound on ids, steps and resets. *)
(***************************************************************************)
EXTENDS PushHub, TLAPS, WellFoundedInduction

-----------------------------------------------------------------------------
(* The argument, on explicit histories tch of commits and emissions em.    *)

Least(S) == CHOOSE a \in S : \A b \in S : a <= b

(* An emission still owes account a step n ... *)
Fly(em, n, a) == \E s \in Stepper : em[s].n = n /\ a \in em[s].todo
(* ... which concerns it if it committed after the k-th. *)
Owed(tch, a, k) == {n \in (k + 1)..Len(tch) : a \in tch[n]}

(* Whoever heard H as account a since the k-th step missed nothing ... *)
Covers(tch, em, H, a, k) == \A n \in Owed(tch, a, k) : n \in H \/ Fly(em, n, a)
(* ... and was told nothing that is not its own or is still to be told. *)
Honest(tch, em, H, a) == \A n \in H : n \in 1..Len(tch) /\ a \in tch[n] /\ ~Fly(em, n, a)

LEMMA LeastIn ==
  ASSUME NEW S \in SUBSET Account, S # {}
  PROVE  Least(S) \in S
  <1>1. S \subseteq Nat
    BY DEF Account
  <1>2. \E x \in S : \A y \in S : ~(<<y, x>> \in OpToRel(<, Nat))
    BY <1>1, NatLessThanWellFounded, WFMin
  <1>3. PICK x \in S : \A y \in S : ~(<<y, x>> \in OpToRel(<, Nat))
    BY <1>2
  <1>4. ASSUME NEW y \in S PROVE x <= y
    <2>1. x \in Nat /\ y \in Nat
      BY <1>1
    <2>2. y < x => <<y, x>> \in OpToRel(<, Nat)
      BY <2>1 DEF OpToRel
    <2>3. ~(y < x)
      BY <1>3, <2>2, Zenon
    <2> QED
      BY <2>1, <2>3
  <1> QED
    BY <1>4 DEF Least

LEMMA AppendFacts ==
  ASSUME NEW S, NEW q \in Seq(S), NEW x \in S
  PROVE  /\ Append(q, x) \in Seq(S) /\ Len(Append(q, x)) = Len(q) + 1 /\ Len(q) \in Nat
         /\ (\A k \in 1..Len(q) : Append(q, x)[k] = q[k]) /\ Append(q, x)[Len(q) + 1] = x
         /\ ToSet(Append(q, x)) = ToSet(q) \cup {x}
         /\ \A y : AtMostOnce(q, y) /\ (y = x => y \notin ToSet(q)) => AtMostOnce(Append(q, x), y)
  <1> DEFINE a == Append(q, x)
  <1>1. /\ a \in Seq(S) /\ Len(q) \in Nat /\ Len(a) = Len(q) + 1
        /\ DOMAIN q = 1..Len(q) /\ DOMAIN a = 1..(Len(q) + 1)
        /\ (\A i \in 1..Len(q) : a[i] = q[i]) /\ a[Len(q) + 1] = x
    OBVIOUS
  <1> HIDE DEF a
  <1>2. ToSet(a) = ToSet(q) \cup {x}
    <2>1. DOMAIN a = DOMAIN q \cup {Len(q) + 1}
      BY <1>1
    <2> QED
      BY <1>1, <2>1 DEF ToSet
  <1>3. ASSUME NEW y, AtMostOnce(q, y), y = x => y \notin ToSet(q),
               NEW j \in DOMAIN a, NEW k \in DOMAIN a, a[j] = y, a[k] = y
        PROVE  j = k
    <2>1. \A i \in 1..Len(q) : q[i] \in ToSet(q)
      BY <1>1 DEF ToSet
    <2>2. CASE y = x
      BY <1>1, <1>3, <2>1, <2>2
    <2>3. CASE y # x
      <3>1. j \in 1..Len(q) /\ k \in 1..Len(q)
        BY <1>1, <1>3, <2>3
      <3> QED
        BY <1>1, <1>3, <3>1 DEF AtMostOnce
    <2> QED
      BY <2>2, <2>3
  <1> QED
    BY <1>1, <1>2, <1>3 DEF a, AtMostOnce

LEMMA EmptyFacts ==
  /\ DOMAIN << >> = {} /\ ToSet(<< >>) = {} /\ \A y : AtMostOnce(<< >>, y)
  BY DEF ToSet, AtMostOnce

LEMMA WithFacts ==
  ASSUME NEW f, NEW k, NEW v
  PROVE  /\ DOMAIN With(f, k, v) = DOMAIN f \cup {k} /\ With(f, k, v)[k] = v
         /\ \A x \in DOMAIN f \ {k} : With(f, k, v)[x] = f[x]
         /\ DOMAIN Without(f, {k}) = DOMAIN f \ {k}
         /\ \A x \in DOMAIN f \ {k} : Without(f, {k})[x] = f[x]
  BY DEF With, Without

(* Stepper s commits a step of the accounts T. *)
LEMMA CommitFacts ==
  ASSUME NEW tch \in Seq(SUBSET Account), NEW T \in SUBSET Account, NEW s \in Stepper,
         NEW em, DOMAIN em = Stepper, em[s].todo = {}, NEW r, r.n = Len(tch) + 1, r.todo = T,
         NEW tch2, tch2 = Append(tch, T), NEW em2, em2 = [em EXCEPT ![s] = r],
         NEW H, NEW a
  PROVE  /\ \A k \in Nat : Covers(tch, em, H, a, k) => Covers(tch2, em2, H, a, k)
         /\ Honest(tch, em, H, a) => Honest(tch2, em2, H, a)
  <1>1. /\ Len(tch) \in Nat /\ Len(tch2) = Len(tch) + 1 /\ tch2[Len(tch) + 1] = T
        /\ \A n \in 1..Len(tch) : tch2[n] = tch[n]
    BY AppendFacts
  <1>2. \A n : Fly(em2, n, a) <=> Fly(em, n, a) \/ (n = Len(tch) + 1 /\ a \in T)
    BY DEF Fly
  <1>3. ASSUME NEW k \in Nat, Covers(tch, em, H, a, k), NEW n \in Owed(tch2, a, k)
        PROVE  n \in H \/ Fly(em2, n, a)
    <2>1. CASE n = Len(tch) + 1
      BY <1>1, <1>2, <1>3, <2>1 DEF Owed
    <2>2. CASE n # Len(tch) + 1
      <3>1. n \in (k + 1)..Len(tch)
        BY <1>1, <1>3, <2>2 DEF Owed
      <3>2. n \in Owed(tch, a, k)
        BY <1>1, <1>3, <3>1 DEF Owed
      <3> QED
        BY <1>2, <1>3, <3>2 DEF Covers
    <2> QED
      BY <2>1, <2>2
  <1>4. ASSUME Honest(tch, em, H, a), NEW n \in H
        PROVE  n \in 1..Len(tch2) /\ a \in tch2[n] /\ ~Fly(em2, n, a)
    <2>1. n \in 1..Len(tch) /\ a \in tch[n] /\ ~Fly(em, n, a)
      BY <1>4 DEF Honest
    <2>2. n \in 1..Len(tch2) /\ n # Len(tch) + 1
      BY <1>1, <2>1
    <2> QED
      BY <1>1, <1>2, <2>1, <2>2
  <1> QED
    BY <1>3, <1>4 DEF Covers, Honest

(* Stepper s goes on with the same push. *)
LEMMA StageFacts ==
  ASSUME NEW s \in Stepper, NEW em, DOMAIN em = Stepper, NEW r, r.n = em[s].n, r.todo = em[s].todo,
         NEW em2, em2 = [em EXCEPT ![s] = r]
  PROVE  /\ \A n, a : Fly(em2, n, a) <=> Fly(em, n, a)
         /\ \A tch, H, a, k : Covers(tch, em2, H, a, k) <=> Covers(tch, em, H, a, k)
         /\ \A tch, H, a : Honest(tch, em2, H, a) <=> Honest(tch, em, H, a)
  <1>1. \A n, a : Fly(em2, n, a) <=> Fly(em, n, a)
    BY DEF Fly
  <1> QED
    BY <1>1 DEF Covers, Honest
-----------------------------------------------------------------------------
(* The inductive invariant. *)

Surface == {"listeners", "gmail", "graph", "ews"}
Stage == [listeners |-> {"listeners"}, gmail |-> {"gmail", "publish"},
          graph |-> {"graph", "notify"}, ews |-> {"ews", "enqueue"}]
Namespace == {"personal", "public", "shared"}
Pending == Id \cup [id : Id, ns : Namespace]
Emission == [n : 0..MaxStep, todo : SUBSET Account, subs : SUBSET Pending,
             at : {"idle", "listeners", "gmail", "publish", "graph", "notify", "ews", "enqueue"}]
Call == [op : {"none", "unsubscribe", "stream", "watch"}, id : Nat]
GraphSub == [acct : Account, ns : Namespace, of : 0..NAccount, since : Nat, during : BOOLEAN]
EwsSub == [acct : Account, since : Nat, during : BOOLEAN]
Note == Id \X (1..MaxStep)

Types ==
    /\ surface \in Surface /\ seq \in Nat \ {0} /\ clearing \in 0..1 /\ resets \in Nat
    /\ touched \in Seq(SUBSET Account) /\ Len(touched) <= MaxStep
    /\ emit \in [Stepper -> Emission]
    /\ chan \in [Listener -> [acct : 0..NAccount, since : Nat, inbox : Seq(1..MaxStep)]]
    /\ call \in [Client -> Call]
GmailTypes ==
    /\ gmail = [watches |-> gmail.watches, sink |-> gmail.sink]
    /\ gmail.watches \in [DOMAIN gmail.watches -> Nat] /\ DOMAIN gmail.watches \subseteq Account
    /\ gmail.sink \in Seq(Account \X Nat)
GraphTypes ==
    /\ graph = [subs |-> graph.subs, log |-> graph.log, excluded |-> graph.excluded]
    /\ graph.subs \in [DOMAIN graph.subs -> GraphSub]
    /\ \A i \in DOMAIN graph.subs : i \in Id /\ i < seq
    /\ graph.log \in Seq(Note) /\ graph.excluded \in Seq(Note)
EwsTypes ==
    /\ ews = [subs |-> ews.subs, events |-> ews.events]
    /\ ews.subs \in [DOMAIN ews.subs -> EwsSub]
    /\ ews.events \in [DOMAIN ews.events -> Seq(1..MaxStep)]
    /\ \A i \in DOMAIN ews.subs \cup DOMAIN ews.events : i \in Id /\ i < seq
SeenTypes ==
    /\ seen = [told |-> seen.told, taken |-> seen.taken, gone |-> seen.gone]
    /\ seen.told \in [Id -> SUBSET (1..MaxStep)] /\ seen.gone \in [Id -> Nat]
    /\ \A i \in Id : i >= seq => seen.told[i] = {}

(* The emissions in progress are of different steps, of accounts their step
   touched and of the registry that this behaviour has. *)
EmitInv ==
    \A s \in Stepper :
        /\ emit[s].at = "idle" <=> emit[s].todo = {}
        /\ emit[s].todo # {} =>
             /\ emit[s].n \in 1..Len(touched) /\ emit[s].todo \subseteq touched[emit[s].n]
             /\ emit[s].at \in Stage[surface]
             /\ \A t \in Stepper \ {s} : emit[t].todo # {} => emit[t].n # emit[s].n

(* The registries without clients are empty. *)
Foreign ==
    /\ surface # "listeners" => \A l \in Listener : chan[l] = Closed
    /\ surface = "listeners" => clearing = 0
    /\ surface # "gmail" => gmail = [watches |-> << >>, sink |-> << >>] /\ seen.taken = {}
    /\ surface # "graph" => graph = [subs |-> << >>, log |-> << >>, excluded |-> << >>]
    /\ surface # "ews" => ews = [subs |-> << >>, events |-> << >>] /\ \A i \in Id : seen.told[i] = {}
    /\ \A c \in Client :
         \/ call[c] = NoCall
         \/ surface = "gmail" /\ call[c].op = "watch" /\ call[c].id \in Account
         \/ surface = "ews" /\ call[c].op \in {"unsubscribe", "stream"} /\ call[c].id \in Id
              /\ call[c].id < seq

ListenersInv ==
    \A l \in Listener : chan[l] # Closed =>
        /\ chan[l].acct \in Account /\ \A n : AtMostOnce(chan[l].inbox, n)
        /\ Honest(touched, emit, ToSet(chan[l].inbox), chan[l].acct)
        /\ Covers(touched, emit, ToSet(chan[l].inbox), chan[l].acct, chan[l].since)

(* The steps account a was told of through Pub/Sub. *)
Heard(sn, sink, a) == {n \in Nat \ {0} : <<a, n>> \in sn.taken \cup ToSet(sink)}
GmailInv ==
    /\ \A a \in Account :
         /\ Honest(touched, emit, Heard(seen, gmail.sink, a), a)
         /\ \A n \in Nat \ {0} : /\ AtMostOnce(gmail.sink, <<a, n>>)
                                 /\ ~(<<a, n>> \in seen.taken /\ <<a, n>> \in ToSet(gmail.sink))
    /\ \A a \in DOMAIN gmail.watches :
         Covers(touched, emit, Heard(seen, gmail.sink, a), a, gmail.watches[a])

(* The steps noted for subscription i. *)
Noted(log, i) == {n \in 1..MaxStep : <<i, n>> \in ToSet(log)}
InOwnLog(g, i) == IF g.subs[i].ns = "public" THEN g.excluded ELSE g.log
InOtherLog(g, i) == IF g.subs[i].ns = "public" THEN g.log ELSE g.excluded
Entry(g, i) == [id |-> i, ns |-> g.subs[i].ns]
NotedOnce(tch, em, g, i) ==
    LET sub == g.subs[i]
        noted == Noted(InOwnLog(g, i), i)
    IN  /\ \A n : AtMostOnce(InOwnLog(g, i), <<i, n>>)
        /\ \A n : <<i, n>> \notin ToSet(InOtherLog(g, i))
        /\ \A n \in noted :
             /\ n \in 1..Len(tch) /\ sub.acct \in tch[n]
             /\ \A s \in Stepper : em[s].n = n /\ sub.acct \in em[s].todo =>
                   em[s].at = "notify" /\ Least(em[s].todo) = sub.acct /\ Entry(g, i) \notin em[s].subs
        /\ Covers(tch, em, noted, sub.acct, sub.since)
GraphInv ==
    /\ clearing = 1 => \A i \in DOMAIN graph.subs : graph.subs[i].during
    /\ \A i \in DOMAIN graph.subs :
         graph.subs[i].ns = "shared" => graph.subs[i].of = graph.subs[i].acct
    /\ \A e \in ToSet(graph.log) \cup ToSet(graph.excluded) : e[1] < seq
    /\ \A i \in DOMAIN graph.subs : ~graph.subs[i].during => NotedOnce(touched, emit, graph, i)
NotifyInv ==
    \A s \in Stepper : emit[s].at = "notify" =>
        /\ \A b \in emit[s].subs :
             /\ b \in [id : Id, ns : Namespace] /\ b.id < seq
             /\ b.id \in DOMAIN graph.subs =>
                  graph.subs[b.id].acct = Least(emit[s].todo) /\ graph.subs[b.id].ns = b.ns
        /\ \A i \in DOMAIN graph.subs :
             ~graph.subs[i].during /\ graph.subs[i].acct = Least(emit[s].todo)
               /\ graph.subs[i].since < emit[s].n
               => Entry(graph, i) \in emit[s].subs \/ emit[s].n \in Noted(InOwnLog(graph, i), i)

Queue(e, i) == IF i \in DOMAIN e.events THEN e.events[i] ELSE << >>
Told(sn, e, i) == sn.told[i] \cup ToSet(Queue(e, i))
Leaving(cl, i) == \E c \in Client : cl[c].op = "unsubscribe" /\ cl[c].id = i
ToldOnce(tch, em, e, sn, cl, i) ==
    /\ Honest(tch, em, Told(sn, e, i), e.subs[i].acct)
    /\ \A n : AtMostOnce(Queue(e, i), n) /\ ~(n \in sn.told[i] /\ n \in ToSet(Queue(e, i)))
    /\ ~e.subs[i].during /\ ~Leaving(cl, i) =>
         Covers(tch, em, Told(sn, e, i), e.subs[i].acct, e.subs[i].since)
EwsInv ==
    /\ clearing = 1 => \A i \in DOMAIN ews.subs : ews.subs[i].during
    /\ \A i \in DOMAIN ews.subs : ToldOnce(touched, emit, ews, seen, call, i)
EnqueueInv ==
    \A s \in Stepper : emit[s].at = "enqueue" =>
        /\ \A j \in emit[s].subs :
             /\ j \in Id /\ j < seq
             /\ j \in DOMAIN ews.subs => ews.subs[j].acct = Least(emit[s].todo)
        /\ \A i \in DOMAIN ews.subs :
             ews.subs[i].acct = Least(emit[s].todo) /\ ews.subs[i].since < emit[s].n => i \in emit[s].subs

(* A subscription that was not deleted is not gone; all that was said, or is about
   to be, was committed before its subscription went. *)
SilentInv ==
    /\ SilentAfterDelete
    /\ \A i \in Id : i \in DOMAIN graph.subs \cup DOMAIN ews.subs \/ i >= seq => seen.gone[i] = MaxStep
    /\ \A k \in 1..Len(graph.log) : graph.log[k][2] <= Len(touched)
    /\ \A i \in DOMAIN ews.events : \A n \in ToSet(ews.events[i]) : n <= Len(touched)
    /\ \A i \in Id : \A n \in seen.told[i] : n <= Len(touched)
    /\ \A s \in Stepper : emit[s].at = "notify" =>
         \A b \in emit[s].subs : emit[s].n <= seen.gone[b.id]
    /\ \A s \in Stepper : emit[s].at = "enqueue" =>
         \A j \in emit[s].subs : emit[s].n <= seen.gone[j]

AllTypes == Types /\ GmailTypes /\ GraphTypes /\ EwsTypes /\ SeenTypes
IInv == /\ AllTypes /\ EmitInv /\ Foreign
        /\ ListenersInv /\ GmailInv /\ GraphInv /\ NotifyInv /\ EwsInv /\ EnqueueInv
        /\ SilentInv

LEMMA InitIInv == Init => IInv
  <1> SUFFICES ASSUME Init PROVE IInv
    OBVIOUS
  <1> USE PushAssumption, EmptyFacts
  <1>0. /\ << >> \in Seq(SUBSET Account) /\ << >> \in Seq(1..MaxStep) /\ << >> \in Seq(Account \X Nat)
        /\ << >> \in Seq(Note) /\ Len(<< >>) = 0 /\ MaxStep \in Nat /\ NAccount \in Nat
    OBVIOUS
  <1>1. Types
    <2>1. NoEmit \in Emission
      BY <1>0 DEF NoEmit, Emission
    <2>2. NoCall \in Call
      BY DEF NoCall, Call
    <2>3. Closed \in [acct : 0..NAccount, since : Nat, inbox : Seq(1..MaxStep)]
      BY <1>0 DEF Closed
    <2> QED
      BY <1>0, <2>1, <2>2, <2>3 DEF Init, Types, Surface
  <1>2. GmailTypes /\ GraphTypes /\ EwsTypes /\ SeenTypes
    BY <1>0 DEF Init, GmailTypes, GraphTypes, EwsTypes, SeenTypes
  <1>3. EmitInv
    BY DEF Init, EmitInv, NoEmit
  <1>4. Foreign
    BY DEF Init, Foreign
  <1>5. ListenersInv
    BY DEF Init, ListenersInv
  <1>6. GmailInv
    BY DEF Init, GmailInv, Heard, Honest, Covers
  <1>7. GraphInv /\ NotifyInv /\ EnqueueInv
    BY DEF Init, GraphInv, NotifyInv, EnqueueInv, NoEmit
  <1>8. EwsInv
    BY DEF Init, EwsInv
  <1>9. SilentInv
    BY <1>0 DEF Init, SilentInv, SilentAfterDelete, NoEmit
  <1> QED
    BY <1>1, <1>2, <1>3, <1>4, <1>5, <1>6, <1>7, <1>8, <1>9 DEF IInv, AllTypes

(* What the invariant says of each registry. *)
LEMMA InvTypeOK == IInv => TypeOK
  <1> SUFFICES ASSUME IInv PROVE TypeOK
    OBVIOUS
  <1> USE PushAssumption DEF IInv, AllTypes
  <1>1. \A s \in Stepper : emit[s].n \in 0..MaxStep /\ emit[s].todo \subseteq Account
    BY DEF Types, Emission
  <1>2. DOMAIN graph.subs \cup DOMAIN ews.subs \cup DOMAIN ews.events \subseteq 1..seq - 1
    BY DEF GraphTypes, EwsTypes, Types, Id
  <1>3. DOMAIN graph.subs \cap DOMAIN ews.subs = {}
    BY EmptyFacts DEF Foreign
  <1>4. clearing \in 0..Len(ClearOrder[surface])
    <2>1. CASE surface = "listeners"
      BY <2>1 DEF Foreign, ClearOrder
    <2>2. CASE surface # "listeners"
      <3>1. Len(ClearOrder[surface]) = 2
        BY <2>2 DEF Types, Surface, ClearOrder
      <3> QED
        BY <3>1 DEF Types
    <2> QED
      BY <2>1, <2>2
  <1>5. \A l \in Listener : chan[l].acct \in 0..NAccount
    BY DEF Types
  <1>6. \A s \in Stepper : emit[s].todo = {} <=> emit[s].at = "idle"
    BY DEF EmitInv
  <1> QED
    BY <1>1, <1>2, <1>3, <1>4, <1>5, <1>6 DEF TypeOK, Types, GmailTypes

LEMMA FlyInFlight == \A n, a : InFlight(n, a) <=> Fly(emit, n, a)
  BY DEF InFlight, Fly

LEMMA OwedDue == \A a, k : Due(a, k) = Owed(touched, a, k)
  BY DEF Due, Owed, Committed

LEMMA InvAnnounced == IInv => AnnouncedOnce
  <1> SUFFICES ASSUME IInv PROVE AnnouncedOnce
    OBVIOUS
  <1> USE PushAssumption, FlyInFlight, OwedDue DEF IInv, AllTypes
  <1>1. ListenersExactlyOnce
    BY DEF ListenersExactlyOnce, ListenersInv, Honest, Covers
  <1>2. EwsExactlyOnce
    <2> SUFFICES ASSUME NEW i \in DOMAIN ews.subs
        PROVE /\ ~ews.subs[i].during /\ (\A c \in Client : call[c].op = "unsubscribe" => call[c].id # i)
                   => \A n \in Due(ews.subs[i].acct, ews.subs[i].since) :
                         n \in Told(seen, ews, i) \/ InFlight(n, ews.subs[i].acct)
              /\ \A n \in 1..Committed :
                   AtMostOnce(Queue(ews, i), n) /\ ~(n \in seen.told[i] /\ n \in ToSet(Queue(ews, i)))
              /\ \A n \in Told(seen, ews, i) : ews.subs[i].acct \in touched[n]
      BY DEF EwsExactlyOnce, Told, Queue
    <2> QED
      BY DEF EwsInv, ToldOnce, Leaving, Covers, Honest
  <1>3. GraphFanout
    <2> SUFFICES ASSUME NEW i \in DOMAIN graph.subs, ~graph.subs[i].during, NEW n \in 1..Committed
        PROVE LET heard == InOwnLog(graph, i)
                  other == InOtherLog(graph, i)
                  box == graph.subs[i].acct
              IN  /\ n \in Due(box, graph.subs[i].since) => <<i, n>> \in ToSet(heard) \/ InFlight(n, box)
                  /\ box \notin touched[n] => <<i, n>> \notin ToSet(heard)
                  /\ AtMostOnce(heard, <<i, n>>) /\ <<i, n>> \notin ToSet(other)
      BY DEF GraphFanout, GraphInv, InOwnLog, InOtherLog
    <2>1. n \in 1..MaxStep
      BY DEF Types, Committed
    <2>2. n \in Noted(InOwnLog(graph, i), i) <=> <<i, n>> \in ToSet(InOwnLog(graph, i))
      BY <2>1 DEF Noted
    <2> QED
      BY <2>2 DEF GraphInv, NotedOnce, Covers
  <1>4. WatchCovers
    <2> SUFFICES ASSUME NEW a \in DOMAIN gmail.watches, NEW n \in Due(a, gmail.watches[a])
        PROVE  /\ <<a, n>> \in seen.taken \cup ToSet(gmail.sink) \/ InFlight(n, a)
               /\ AtMostOnce(gmail.sink, <<a, n>>)
               /\ ~(<<a, n>> \in seen.taken /\ <<a, n>> \in ToSet(gmail.sink))
      BY DEF WatchCovers
    <2>1. a \in Account /\ gmail.watches[a] \in Nat
      BY DEF GmailTypes
    <2>2. n \in Nat \ {0}
      BY <2>1 DEF Owed, Types
    <2>3. n \in Heard(seen, gmail.sink, a) \/ InFlight(n, a)
      BY DEF GmailInv, Covers
    <2> QED
      BY <2>1, <2>2, <2>3 DEF GmailInv, Heard
  <1> QED
    BY <1>1, <1>2, <1>3, <1>4, InvTypeOK DEF AnnouncedOnce

-----------------------------------------------------------------------------
(* Steps. *)

LEMMA Stages ==
  \A x \in Surface : /\ x \in Stage[x] /\ "idle" \notin Stage[x]
                     /\ x # "graph" => "notify" \notin Stage[x]
                     /\ x # "ews" => "enqueue" \notin Stage[x]
                     /\ x # "gmail" => "publish" \notin Stage[x]
                     /\ x \notin {"idle", "publish", "notify", "enqueue"}
  BY DEF Surface, Stage

(* A registry without clients has nothing to keep. *)
LEMMA Elsewhere ==
  ASSUME Types', SeenTypes', EmitInv', Foreign'
  PROVE  /\ surface' # "listeners" => ListenersInv'
         /\ surface' # "gmail" => GmailTypes' /\ GmailInv'
         /\ surface' # "graph" => GraphTypes' /\ GraphInv' /\ NotifyInv'
         /\ surface' # "ews" => EwsTypes' /\ EwsInv' /\ EnqueueInv'
  <1> USE EmptyFacts
  <1>0. /\ << >> \in Seq(1..MaxStep) /\ << >> \in Seq(Account \X Nat) /\ << >> \in Seq(Note)
        /\ Len(<< >>) = 0
    OBVIOUS
  <1>1. surface' # "listeners" => ListenersInv'
    BY DEF Foreign, ListenersInv
  <1>2. ASSUME surface' # "gmail" PROVE GmailTypes' /\ GmailInv'
    <2>1. gmail' = [watches |-> << >>, sink |-> << >>] /\ seen'.taken = {}
      BY <1>2 DEF Foreign
    <2>2. gmail'.watches = << >> /\ gmail'.sink = << >>
      BY <2>1
    <2>3. DOMAIN gmail'.watches = {} /\ ToSet(gmail'.sink) = {} /\ \A y : AtMostOnce(gmail'.sink, y)
      BY <2>2
    <2>4. GmailTypes'
      BY <1>0, <2>1, <2>2, <2>3 DEF GmailTypes
    <2>5. \A a : Heard(seen', gmail'.sink, a) = {}
      BY <2>1, <2>3 DEF Heard
    <2>6. GmailInv'
      BY <2>1, <2>3, <2>5 DEF GmailInv, Honest
    <2> QED
      BY <2>4, <2>6
  <1>3. ASSUME surface' # "graph" PROVE GraphTypes' /\ GraphInv' /\ NotifyInv'
    <2>1. \A s \in Stepper : emit'[s].at # "notify"
      BY <1>3, Stages DEF EmitInv, Types
    <2>2. graph' = [subs |-> << >>, log |-> << >>, excluded |-> << >>]
      BY <1>3 DEF Foreign
    <2>3. graph'.subs = << >> /\ graph'.log = << >> /\ graph'.excluded = << >>
      BY <2>2
    <2>4. DOMAIN graph'.subs = {} /\ ToSet(graph'.log) = {} /\ ToSet(graph'.excluded) = {}
      BY <2>3
    <2>5. GraphTypes'
      BY <1>0, <2>2, <2>3, <2>4 DEF GraphTypes
    <2>6. GraphInv'
      BY <2>4 DEF GraphInv
    <2> QED
      BY <2>1, <2>5, <2>6 DEF NotifyInv
  <1>4. ASSUME surface' # "ews" PROVE EwsTypes' /\ EwsInv' /\ EnqueueInv'
    <2>1. \A s \in Stepper : emit'[s].at # "enqueue"
      BY <1>4, Stages DEF EmitInv, Types
    <2>2. ews' = [subs |-> << >>, events |-> << >>]
      BY <1>4 DEF Foreign
    <2>3. ews'.subs = << >> /\ ews'.events = << >>
      BY <2>2
    <2>4. DOMAIN ews'.subs = {} /\ DOMAIN ews'.events = {}
      BY <2>3
    <2>5. EwsTypes'
      BY <1>0, <2>2, <2>3, <2>4 DEF EwsTypes
    <2>6. EwsInv'
      BY <2>4 DEF EwsInv
    <2> QED
      BY <2>1, <2>5, <2>6 DEF EnqueueInv
  <1> QED
    BY <1>1, <1>2, <1>3, <1>4

(* Nothing is said to a subscription where there is none. *)
LEMMA ElsewhereSilent ==
  ASSUME SilentInv, Types', EmitInv', Foreign', surface' \notin {"graph", "ews"},
         seen'.gone = seen.gone, \A i \in Id : i >= seq' => i >= seq
  PROVE  SilentInv'
  <1> USE EmptyFacts
  <1>1. \A s \in Stepper : emit'[s].at \notin {"notify", "enqueue"}
    BY Stages DEF EmitInv, Types
  <1>2. /\ graph' = [subs |-> << >>, log |-> << >>, excluded |-> << >>]
        /\ ews' = [subs |-> << >>, events |-> << >>] /\ \A i \in Id : seen'.told[i] = {}
    BY DEF Foreign, Types, Surface
  <1>3. Len(graph'.log) = 0 /\ DOMAIN graph'.subs = {} /\ DOMAIN ews'.subs = {} /\ DOMAIN ews'.events = {}
    BY <1>2
  <1> QED
    BY <1>1, <1>2, <1>3 DEF SilentInv, SilentAfterDelete

(* The emission of s goes on, with fewer accounts or with a later stage. *)
LEMMA EmitMove ==
  ASSUME Types, EmitInv, NEW s \in Stepper, NEW r \in Emission, emit' = [emit EXCEPT ![s] = r],
         touched' = touched, surface' = surface,
         r.at = "idle" <=> r.todo = {}, r.todo \subseteq emit[s].todo,
         r.todo # {} => r.n = emit[s].n /\ r.at \in Stage[surface]
  PROVE  EmitInv' /\ emit' \in [Stepper -> Emission]
  <1>1. emit'[s] = r /\ \A t \in Stepper \ {s} : emit'[t] = emit[t]
    BY DEF Types
  <1>2. emit' \in [Stepper -> Emission]
    BY DEF Types
  <1>3. ASSUME NEW t \in Stepper
        PROVE  /\ emit'[t].at = "idle" <=> emit'[t].todo = {}
               /\ emit'[t].todo # {} =>
                    /\ emit'[t].n \in 1..Len(touched) /\ emit'[t].todo \subseteq touched[emit'[t].n]
                    /\ emit'[t].at \in Stage[surface]
                    /\ \A u \in Stepper \ {t} : emit'[u].todo # {} => emit'[u].n # emit'[t].n
    <2>1. \A u \in Stepper : emit'[u].todo # {} => emit[u].todo # {} /\ emit'[u].n = emit[u].n
      BY <1>1
    <2>2. \A u \in Stepper : emit'[u].todo \subseteq emit[u].todo
      BY <1>1
    <2> QED
      BY <1>1, <2>1, <2>2 DEF EmitInv
  <1> QED
    BY <1>2, <1>3 DEF EmitInv

(* The account of a push, and what is left after it. *)
LEMMA NextPushIs ==
  ASSUME Types, EmitInv, NEW s \in Stepper, emit[s].at # "idle"
  PROVE  /\ Current(s) = Least(emit[s].todo) /\ Current(s) \in emit[s].todo /\ Current(s) \in Account
         /\ emit[s].n \in 1..Len(touched) /\ Current(s) \in touched[emit[s].n]
         /\ \A t \in Stepper \ {s} : emit[t].todo # {} => emit[t].n # emit[s].n
         /\ NextPush(s) \in Emission /\ NextPush(s).todo = emit[s].todo \ {Current(s)}
         /\ NextPush(s).todo # {} => NextPush(s).n = emit[s].n /\ NextPush(s).at \in Stage[surface]
         /\ NextPush(s).at = "idle" <=> NextPush(s).todo = {}
         /\ NextPush(s).at \notin {"publish", "notify", "enqueue"}
  <1>1. emit[s].todo # {} /\ emit[s].todo \in SUBSET Account /\ emit[s] \in Emission
    BY DEF EmitInv, Types, Emission
  <1>2. Current(s) = Least(emit[s].todo) /\ Current(s) \in emit[s].todo
    BY <1>1, LeastIn DEF Current, Least
  <1>3. /\ emit[s].n \in 1..Len(touched) /\ emit[s].todo \subseteq touched[emit[s].n]
        /\ \A t \in Stepper \ {s} : emit[t].todo # {} => emit[t].n # emit[s].n
    BY <1>1 DEF EmitInv
  <1> DEFINE rest == emit[s].todo \ {Current(s)}
  <1>4. NextPush(s) = IF rest = {} THEN [n |-> 0, todo |-> {}, at |-> "idle", subs |-> {}]
                      ELSE [n |-> emit[s].n, todo |-> rest, at |-> surface, subs |-> {}]
    BY DEF NextPush, NoEmit, Emitting
  <1>5. /\ [n |-> 0, todo |-> {}, at |-> "idle", subs |-> {}] \in Emission
        /\ [n |-> emit[s].n, todo |-> rest, at |-> surface, subs |-> {}] \in Emission
    BY <1>1, PushAssumption DEF Emission, Types, Surface
  <1>6. surface \in Stage[surface] /\ surface \notin {"idle", "publish", "notify", "enqueue"}
    BY DEF Types, Surface, Stage
  <1> HIDE DEF rest
  <1>7. NextPush(s) \in Emission /\ NextPush(s).todo = rest
    BY <1>4, <1>5
  <1>8. /\ rest # {} => NextPush(s).n = emit[s].n /\ NextPush(s).at \in Stage[surface]
        /\ NextPush(s).at = "idle" <=> rest = {}
        /\ NextPush(s).at \notin {"publish", "notify", "enqueue"}
    BY <1>4, <1>6
  <1> QED
    BY <1>1, <1>2, <1>3, <1>7, <1>8 DEF rest

LEMMA CommitStep ==
  ASSUME IInv, NEW s \in Stepper, NEW T \in (SUBSET Account) \ {{}}, Commit(s, T)
  PROVE  IInv'
  <1> USE PushAssumption DEF IInv, AllTypes
  <1> DEFINE r == [n |-> Len(touched) + 1, todo |-> T, at |-> surface, subs |-> {}]
  <1>1. /\ emit[s] = NoEmit /\ Len(touched) < MaxStep /\ touched' = Append(touched, T)
        /\ emit' = [emit EXCEPT ![s] = r]
        /\ UNCHANGED <<surface, seq, chan, gmail, graph, ews, call, clearing, resets, seen>>
    BY DEF Commit, Committed, Emitting
  <1>2. /\ touched \in Seq(SUBSET Account) /\ Len(touched) \in Nat /\ emit \in [Stepper -> Emission]
        /\ DOMAIN emit = Stepper /\ surface \in Surface
    BY DEF Types
  <1>3. /\ touched' \in Seq(SUBSET Account) /\ Len(touched') = Len(touched) + 1
        /\ (\A n \in 1..Len(touched) : touched'[n] = touched[n]) /\ touched'[Len(touched) + 1] = T
    BY <1>1, <1>2, AppendFacts
  <1>4. r \in Emission /\ r.n = Len(touched) + 1 /\ r.todo = T /\ r.at = surface /\ emit[s].todo = {}
    BY <1>1, <1>2 DEF Emission, Surface, NoEmit
  <1> HIDE DEF r
  <1>5. emit'[s] = r /\ \A t \in Stepper \ {s} : emit'[t] = emit[t]
    BY <1>1, <1>2
  <1>6. Types' /\ SeenTypes'
    BY <1>1, <1>2, <1>3, <1>4 DEF Types, SeenTypes
  <1>7. EmitInv'
    <2>1. r.at \in Stage[surface] /\ r.at # "idle"
      BY <1>2, <1>4, Stages
    <2>2. ASSUME NEW t \in Stepper, t # s, emit[t].todo # {}
          PROVE  /\ emit[t].n \in 1..Len(touched') /\ emit[t].todo \subseteq touched'[emit[t].n]
                 /\ emit[t].n # r.n
      <3>1. emit[t].n \in 1..Len(touched) /\ emit[t].todo \subseteq touched[emit[t].n]
        BY <2>2 DEF EmitInv
      <3> QED
        BY <1>2, <1>3, <1>4, <3>1
    <2>3. r.n \in 1..Len(touched') /\ r.todo \subseteq touched'[r.n]
      BY <1>2, <1>3, <1>4
    <2>4. ASSUME NEW t \in Stepper
          PROVE  /\ emit'[t].at = "idle" <=> emit'[t].todo = {}
                 /\ emit'[t].todo # {} =>
                      /\ emit'[t].n \in 1..Len(touched') /\ emit'[t].todo \subseteq touched'[emit'[t].n]
                      /\ emit'[t].at \in Stage[surface]
                      /\ \A u \in Stepper \ {t} : emit'[u].todo # {} => emit'[u].n # emit'[t].n
      <3>1. CASE t = s
        BY <1>4, <1>5, <2>1, <2>2, <2>3, <3>1
      <3>2. CASE t # s
        <4>1. emit'[t] = emit[t]
          BY <1>5, <3>2
        <4>2. /\ emit[t].at = "idle" <=> emit[t].todo = {}
              /\ emit[t].todo # {} => emit[t].at \in Stage[surface]
          BY DEF EmitInv
        <4>3. ASSUME emit[t].todo # {}, NEW u \in Stepper \ {t}, emit'[u].todo # {}
              PROVE  emit'[u].n # emit[t].n
          <5>1. CASE u = s
            BY <1>5, <2>2, <3>2, <4>3, <5>1
          <5>2. CASE u # s
            BY <1>5, <4>3, <5>2 DEF EmitInv
          <5> QED
            BY <5>1, <5>2
        <4> QED
          BY <2>2, <3>2, <4>1, <4>2, <4>3
      <3> QED
        BY <3>1, <3>2
    <2> QED
      BY <1>1, <2>4 DEF EmitInv
  <1>8. Foreign'
    BY <1>1 DEF Foreign
  <1>9. /\ \A H, a : \A k \in Nat : Covers(touched, emit, H, a, k) => Covers(touched', emit', H, a, k)
        /\ \A H, a : Honest(touched, emit, H, a) => Honest(touched', emit', H, a)
    BY <1>1, <1>2, <1>4, CommitFacts
  <1>10. ListenersInv'
    <2>1. \A l \in Listener : chan[l].since \in Nat
      BY DEF Types
    <2> QED
      BY <1>1, <1>9, <2>1 DEF ListenersInv
  <1>11. GmailInv' /\ GmailTypes'
    <2>1. \A a \in DOMAIN gmail.watches : gmail.watches[a] \in Nat
      BY DEF GmailTypes
    <2> QED
      BY <1>1, <1>9, <2>1 DEF GmailInv, GmailTypes
  <1>12. EwsInv' /\ EwsTypes'
    <2>1. \A i \in DOMAIN ews.subs : ews.subs[i].since \in Nat
      BY DEF EwsTypes, EwsSub
    <2> QED
      BY <1>1, <1>9, <2>1 DEF EwsInv, EwsTypes, ToldOnce
  <1>13. GraphInv' /\ GraphTypes'
    <2>1. \A i \in DOMAIN graph.subs : graph.subs[i].since \in Nat
      BY DEF GraphTypes, GraphSub
    <2>2. ASSUME NEW i \in DOMAIN graph.subs, ~graph.subs[i].during
          PROVE  NotedOnce(touched', emit', graph, i)
      <3>0. NotedOnce(touched, emit, graph, i)
        BY <2>2 DEF GraphInv
      <3>1. ASSUME NEW n \in Noted(InOwnLog(graph, i), i)
            PROVE  n \in 1..Len(touched') /\ graph.subs[i].acct \in touched'[n] /\ n # r.n
        <4>1. n \in 1..Len(touched) /\ graph.subs[i].acct \in touched[n]
          BY <3>0 DEF NotedOnce
        <4> QED
          BY <1>2, <1>3, <1>4, <4>1
      <3>2. \A t \in Stepper : emit'[t].n # r.n => emit'[t] = emit[t]
        BY <1>5
      <3>3. Covers(touched', emit', Noted(InOwnLog(graph, i), i), graph.subs[i].acct, graph.subs[i].since)
        BY <1>9, <2>1, <3>0 DEF NotedOnce
      <3> QED
        BY <3>0, <3>1, <3>2, <3>3 DEF NotedOnce
    <2>3. GraphTypes'
      BY <1>1 DEF GraphTypes
    <2>4. GraphInv'
      BY <1>1, <2>2 DEF GraphInv
    <2> QED
      BY <2>3, <2>4
  <1>14. NotifyInv' /\ EnqueueInv'
    <2>1. r.at \notin {"notify", "enqueue"}
      BY <1>2, <1>4, Stages
    <2> QED
      BY <1>1, <1>5, <2>1 DEF NotifyInv, EnqueueInv
  <1>15. SilentInv'
    <2>1. r.at \notin {"notify", "enqueue"}
      BY <1>2, <1>4, Stages
    <2>2. \A n \in 1..MaxStep : n <= Len(touched) => n <= Len(touched')
      BY <1>2, <1>3
    <2>3. \A k \in 1..Len(graph.log) : graph.log[k][2] \in 1..MaxStep
      BY DEF GraphTypes, Note
    <2>4. \A i \in DOMAIN ews.events : \A n \in ToSet(ews.events[i]) : n \in 1..MaxStep
      BY DEF EwsTypes, ToSet
    <2>5. \A i \in Id : \A n \in seen.told[i] : n \in 1..MaxStep
      BY DEF SeenTypes
    <2>6. SilentAfterDelete'
      BY <1>1 DEF SilentInv, SilentAfterDelete
    <2>7. ASSUME NEW u \in Stepper, emit'[u].at \in {"notify", "enqueue"}
          PROVE  emit'[u] = emit[u]
      BY <1>5, <2>1, <2>7
    <2>8. /\ \A k \in 1..Len(graph.log) : graph.log[k][2] <= Len(touched')
          /\ \A i \in DOMAIN ews.events : \A n \in ToSet(ews.events[i]) : n <= Len(touched')
          /\ \A i \in Id : \A n \in seen.told[i] : n <= Len(touched')
      BY <2>2, <2>3, <2>4, <2>5 DEF SilentInv
    <2>9. /\ \A u \in Stepper : emit'[u].at = "notify" =>
               \A b \in emit'[u].subs : emit'[u].n <= seen.gone[b.id]
          /\ \A u \in Stepper : emit'[u].at = "enqueue" =>
               \A j \in emit'[u].subs : emit'[u].n <= seen.gone[j]
      BY <2>7 DEF SilentInv
    <2>10. \A i \in Id : i \in DOMAIN graph.subs \cup DOMAIN ews.subs \/ i >= seq
                              => seen.gone[i] = MaxStep
      BY DEF SilentInv
    <2> QED
      BY <1>1, <2>6, <2>8, <2>9, <2>10 DEF SilentInv
  <1> QED
    BY <1>6, <1>7, <1>8, <1>10, <1>11, <1>12, <1>13, <1>14, <1>15

(* Stepper s is done with an account. *)
LEMMA PushStep ==
  ASSUME IInv, NEW s \in Stepper, emit[s].at # "idle", emit' = [emit EXCEPT ![s] = NextPush(s)],
         touched' = touched, surface' = surface
  PROVE  /\ EmitInv' /\ emit' \in [Stepper -> Emission]
         /\ emit'[s] = NextPush(s) /\ \A t \in Stepper \ {s} : emit'[t] = emit[t]
         /\ \A n, a : Fly(emit', n, a) <=> Fly(emit, n, a) /\ ~(n = emit[s].n /\ a = Current(s))
         /\ \A H, a, k : Covers(touched, emit, H, a, k)
                           /\ (a # Current(s) \/ emit[s].n \in H \/ emit[s].n \notin Owed(touched, a, k))
                         => Covers(touched', emit', H, a, k)
         /\ \A H, a : Honest(touched, emit, H, a) => Honest(touched', emit', H, a)
         /\ \A H : Honest(touched, emit, H, Current(s)) =>
              emit[s].n \notin H /\ Honest(touched', emit', H \cup {emit[s].n}, Current(s))
  <1> DEFINE r == NextPush(s)
  <1>1. Types /\ EmitInv /\ DOMAIN emit = Stepper
    BY DEF IInv, AllTypes, Types
  <1>2. /\ Current(s) \in emit[s].todo /\ emit[s].n \in 1..Len(touched) /\ Current(s) \in touched[emit[s].n]
        /\ \A t \in Stepper \ {s} : emit[t].todo # {} => emit[t].n # emit[s].n
        /\ r \in Emission /\ r.todo = emit[s].todo \ {Current(s)}
        /\ r.todo # {} => r.n = emit[s].n /\ r.at \in Stage[surface]
        /\ r.at = "idle" <=> r.todo = {}
    BY <1>1, NextPushIs
  <1> HIDE DEF r
  <1>3. emit' = [emit EXCEPT ![s] = r]
    BY DEF r
  <1>4. EmitInv' /\ emit' \in [Stepper -> Emission]
    BY <1>1, <1>2, <1>3, EmitMove
  <1>5. emit'[s] = r /\ \A t \in Stepper \ {s} : emit'[t] = emit[t]
    BY <1>1, <1>3
  <1>6. ASSUME NEW n, NEW a
        PROVE  Fly(emit', n, a) <=> Fly(emit, n, a) /\ ~(n = emit[s].n /\ a = Current(s))
    <2>1. ASSUME Fly(emit', n, a) PROVE Fly(emit, n, a) /\ ~(n = emit[s].n /\ a = Current(s))
      BY <1>2, <1>5, <2>1 DEF Fly
    <2>2. ASSUME Fly(emit, n, a), ~(n = emit[s].n /\ a = Current(s)) PROVE Fly(emit', n, a)
      BY <1>2, <1>5, <2>2 DEF Fly
    <2> QED
      BY <2>1, <2>2
  <1>7. ASSUME NEW H, NEW a, NEW k, Covers(touched, emit, H, a, k),
               a # Current(s) \/ emit[s].n \in H \/ emit[s].n \notin Owed(touched, a, k)
        PROVE  Covers(touched, emit', H, a, k)
    BY <1>6, <1>7 DEF Covers
  <1>8. ASSUME NEW H, NEW a, Honest(touched, emit, H, a) PROVE Honest(touched, emit', H, a)
    BY <1>6, <1>8 DEF Honest
  <1>9. ASSUME NEW H, Honest(touched, emit, H, Current(s))
        PROVE  emit[s].n \notin H /\ Honest(touched, emit', H \cup {emit[s].n}, Current(s))
    <2>1. Fly(emit, emit[s].n, Current(s)) /\ ~Fly(emit', emit[s].n, Current(s))
      BY <1>2, <1>6 DEF Fly
    <2>2. emit[s].n \notin H
      BY <1>9, <2>1 DEF Honest
    <2>3. Honest(touched, emit', H, Current(s))
      BY <1>8, <1>9
    <2> QED
      BY <1>2, <2>1, <2>2, <2>3 DEF Honest
  <1> QED
    BY <1>4, <1>5, <1>6, <1>7, <1>8, <1>9 DEF r

(* A step of the listeners' registry. *)
LEMMA ListenersFrame ==
  ASSUME IInv, surface = "listeners", emit' \in [Stepper -> Emission], EmitInv',
         UNCHANGED <<surface, touched, seq, gmail, graph, ews, call, clearing, resets, seen>>,
         chan' \in [Listener -> [acct : 0..NAccount, since : Nat, inbox : Seq(1..MaxStep)]], ListenersInv'
  PROVE  IInv'
  <1> USE DEF IInv, AllTypes
  <1>1. Types' /\ SeenTypes' /\ Foreign'
    BY DEF Types, SeenTypes, Foreign
  <1>2. SilentInv'
    BY <1>1, ElsewhereSilent
  <1> QED
    BY <1>1, <1>2, Elsewhere

LEMMA ListenersStep ==
  ASSUME IInv, surface = "listeners",
         \/ \E l \in Listener, a \in Caller : Register(l, a)
         \/ \E l \in Listener : Hangup(l)
         \/ \E s \in Stepper : EmitListeners(s)
  PROVE  IInv'
  <1> USE PushAssumption, EmptyFacts
  <1> DEFINE Chan == [acct : 0..NAccount, since : Nat, inbox : Seq(1..MaxStep)]
  <1>0. Types /\ EmitInv /\ ListenersInv /\ chan \in [Listener -> Chan] /\ Len(touched) \in Nat
    BY DEF IInv, AllTypes, Types
  <1>1. ASSUME NEW l \in Listener, NEW a \in Caller, Register(l, a) PROVE IInv'
    <2> DEFINE c == [acct |-> a, since |-> Len(touched), inbox |-> << >>]
    <2>1. chan' = [chan EXCEPT ![l] = c]
      BY <1>1 DEF Register, Committed
    <2>2. a \in Account /\ a \in 0..NAccount /\ << >> \in Seq(1..MaxStep)
      BY DEF Account
    <2>3. chan' \in [Listener -> Chan]
      BY <1>0, <2>1, <2>2
    <2>4. UNCHANGED <<surface, touched, emit, seq, gmail, graph, ews, call, clearing, resets, seen>>
      BY <1>1 DEF Register
    <2>5. Honest(touched, emit, {}, a) /\ Covers(touched, emit, {}, a, Len(touched))
      BY <1>0 DEF Honest, Covers, Owed
    <2>6. chan'[l].acct = a /\ chan'[l].since = Len(touched) /\ ToSet(chan'[l].inbox) = {}
          /\ (\A n : AtMostOnce(chan'[l].inbox, n)) /\ \A k \in Listener \ {l} : chan'[k] = chan[k]
      BY <1>0, <2>1
    <2>7. ListenersInv'
      BY <1>0, <2>2, <2>4, <2>5, <2>6 DEF ListenersInv
    <2>8. emit' \in [Stepper -> Emission] /\ EmitInv'
      BY <1>0, <2>4 DEF Types, EmitInv
    <2> QED
      BY <2>3, <2>4, <2>7, <2>8, ListenersFrame
  <1>2. ASSUME NEW l \in Listener, Hangup(l) PROVE IInv'
    <2>1. chan' = [chan EXCEPT ![l] = Closed]
      BY <1>2 DEF Hangup
    <2>2. Closed \in Chan
      BY DEF Closed
    <2>3. chan' \in [Listener -> Chan]
      BY <1>0, <2>1, <2>2
    <2>4. UNCHANGED <<surface, touched, emit, seq, gmail, graph, ews, call, clearing, resets, seen>>
      BY <1>2 DEF Hangup
    <2>5. chan'[l] = Closed /\ \A k \in Listener \ {l} : chan'[k] = chan[k]
      BY <1>0, <2>1
    <2>6. ListenersInv'
      BY <1>0, <2>4, <2>5 DEF ListenersInv
    <2>7. emit' \in [Stepper -> Emission] /\ EmitInv'
      BY <1>0, <2>4 DEF Types, EmitInv
    <2> QED
      BY <2>3, <2>4, <2>6, <2>7, ListenersFrame
  <1>3. ASSUME NEW s \in Stepper, EmitListeners(s) PROVE IInv'
    <2> DEFINE n == emit[s].n
    <2>1. /\ emit[s].at # "idle" /\ emit' = [emit EXCEPT ![s] = NextPush(s)]
          /\ UNCHANGED <<surface, touched, seq, gmail, graph, ews, call, clearing, resets, seen>>
          /\ chan' = Send(s)
      BY <1>3 DEF EmitListeners
    <2>2. Current(s) \in Account /\ n \in 1..Len(touched) /\ n \in 1..MaxStep
      BY <1>0, <2>1, NextPushIs DEF Types
    <2>3. \A l \in Listener : chan[l].inbox \in Seq(1..MaxStep) /\ chan[l] \in Chan
      BY <1>0
    <2>4. ASSUME NEW l \in Listener
          PROVE  /\ Append(chan[l].inbox, n) \in Seq(1..MaxStep)
                 /\ ToSet(Append(chan[l].inbox, n)) = ToSet(chan[l].inbox) \cup {n}
                 /\ \A y : AtMostOnce(chan[l].inbox, y) /\ (y = n => y \notin ToSet(chan[l].inbox))
                           => AtMostOnce(Append(chan[l].inbox, n), y)
      <3> HIDE DEF n
      <3>1. chan[l].inbox \in Seq(1..MaxStep)
        BY <2>3
      <3> QED
        BY <2>2, <3>1, AppendFacts
    <2>5. ASSUME NEW l \in Listener
          PROVE  /\ chan'[l].acct = chan[l].acct /\ chan'[l].since = chan[l].since /\ chan'[l] \in Chan
                 /\ chan[l].acct = Current(s) => chan'[l].inbox = Append(chan[l].inbox, n)
                 /\ chan[l].acct # Current(s) => chan'[l] = chan[l]
      BY <2>1, <2>3, <2>4 DEF Send, StateChange
    <2>6. chan' \in [Listener -> Chan]
      BY <2>1, <2>5 DEF Send
    <2>10. /\ \A H, a, k : Covers(touched, emit, H, a, k)
                              /\ (a # Current(s) \/ n \in H \/ n \notin Owed(touched, a, k))
                            => Covers(touched', emit', H, a, k)
           /\ \A H, a : Honest(touched, emit, H, a) => Honest(touched', emit', H, a)
           /\ \A H : Honest(touched, emit, H, Current(s)) =>
                n \notin H /\ Honest(touched', emit', H \cup {n}, Current(s))
      BY <2>1, PushStep
    <2> HIDE DEF n, Chan
    <2>7. ASSUME NEW l \in Listener, chan'[l] # Closed
          PROVE  /\ chan'[l].acct \in Account /\ \A y : AtMostOnce(chan'[l].inbox, y)
                 /\ Honest(touched', emit', ToSet(chan'[l].inbox), chan'[l].acct)
                 /\ Covers(touched', emit', ToSet(chan'[l].inbox), chan'[l].acct, chan'[l].since)
      <3>1. chan[l] # Closed
        <4>1. CASE chan[l].acct = Current(s)
          BY <2>2, <4>1 DEF Closed, Account
        <4>2. CASE chan[l].acct # Current(s)
          BY <2>5, <2>7, <4>2
        <4> QED
          BY <4>1, <4>2
      <3>2. /\ chan[l].acct \in Account /\ \A y : AtMostOnce(chan[l].inbox, y)
            /\ Honest(touched, emit, ToSet(chan[l].inbox), chan[l].acct)
            /\ Covers(touched, emit, ToSet(chan[l].inbox), chan[l].acct, chan[l].since)
        BY <1>0, <3>1 DEF ListenersInv
      <3>3. CASE chan[l].acct = Current(s)
        <4>1. n \notin ToSet(chan[l].inbox) /\ Honest(touched', emit', ToSet(chan'[l].inbox), chan[l].acct)
          BY <2>4, <2>5, <2>10, <3>2, <3>3
        <4>2. Covers(touched, emit, ToSet(chan'[l].inbox), chan[l].acct, chan[l].since)
          BY <2>4, <2>5, <3>2, <3>3 DEF Covers
        <4>3. Covers(touched', emit', ToSet(chan'[l].inbox), chan[l].acct, chan[l].since)
          BY <2>4, <2>5, <2>10, <3>3, <4>2
        <4>4. \A y : AtMostOnce(chan'[l].inbox, y)
          BY <2>4, <2>5, <3>2, <3>3, <4>1
        <4> QED
          BY <2>5, <3>2, <4>1, <4>3, <4>4
      <3>4. CASE chan[l].acct # Current(s)
        BY <2>5, <2>10, <3>2, <3>4
      <3> QED
        BY <3>3, <3>4
    <2>8. EmitInv' /\ emit' \in [Stepper -> Emission]
      BY <2>1, PushStep
    <2>9. ListenersInv'
      BY <2>7 DEF ListenersInv
    <2> QED
      BY <2>1, <2>6, <2>8, <2>9, ListenersFrame DEF Chan
  <1> QED
    BY <1>1, <1>2, <1>3

(* Stepper s is at another stage of the same push. *)
LEMMA StageStep ==
  ASSUME IInv, NEW s \in Stepper, emit[s].at # "idle", NEW r \in Emission, emit' = [emit EXCEPT ![s] = r],
         r.n = emit[s].n, r.todo = emit[s].todo, r.at \in Stage[surface],
         touched' = touched, surface' = surface
  PROVE  /\ EmitInv' /\ emit' \in [Stepper -> Emission]
         /\ emit'[s] = r /\ \A t \in Stepper \ {s} : emit'[t] = emit[t]
         /\ \A H, a, k : Covers(touched', emit', H, a, k) <=> Covers(touched, emit, H, a, k)
         /\ \A H, a : Honest(touched', emit', H, a) <=> Honest(touched, emit, H, a)
  <1>1. Types /\ EmitInv /\ DOMAIN emit = Stepper /\ surface \in Surface
    BY DEF IInv, AllTypes, Types
  <1>2. r.todo # {} /\ r.at # "idle"
    BY <1>1, Stages DEF EmitInv
  <1>3. EmitInv' /\ emit' \in [Stepper -> Emission]
    BY <1>1, <1>2, EmitMove
  <1>4. emit'[s] = r /\ \A t \in Stepper \ {s} : emit'[t] = emit[t]
    BY <1>1
  <1>5. /\ \A H, a, k : Covers(touched, emit', H, a, k) <=> Covers(touched, emit, H, a, k)
        /\ \A H, a : Honest(touched, emit', H, a) <=> Honest(touched, emit, H, a)
    BY <1>1, StageFacts
  <1> QED
    BY <1>3, <1>4, <1>5

(* What clear does to each registry. *)
LEMMA ClearIs ==
  ASSUME IInv, Clear
  PROVE  /\ surface \in {"gmail", "graph", "ews"} /\ UNCHANGED <<surface, touched, emit, seq, chan, call>>
         /\ clearing' = 1 - clearing /\ clearing' \in 0..1 /\ resets' \in Nat
         /\ seen' = [told |-> seen'.told, taken |-> seen'.taken, gone |-> seen'.gone]
         /\ seen'.told = seen.told
         /\ surface = "gmail" =>
              /\ graph' = graph /\ ews' = ews /\ seen'.gone = seen.gone
              /\ clearing = 0 => gmail' = [gmail EXCEPT !.watches = << >>] /\ seen'.taken = seen.taken
              /\ clearing = 1 => /\ gmail' = [gmail EXCEPT !.sink = << >>]
                                 /\ seen'.taken = seen.taken \cup Scripted(gmail.sink)
         /\ surface = "graph" =>
              /\ gmail' = gmail /\ ews' = ews /\ seen'.taken = seen.taken
              /\ clearing = 0 =>
                   /\ graph' = [graph EXCEPT !.subs = << >>]
                   /\ seen'.gone = [i \in Id |-> IF i \in DOMAIN graph.subs THEN Len(touched) ELSE seen.gone[i]]
              /\ clearing = 1 =>
                   graph' = [graph EXCEPT !.log = << >>, !.excluded = << >>] /\ seen'.gone = seen.gone
         /\ surface = "ews" =>
              /\ gmail' = gmail /\ graph' = graph /\ seen'.taken = seen.taken
              /\ clearing = 0 =>
                   /\ ews' = [ews EXCEPT !.subs = << >>]
                   /\ seen'.gone = [i \in Id |-> IF i \in DOMAIN ews.subs THEN Len(touched) ELSE seen.gone[i]]
              /\ clearing = 1 => ews' = [ews EXCEPT !.events = << >>] /\ seen'.gone = seen.gone
  <1> DEFINE x == ClearOrder[surface][clearing + 1]
             ended == CASE x = "graphSubs" -> DOMAIN graph.subs
                        [] x = "ewsSubs" -> DOMAIN ews.subs
                        [] OTHER -> {}
             gone1 == [i \in Id |-> IF i \in ended THEN Len(touched) ELSE seen.gone[i]]
             taken1 == IF x = "sink" THEN seen.taken \cup Scripted(gmail.sink) ELSE seen.taken
  <1>1. /\ surface \in {"gmail", "graph", "ews"} /\ clearing \in {0, 1} /\ resets \in Nat
        /\ seen = [told |-> seen.told, taken |-> seen.taken, gone |-> seen.gone]
        /\ seen.gone \in [Id -> Nat]
    BY DEF Clear, IInv, AllTypes, Types, Surface, SeenTypes
  <1>2. /\ Len(ClearOrder[surface]) = 2
        /\ surface = "gmail" => x = IF clearing = 0 THEN "watches" ELSE "sink"
        /\ surface = "graph" => x = IF clearing = 0 THEN "graphSubs" ELSE "graphLog"
        /\ surface = "ews" => x = IF clearing = 0 THEN "ewsSubs" ELSE "ewsEvents"
    BY <1>1 DEF ClearOrder
  <1>3. /\ UNCHANGED <<surface, touched, emit, seq, chan, call>>
        /\ clearing' = IF clearing = Len(ClearOrder[surface]) - 1 THEN 0 ELSE clearing + 1
        /\ resets' = IF clearing = 0 THEN resets + 1 ELSE resets
        /\ gmail' = CASE x = "watches" -> [gmail EXCEPT !.watches = << >>]
                      [] x = "sink" -> [gmail EXCEPT !.sink = << >>]
                      [] OTHER -> gmail
        /\ graph' = CASE x = "graphSubs" -> [graph EXCEPT !.subs = << >>]
                      [] x = "graphLog" -> [graph EXCEPT !.log = << >>, !.excluded = << >>]
                      [] OTHER -> graph
        /\ ews' = CASE x = "ewsSubs" -> [ews EXCEPT !.subs = << >>]
                    [] x = "ewsEvents" -> [ews EXCEPT !.events = << >>]
                    [] OTHER -> ews
        /\ seen' = [seen EXCEPT !.gone = gone1, !.taken = taken1]
    BY DEF Clear, Committed
  <1>4. /\ seen' = [told |-> seen'.told, taken |-> seen'.taken, gone |-> seen'.gone]
        /\ seen'.told = seen.told /\ seen'.taken = taken1 /\ seen'.gone = gone1
    <2> HIDE DEF gone1, taken1
    <2> QED
      BY <1>1, <1>3
  <1>5. /\ x = "graphSubs" => ended = DOMAIN graph.subs
        /\ x = "ewsSubs" => ended = DOMAIN ews.subs
        /\ x \notin {"graphSubs", "ewsSubs"} => ended = {}
    OBVIOUS
  <1> HIDE DEF x, ended
  <1>6. clearing' = 1 - clearing /\ clearing' \in 0..1 /\ resets' \in Nat
    BY <1>1, <1>2, <1>3
  <1>7. ended = {} => gone1 = seen.gone
    BY <1>1
  <1>8. CASE surface = "gmail"
    BY <1>1, <1>2, <1>3, <1>4, <1>5, <1>6, <1>7, <1>8
  <1>9. CASE surface = "graph"
    BY <1>1, <1>2, <1>3, <1>4, <1>5, <1>6, <1>7, <1>9
  <1>10. CASE surface = "ews"
    BY <1>1, <1>2, <1>3, <1>4, <1>5, <1>6, <1>7, <1>10
  <1> QED
    BY <1>1, <1>8, <1>9, <1>10

(* A step of the Gmail watches. *)
LEMMA GmailFrame ==
  ASSUME IInv, surface = "gmail", emit' \in [Stepper -> Emission], EmitInv',
         UNCHANGED <<surface, touched, chan, graph, ews>>, seq' \in {seq, seq + 1},
         call' \in [Client -> Call],
         \A c \in Client : call'[c] = NoCall \/ (call'[c].op = "watch" /\ call'[c].id \in Account),
         clearing' \in 0..1, resets' \in Nat,
         seen' = [told |-> seen'.told, taken |-> seen'.taken, gone |-> seen'.gone],
         seen'.told = seen.told, seen'.gone = seen.gone, GmailTypes', GmailInv'
  PROVE  IInv'
  <1> USE DEF IInv, AllTypes
  <1>0. seq \in Nat \ {0} /\ seq' \in Nat \ {0} /\ \A i \in Nat : i >= seq' => i >= seq
    BY DEF Types
  <1>1. Types'
    BY <1>0 DEF Types
  <1>2. SeenTypes'
    BY <1>0 DEF SeenTypes, Id
  <1>3. Foreign'
    BY DEF Foreign
  <1>4. SilentInv'
    BY <1>0, <1>1, <1>3, ElsewhereSilent DEF Id
  <1> QED
    BY <1>1, <1>2, <1>3, <1>4, Elsewhere

(* Neither the emissions nor what was published changes. *)
LEMMA GmailKept ==
  ASSUME IInv, surface = "gmail",
         \A H, a, k : Covers(touched, emit, H, a, k) => Covers(touched', emit', H, a, k),
         \A H, a : Honest(touched, emit, H, a) => Honest(touched', emit', H, a),
         gmail'.sink = gmail.sink, seen'.taken = seen.taken,
         \A a \in DOMAIN gmail'.watches :
            \/ a \in DOMAIN gmail.watches /\ gmail'.watches[a] = gmail.watches[a]
            \/ Owed(touched', a, gmail'.watches[a]) = {}
  PROVE  GmailInv'
  <1>1. \A a : Heard(seen', gmail'.sink, a) = Heard(seen, gmail.sink, a)
    BY DEF Heard
  <1>2. ASSUME NEW a \in DOMAIN gmail'.watches
        PROVE  Covers(touched', emit', Heard(seen', gmail'.sink, a), a, gmail'.watches[a])
    <2>1. CASE a \in DOMAIN gmail.watches /\ gmail'.watches[a] = gmail.watches[a]
      BY <1>1, <2>1 DEF IInv, GmailInv
    <2>2. CASE Owed(touched', a, gmail'.watches[a]) = {}
      BY <2>2 DEF Covers
    <2> QED
      BY <2>1, <2>2
  <1> QED
    BY <1>1, <1>2 DEF IInv, GmailInv

LEMMA GmailStep ==
  ASSUME IInv, surface = "gmail",
         \/ \E c \in Client, a \in Caller : WatchRead(c, a)
         \/ \E c \in Client : WatchSet(c)
         \/ \E a \in Caller : Stop(a) \/ PublishByHand(a)
         \/ ClearPubsub
         \/ \E s \in Stepper : EmitGmail(s) \/ EmitPublish(s)
         \/ Clear
  PROVE  IInv'
  <1> USE PushAssumption, EmptyFacts
  <1>0. /\ Types /\ EmitInv /\ GmailTypes /\ GmailInv /\ SeenTypes /\ Len(touched) \in Nat /\ seq \in Nat
        /\ call \in [Client -> Call] /\ clearing \in 0..1 /\ resets \in Nat
        /\ emit \in [Stepper -> Emission]
        /\ \A c \in Client : call[c] = NoCall \/ (call[c].op = "watch" /\ call[c].id \in Account)
        /\ seen = [told |-> seen.told, taken |-> seen.taken, gone |-> seen.gone]
    BY DEF IInv, AllTypes, Types, Foreign, SeenTypes
  <1>k. UNCHANGED <<touched, emit>> =>
          /\ \A H, a, k : Covers(touched, emit, H, a, k) => Covers(touched', emit', H, a, k)
          /\ \A H, a : Honest(touched, emit, H, a) => Honest(touched', emit', H, a)
    OBVIOUS
  <1>e. UNCHANGED <<surface, touched, emit>> => EmitInv' /\ emit' \in [Stepper -> Emission]
    BY <1>0 DEF EmitInv
  <1>1. ASSUME NEW c \in Client, NEW a \in Caller, WatchRead(c, a) PROVE IInv'
    <2>1. /\ UNCHANGED <<surface, touched, emit, seq, chan, gmail, graph, ews, clearing, resets, seen>>
          /\ call' = [call EXCEPT ![c] = [op |-> "watch", id |-> a]]
      BY <1>1 DEF WatchRead
    <2>2. a \in Account /\ [op |-> "watch", id |-> a] \in Call
      <3>1. a \in Account
        BY DEF Account
      <3>2. a \in Nat
        BY <3>1 DEF Account
      <3> QED
        BY <3>1, <3>2 DEF Call
    <2>3. /\ call' \in [Client -> Call]
          /\ \A d \in Client : call'[d] = NoCall \/ (call'[d].op = "watch" /\ call'[d].id \in Account)
      BY <1>0, <2>1, <2>2
    <2>4. GmailTypes'
      BY <1>0, <2>1 DEF GmailTypes
    <2>5. GmailInv'
      BY <1>k, <2>1, GmailKept
    <2> QED
      BY <1>0, <1>e, <2>1, <2>3, <2>4, <2>5, GmailFrame
  <1>2. ASSUME NEW c \in Client, WatchSet(c) PROVE IInv'
    <2> DEFINE a == call[c].id
    <2>1. /\ UNCHANGED <<surface, touched, emit, seq, chan, graph, ews, clearing, resets, seen>>
          /\ call' = [call EXCEPT ![c] = NoCall] /\ call[c].op = "watch"
          /\ gmail' = [gmail EXCEPT !.watches = With(gmail.watches, a, Len(touched))]
      BY <1>2 DEF WatchSet, Committed
    <2>2. NoCall \in Call /\ a \in Account
      BY <1>0, <2>1 DEF NoCall, Call
    <2>3. /\ call' \in [Client -> Call]
          /\ \A d \in Client : call'[d] = NoCall \/ (call'[d].op = "watch" /\ call'[d].id \in Account)
      BY <1>0, <2>1, <2>2
    <2> HIDE DEF a
    <2>4. /\ gmail' = [watches |-> gmail'.watches, sink |-> gmail'.sink]
          /\ gmail'.watches = With(gmail.watches, a, Len(touched)) /\ gmail'.sink = gmail.sink
      BY <1>0, <2>1 DEF GmailTypes
    <2>5. /\ DOMAIN gmail'.watches = DOMAIN gmail.watches \cup {a} /\ gmail'.watches[a] = Len(touched)
          /\ \A b \in DOMAIN gmail.watches \ {a} : gmail'.watches[b] = gmail.watches[b]
      <3>1. gmail'.watches = [x \in DOMAIN gmail.watches \cup {a} |->
                                 IF x = a THEN Len(touched) ELSE gmail.watches[x]]
        BY <2>4 DEF With
      <3> QED
        BY <3>1
    <2>6. GmailTypes'
      <3>1. gmail'.watches \in [DOMAIN gmail'.watches -> Nat]
        BY <1>0, <2>4, <2>5 DEF GmailTypes, With
      <3> QED
        BY <1>0, <2>2, <2>4, <2>5, <3>1 DEF GmailTypes
    <2>7. Owed(touched, a, Len(touched)) = {}
      BY <1>0 DEF Owed
    <2>8. GmailInv'
      BY <1>k, <2>1, <2>4, <2>5, <2>7, GmailKept
    <2> QED
      BY <1>0, <1>e, <2>1, <2>3, <2>6, <2>8, GmailFrame
  <1>3. ASSUME NEW a \in Caller, Stop(a) PROVE IInv'
    <2>1. /\ UNCHANGED <<surface, touched, emit, seq, chan, graph, ews, call, clearing, resets, seen>>
          /\ gmail' = [gmail EXCEPT !.watches = Without(gmail.watches, {a})]
      BY <1>3 DEF Stop
    <2>2. /\ gmail' = [watches |-> gmail'.watches, sink |-> gmail'.sink]
          /\ gmail'.watches = Without(gmail.watches, {a}) /\ gmail'.sink = gmail.sink
      BY <1>0, <2>1 DEF GmailTypes
    <2>3. /\ DOMAIN gmail'.watches = DOMAIN gmail.watches \ {a}
          /\ \A b \in DOMAIN gmail.watches \ {a} : gmail'.watches[b] = gmail.watches[b]
      <3>1. gmail'.watches = [x \in DOMAIN gmail.watches \ {a} |-> gmail.watches[x]]
        BY <2>2 DEF Without
      <3> QED
        BY <3>1
    <2>4. GmailTypes'
      <3>1. gmail'.watches \in [DOMAIN gmail'.watches -> Nat]
        BY <1>0, <2>2, <2>3 DEF GmailTypes, Without
      <3> QED
        BY <1>0, <2>2, <2>3, <3>1 DEF GmailTypes
    <2>5. GmailInv'
      BY <1>k, <2>1, <2>2, <2>3, GmailKept
    <2> QED
      BY <1>0, <1>e, <2>1, <2>4, <2>5, GmailFrame
  <1>4. ASSUME NEW a \in Caller, PublishByHand(a) PROVE IInv'
    <2>1. /\ UNCHANGED <<surface, touched, emit, chan, graph, ews, call, clearing, resets, seen>>
          /\ seq' = seq + 1 /\ gmail' = [gmail EXCEPT !.sink = Append(gmail.sink, <<a, 0>>)]
      BY <1>4 DEF PublishByHand, NextSeq
    <2>2. /\ gmail' = [watches |-> gmail'.watches, sink |-> gmail'.sink]
          /\ gmail'.watches = gmail.watches /\ gmail'.sink = Append(gmail.sink, <<a, 0>>)
      BY <1>0, <2>1 DEF GmailTypes
    <2>3. /\ gmail'.sink \in Seq(Account \X Nat) /\ ToSet(gmail'.sink) = ToSet(gmail.sink) \cup {<<a, 0>>}
          /\ \A y : AtMostOnce(gmail.sink, y) /\ y # <<a, 0>> => AtMostOnce(gmail'.sink, y)
      <3> DEFINE S == Account \X Nat
                 x == <<a, 0>>
                 q == gmail.sink
      <3>1. q \in Seq(S) /\ x \in S /\ gmail'.sink = Append(q, x)
        BY <1>0, <2>2 DEF GmailTypes, Account
      <3>2. gmail'.sink \in Seq(S) /\ ToSet(gmail'.sink) = ToSet(q) \cup {x}
            /\ \A y : AtMostOnce(q, y) /\ y # x => AtMostOnce(gmail'.sink, y)
        <4> HIDE DEF S, x, q
        <4> QED
          BY <3>1, AppendFacts
      <3> QED
        BY <3>2
    <2>4. GmailTypes'
      BY <1>0, <2>2, <2>3 DEF GmailTypes
    <2>5. ASSUME NEW b, NEW n \in Nat \ {0}
          PROVE  <<b, n>> # <<a, 0>> /\ (<<b, n>> \in ToSet(gmail'.sink) <=> <<b, n>> \in ToSet(gmail.sink))
      BY <2>3
    <2>6. \A b : Heard(seen', gmail'.sink, b) = Heard(seen, gmail.sink, b)
      BY <2>1, <2>5 DEF Heard
    <2>7. GmailInv'
      BY <1>0, <2>1, <2>2, <2>3, <2>5, <2>6 DEF GmailInv
    <2> QED
      BY <1>0, <1>e, <2>1, <2>4, <2>7, GmailFrame
  <1>5. ASSUME UNCHANGED <<touched, emit>>, gmail' = [gmail EXCEPT !.sink = << >>],
               seen'.taken = seen.taken \cup Scripted(gmail.sink)
        PROVE  GmailTypes' /\ GmailInv'
    <2>1. /\ gmail' = [watches |-> gmail'.watches, sink |-> gmail'.sink]
          /\ gmail'.watches = gmail.watches /\ gmail'.sink = << >>
      BY <1>0, <1>5 DEF GmailTypes
    <2>2. GmailTypes'
      <3>1. << >> \in Seq(Account \X Nat)
        OBVIOUS
      <3> QED
        BY <1>0, <2>1, <3>1 DEF GmailTypes
    <2>3. ToSet(gmail'.sink) = {} /\ \A y : AtMostOnce(gmail'.sink, y)
      BY <2>1
    <2>4. ASSUME NEW b, NEW n \in Nat \ {0}
          PROVE  <<b, n>> \in seen'.taken <=> <<b, n>> \in seen.taken \cup ToSet(gmail.sink)
      BY <1>5 DEF Scripted
    <2>5. \A b : Heard(seen', gmail'.sink, b) = Heard(seen, gmail.sink, b)
      BY <2>3, <2>4 DEF Heard
    <2>6. GmailInv'
      BY <1>0, <1>5, <2>1, <2>3, <2>5 DEF GmailInv
    <2> QED
      BY <2>2, <2>6
  <1>6. ASSUME ClearPubsub PROVE IInv'
    <2>1. /\ UNCHANGED <<surface, touched, emit, seq, chan, graph, ews, call, clearing, resets>>
          /\ gmail' = [gmail EXCEPT !.sink = << >>]
          /\ seen' = [seen EXCEPT !.taken = seen.taken \cup Scripted(gmail.sink)]
      BY <1>6 DEF ClearPubsub
    <2>2. /\ seen' = [told |-> seen'.told, taken |-> seen'.taken, gone |-> seen'.gone]
          /\ seen'.told = seen.told /\ seen'.gone = seen.gone
          /\ seen'.taken = seen.taken \cup Scripted(gmail.sink)
      BY <1>0, <2>1
    <2> QED
      BY <1>0, <1>5, <1>e, <2>1, <2>2, GmailFrame
  <1>7. ASSUME NEW s \in Stepper, EmitPublish(s) PROVE IInv'
    <2> DEFINE n == emit[s].n
               c == Current(s)
    <2>1. /\ emit[s].at # "idle" /\ emit' = [emit EXCEPT ![s] = NextPush(s)]
          /\ UNCHANGED <<surface, touched, seq, chan, graph, ews, call, clearing, resets, seen>>
          /\ gmail' = [gmail EXCEPT !.sink = Append(gmail.sink, <<c, n>>)]
      BY <1>7 DEF EmitPublish, Published
    <2>2. c \in Account /\ n \in 1..Len(touched) /\ n \in Nat \ {0}
      BY <1>0, <2>1, NextPushIs DEF Types
    <2>3. /\ \A H, a, k : Covers(touched, emit, H, a, k) /\ (a # c \/ n \in H \/ n \notin Owed(touched, a, k))
                            => Covers(touched', emit', H, a, k)
          /\ \A H, a : Honest(touched, emit, H, a) => Honest(touched', emit', H, a)
          /\ \A H : Honest(touched, emit, H, c) => n \notin H /\ Honest(touched', emit', H \cup {n}, c)
          /\ EmitInv' /\ emit' \in [Stepper -> Emission]
      BY <2>1, PushStep
    <2> HIDE DEF n, c
    <2>4. /\ gmail' = [watches |-> gmail'.watches, sink |-> gmail'.sink]
          /\ gmail'.watches = gmail.watches /\ gmail'.sink = Append(gmail.sink, <<c, n>>)
      BY <1>0, <2>1 DEF GmailTypes
    <2>5. /\ gmail'.sink \in Seq(Account \X Nat) /\ ToSet(gmail'.sink) = ToSet(gmail.sink) \cup {<<c, n>>}
          /\ \A y : AtMostOnce(gmail.sink, y) /\ (y = <<c, n>> => y \notin ToSet(gmail.sink))
                      => AtMostOnce(gmail'.sink, y)
      <3> DEFINE S == Account \X Nat
                 x == <<c, n>>
                 q == gmail.sink
      <3>1. q \in Seq(S) /\ x \in S /\ gmail'.sink = Append(q, x)
        BY <1>0, <2>2, <2>4 DEF GmailTypes
      <3>2. gmail'.sink \in Seq(S) /\ ToSet(gmail'.sink) = ToSet(q) \cup {x}
            /\ \A y : AtMostOnce(q, y) /\ (y = x => y \notin ToSet(q)) => AtMostOnce(gmail'.sink, y)
        <4> HIDE DEF S, x, q
        <4> QED
          BY <3>1, AppendFacts
      <3> QED
        BY <3>2
    <2>6. GmailTypes'
      BY <1>0, <2>4, <2>5 DEF GmailTypes
    <2>7. /\ Heard(seen', gmail'.sink, c) = Heard(seen, gmail.sink, c) \cup {n}
          /\ \A b : b # c => Heard(seen', gmail'.sink, b) = Heard(seen, gmail.sink, b)
      BY <2>1, <2>2, <2>5 DEF Heard
    <2>8. n \notin Heard(seen, gmail.sink, c)
      BY <1>0, <2>2, <2>3 DEF GmailInv
    <2>9. <<c, n>> \notin seen.taken /\ <<c, n>> \notin ToSet(gmail.sink)
      BY <2>2, <2>8 DEF Heard
    <2>10. ASSUME NEW a \in Account
           PROVE  /\ Honest(touched', emit', Heard(seen', gmail'.sink, a), a)
                  /\ \A m \in Nat \ {0} : /\ AtMostOnce(gmail'.sink, <<a, m>>)
                                          /\ ~(<<a, m>> \in seen'.taken /\ <<a, m>> \in ToSet(gmail'.sink))
      <3>1. Honest(touched', emit', Heard(seen', gmail'.sink, a), a)
        BY <1>0, <2>2, <2>3, <2>7 DEF GmailInv
      <3>2. ASSUME NEW m \in Nat \ {0}
            PROVE  /\ AtMostOnce(gmail'.sink, <<a, m>>)
                   /\ ~(<<a, m>> \in seen'.taken /\ <<a, m>> \in ToSet(gmail'.sink))
        <4>1. /\ AtMostOnce(gmail.sink, <<a, m>>)
              /\ ~(<<a, m>> \in seen.taken /\ <<a, m>> \in ToSet(gmail.sink))
          BY <1>0 DEF GmailInv
        <4> QED
          BY <2>1, <2>5, <2>9, <4>1
      <3> QED
        BY <3>1, <3>2
    <2>11. ASSUME NEW a \in DOMAIN gmail'.watches
           PROVE  Covers(touched', emit', Heard(seen', gmail'.sink, a), a, gmail'.watches[a])
      <3>1. Covers(touched, emit, Heard(seen, gmail.sink, a), a, gmail.watches[a])
        BY <1>0, <2>4 DEF GmailInv
      <3>2. Covers(touched, emit, Heard(seen', gmail'.sink, a), a, gmail.watches[a])
        BY <2>7, <3>1 DEF Covers
      <3> QED
        BY <2>3, <2>4, <2>7, <3>2
    <2>12. GmailInv'
      BY <2>10, <2>11 DEF GmailInv
    <2> QED
      BY <1>0, <2>1, <2>3, <2>6, <2>12, GmailFrame
  <1>8. ASSUME NEW s \in Stepper, EmitGmail(s) PROVE IInv'
    <2>1. /\ emit[s].at # "idle" /\ UNCHANGED <<surface, touched, chan, gmail, graph, ews, call, clearing, resets, seen>>
          /\ \/ /\ seq' = seq + 1 /\ emit' = [emit EXCEPT ![s] = [emit[s] EXCEPT !.at = "publish"]]
             \/ /\ Current(s) \notin DOMAIN gmail.watches
                /\ emit' = [emit EXCEPT ![s] = NextPush(s)] /\ seq' = seq
      BY <1>8 DEF EmitGmail, NextSeq
    <2>2. GmailTypes'
      BY <1>0, <2>1 DEF GmailTypes
    <2>3. CASE seq' = seq + 1 /\ emit' = [emit EXCEPT ![s] = [emit[s] EXCEPT !.at = "publish"]]
      <3> DEFINE r == [emit[s] EXCEPT !.at = "publish"]
      <3>1. r \in Emission /\ r.n = emit[s].n /\ r.todo = emit[s].todo /\ r.at \in Stage[surface]
        BY <1>0 DEF Emission, Stage
      <3>2. emit' = [emit EXCEPT ![s] = r]
        BY <2>3
      <3> HIDE DEF r
      <3>3. /\ EmitInv' /\ emit' \in [Stepper -> Emission]
            /\ \A H, a, k : Covers(touched, emit, H, a, k) => Covers(touched', emit', H, a, k)
            /\ \A H, a : Honest(touched, emit, H, a) => Honest(touched', emit', H, a)
        BY <2>1, <3>1, <3>2, StageStep
      <3>4. GmailInv'
        BY <2>1, <3>3, GmailKept
      <3> QED
        BY <1>0, <2>1, <2>2, <2>3, <3>3, <3>4, GmailFrame
    <2>4. CASE /\ Current(s) \notin DOMAIN gmail.watches
               /\ emit' = [emit EXCEPT ![s] = NextPush(s)] /\ seq' = seq
      <3>1. /\ \A H, a, k : Covers(touched, emit, H, a, k) /\ a # Current(s) => Covers(touched', emit', H, a, k)
            /\ \A H, a : Honest(touched, emit, H, a) => Honest(touched', emit', H, a)
            /\ EmitInv' /\ emit' \in [Stepper -> Emission]
        BY <2>1, <2>4, PushStep
      <3>2. GmailInv'
        BY <1>0, <2>1, <2>4, <3>1 DEF GmailInv
      <3> QED
        BY <1>0, <2>1, <2>2, <2>4, <3>1, <3>2, GmailFrame
    <2> QED
      BY <2>1, <2>3, <2>4
  <1>9. ASSUME Clear PROVE IInv'
    <2>1. /\ UNCHANGED <<surface, touched, emit, seq, chan, call, graph, ews>>
          /\ clearing' \in 0..1 /\ resets' \in Nat
          /\ seen' = [told |-> seen'.told, taken |-> seen'.taken, gone |-> seen'.gone]
          /\ seen'.told = seen.told /\ seen'.gone = seen.gone
          /\ clearing = 0 => gmail' = [gmail EXCEPT !.watches = << >>] /\ seen'.taken = seen.taken
          /\ clearing = 1 => /\ gmail' = [gmail EXCEPT !.sink = << >>]
                             /\ seen'.taken = seen.taken \cup Scripted(gmail.sink)
      BY <1>9, ClearIs
    <2>2. CASE clearing = 0
      <3>1. /\ gmail' = [watches |-> gmail'.watches, sink |-> gmail'.sink]
            /\ gmail'.watches = << >> /\ gmail'.sink = gmail.sink
        BY <1>0, <2>1, <2>2 DEF GmailTypes
      <3>2. GmailTypes'
        BY <1>0, <3>1 DEF GmailTypes
      <3>3. GmailInv'
        BY <1>k, <2>1, <2>2, <3>1, GmailKept
      <3> QED
        BY <1>0, <1>e, <2>1, <3>2, <3>3, GmailFrame
    <2>3. CASE clearing = 1
      <3>1. GmailTypes' /\ GmailInv'
        BY <1>5, <2>1, <2>3
      <3> QED
        BY <1>0, <1>e, <2>1, <3>1, GmailFrame
    <2> QED
      BY <1>0, <2>2, <2>3
  <1> QED
    BY <1>1, <1>2, <1>3, <1>4, <1>6, <1>7, <1>8, <1>9

(* A step of the Graph subscriptions. *)
LEMMA GraphFrame ==
  ASSUME IInv, surface = "graph", emit' \in [Stepper -> Emission], EmitInv',
         UNCHANGED <<surface, touched, chan, gmail, ews, call>>, seq' \in {seq, seq + 1},
         clearing' \in 0..1, resets' \in Nat,
         seen' = [told |-> seen'.told, taken |-> seen'.taken, gone |-> seen'.gone],
         seen'.told = seen.told, seen'.taken = seen.taken, seen'.gone \in [Id -> Nat],
         GraphTypes', GraphInv', NotifyInv',
         \A k \in 1..Len(graph'.log) : /\ graph'.log[k][2] <= seen'.gone[graph'.log[k][1]]
                                       /\ graph'.log[k][2] <= Len(touched),
         \A i \in Id : i \in DOMAIN graph'.subs \/ i >= seq' => seen'.gone[i] = MaxStep,
         \A s \in Stepper : emit'[s].at = "notify" =>
            \A b \in emit'[s].subs : emit'[s].n <= seen'.gone[b.id]
  PROVE  IInv'
  <1> USE EmptyFacts DEF IInv, AllTypes
  <1>0. seq \in Nat \ {0} /\ seq' \in Nat \ {0} /\ \A i \in Nat : i >= seq' => i >= seq
    BY DEF Types
  <1>1. Types'
    BY <1>0 DEF Types
  <1>2. SeenTypes'
    BY <1>0 DEF SeenTypes, Id
  <1>3. Foreign'
    BY DEF Foreign
  <1>4. SilentInv'
    <2>0. "enqueue" \notin Stage[surface'] /\ surface' = "graph"
      BY Stages DEF Surface
    <2>1. \A s \in Stepper : emit'[s].at # "enqueue"
      BY <2>0 DEF EmitInv
    <2>2. ews' = [subs |-> << >>, events |-> << >>] /\ \A i \in Id : seen'.told[i] = {}
      BY <1>3 DEF Foreign
    <2>3. DOMAIN ews'.subs = {} /\ DOMAIN ews'.events = {}
      BY <2>2
    <2> QED
      BY <2>1, <2>2, <2>3 DEF SilentInv, SilentAfterDelete
  <1> QED
    BY <1>1, <1>2, <1>3, <1>4, Elsewhere

(* Neither a subscription nor the logs change. *)
LEMMA NotedKept ==
  ASSUME NEW tch, NEW em, NEW em2, NEW g, NEW g2, NEW i, NotedOnce(tch, em, g, i),
         g2.subs[i] = g.subs[i], g2.log = g.log, g2.excluded = g.excluded,
         LET noted == Noted(InOwnLog(g, i), i) IN
         /\ Covers(tch, em2, noted, g.subs[i].acct, g.subs[i].since)
         /\ \A n \in noted : \A s \in Stepper :
              em2[s].n = n /\ g.subs[i].acct \in em2[s].todo =>
                em2[s].at = "notify" /\ Least(em2[s].todo) = g.subs[i].acct /\ Entry(g, i) \notin em2[s].subs
  PROVE  NotedOnce(tch, em2, g2, i)
  <1>1. InOwnLog(g2, i) = InOwnLog(g, i) /\ InOtherLog(g2, i) = InOtherLog(g, i) /\ Entry(g2, i) = Entry(g, i)
    BY DEF InOwnLog, InOtherLog, Entry
  <1> QED
    BY <1>1 DEF NotedOnce

LEMMA GraphStep ==
  ASSUME IInv, surface = "graph",
         \/ \E a \in Caller, r \in Resource : CreateSubscription(a, r)
         \/ \E i \in Id : DeleteSubscription(i)
         \/ \E s \in Stepper : EmitGraph(s) \/ EmitNotify(s) \/ EmitNotified(s)
         \/ Clear
  PROVE  IInv'
  <1> USE PushAssumption, EmptyFacts
  <1>0. /\ Types /\ EmitInv /\ GraphTypes /\ GraphInv /\ NotifyInv /\ SeenTypes /\ SilentInv
        /\ Len(touched) \in Nat /\ Len(touched) <= MaxStep /\ seq \in Nat \ {0}
        /\ clearing \in 0..1 /\ resets \in Nat /\ emit \in [Stepper -> Emission] /\ MaxStep \in Nat
        /\ seen = [told |-> seen.told, taken |-> seen.taken, gone |-> seen.gone]
        /\ seen.gone \in [Id -> Nat]
        /\ graph = [subs |-> graph.subs, log |-> graph.log, excluded |-> graph.excluded]
    BY DEF IInv, AllTypes, Types, SeenTypes, GraphTypes
  <1>s. /\ \A k \in 1..Len(graph.log) : /\ graph.log[k][2] <= seen.gone[graph.log[k][1]]
                                        /\ graph.log[k][2] <= Len(touched)
        /\ \A i \in Id : i \in DOMAIN graph.subs \/ i >= seq => seen.gone[i] = MaxStep
        /\ \A s \in Stepper : emit[s].at = "notify" =>
              \A b \in emit[s].subs : emit[s].n <= seen.gone[b.id]
    BY <1>0 DEF SilentInv, SilentAfterDelete
  <1>e. UNCHANGED <<surface, touched, emit>> => EmitInv' /\ emit' \in [Stepper -> Emission]
    BY <1>0 DEF EmitInv
  <1>n. \A s \in Stepper : emit[s].at = "notify" => emit[s].n \in 1..Len(touched)
    BY <1>0, NextPushIs
  <1>1. ASSUME NEW a \in Caller, NEW r \in Resource, CreateSubscription(a, r) PROVE IInv'
    <2> DEFINE sub == [acct |-> SubscriptionAccount(a, r), ns |-> r.ns, of |-> r.of,
                       since |-> Len(touched), during |-> clearing # 0]
    <2>1. /\ UNCHANGED <<surface, touched, emit, chan, gmail, ews, call, clearing, resets, seen>>
          /\ seq <= MaxSeq /\ seq' = seq + 1
          /\ graph' = [graph EXCEPT !.subs = With(graph.subs, seq, sub)]
      BY <1>1 DEF CreateSubscription, NextSeq, Committed
    <2>2. sub \in GraphSub /\ (sub.ns = "shared" => sub.of = sub.acct)
          /\ sub.since = Len(touched) /\ (clearing = 1 => sub.during)
      <3>1. a \in Account /\ 0 \in 0..NAccount /\ Account \subseteq 0..NAccount
        BY DEF Account
      <3>2. r.ns \in Namespace /\ r.of \in 0..NAccount /\ (r.ns = "shared" => r.of \in Account)
        BY <3>1 DEF Resource, Namespace
      <3>3. SubscriptionAccount(a, r) \in Account /\ (r.ns = "shared" => r.of = SubscriptionAccount(a, r))
        BY <3>1, <3>2 DEF SubscriptionAccount
      <3>4. sub \in GraphSub
        BY <1>0, <3>2, <3>3 DEF GraphSub
      <3>5. clearing = 1 => (clearing # 0)
        OBVIOUS
      <3>6. clearing = 1 => sub.during
        BY <3>5, Zenon
      <3> QED
        BY <3>3, <3>4, <3>6
    <2> HIDE DEF sub
    <2>3. /\ graph' = [subs |-> graph'.subs, log |-> graph'.log, excluded |-> graph'.excluded]
          /\ graph'.subs = With(graph.subs, seq, sub)
          /\ graph'.log = graph.log /\ graph'.excluded = graph.excluded
      BY <1>0, <2>1
    <2>4. /\ DOMAIN graph'.subs = DOMAIN graph.subs \cup {seq} /\ graph'.subs[seq] = sub
          /\ \A i \in DOMAIN graph.subs : i # seq /\ graph'.subs[i] = graph.subs[i]
      <3>1. graph'.subs = [x \in DOMAIN graph.subs \cup {seq} |-> IF x = seq THEN sub ELSE graph.subs[x]]
        BY <2>3 DEF With
      <3>2. seq \notin DOMAIN graph.subs
        BY <1>0 DEF GraphTypes
      <3> QED
        BY <3>1, <3>2
    <2>5. seq \in Id
      BY <1>0, <2>1 DEF Id
    <2>6. GraphTypes'
      <3>1. graph'.subs \in [DOMAIN graph'.subs -> GraphSub]
        BY <1>0, <2>2, <2>3, <2>4 DEF GraphTypes, With
      <3>2. \A i \in DOMAIN graph'.subs : i \in Id /\ i < seq'
        <4>1. \A i \in DOMAIN graph.subs : i \in Id /\ i < seq /\ i \in Nat
          BY <1>0 DEF GraphTypes, Id
        <4> QED
          BY <1>0, <2>1, <2>4, <2>5, <4>1
      <3> QED
        BY <1>0, <2>3, <3>1, <3>2 DEF GraphTypes
    <2>7. NotedOnce(touched, emit, graph', seq)
      <3>1. \A e \in ToSet(graph.log) \cup ToSet(graph.excluded) : e[1] # seq
        BY <1>0 DEF GraphInv, GraphTypes
      <3>2. /\ \A n : <<seq, n>> \notin ToSet(InOwnLog(graph', seq))
            /\ \A n : <<seq, n>> \notin ToSet(InOtherLog(graph', seq))
        BY <2>3, <3>1 DEF InOwnLog, InOtherLog
      <3>3. Noted(InOwnLog(graph', seq), seq) = {}
        BY <3>2 DEF Noted
      <3>4. \A n : AtMostOnce(InOwnLog(graph', seq), <<seq, n>>)
        BY <3>2 DEF AtMostOnce, ToSet
      <3>5. Owed(touched, graph'.subs[seq].acct, graph'.subs[seq].since) = {}
        BY <1>0, <2>2, <2>4 DEF Owed
      <3> QED
        BY <3>2, <3>3, <3>4, <3>5 DEF NotedOnce, Covers
    <2>8. ASSUME NEW i \in DOMAIN graph.subs, NotedOnce(touched, emit, graph, i)
          PROVE  NotedOnce(touched, emit, graph', i)
      <3>1. /\ Covers(touched, emit, Noted(InOwnLog(graph, i), i), graph.subs[i].acct, graph.subs[i].since)
            /\ \A n \in Noted(InOwnLog(graph, i), i) : \A s \in Stepper :
                 emit[s].n = n /\ graph.subs[i].acct \in emit[s].todo =>
                   /\ emit[s].at = "notify" /\ Least(emit[s].todo) = graph.subs[i].acct
                   /\ Entry(graph, i) \notin emit[s].subs
        BY <2>8 DEF NotedOnce
      <3> QED
        BY <2>3, <2>4, <2>8, <3>1, NotedKept
    <2>9. GraphInv'
      <3>1. clearing' = 1 => \A i \in DOMAIN graph'.subs : graph'.subs[i].during
        <4>1. clearing = 1 => sub.during /\ \A i \in DOMAIN graph.subs : graph.subs[i].during
          BY <1>0, <2>2 DEF GraphInv
        <4> QED
          BY <2>1, <2>4, <4>1
      <3>2. \A i \in DOMAIN graph'.subs :
               graph'.subs[i].ns = "shared" => graph'.subs[i].of = graph'.subs[i].acct
        BY <1>0, <2>2, <2>4 DEF GraphInv
      <3>3. \A e \in ToSet(graph'.log) \cup ToSet(graph'.excluded) : e[1] < seq'
        <4>1. \A e \in ToSet(graph.log) \cup ToSet(graph.excluded) : e[1] < seq /\ e[1] \in Nat
          <5>1. ToSet(graph.log) \subseteq Note /\ ToSet(graph.excluded) \subseteq Note
            BY <1>0 DEF GraphTypes, ToSet
          <5>2. \A e \in Note : e[1] \in Nat
            BY DEF Note, Id
          <5> QED
            BY <1>0, <5>1, <5>2 DEF GraphInv
        <4> QED
          BY <1>0, <2>1, <2>3, <4>1
      <3>4. \A i \in DOMAIN graph'.subs : ~graph'.subs[i].during => NotedOnce(touched', emit', graph', i)
        BY <1>0, <2>1, <2>4, <2>7, <2>8 DEF GraphInv
      <3> QED
        BY <3>1, <3>2, <3>3, <3>4 DEF GraphInv
    <2>10. NotifyInv'
      <3> SUFFICES ASSUME NEW s \in Stepper, emit[s].at = "notify"
          PROVE /\ \A b \in emit[s].subs :
                     /\ b \in [id : Id, ns : Namespace] /\ b.id < seq'
                     /\ b.id \in DOMAIN graph'.subs =>
                          graph'.subs[b.id].acct = Least(emit[s].todo) /\ graph'.subs[b.id].ns = b.ns
                /\ \A i \in DOMAIN graph'.subs :
                     ~graph'.subs[i].during /\ graph'.subs[i].acct = Least(emit[s].todo)
                       /\ graph'.subs[i].since < emit[s].n
                       => Entry(graph', i) \in emit[s].subs \/ emit[s].n \in Noted(InOwnLog(graph', i), i)
        BY <2>1 DEF NotifyInv
      <3>1. ASSUME NEW b \in emit[s].subs
            PROVE  /\ b \in [id : Id, ns : Namespace] /\ b.id < seq'
                   /\ b.id \in DOMAIN graph'.subs =>
                        graph'.subs[b.id].acct = Least(emit[s].todo) /\ graph'.subs[b.id].ns = b.ns
        <4>1. /\ b \in [id : Id, ns : Namespace] /\ b.id < seq
              /\ b.id \in DOMAIN graph.subs =>
                   graph.subs[b.id].acct = Least(emit[s].todo) /\ graph.subs[b.id].ns = b.ns
          BY <1>0 DEF NotifyInv
        <4>2. b.id \in Nat
          BY <4>1 DEF Id
        <4> QED
          BY <1>0, <2>1, <2>4, <4>1, <4>2
      <3>2. ASSUME NEW i \in DOMAIN graph'.subs, ~graph'.subs[i].during,
                   graph'.subs[i].acct = Least(emit[s].todo), graph'.subs[i].since < emit[s].n
            PROVE  Entry(graph', i) \in emit[s].subs \/ emit[s].n \in Noted(InOwnLog(graph', i), i)
        <4>1. i # seq
          BY <1>0, <1>n, <2>2, <2>4, <3>2
        <4>2. i \in DOMAIN graph.subs /\ graph'.subs[i] = graph.subs[i]
          BY <2>4, <4>1
        <4>3. Entry(graph', i) = Entry(graph, i) /\ InOwnLog(graph', i) = InOwnLog(graph, i)
          BY <2>3, <4>2 DEF Entry, InOwnLog
        <4> QED
          BY <1>0, <3>2, <4>2, <4>3 DEF NotifyInv
      <3> QED
        BY <3>1, <3>2
    <2>11. \A i \in Id : i \in DOMAIN graph'.subs \/ i >= seq' => seen'.gone[i] = MaxStep
      BY <1>0, <1>s, <2>1, <2>4 DEF Id
    <2>12. /\ \A k \in 1..Len(graph'.log) : /\ graph'.log[k][2] <= seen'.gone[graph'.log[k][1]]
                                            /\ graph'.log[k][2] <= Len(touched)
           /\ \A s \in Stepper : emit'[s].at = "notify" =>
                \A b \in emit'[s].subs : emit'[s].n <= seen'.gone[b.id]
      BY <1>s, <2>1, <2>3
    <2>13. /\ seq' \in {seq, seq + 1} /\ clearing' \in 0..1 /\ resets' \in Nat
           /\ seen' = [told |-> seen'.told, taken |-> seen'.taken, gone |-> seen'.gone]
           /\ seen'.told = seen.told /\ seen'.taken = seen.taken /\ seen'.gone \in [Id -> Nat]
           /\ UNCHANGED <<surface, touched, chan, gmail, ews, call>>
           /\ EmitInv' /\ emit' \in [Stepper -> Emission]
      BY <1>0, <1>e, <2>1
    <2> QED
      BY <2>6, <2>9, <2>10, <2>11, <2>12, <2>13, GraphFrame
  <1>2. ASSUME UNCHANGED <<surface, touched, emit, seq, chan, gmail, ews, call>>,
               graph' = [subs |-> graph'.subs, log |-> graph'.log, excluded |-> graph'.excluded],
               graph'.log = graph.log, graph'.excluded = graph.excluded,
               graph'.subs \in [DOMAIN graph'.subs -> GraphSub],
               \A i \in DOMAIN graph'.subs : i \in DOMAIN graph.subs /\ graph'.subs[i] = graph.subs[i],
               clearing' \in 0..1, resets' \in Nat, clearing' = clearing \/ DOMAIN graph'.subs = {},
               seen' = [told |-> seen'.told, taken |-> seen'.taken, gone |-> seen'.gone],
               seen'.told = seen.told, seen'.taken = seen.taken, seen'.gone \in [Id -> Nat],
               \A i \in Id : \/ seen'.gone[i] = seen.gone[i]
                             \/ seen'.gone[i] = Len(touched) /\ i \notin DOMAIN graph'.subs /\ i < seq
        PROVE  IInv'
    <2>1. GraphTypes'
      BY <1>0, <1>2 DEF GraphTypes
    <2>2. ASSUME NEW i \in DOMAIN graph.subs, graph'.subs[i] = graph.subs[i], NotedOnce(touched, emit, graph, i)
          PROVE  NotedOnce(touched, emit, graph', i)
      <3>1. /\ Covers(touched, emit, Noted(InOwnLog(graph, i), i), graph.subs[i].acct, graph.subs[i].since)
            /\ \A n \in Noted(InOwnLog(graph, i), i) : \A s \in Stepper :
                 emit[s].n = n /\ graph.subs[i].acct \in emit[s].todo =>
                   /\ emit[s].at = "notify" /\ Least(emit[s].todo) = graph.subs[i].acct
                   /\ Entry(graph, i) \notin emit[s].subs
        BY <2>2 DEF NotedOnce
      <3> QED
        BY <1>2, <2>2, <3>1, NotedKept
    <2>3. GraphInv'
      <3>1. clearing' = 1 => \A i \in DOMAIN graph'.subs : graph'.subs[i].during
        BY <1>0, <1>2 DEF GraphInv
      <3>2. \A i \in DOMAIN graph'.subs :
               graph'.subs[i].ns = "shared" => graph'.subs[i].of = graph'.subs[i].acct
        BY <1>0, <1>2 DEF GraphInv
      <3>3. \A e \in ToSet(graph'.log) \cup ToSet(graph'.excluded) : e[1] < seq'
        BY <1>0, <1>2 DEF GraphInv
      <3>4. \A i \in DOMAIN graph'.subs : ~graph'.subs[i].during => NotedOnce(touched', emit', graph', i)
        BY <1>0, <1>2, <2>2 DEF GraphInv
      <3> QED
        BY <3>1, <3>2, <3>3, <3>4 DEF GraphInv
    <2>4. NotifyInv'
      <3> SUFFICES ASSUME NEW s \in Stepper, emit[s].at = "notify"
          PROVE /\ \A b \in emit[s].subs :
                     /\ b \in [id : Id, ns : Namespace] /\ b.id < seq
                     /\ b.id \in DOMAIN graph'.subs =>
                          graph'.subs[b.id].acct = Least(emit[s].todo) /\ graph'.subs[b.id].ns = b.ns
                /\ \A i \in DOMAIN graph'.subs :
                     ~graph'.subs[i].during /\ graph'.subs[i].acct = Least(emit[s].todo)
                       /\ graph'.subs[i].since < emit[s].n
                       => Entry(graph', i) \in emit[s].subs \/ emit[s].n \in Noted(InOwnLog(graph', i), i)
        BY <1>2 DEF NotifyInv
      <3>1. \A b \in emit[s].subs :
               /\ b \in [id : Id, ns : Namespace] /\ b.id < seq
               /\ b.id \in DOMAIN graph'.subs =>
                    graph'.subs[b.id].acct = Least(emit[s].todo) /\ graph'.subs[b.id].ns = b.ns
        BY <1>0, <1>2 DEF NotifyInv
      <3>2. ASSUME NEW i \in DOMAIN graph'.subs, ~graph'.subs[i].during,
                   graph'.subs[i].acct = Least(emit[s].todo), graph'.subs[i].since < emit[s].n
            PROVE  Entry(graph', i) \in emit[s].subs \/ emit[s].n \in Noted(InOwnLog(graph', i), i)
        <4>2. i \in DOMAIN graph.subs /\ graph'.subs[i] = graph.subs[i]
          BY <1>2
        <4>3. Entry(graph', i) = Entry(graph, i) /\ InOwnLog(graph', i) = InOwnLog(graph, i)
          BY <1>2, <4>2 DEF Entry, InOwnLog
        <4> QED
          BY <1>0, <3>2, <4>2, <4>3 DEF NotifyInv
      <3> QED
        BY <3>1, <3>2
    <2>5. \A i \in Id : i \in DOMAIN graph'.subs \/ i >= seq' => seen'.gone[i] = MaxStep
      BY <1>0, <1>s, <1>2 DEF Id
    <2>6. \A k \in 1..Len(graph'.log) : /\ graph'.log[k][2] <= seen'.gone[graph'.log[k][1]]
                                        /\ graph'.log[k][2] <= Len(touched)
      <3> SUFFICES ASSUME NEW k \in 1..Len(graph.log)
          PROVE  graph.log[k][2] <= seen'.gone[graph.log[k][1]] /\ graph.log[k][2] <= Len(touched)
        BY <1>2
      <3>0. graph.log[k] \in Note
        BY <1>0 DEF GraphTypes
      <3>1. graph.log[k][1] \in Id
        BY <3>0 DEF Note
      <3>2. graph.log[k][2] <= seen.gone[graph.log[k][1]] /\ graph.log[k][2] <= Len(touched)
        BY <1>s
      <3> QED
        BY <1>2, <3>1, <3>2
    <2>7. ASSUME NEW s \in Stepper, emit'[s].at = "notify", NEW b \in emit'[s].subs
          PROVE  emit'[s].n <= seen'.gone[b.id]
      <3>1. emit[s].at = "notify" /\ b \in emit[s].subs /\ emit'[s].n = emit[s].n
        BY <1>2, <2>7
      <3>2. b.id \in Id
        BY <1>0, <3>1 DEF NotifyInv
      <3>3. emit[s].n <= seen.gone[b.id] /\ emit[s].n <= Len(touched)
        BY <1>0, <1>s, <1>n, <3>1
      <3> QED
        BY <1>2, <3>1, <3>2, <3>3
    <2>8. EmitInv' /\ emit' \in [Stepper -> Emission] /\ seq' \in {seq, seq + 1}
      BY <1>2, <1>e
    <2> QED
      BY <1>2, <2>1, <2>3, <2>4, <2>5, <2>6, <2>7, <2>8, GraphFrame
  <1>3. ASSUME NEW i \in Id, DeleteSubscription(i) PROVE IInv'
    <2>1. /\ UNCHANGED <<surface, touched, emit, seq, chan, gmail, ews, call, clearing, resets>>
          /\ i \in DOMAIN graph.subs
          /\ graph' = [graph EXCEPT !.subs = Without(graph.subs, {i})]
          /\ seen' = [seen EXCEPT !.gone = [seen.gone EXCEPT ![i] = Len(touched)]]
      BY <1>3 DEF DeleteSubscription, Committed
    <2>2. /\ graph' = [subs |-> graph'.subs, log |-> graph'.log, excluded |-> graph'.excluded]
          /\ graph'.subs = Without(graph.subs, {i})
          /\ graph'.log = graph.log /\ graph'.excluded = graph.excluded
      BY <1>0, <2>1
    <2>3. /\ graph'.subs \in [DOMAIN graph'.subs -> GraphSub]
          /\ \A j \in DOMAIN graph'.subs : j \in DOMAIN graph.subs /\ j # i /\ graph'.subs[j] = graph.subs[j]
      <3>1. graph'.subs = [x \in DOMAIN graph.subs \ {i} |-> graph.subs[x]]
        BY <2>2 DEF Without
      <3> QED
        BY <1>0, <3>1 DEF GraphTypes
    <2>4. /\ seen' = [told |-> seen'.told, taken |-> seen'.taken, gone |-> seen'.gone]
          /\ seen'.told = seen.told /\ seen'.taken = seen.taken
          /\ seen'.gone = [seen.gone EXCEPT ![i] = Len(touched)]
      BY <1>0, <2>1
    <2>5. /\ seen'.gone \in [Id -> Nat] /\ seen'.gone[i] = Len(touched)
          /\ \A j \in Id \ {i} : seen'.gone[j] = seen.gone[j]
      BY <1>0, <2>4
    <2>6. i < seq /\ i \notin DOMAIN graph'.subs
      BY <1>0, <2>1, <2>3 DEF GraphTypes
    <2>7. clearing' \in 0..1 /\ resets' \in Nat /\ clearing' = clearing
      BY <1>0, <2>1
    <2> QED
      BY <1>2, <2>1, <2>2, <2>3, <2>4, <2>5, <2>6, <2>7
  <1>4. ASSUME Clear PROVE IInv'
    <2>1. /\ UNCHANGED <<surface, touched, emit, seq, chan, call, gmail, ews>>
          /\ clearing' = 1 - clearing /\ clearing' \in 0..1 /\ resets' \in Nat
          /\ seen' = [told |-> seen'.told, taken |-> seen'.taken, gone |-> seen'.gone]
          /\ seen'.told = seen.told /\ seen'.taken = seen.taken
          /\ clearing = 0 =>
               /\ graph' = [graph EXCEPT !.subs = << >>]
               /\ seen'.gone = [i \in Id |-> IF i \in DOMAIN graph.subs THEN Len(touched) ELSE seen.gone[i]]
          /\ clearing = 1 =>
               graph' = [graph EXCEPT !.log = << >>, !.excluded = << >>] /\ seen'.gone = seen.gone
      BY <1>4, ClearIs
    <2>2. CASE clearing = 0
      <3>1. /\ graph' = [subs |-> graph'.subs, log |-> graph'.log, excluded |-> graph'.excluded]
            /\ graph'.subs = << >> /\ graph'.log = graph.log /\ graph'.excluded = graph.excluded
        BY <1>0, <2>1, <2>2
      <3>2. DOMAIN graph'.subs = {} /\ graph'.subs \in [DOMAIN graph'.subs -> GraphSub]
        BY <3>1
      <3>3. /\ seen'.gone \in [Id -> Nat]
            /\ \A i \in Id : \/ seen'.gone[i] = seen.gone[i]
                             \/ seen'.gone[i] = Len(touched) /\ i \notin DOMAIN graph'.subs /\ i < seq
        BY <1>0, <2>1, <2>2, <3>2 DEF GraphTypes
      <3> QED
        BY <1>2, <2>1, <3>1, <3>2, <3>3
    <2>3. CASE clearing = 1
      <3>1. /\ graph' = [subs |-> graph'.subs, log |-> graph'.log, excluded |-> graph'.excluded]
            /\ graph'.subs = graph.subs /\ graph'.log = << >> /\ graph'.excluded = << >>
        BY <1>0, <2>1, <2>3
      <3>2. GraphTypes'
        <4>1. << >> \in Seq(Note)
          OBVIOUS
        <4> QED
          BY <1>0, <2>1, <3>1, <4>1 DEF GraphTypes
      <3>3. \A i \in DOMAIN graph'.subs : graph'.subs[i].during
        BY <1>0, <2>3, <3>1 DEF GraphInv
      <3>4. GraphInv'
        BY <1>0, <3>1, <3>3 DEF GraphInv
      <3>5. NotifyInv'
        BY <1>0, <2>1, <3>1, <3>3 DEF NotifyInv
      <3>6. Len(graph'.log) = 0
        BY <3>1
      <3>7. /\ \A k \in 1..Len(graph'.log) : /\ graph'.log[k][2] <= seen'.gone[graph'.log[k][1]]
                                            /\ graph'.log[k][2] <= Len(touched)
            /\ \A i \in Id : i \in DOMAIN graph'.subs \/ i >= seq' => seen'.gone[i] = MaxStep
            /\ \A s \in Stepper : emit'[s].at = "notify" =>
                 \A b \in emit'[s].subs : emit'[s].n <= seen'.gone[b.id]
        BY <1>s, <2>1, <2>3, <3>1, <3>6
      <3>8. EmitInv' /\ emit' \in [Stepper -> Emission] /\ seq' \in {seq, seq + 1} /\ seen'.gone \in [Id -> Nat]
        BY <1>0, <1>e, <2>1, <2>3
      <3> QED
        BY <2>1, <3>2, <3>4, <3>5, <3>7, <3>8, GraphFrame
    <2> QED
      BY <1>0, <2>2, <2>3
  <1>5. ASSUME NEW s \in Stepper, EmitNotified(s) PROVE IInv'
    <2> DEFINE n == emit[s].n
               c == Current(s)
    <2>1. /\ emit[s].at = "notify" /\ emit[s].subs = {} /\ emit' = [emit EXCEPT ![s] = NextPush(s)]
          /\ UNCHANGED <<surface, touched, seq, chan, gmail, graph, ews, call, clearing, resets, seen>>
      BY <1>5 DEF EmitNotified
    <2>2. /\ EmitInv' /\ emit' \in [Stepper -> Emission]
          /\ emit'[s] = NextPush(s) /\ \A t \in Stepper \ {s} : emit'[t] = emit[t]
          /\ \A H, a, k : Covers(touched, emit, H, a, k) /\ (a # c \/ n \in H \/ n \notin Owed(touched, a, k))
                           => Covers(touched', emit', H, a, k)
      BY <2>1, PushStep
    <2>3. /\ c = Least(emit[s].todo) /\ c \notin emit'[s].todo /\ emit'[s].todo \subseteq emit[s].todo
          /\ emit'[s].todo # {} => emit'[s].n = n
          /\ emit'[s].at # "notify"
      BY <1>0, <2>1, <2>2, NextPushIs
    <2>4. ASSUME NEW i \in DOMAIN graph.subs, ~graph.subs[i].during
          PROVE  NotedOnce(touched, emit', graph, i)
      <3> DEFINE noted == Noted(InOwnLog(graph, i), i)
                 a == graph.subs[i].acct
      <3>0. NotedOnce(touched, emit, graph, i)
        BY <1>0, <2>4 DEF GraphInv
      <3>1. n \in Owed(touched, a, graph.subs[i].since) /\ a = c => n \in noted
        <4>1. graph.subs[i].since \in Nat /\ Len(touched) \in Nat
          BY <1>0 DEF GraphTypes, GraphSub
        <4>2. n \in Owed(touched, a, graph.subs[i].since) => graph.subs[i].since < n
          BY <4>1 DEF Owed
        <4> QED
          BY <1>0, <2>1, <2>3, <2>4, <4>2 DEF NotifyInv
      <3>2. Covers(touched, emit, noted, a, graph.subs[i].since)
        BY <3>0 DEF NotedOnce
      <3>3. Covers(touched, emit', noted, a, graph.subs[i].since)
        <4> HIDE DEF n, c, noted, a
        <4> QED
          BY <2>1, <2>2, <3>1, <3>2
      <3>4. ASSUME NEW m \in noted, NEW t \in Stepper, emit'[t].n = m, a \in emit'[t].todo
            PROVE  emit'[t].at = "notify" /\ Least(emit'[t].todo) = a /\ Entry(graph, i) \notin emit'[t].subs
        <4>1. \A u \in Stepper : emit[u].n = m /\ a \in emit[u].todo =>
                 emit[u].at = "notify" /\ Least(emit[u].todo) = a /\ Entry(graph, i) \notin emit[u].subs
          BY <3>0 DEF NotedOnce
        <4>2. t # s
          BY <2>3, <3>4, <4>1
        <4> QED
          BY <2>2, <3>4, <4>1, <4>2
      <3> QED
        BY <3>0, <3>3, <3>4, NotedKept
    <2>5. GraphTypes' /\ GraphInv'
      BY <1>0, <2>1, <2>4 DEF GraphTypes, GraphInv
    <2>6. NotifyInv'
      BY <1>0, <2>1, <2>2, <2>3 DEF NotifyInv
    <2>7. /\ \A k \in 1..Len(graph'.log) : /\ graph'.log[k][2] <= seen'.gone[graph'.log[k][1]]
                                          /\ graph'.log[k][2] <= Len(touched)
          /\ \A i \in Id : i \in DOMAIN graph'.subs \/ i >= seq' => seen'.gone[i] = MaxStep
          /\ \A t \in Stepper : emit'[t].at = "notify" =>
               \A b \in emit'[t].subs : emit'[t].n <= seen'.gone[b.id]
      BY <1>s, <2>1, <2>2, <2>3
    <2>8. /\ seq' \in {seq, seq + 1} /\ clearing' \in 0..1 /\ resets' \in Nat
          /\ seen' = [told |-> seen'.told, taken |-> seen'.taken, gone |-> seen'.gone]
          /\ seen'.told = seen.told /\ seen'.taken = seen.taken /\ seen'.gone \in [Id -> Nat]
      BY <1>0, <2>1
    <2> QED
      BY <2>1, <2>2, <2>5, <2>6, <2>7, <2>8, GraphFrame
  <1>6. ASSUME NEW s \in Stepper, EmitGraph(s) PROVE IInv'
    <2> DEFINE c == Current(s)
               S == {[id |-> i, ns |-> graph.subs[i].ns] : i \in {j \in DOMAIN graph.subs : graph.subs[j].acct = c}}
               r == [emit[s] EXCEPT !.at = "notify", !.subs = S]
    <2>1. /\ emit[s].at = "graph" /\ emit' = [emit EXCEPT ![s] = r]
          /\ UNCHANGED <<surface, touched, seq, chan, gmail, graph, ews, call, clearing, resets, seen>>
      BY <1>6 DEF EmitGraph
    <2>2. ASSUME NEW b \in S
          PROVE  /\ b \in [id : Id, ns : Namespace] /\ b.id < seq /\ b.id \in DOMAIN graph.subs
                 /\ graph.subs[b.id].acct = c /\ graph.subs[b.id].ns = b.ns
      <3>1. PICK i \in DOMAIN graph.subs : graph.subs[i].acct = c /\ b = [id |-> i, ns |-> graph.subs[i].ns]
        BY <2>2
      <3>2. i \in Id /\ i < seq /\ graph.subs[i].ns \in Namespace
        BY <1>0 DEF GraphTypes, GraphSub
      <3> QED
        BY <3>1, <3>2
    <2>3. ASSUME NEW i \in DOMAIN graph.subs, graph.subs[i].acct = c PROVE Entry(graph, i) \in S
      BY <2>3 DEF Entry
    <2> HIDE DEF S
    <2>4. S \subseteq Pending
      BY <2>2 DEF Pending
    <2>5. r \in Emission /\ r.n = emit[s].n /\ r.todo = emit[s].todo /\ r.at = "notify" /\ r.subs = S
      BY <1>0, <2>4 DEF Emission
    <2>6. r.at \in Stage[surface] /\ emit[s].at # "idle"
      BY <2>1, <2>5 DEF Stage
    <2> HIDE DEF r
    <2>7. /\ EmitInv' /\ emit' \in [Stepper -> Emission]
          /\ emit'[s] = r /\ \A t \in Stepper \ {s} : emit'[t] = emit[t]
          /\ \A H, a, k : Covers(touched', emit', H, a, k) <=> Covers(touched, emit, H, a, k)
      BY <2>1, <2>5, <2>6, StageStep
    <2>8. c = Least(emit[s].todo) /\ emit[s].n \in 1..Len(touched)
      BY <1>0, <2>6, NextPushIs
    <2>9. ASSUME NEW i \in DOMAIN graph.subs, ~graph.subs[i].during
          PROVE  NotedOnce(touched, emit', graph, i)
      <3> DEFINE noted == Noted(InOwnLog(graph, i), i)
                 a == graph.subs[i].acct
      <3>0. NotedOnce(touched, emit, graph, i)
        BY <1>0, <2>9 DEF GraphInv
      <3>1. Covers(touched, emit', noted, a, graph.subs[i].since)
        BY <2>1, <2>7, <3>0 DEF NotedOnce
      <3>2. ASSUME NEW m \in noted, NEW t \in Stepper, emit'[t].n = m, a \in emit'[t].todo
            PROVE  emit'[t].at = "notify" /\ Least(emit'[t].todo) = a /\ Entry(graph, i) \notin emit'[t].subs
        <4>1. \A u \in Stepper : emit[u].n = m /\ a \in emit[u].todo =>
                 emit[u].at = "notify" /\ Least(emit[u].todo) = a /\ Entry(graph, i) \notin emit[u].subs
          BY <3>0 DEF NotedOnce
        <4>2. t # s
          BY <2>1, <2>5, <2>7, <3>2, <4>1
        <4> QED
          BY <2>7, <3>2, <4>1, <4>2
      <3> QED
        BY <3>0, <3>1, <3>2, NotedKept
    <2>10. GraphTypes' /\ GraphInv'
      BY <1>0, <2>1, <2>9 DEF GraphTypes, GraphInv
    <2>11. NotifyInv'
      <3> SUFFICES ASSUME NEW t \in Stepper, emit'[t].at = "notify"
          PROVE /\ \A b \in emit'[t].subs :
                     /\ b \in [id : Id, ns : Namespace] /\ b.id < seq
                     /\ b.id \in DOMAIN graph.subs =>
                          graph.subs[b.id].acct = Least(emit'[t].todo) /\ graph.subs[b.id].ns = b.ns
                /\ \A i \in DOMAIN graph.subs :
                     ~graph.subs[i].during /\ graph.subs[i].acct = Least(emit'[t].todo)
                       /\ graph.subs[i].since < emit'[t].n
                       => Entry(graph, i) \in emit'[t].subs \/ emit'[t].n \in Noted(InOwnLog(graph, i), i)
        BY <2>1 DEF NotifyInv
      <3>1. CASE t = s
        BY <2>2, <2>3, <2>5, <2>7, <2>8, <3>1
      <3>2. CASE t # s
        BY <1>0, <2>7, <3>2 DEF NotifyInv
      <3> QED
        BY <3>1, <3>2
    <2>12. ASSUME NEW t \in Stepper, emit'[t].at = "notify", NEW b \in emit'[t].subs
           PROVE  emit'[t].n <= seen'.gone[b.id]
      <3>1. CASE t = s
        <4>1. b \in S /\ emit'[t].n = emit[s].n
          BY <2>5, <2>7, <2>12, <3>1
        <4>2. seen.gone[b.id] = MaxStep
          BY <1>s, <2>2, <4>1
        <4> QED
          BY <1>0, <2>1, <2>8, <4>1, <4>2
      <3>2. CASE t # s
        BY <1>s, <2>1, <2>7, <2>12, <3>2
      <3> QED
        BY <3>1, <3>2
    <2>13. /\ \A k \in 1..Len(graph'.log) : /\ graph'.log[k][2] <= seen'.gone[graph'.log[k][1]]
                                           /\ graph'.log[k][2] <= Len(touched)
           /\ \A i \in Id : i \in DOMAIN graph'.subs \/ i >= seq' => seen'.gone[i] = MaxStep
      BY <1>s, <2>1
    <2>14. /\ seq' \in {seq, seq + 1} /\ clearing' \in 0..1 /\ resets' \in Nat
           /\ seen' = [told |-> seen'.told, taken |-> seen'.taken, gone |-> seen'.gone]
           /\ seen'.told = seen.told /\ seen'.taken = seen.taken /\ seen'.gone \in [Id -> Nat]
      BY <1>0, <2>1
    <2> QED
      BY <2>1, <2>7, <2>10, <2>11, <2>12, <2>13, <2>14, GraphFrame
  <1>7. ASSUME NEW s \in Stepper, EmitNotify(s) PROVE IInv'
    <2> DEFINE n == emit[s].n
    <2>1. PICK b \in emit[s].subs :
            /\ graph' = IF Emits(b.ns)
                          THEN [graph EXCEPT !.log = Append(graph.log, Notification(b.id, s))]
                          ELSE [graph EXCEPT !.excluded = Append(graph.excluded, Notification(b.id, s))]
            /\ emit' = [emit EXCEPT ![s].subs = emit[s].subs \ {b}]
      BY <1>7 DEF EmitNotify
    <2>2. /\ emit[s].at = "notify"
          /\ UNCHANGED <<surface, touched, seq, chan, gmail, ews, call, clearing, resets, seen>>
      BY <1>7 DEF EmitNotify
    <2> DEFINE r == [emit[s] EXCEPT !.subs = emit[s].subs \ {b}]
               x == <<b.id, n>>
    <2>3. r \in Emission /\ r.n = n /\ r.todo = emit[s].todo /\ r.at = "notify" /\ r.subs = emit[s].subs \ {b}
      BY <1>0, <2>2 DEF Emission
    <2>4. r.at \in Stage[surface] /\ emit[s].at # "idle" /\ emit' = [emit EXCEPT ![s] = r]
      BY <2>1, <2>2, <2>3 DEF Stage
    <2> HIDE DEF r
    <2>5. /\ EmitInv' /\ emit' \in [Stepper -> Emission]
          /\ emit'[s] = r /\ \A t \in Stepper \ {s} : emit'[t] = emit[t]
          /\ \A H, a, k : Covers(touched', emit', H, a, k) <=> Covers(touched, emit, H, a, k)
      BY <2>2, <2>3, <2>4, StageStep
    <2>6. /\ n \in 1..Len(touched) /\ n \in 1..MaxStep
          /\ Least(emit[s].todo) \in emit[s].todo /\ Least(emit[s].todo) \in touched[n]
          /\ \A t \in Stepper \ {s} : emit[t].todo # {} => emit[t].n # n
      BY <1>0, <2>4, NextPushIs
    <2>7. /\ b \in [id : Id, ns : Namespace] /\ b.id \in Id /\ b.id < seq
          /\ b.id \in DOMAIN graph.subs =>
               graph.subs[b.id].acct = Least(emit[s].todo) /\ graph.subs[b.id].ns = b.ns
      BY <1>0, <2>2 DEF NotifyInv
    <2> HIDE DEF n
    <2>8. x \in Note /\ x[1] = b.id /\ x[2] = n /\ \A i, m : <<i, m>> = x => i = b.id /\ m = n
      BY <2>6, <2>7 DEF Note
    <2>9. /\ graph' = [subs |-> graph'.subs, log |-> graph'.log, excluded |-> graph'.excluded]
          /\ graph'.subs = graph.subs
          /\ b.ns # "public" => graph'.log = Append(graph.log, x) /\ graph'.excluded = graph.excluded
          /\ b.ns = "public" => graph'.excluded = Append(graph.excluded, x) /\ graph'.log = graph.log
      BY <1>0, <2>1 DEF Emits, Notification, n
    <2> HIDE DEF x
    <2>10. ASSUME NEW q \in Seq(Note)
           PROVE  /\ Append(q, x) \in Seq(Note) /\ Len(Append(q, x)) = Len(q) + 1 /\ Len(q) \in Nat
                  /\ (\A k \in 1..Len(q) : Append(q, x)[k] = q[k]) /\ Append(q, x)[Len(q) + 1] = x
                  /\ ToSet(Append(q, x)) = ToSet(q) \cup {x}
                  /\ \A y : AtMostOnce(q, y) /\ (y = x => y \notin ToSet(q)) => AtMostOnce(Append(q, x), y)
      BY <2>8, <2>10, AppendFacts
    <2>11. graph.log \in Seq(Note) /\ graph.excluded \in Seq(Note)
      BY <1>0 DEF GraphTypes
    <2>12. GraphTypes'
      <3>1. graph'.log \in Seq(Note) /\ graph'.excluded \in Seq(Note)
        BY <2>9, <2>10, <2>11
      <3> QED
        BY <1>0, <2>2, <2>9, <3>1 DEF GraphTypes
    <2>13. /\ ToSet(graph.log) \subseteq ToSet(graph'.log) /\ ToSet(graph'.log) \subseteq ToSet(graph.log) \cup {x}
           /\ ToSet(graph.excluded) \subseteq ToSet(graph'.excluded)
           /\ ToSet(graph'.excluded) \subseteq ToSet(graph.excluded) \cup {x}
      BY <2>9, <2>10, <2>11
    <2>14. ASSUME NEW i \in DOMAIN graph.subs
           PROVE  /\ Entry(graph', i) = Entry(graph, i)
                  /\ Noted(InOwnLog(graph, i), i) \subseteq Noted(InOwnLog(graph', i), i)
                  /\ Entry(graph, i) = b => n \in Noted(InOwnLog(graph', i), i)
      <3>1. Entry(graph', i) = Entry(graph, i) /\ graph'.subs[i] = graph.subs[i]
        BY <2>9 DEF Entry
      <3>2. Noted(InOwnLog(graph, i), i) \subseteq Noted(InOwnLog(graph', i), i)
        BY <2>13, <3>1 DEF InOwnLog, Noted
      <3>3. ASSUME Entry(graph, i) = b PROVE n \in Noted(InOwnLog(graph', i), i)
        <4>1. b.id = i /\ b.ns = graph.subs[i].ns
          BY <3>3 DEF Entry
        <4>2. InOwnLog(graph', i) = Append(InOwnLog(graph, i), x)
          BY <2>9, <3>1, <4>1 DEF InOwnLog
        <4>3. InOwnLog(graph, i) \in Seq(Note)
          BY <2>11 DEF InOwnLog
        <4>4. x \in ToSet(InOwnLog(graph', i)) /\ x = <<i, n>>
          BY <2>10, <4>1, <4>2, <4>3 DEF x
        <4> QED
          BY <2>6, <4>4 DEF Noted
      <3> QED
        BY <3>1, <3>2, <3>3
    <2>15. ASSUME NEW i \in DOMAIN graph.subs, NotedOnce(touched, emit, graph, i)
           PROVE  NotedOnce(touched, emit', graph', i)
      <3> DEFINE own == InOwnLog(graph, i)
                 own2 == InOwnLog(graph', i)
                 oth == InOtherLog(graph, i)
                 oth2 == InOtherLog(graph', i)
                 a == graph.subs[i].acct
                 k == graph.subs[i].since
      <3>0. graph'.subs[i] = graph.subs[i] /\ Entry(graph', i) = Entry(graph, i)
        BY <2>9, <2>14
      <3>1. /\ \A m : AtMostOnce(own, <<i, m>>)
            /\ \A m : <<i, m>> \notin ToSet(oth)
            /\ \A m \in Noted(own, i) :
                 /\ m \in 1..Len(touched) /\ a \in touched[m]
                 /\ \A t \in Stepper : emit[t].n = m /\ a \in emit[t].todo =>
                       emit[t].at = "notify" /\ Least(emit[t].todo) = a /\ Entry(graph, i) \notin emit[t].subs
            /\ Covers(touched, emit, Noted(own, i), a, k)
        BY <2>15 DEF NotedOnce
      <3>2. own \in Seq(Note) /\ oth \in Seq(Note)
        BY <2>11 DEF InOwnLog, InOtherLog
      <3>3. /\ i = b.id => own2 = Append(own, x) /\ oth2 = oth /\ a = Least(emit[s].todo) /\ Entry(graph, i) = b
            /\ own2 = own \/ own2 = Append(own, x)
            /\ oth2 = oth \/ oth2 = Append(oth, x)
        <4>1. CASE i = b.id
          <5>1. graph.subs[i].ns = b.ns /\ a = Least(emit[s].todo)
            BY <2>7, <4>1
          <5>2. Entry(graph, i) = b
            BY <2>7, <4>1, <5>1 DEF Entry
          <5> QED
            BY <2>9, <3>0, <4>1, <5>1, <5>2 DEF InOwnLog, InOtherLog
        <4>2. CASE i # b.id
          BY <2>9, <3>0, <4>2 DEF InOwnLog, InOtherLog
        <4> QED
          BY <4>1, <4>2
      <3> HIDE DEF own, own2, oth, oth2
      <3>4. \A m : <<i, m>> = x => i = b.id /\ m = n
        BY <2>8 DEF x
      <3>5. ASSUME i = b.id PROVE <<i, n>> \notin ToSet(own)
        <4>1. n \notin Noted(own, i)
          <5> SUFFICES ASSUME n \in Noted(own, i) PROVE FALSE
            OBVIOUS
          <5>1. emit[s].n = n /\ a \in emit[s].todo /\ b \in emit[s].subs
            BY <2>6, <3>3, <3>5 DEF n
          <5> QED
            BY <3>1, <3>3, <3>5, <5>1
        <4> QED
          BY <2>6, <4>1 DEF Noted
      <3>6. ASSUME NEW m PROVE AtMostOnce(own2, <<i, m>>) /\ <<i, m>> \notin ToSet(oth2)
        <4> DEFINE y == <<i, m>>
        <4>1. AtMostOnce(own, y) /\ y \notin ToSet(oth) /\ (y = x => i = b.id /\ y \notin ToSet(own))
          BY <3>1, <3>4, <3>5
        <4> HIDE DEF y
        <4>2. AtMostOnce(own2, y)
          BY <2>10, <3>2, <3>3, <4>1
        <4>3. y \notin ToSet(oth2)
          <5>1. ToSet(Append(oth, x)) = ToSet(oth) \cup {x}
            BY <2>10, <3>2
          <5>2. CASE y = x
            BY <3>3, <4>1, <5>2
          <5>3. CASE y # x
            BY <3>3, <4>1, <5>1, <5>3
          <5> QED
            BY <5>2, <5>3
        <4> QED
          BY <4>2, <4>3 DEF y
      <3>8. /\ Noted(own, i) \subseteq Noted(own2, i)
            /\ \A m \in Noted(own2, i) : m \in Noted(own, i) \/ (i = b.id /\ m = n)
        <4>1. ToSet(own) \subseteq ToSet(own2) /\ ToSet(own2) \subseteq ToSet(own) \cup {x}
          BY <2>10, <3>2, <3>3
        <4> QED
          BY <3>4, <4>1 DEF Noted
      <3>9. ASSUME NEW m \in Noted(own2, i)
            PROVE  /\ m \in 1..Len(touched) /\ a \in touched[m]
                   /\ \A t \in Stepper : emit'[t].n = m /\ a \in emit'[t].todo =>
                        /\ emit'[t].at = "notify" /\ Least(emit'[t].todo) = a
                        /\ Entry(graph, i) \notin emit'[t].subs
        <4>1. CASE m \in Noted(own, i)
          BY <2>3, <2>5, <3>1, <4>1 DEF n
        <4>2. CASE i = b.id /\ m = n
          <5>1. m \in 1..Len(touched) /\ a \in touched[m]
            BY <2>6, <3>3, <4>2
          <5>2. ASSUME NEW t \in Stepper, emit'[t].n = m, a \in emit'[t].todo PROVE t = s
            BY <2>5, <2>6, <4>2, <5>2
          <5> QED
            BY <2>3, <2>5, <3>3, <4>2, <5>1, <5>2
        <4> QED
          BY <3>8, <4>1, <4>2
      <3>10. Covers(touched, emit', Noted(own2, i), a, k)
        <4>1. Covers(touched, emit', Noted(own, i), a, k)
          BY <2>2, <2>5, <3>1
        <4> QED
          BY <3>8, <4>1 DEF Covers
      <3> QED
        BY <3>0, <3>6, <3>9, <3>10 DEF NotedOnce, own2, oth2
    <2>16. GraphInv'
      <3>1. clearing' = 1 => \A i \in DOMAIN graph'.subs : graph'.subs[i].during
        BY <1>0, <2>2, <2>9 DEF GraphInv
      <3>2. \A i \in DOMAIN graph'.subs :
               graph'.subs[i].ns = "shared" => graph'.subs[i].of = graph'.subs[i].acct
        BY <1>0, <2>9 DEF GraphInv
      <3>3. \A e \in ToSet(graph'.log) \cup ToSet(graph'.excluded) : e[1] < seq'
        BY <1>0, <2>2, <2>7, <2>8, <2>13 DEF GraphInv
      <3>4. \A i \in DOMAIN graph'.subs : ~graph'.subs[i].during => NotedOnce(touched', emit', graph', i)
        BY <1>0, <2>2, <2>9, <2>15 DEF GraphInv
      <3> QED
        BY <3>1, <3>2, <3>3, <3>4 DEF GraphInv
    <2>17. NotifyInv'
      <3> SUFFICES ASSUME NEW t \in Stepper, emit'[t].at = "notify"
          PROVE /\ \A o \in emit'[t].subs :
                     /\ o \in [id : Id, ns : Namespace] /\ o.id < seq
                     /\ o.id \in DOMAIN graph.subs =>
                          graph.subs[o.id].acct = Least(emit'[t].todo) /\ graph.subs[o.id].ns = o.ns
                /\ \A i \in DOMAIN graph.subs :
                     ~graph.subs[i].during /\ graph.subs[i].acct = Least(emit'[t].todo)
                       /\ graph.subs[i].since < emit'[t].n
                       => Entry(graph', i) \in emit'[t].subs \/ emit'[t].n \in Noted(InOwnLog(graph', i), i)
        BY <2>2, <2>9 DEF NotifyInv
      <3>0. /\ emit[t].at = "notify" /\ emit'[t].todo = emit[t].todo /\ emit'[t].n = emit[t].n
            /\ emit'[t].subs \subseteq emit[t].subs /\ emit[t].subs \subseteq emit'[t].subs \cup {b}
            /\ t # s => emit'[t].subs = emit[t].subs
        BY <2>2, <2>3, <2>5 DEF n
      <3>1. \A o \in emit'[t].subs :
               /\ o \in [id : Id, ns : Namespace] /\ o.id < seq
               /\ o.id \in DOMAIN graph.subs =>
                    graph.subs[o.id].acct = Least(emit'[t].todo) /\ graph.subs[o.id].ns = o.ns
        BY <1>0, <3>0 DEF NotifyInv
      <3>2. ASSUME NEW i \in DOMAIN graph.subs, ~graph.subs[i].during,
                   graph.subs[i].acct = Least(emit'[t].todo), graph.subs[i].since < emit'[t].n
            PROVE  Entry(graph', i) \in emit'[t].subs \/ emit'[t].n \in Noted(InOwnLog(graph', i), i)
        <4>1. Entry(graph, i) \in emit[t].subs \/ emit[t].n \in Noted(InOwnLog(graph, i), i)
          BY <1>0, <3>0, <3>2 DEF NotifyInv
        <4> QED
          BY <2>14, <3>0, <4>1 DEF n
      <3> QED
        BY <3>1, <3>2
    <2>18. ASSUME NEW k \in 1..Len(graph'.log)
           PROVE  graph'.log[k][2] <= seen'.gone[graph'.log[k][1]] /\ graph'.log[k][2] <= Len(touched)
      <3>1. CASE k \in 1..Len(graph.log)
        <4>1. graph'.log[k] = graph.log[k]
          BY <2>9, <2>10, <2>11, <3>1
        <4> QED
          BY <1>s, <2>2, <3>1, <4>1
      <3>2. CASE k \notin 1..Len(graph.log)
        <4>1. graph'.log[k] = x
          BY <2>9, <2>10, <2>11, <2>18, <3>2
        <4>2. n <= seen.gone[b.id] /\ n <= Len(touched)
          BY <1>0, <1>s, <2>2, <2>6 DEF n
        <4> QED
          BY <2>2, <2>8, <4>1, <4>2
      <3> QED
        BY <3>1, <3>2
    <2>19. /\ \A i \in Id : i \in DOMAIN graph'.subs \/ i >= seq' => seen'.gone[i] = MaxStep
           /\ \A t \in Stepper : emit'[t].at = "notify" =>
                \A o \in emit'[t].subs : emit'[t].n <= seen'.gone[o.id]
      BY <1>s, <2>2, <2>3, <2>5, <2>9 DEF n
    <2>20. /\ seq' \in {seq, seq + 1} /\ clearing' \in 0..1 /\ resets' \in Nat
           /\ seen' = [told |-> seen'.told, taken |-> seen'.taken, gone |-> seen'.gone]
           /\ seen'.told = seen.told /\ seen'.taken = seen.taken /\ seen'.gone \in [Id -> Nat]
      BY <1>0, <2>2
    <2> QED
      BY <2>2, <2>5, <2>12, <2>16, <2>17, <2>18, <2>19, <2>20, GraphFrame
  <1> QED
    BY <1>1, <1>3, <1>4, <1>5, <1>6, <1>7

(* A step of the EWS subscriptions. *)
LEMMA EwsFrame ==
  ASSUME IInv, surface = "ews", emit' \in [Stepper -> Emission], EmitInv',
         UNCHANGED <<surface, touched, chan, gmail, graph>>, seq' \in {seq, seq + 1},
         call' \in [Client -> Call],
         \A c \in Client : \/ call'[c] = NoCall
                           \/ /\ call'[c].op \in {"unsubscribe", "stream"}
                              /\ call'[c].id \in Id /\ call'[c].id < seq',
         clearing' \in 0..1, resets' \in Nat, SeenTypes', seen'.taken = seen.taken,
         EwsTypes', EwsInv', EnqueueInv',
         \A i \in DOMAIN ews'.events : \A n \in ToSet(ews'.events[i]) : n <= seen'.gone[i] /\ n <= Len(touched),
         \A i \in Id : \A n \in seen'.told[i] : n <= seen'.gone[i] /\ n <= Len(touched),
         \A i \in Id : i \in DOMAIN ews'.subs \/ i >= seq' => seen'.gone[i] = MaxStep,
         \A s \in Stepper : emit'[s].at = "enqueue" =>
            \A j \in emit'[s].subs : emit'[s].n <= seen'.gone[j]
  PROVE  IInv'
  <1> USE EmptyFacts DEF IInv, AllTypes
  <1>0. seq \in Nat \ {0} /\ seq' \in Nat \ {0}
    BY DEF Types
  <1>1. Types'
    BY <1>0 DEF Types
  <1>3. Foreign'
    BY DEF Foreign
  <1>4. SilentInv'
    <2>0. "notify" \notin Stage[surface'] /\ surface' = "ews"
      BY Stages DEF Surface
    <2>1. \A s \in Stepper : emit'[s].at # "notify"
      BY <2>0 DEF EmitInv
    <2>2. graph' = [subs |-> << >>, log |-> << >>, excluded |-> << >>]
      BY <1>3 DEF Foreign
    <2>3. DOMAIN graph'.subs = {} /\ Len(graph'.log) = 0
      BY <2>2
    <2> QED
      BY <2>1, <2>3 DEF SilentInv, SilentAfterDelete
  <1> QED
    BY <1>1, <1>3, <1>4, Elsewhere

(* Neither a subscription nor what it was told changes. *)
LEMMA ToldKept ==
  ASSUME NEW tch, NEW em, NEW e, NEW sn, NEW cl, NEW i, ToldOnce(tch, em, e, sn, cl, i),
         NEW em2, NEW e2, NEW sn2, NEW cl2,
         e2.subs[i] = e.subs[i], Queue(e2, i) = Queue(e, i), sn2.told[i] = sn.told[i],
         Leaving(cl, i) => Leaving(cl2, i),
         \A H : Honest(tch, em, H, e.subs[i].acct) => Honest(tch, em2, H, e.subs[i].acct),
         \A H : Covers(tch, em, H, e.subs[i].acct, e.subs[i].since)
                  => Covers(tch, em2, H, e.subs[i].acct, e.subs[i].since)
  PROVE  ToldOnce(tch, em2, e2, sn2, cl2, i)
  <1>1. Told(sn2, e2, i) = Told(sn, e, i)
    BY DEF Told
  <1> QED
    BY <1>1 DEF ToldOnce

LEMMA EwsStep ==
  ASSUME IInv, surface = "ews",
         \/ \E a \in Caller : Subscribe(a)
         \/ \E c \in Client, i \in Id : UnsubscribeQueue(c, i) \/ StreamCheck(c, i)
         \/ \E c \in Client : UnsubscribeDone(c) \/ StreamDrain(c)
         \/ \E s \in Stepper : EmitEws(s) \/ EmitEnqueue(s)
         \/ Clear
  PROVE  IInv'
  <1> USE PushAssumption, EmptyFacts
  <1>0. /\ Types /\ EmitInv /\ EwsTypes /\ EwsInv /\ EnqueueInv /\ SeenTypes /\ SilentInv
        /\ Len(touched) \in Nat /\ Len(touched) <= MaxStep /\ seq \in Nat \ {0}
        /\ clearing \in 0..1 /\ resets \in Nat /\ emit \in [Stepper -> Emission] /\ MaxStep \in Nat
        /\ seen = [told |-> seen.told, taken |-> seen.taken, gone |-> seen.gone]
        /\ seen.gone \in [Id -> Nat] /\ seen.told \in [Id -> SUBSET (1..MaxStep)]
        /\ ews = [subs |-> ews.subs, events |-> ews.events]
        /\ call \in [Client -> Call]
        /\ \A c \in Client : \/ call[c] = NoCall
                             \/ /\ call[c].op \in {"unsubscribe", "stream"}
                                /\ call[c].id \in Id /\ call[c].id < seq
    BY DEF IInv, AllTypes, Types, SeenTypes, EwsTypes, Foreign
  <1>s. /\ \A i \in DOMAIN ews.events : \A n \in ToSet(ews.events[i]) : n <= seen.gone[i] /\ n <= Len(touched)
        /\ \A i \in Id : \A n \in seen.told[i] : n <= seen.gone[i] /\ n <= Len(touched)
        /\ \A i \in Id : i \in DOMAIN ews.subs \/ i >= seq => seen.gone[i] = MaxStep
        /\ \A s \in Stepper : emit[s].at = "enqueue" =>
              \A j \in emit[s].subs : emit[s].n <= seen.gone[j]
    BY <1>0 DEF SilentInv, SilentAfterDelete
  <1>e. UNCHANGED <<surface, touched, emit>> => EmitInv' /\ emit' \in [Stepper -> Emission]
    BY <1>0 DEF EmitInv
  <1>n. \A s \in Stepper : emit[s].at = "enqueue" => emit[s].n \in 1..Len(touched)
    BY <1>0, NextPushIs
  <1>i. /\ \A i \in DOMAIN ews.subs \cup DOMAIN ews.events : i \in Id /\ i < seq /\ i \in Nat
        /\ \A i \in Id : i \in Nat
    BY <1>0 DEF EwsTypes, Id
  <1>1. ASSUME NEW a \in Caller, Subscribe(a) PROVE IInv'
    <2> DEFINE sub == [acct |-> a, since |-> Len(touched), during |-> clearing # 0]
    <2>1. /\ UNCHANGED <<surface, touched, emit, chan, gmail, graph, call, clearing, resets, seen>>
          /\ seq <= MaxSeq /\ seq' = seq + 1
          /\ ews' = [ews EXCEPT !.subs = With(ews.subs, seq, sub)]
      BY <1>1 DEF Subscribe, NextSeq, Committed
    <2>2. sub \in EwsSub /\ sub.since = Len(touched) /\ (clearing = 1 => sub.during)
      <3>1. a \in Account
        BY DEF Account
      <3>2. sub \in EwsSub
        BY <1>0, <3>1 DEF EwsSub
      <3>5. clearing = 1 => (clearing # 0)
        OBVIOUS
      <3>6. clearing = 1 => sub.during
        BY <3>5, Zenon
      <3> QED
        BY <3>2, <3>6
    <2> HIDE DEF sub
    <2>3. /\ ews' = [subs |-> ews'.subs, events |-> ews'.events]
          /\ ews'.subs = With(ews.subs, seq, sub) /\ ews'.events = ews.events
      BY <1>0, <2>1
    <2>4. /\ DOMAIN ews'.subs = DOMAIN ews.subs \cup {seq} /\ ews'.subs[seq] = sub
          /\ \A i \in DOMAIN ews.subs : i # seq /\ ews'.subs[i] = ews.subs[i]
          /\ ews'.subs \in [DOMAIN ews'.subs -> EwsSub]
      <3>1. ews'.subs = [x \in DOMAIN ews.subs \cup {seq} |-> IF x = seq THEN sub ELSE ews.subs[x]]
        BY <2>3 DEF With
      <3>2. seq \notin DOMAIN ews.subs
        BY <1>0, <1>i
      <3> QED
        BY <1>0, <2>2, <3>1, <3>2 DEF EwsTypes
    <2>5. seq \in Id
      BY <1>0, <2>1 DEF Id
    <2>6. EwsTypes'
      <3>1. \A i \in DOMAIN ews'.subs \cup DOMAIN ews'.events : i \in Id /\ i < seq'
        BY <1>0, <1>i, <2>1, <2>3, <2>4, <2>5
      <3> QED
        BY <1>0, <2>3, <2>4, <3>1 DEF EwsTypes
    <2>7. ToldOnce(touched, emit, ews', seen, call, seq)
      <3>1. seq \notin DOMAIN ews'.events
        BY <1>0, <1>i, <2>3
      <3>2. seen.told[seq] = {}
        BY <1>0, <2>5 DEF SeenTypes
      <3>3. Queue(ews', seq) = << >>
        BY <3>1 DEF Queue
      <3>4. Told(seen, ews', seq) = {}
        BY <3>2, <3>3 DEF Told
      <3>5. Owed(touched, ews'.subs[seq].acct, ews'.subs[seq].since) = {}
        BY <1>0, <2>2, <2>4 DEF Owed
      <3> QED
        BY <3>2, <3>3, <3>4, <3>5 DEF ToldOnce, Honest, Covers
    <2>8. ASSUME NEW i \in DOMAIN ews.subs PROVE ToldOnce(touched, emit, ews', seen, call, i)
      <3>1. ToldOnce(touched, emit, ews, seen, call, i)
        BY <1>0 DEF EwsInv
      <3>2. Queue(ews', i) = Queue(ews, i)
        BY <2>3 DEF Queue
      <3> QED
        BY <2>4, <3>1, <3>2, ToldKept
    <2>9. EwsInv'
      <3>1. clearing = 1 => sub.during /\ \A i \in DOMAIN ews.subs : ews.subs[i].during
        BY <1>0, <2>2 DEF EwsInv
      <3>2. clearing' = 1 => \A i \in DOMAIN ews'.subs : ews'.subs[i].during
        BY <2>1, <2>4, <3>1
      <3>3. \A i \in DOMAIN ews'.subs : ToldOnce(touched', emit', ews', seen', call', i)
        BY <2>1, <2>4, <2>7, <2>8
      <3> QED
        BY <3>2, <3>3 DEF EwsInv
    <2>10. EnqueueInv'
      <3> SUFFICES ASSUME NEW s \in Stepper, emit[s].at = "enqueue"
          PROVE /\ \A j \in emit[s].subs :
                     /\ j \in Id /\ j < seq'
                     /\ j \in DOMAIN ews'.subs => ews'.subs[j].acct = Least(emit[s].todo)
                /\ \A i \in DOMAIN ews'.subs :
                     ews'.subs[i].acct = Least(emit[s].todo) /\ ews'.subs[i].since < emit[s].n
                       => i \in emit[s].subs
        BY <2>1 DEF EnqueueInv
      <3>1. ASSUME NEW j \in emit[s].subs
            PROVE  /\ j \in Id /\ j < seq'
                   /\ j \in DOMAIN ews'.subs => ews'.subs[j].acct = Least(emit[s].todo)
        <4>1. j \in Id /\ j < seq /\ (j \in DOMAIN ews.subs => ews.subs[j].acct = Least(emit[s].todo))
          BY <1>0 DEF EnqueueInv
        <4>2. j \in Nat
          BY <1>i, <4>1
        <4> QED
          BY <1>0, <2>1, <2>4, <4>1, <4>2
      <3>2. ASSUME NEW i \in DOMAIN ews'.subs,
                   ews'.subs[i].acct = Least(emit[s].todo), ews'.subs[i].since < emit[s].n
            PROVE  i \in emit[s].subs
        <4>1. i # seq
          BY <1>0, <1>n, <2>2, <2>4, <3>2
        <4> QED
          BY <1>0, <2>4, <3>2, <4>1 DEF EnqueueInv
      <3> QED
        BY <3>1, <3>2
    <2>11. /\ \A i \in Id : i \in DOMAIN ews'.subs \/ i >= seq' => seen'.gone[i] = MaxStep
           /\ \A i \in Id : i >= seq' => seen'.told[i] = {}
      <3> SUFFICES ASSUME NEW i \in Id
          PROVE  /\ i \in DOMAIN ews'.subs \/ i >= seq + 1 => seen.gone[i] = MaxStep
                 /\ i >= seq + 1 => seen.told[i] = {}
        BY <2>1
      <3>1. i \in Nat /\ (i >= seq + 1 => i >= seq) /\ seq >= seq
        BY <1>0, <1>i
      <3>2. i \in DOMAIN ews'.subs => i \in DOMAIN ews.subs \/ i = seq
        BY <2>4
      <3>3. i >= seq => seen.told[i] = {}
        BY <1>0 DEF SeenTypes
      <3> QED
        BY <1>s, <3>1, <3>2, <3>3
    <2>12. SeenTypes'
      BY <1>0, <2>1, <2>11 DEF SeenTypes
    <2>13. /\ \A c \in Client : \/ call'[c] = NoCall
                                \/ /\ call'[c].op \in {"unsubscribe", "stream"}
                                   /\ call'[c].id \in Id /\ call'[c].id < seq'
           /\ call' \in [Client -> Call]
      BY <1>0, <1>i, <2>1
    <2>14. /\ \A i \in DOMAIN ews'.events : \A n \in ToSet(ews'.events[i]) : n <= seen'.gone[i] /\ n <= Len(touched)
           /\ \A i \in Id : \A n \in seen'.told[i] : n <= seen'.gone[i] /\ n <= Len(touched)
           /\ \A s \in Stepper : emit'[s].at = "enqueue" =>
                \A j \in emit'[s].subs : emit'[s].n <= seen'.gone[j]
      BY <1>s, <2>1, <2>3
    <2>15. /\ seq' \in {seq, seq + 1} /\ clearing' \in 0..1 /\ resets' \in Nat /\ seen'.taken = seen.taken
           /\ EmitInv' /\ emit' \in [Stepper -> Emission]
      BY <1>0, <1>e, <2>1
    <2> QED
      BY <2>1, <2>6, <2>9, <2>10, <2>11, <2>12, <2>13, <2>14, <2>15, EwsFrame
  <1>2. ASSUME UNCHANGED <<surface, touched, emit, seq, chan, gmail, graph>>,
               call' \in [Client -> Call],
               \A c \in Client : \/ call'[c] = NoCall
                                 \/ /\ call'[c].op \in {"unsubscribe", "stream"}
                                    /\ call'[c].id \in Id /\ call'[c].id < seq,
               ews' = [subs |-> ews'.subs, events |-> ews'.events],
               ews'.subs \in [DOMAIN ews'.subs -> EwsSub],
               ews'.events \in [DOMAIN ews'.events -> Seq(1..MaxStep)],
               \A i \in DOMAIN ews'.subs : /\ i \in DOMAIN ews.subs /\ ews'.subs[i] = ews.subs[i]
                                           /\ ToldOnce(touched, emit, ews', seen', call', i),
               \A i \in DOMAIN ews'.events :
                  i \in DOMAIN ews.events /\ ToSet(ews'.events[i]) \subseteq ToSet(ews.events[i]),
               clearing' \in 0..1, resets' \in Nat,
               clearing' = clearing \/ clearing' = 0 \/ DOMAIN ews'.subs = {},
               seen' = [told |-> seen'.told, taken |-> seen'.taken, gone |-> seen'.gone],
               seen'.taken = seen.taken,
               seen'.told \in [Id -> SUBSET (1..MaxStep)], seen'.gone \in [Id -> Nat],
               \A i \in Id : \/ seen'.told[i] = seen.told[i]
                             \/ i \in DOMAIN ews.events /\ seen'.told[i] = seen.told[i] \cup ToSet(ews.events[i]),
               \A i \in Id : \/ seen'.gone[i] = seen.gone[i]
                             \/ seen'.gone[i] = Len(touched) /\ i \notin DOMAIN ews'.subs /\ i < seq
        PROVE  IInv'
    <2>1. EwsTypes'
      BY <1>2, <1>i DEF EwsTypes
    <2>2. EwsInv'
      <3>1. clearing' = 1 => \A i \in DOMAIN ews'.subs : ews'.subs[i].during
        BY <1>0, <1>2 DEF EwsInv
      <3>2. \A i \in DOMAIN ews'.subs : ToldOnce(touched', emit', ews', seen', call', i)
        BY <1>2
      <3> QED
        BY <3>1, <3>2 DEF EwsInv
    <2>3. EnqueueInv'
      <3> SUFFICES ASSUME NEW s \in Stepper, emit[s].at = "enqueue"
          PROVE /\ \A j \in emit[s].subs :
                     /\ j \in Id /\ j < seq
                     /\ j \in DOMAIN ews'.subs => ews'.subs[j].acct = Least(emit[s].todo)
                /\ \A i \in DOMAIN ews'.subs :
                     ews'.subs[i].acct = Least(emit[s].todo) /\ ews'.subs[i].since < emit[s].n
                       => i \in emit[s].subs
        BY <1>2 DEF EnqueueInv
      <3>1. ASSUME NEW j \in emit[s].subs
            PROVE  j \in Id /\ j < seq /\ (j \in DOMAIN ews'.subs => ews'.subs[j].acct = Least(emit[s].todo))
        BY <1>0, <1>2 DEF EnqueueInv
      <3>2. ASSUME NEW i \in DOMAIN ews'.subs,
                   ews'.subs[i].acct = Least(emit[s].todo), ews'.subs[i].since < emit[s].n
            PROVE  i \in emit[s].subs
        <4>1. i \in DOMAIN ews.subs /\ ews'.subs[i] = ews.subs[i]
          BY <1>2
        <4> QED
          BY <1>0, <3>2, <4>1 DEF EnqueueInv
      <3> QED
        BY <3>1, <3>2
    <2>4. SeenTypes'
      <3>1. ASSUME NEW i \in Id, i >= seq PROVE seen'.told[i] = {}
        <4>1. i \notin DOMAIN ews.events
          BY <1>0, <1>i, <3>1
        <4> QED
          BY <1>0, <1>2, <3>1, <4>1 DEF SeenTypes
      <3> QED
        BY <1>2, <3>1 DEF SeenTypes
    <2>5. ASSUME NEW i \in Id, NEW n \in Nat, n <= seen.gone[i], n <= Len(touched) PROVE n <= seen'.gone[i]
      BY <1>2, <2>5
    <2>6. \A i \in DOMAIN ews.events : \A n \in ToSet(ews.events[i]) : n \in Nat
      BY <1>0 DEF EwsTypes, ToSet
    <2>7. ASSUME NEW i \in DOMAIN ews'.events, NEW n \in ToSet(ews'.events[i])
          PROVE  n <= seen'.gone[i] /\ n <= Len(touched)
      <3>1. i \in DOMAIN ews.events /\ n \in ToSet(ews.events[i]) /\ n \in Nat /\ i \in Id
        BY <1>2, <1>i, <2>6
      <3> QED
        BY <1>s, <2>5, <3>1
    <2>8. ASSUME NEW i \in Id, NEW n \in seen'.told[i]
          PROVE  n <= seen'.gone[i] /\ n <= Len(touched)
      <3>1. n \in Nat
        BY <1>2
      <3>2. n <= seen.gone[i] /\ n <= Len(touched)
        BY <1>s, <1>2
      <3> QED
        BY <2>5, <3>1, <3>2
    <2>9. \A i \in Id : i \in DOMAIN ews'.subs \/ i >= seq' => seen'.gone[i] = MaxStep
      BY <1>0, <1>i, <1>s, <1>2
    <2>10. ASSUME NEW s \in Stepper, emit'[s].at = "enqueue", NEW j \in emit'[s].subs
           PROVE  emit'[s].n <= seen'.gone[j]
      <3>1. emit[s].at = "enqueue" /\ j \in emit[s].subs /\ emit'[s].n = emit[s].n
        BY <1>2, <2>10
      <3>2. j \in Id
        BY <1>0, <3>1 DEF EnqueueInv
      <3>3. emit[s].n <= seen.gone[j] /\ emit[s].n <= Len(touched) /\ emit[s].n \in Nat
        BY <1>0, <1>s, <1>n, <3>1
      <3> QED
        BY <2>5, <3>1, <3>2, <3>3
    <2>11. /\ EmitInv' /\ emit' \in [Stepper -> Emission] /\ seq' \in {seq, seq + 1}
           /\ \A c \in Client : \/ call'[c] = NoCall
                                \/ /\ call'[c].op \in {"unsubscribe", "stream"}
                                   /\ call'[c].id \in Id /\ call'[c].id < seq'
      BY <1>e, <1>2
    <2> QED
      BY <1>2, <2>1, <2>2, <2>3, <2>4, <2>7, <2>8, <2>9, <2>10, <2>11, EwsFrame
  <1>3. ASSUME NEW c \in Client, NEW i \in Id, UnsubscribeQueue(c, i) PROVE IInv'
    <2> DEFINE k == [op |-> "unsubscribe", id |-> i]
    <2>1. /\ UNCHANGED <<surface, touched, emit, seq, chan, gmail, graph, clearing, resets, seen>>
          /\ call[c] = NoCall /\ i < seq /\ call' = [call EXCEPT ![c] = k]
          /\ ews' = [ews EXCEPT !.events = Without(ews.events, {i})]
      BY <1>3 DEF UnsubscribeQueue
    <2>2. k \in Call /\ k.op = "unsubscribe" /\ k.id = i
      BY <1>i DEF Call
    <2>3. /\ call' \in [Client -> Call] /\ call'[c] = k
          /\ \A d \in Client : d # c => call'[d] = call[d]
      BY <1>0, <2>1, <2>2
    <2> HIDE DEF k
    <2>4. \A d \in Client : \/ call'[d] = NoCall
                            \/ /\ call'[d].op \in {"unsubscribe", "stream"}
                               /\ call'[d].id \in Id /\ call'[d].id < seq
      BY <1>0, <2>1, <2>2, <2>3
    <2>5. Leaving(call', i) /\ \A j : Leaving(call, j) => Leaving(call', j)
      BY <2>1, <2>2, <2>3 DEF Leaving, NoCall
    <2>6. /\ ews' = [subs |-> ews'.subs, events |-> ews'.events]
          /\ ews'.subs = ews.subs /\ ews'.events = [x \in DOMAIN ews.events \ {i} |-> ews.events[x]]
      BY <1>0, <2>1 DEF Without
    <2>7. /\ ews'.events \in [DOMAIN ews'.events -> Seq(1..MaxStep)]
          /\ DOMAIN ews'.events = DOMAIN ews.events \ {i}
          /\ \A j \in DOMAIN ews'.events : ews'.events[j] = ews.events[j]
      BY <1>0, <2>6 DEF EwsTypes
    <2>8. ASSUME NEW j \in DOMAIN ews.subs PROVE ToldOnce(touched, emit, ews', seen, call', j)
      <3>1. ToldOnce(touched, emit, ews, seen, call, j)
        BY <1>0 DEF EwsInv
      <3>2. CASE j = i
        <4>1. Queue(ews', i) = << >>
          BY <2>7 DEF Queue
        <4>2. Told(seen, ews', i) \subseteq Told(seen, ews, i)
          BY <4>1 DEF Told
        <4> QED
          BY <2>5, <2>6, <3>1, <3>2, <4>1, <4>2 DEF ToldOnce, Honest
      <3>3. CASE j # i
        <4>1. Queue(ews', j) = Queue(ews, j)
          BY <2>7, <3>3 DEF Queue
        <4> QED
          BY <2>5, <2>6, <3>1, <4>1, ToldKept
      <3> QED
        BY <3>2, <3>3
    <2>9. /\ seen'.told = seen.told /\ seen'.gone = seen.gone /\ seen'.taken = seen.taken
          /\ seen' = [told |-> seen'.told, taken |-> seen'.taken, gone |-> seen'.gone]
          /\ clearing' \in 0..1 /\ resets' \in Nat /\ clearing' = clearing
          /\ ews'.subs \in [DOMAIN ews'.subs -> EwsSub]
          /\ \A j \in DOMAIN ews'.subs : /\ j \in DOMAIN ews.subs /\ ews'.subs[j] = ews.subs[j]
                                         /\ ToldOnce(touched, emit, ews', seen', call', j)
      BY <1>0, <2>1, <2>6, <2>8 DEF EwsTypes
    <2> QED
      BY <1>0, <1>2, <2>1, <2>3, <2>4, <2>6, <2>7, <2>9
  <1>4. ASSUME NEW c \in Client, NEW i \in Id, StreamCheck(c, i) PROVE IInv'
    <2> DEFINE k == [op |-> "stream", id |-> i]
    <2>1. /\ UNCHANGED <<surface, touched, emit, seq, chan, gmail, graph, ews, clearing, resets, seen>>
          /\ call[c] = NoCall /\ i \in DOMAIN ews.subs /\ call' = [call EXCEPT ![c] = k]
      BY <1>4 DEF StreamCheck
    <2>2. k \in Call /\ k.op = "stream" /\ k.id = i
      BY <1>i DEF Call
    <2>3. /\ call' \in [Client -> Call] /\ call'[c] = k
          /\ \A d \in Client : d # c => call'[d] = call[d]
      BY <1>0, <2>1, <2>2
    <2> HIDE DEF k
    <2>4. \A d \in Client : \/ call'[d] = NoCall
                            \/ /\ call'[d].op \in {"unsubscribe", "stream"}
                               /\ call'[d].id \in Id /\ call'[d].id < seq
      BY <1>0, <1>i, <2>1, <2>2, <2>3
    <2>5. \A j : Leaving(call, j) => Leaving(call', j)
      BY <2>1, <2>2, <2>3 DEF Leaving, NoCall
    <2>6. ASSUME NEW j \in DOMAIN ews.subs PROVE ToldOnce(touched, emit, ews, seen, call', j)
      <3>1. ToldOnce(touched, emit, ews, seen, call, j)
        BY <1>0 DEF EwsInv
      <3> QED
        BY <2>5, <3>1, ToldKept
    <2>7. /\ seen'.told = seen.told /\ seen'.gone = seen.gone /\ seen'.taken = seen.taken
          /\ seen' = [told |-> seen'.told, taken |-> seen'.taken, gone |-> seen'.gone]
          /\ clearing' \in 0..1 /\ resets' \in Nat /\ clearing' = clearing
          /\ ews' = [subs |-> ews'.subs, events |-> ews'.events]
          /\ ews'.subs \in [DOMAIN ews'.subs -> EwsSub]
          /\ ews'.events \in [DOMAIN ews'.events -> Seq(1..MaxStep)]
          /\ \A j \in DOMAIN ews'.subs : /\ j \in DOMAIN ews.subs /\ ews'.subs[j] = ews.subs[j]
                                         /\ ToldOnce(touched, emit, ews', seen', call', j)
          /\ \A j \in DOMAIN ews'.events : j \in DOMAIN ews.events /\ ToSet(ews'.events[j]) \subseteq ToSet(ews.events[j])
      BY <1>0, <2>1, <2>6 DEF EwsTypes
    <2> QED
      BY <1>0, <1>2, <2>1, <2>3, <2>4, <2>7
  <1>5. ASSUME NEW c \in Client, call' = [call EXCEPT ![c] = NoCall]
        PROVE  /\ call' \in [Client -> Call]
               /\ \A d \in Client : \/ call'[d] = NoCall
                                    \/ /\ call'[d].op \in {"unsubscribe", "stream"}
                                       /\ call'[d].id \in Id /\ call'[d].id < seq
               /\ \A j : Leaving(call, j) /\ ~(call[c].op = "unsubscribe" /\ call[c].id = j) => Leaving(call', j)
    <2>1. NoCall \in Call
      BY DEF NoCall, Call
    <2>2. call' \in [Client -> Call] /\ call'[c] = NoCall /\ \A d \in Client : d # c => call'[d] = call[d]
      BY <1>0, <1>5, <2>1
    <2>3. ASSUME NEW j, Leaving(call, j), ~(call[c].op = "unsubscribe" /\ call[c].id = j)
          PROVE  Leaving(call', j)
      BY <2>2, <2>3 DEF Leaving
    <2> QED
      BY <1>0, <2>2, <2>3
  <1>6. ASSUME NEW c \in Client, UnsubscribeDone(c) PROVE IInv'
    <2> DEFINE i == call[c].id
    <2>1. /\ UNCHANGED <<surface, touched, emit, seq, chan, gmail, graph, clearing, resets>>
          /\ call[c].op = "unsubscribe" /\ call' = [call EXCEPT ![c] = NoCall]
          /\ ews' = [ews EXCEPT !.subs = Without(ews.subs, {i})]
          /\ i \in DOMAIN ews.subs => seen' = [seen EXCEPT !.gone = [seen.gone EXCEPT ![i] = Len(touched)]]
          /\ i \notin DOMAIN ews.subs => seen' = seen
      BY <1>6 DEF UnsubscribeDone, Committed
    <2>2. i \in Id /\ i < seq
      BY <1>0, <2>1 DEF NoCall
    <2>3. /\ call' \in [Client -> Call]
          /\ \A d \in Client : \/ call'[d] = NoCall
                               \/ /\ call'[d].op \in {"unsubscribe", "stream"}
                                  /\ call'[d].id \in Id /\ call'[d].id < seq
          /\ \A j : Leaving(call, j) /\ j # i => Leaving(call', j)
      BY <1>5, <2>1
    <2> HIDE DEF i
    <2>4. /\ ews' = [subs |-> ews'.subs, events |-> ews'.events]
          /\ ews'.events = ews.events /\ ews'.subs = [x \in DOMAIN ews.subs \ {i} |-> ews.subs[x]]
      BY <1>0, <2>1 DEF Without
    <2>5. /\ ews'.subs \in [DOMAIN ews'.subs -> EwsSub] /\ ews'.events \in [DOMAIN ews'.events -> Seq(1..MaxStep)]
          /\ \A j \in DOMAIN ews'.subs : j # i /\ j \in DOMAIN ews.subs /\ ews'.subs[j] = ews.subs[j]
          /\ i \notin DOMAIN ews'.subs
      BY <1>0, <2>4 DEF EwsTypes
    <2>6. /\ seen' = [told |-> seen'.told, taken |-> seen'.taken, gone |-> seen'.gone]
          /\ seen'.told = seen.told /\ seen'.taken = seen.taken
          /\ seen'.gone \in {seen.gone, [seen.gone EXCEPT ![i] = Len(touched)]}
      BY <1>0, <2>1
    <2>7. /\ seen'.gone \in [Id -> Nat]
          /\ \A j \in Id : \/ seen'.gone[j] = seen.gone[j]
                           \/ seen'.gone[j] = Len(touched) /\ j \notin DOMAIN ews'.subs /\ j < seq
      BY <1>0, <2>2, <2>5, <2>6
    <2>8. ASSUME NEW j \in DOMAIN ews'.subs PROVE ToldOnce(touched, emit, ews', seen', call', j)
      <3>1. ToldOnce(touched, emit, ews, seen, call, j) /\ ews'.subs[j] = ews.subs[j]
        BY <1>0, <2>5 DEF EwsInv
      <3>2. Queue(ews', j) = Queue(ews, j) /\ seen'.told[j] = seen.told[j]
        BY <2>4, <2>6 DEF Queue
      <3>3. Leaving(call, j) => Leaving(call', j)
        BY <2>3, <2>5
      <3> QED
        BY <3>1, <3>2, <3>3, ToldKept
    <2>9. /\ clearing' \in 0..1 /\ resets' \in Nat /\ clearing' = clearing
          /\ seen'.told \in [Id -> SUBSET (1..MaxStep)]
          /\ \A j \in DOMAIN ews'.events : j \in DOMAIN ews.events /\ ToSet(ews'.events[j]) \subseteq ToSet(ews.events[j])
      BY <1>0, <2>1, <2>4, <2>6
    <2> QED
      BY <1>2, <2>1, <2>3, <2>4, <2>5, <2>6, <2>7, <2>8, <2>9
  <1>7. ASSUME NEW c \in Client, StreamDrain(c) PROVE IInv'
    <2> DEFINE i == call[c].id
    <2>1. /\ UNCHANGED <<surface, touched, emit, seq, chan, gmail, graph, clearing, resets>>
          /\ call[c].op = "stream" /\ call' = [call EXCEPT ![c] = NoCall]
          /\ i \in DOMAIN ews.events =>
               /\ seen' = [seen EXCEPT !.told = [seen.told EXCEPT ![i] = seen.told[i] \cup ToSet(ews.events[i])]]
               /\ ews' = [ews EXCEPT !.events = [ews.events EXCEPT ![i] = << >>]]
          /\ i \notin DOMAIN ews.events => seen' = seen /\ ews' = ews
      BY <1>7 DEF StreamDrain, TakeQueue
    <2>2. i \in Id /\ i < seq
      BY <1>0, <2>1 DEF NoCall
    <2>3. /\ call' \in [Client -> Call]
          /\ \A d \in Client : \/ call'[d] = NoCall
                               \/ /\ call'[d].op \in {"unsubscribe", "stream"}
                                  /\ call'[d].id \in Id /\ call'[d].id < seq
          /\ \A j : Leaving(call, j) => Leaving(call', j)
      BY <1>5, <2>1
    <2> HIDE DEF i
    <2>4. /\ clearing' \in 0..1 /\ resets' \in Nat /\ clearing' = clearing
          /\ ews.events \in [DOMAIN ews.events -> Seq(1..MaxStep)] /\ << >> \in Seq(1..MaxStep)
      BY <1>0, <2>1 DEF EwsTypes
    <2>5. /\ ews' = [subs |-> ews'.subs, events |-> ews'.events] /\ ews'.subs = ews.subs
          /\ ews'.events = IF i \in DOMAIN ews.events THEN [ews.events EXCEPT ![i] = << >>] ELSE ews.events
      BY <1>0, <2>1
    <2>6. /\ DOMAIN ews'.events = DOMAIN ews.events
          /\ ews'.events \in [DOMAIN ews'.events -> Seq(1..MaxStep)]
          /\ i \in DOMAIN ews.events => ews'.events[i] = << >>
          /\ \A j \in DOMAIN ews.events : j # i => ews'.events[j] = ews.events[j]
          /\ \A j \in DOMAIN ews'.events : j \in DOMAIN ews.events /\ ToSet(ews'.events[j]) \subseteq ToSet(ews.events[j])
      BY <2>4, <2>5
    <2>7. /\ seen' = [told |-> seen'.told, taken |-> seen'.taken, gone |-> seen'.gone]
          /\ seen'.gone = seen.gone /\ seen'.taken = seen.taken
          /\ seen'.told = IF i \in DOMAIN ews.events
                            THEN [seen.told EXCEPT ![i] = seen.told[i] \cup ToSet(ews.events[i])] ELSE seen.told
      BY <1>0, <2>1
    <2>8. i \in DOMAIN ews.events => ToSet(ews.events[i]) \subseteq 1..MaxStep
      BY <2>4 DEF ToSet
    <2>9. /\ seen'.told \in [Id -> SUBSET (1..MaxStep)]
          /\ i \in DOMAIN ews.events => seen'.told[i] = seen.told[i] \cup ToSet(ews.events[i])
          /\ \A j \in Id : j # i \/ i \notin DOMAIN ews.events => seen'.told[j] = seen.told[j]
      BY <1>0, <2>2, <2>7, <2>8
    <2>10. ASSUME NEW j \in DOMAIN ews.subs PROVE ToldOnce(touched, emit, ews', seen', call', j)
      <3>1. ToldOnce(touched, emit, ews, seen, call, j) /\ ews'.subs[j] = ews.subs[j] /\ j \in Id
        BY <1>0, <1>i, <2>5 DEF EwsInv
      <3>2. CASE j = i /\ i \in DOMAIN ews.events
        <4>1. Queue(ews', j) = << >> /\ Queue(ews, j) = ews.events[j]
          BY <2>6, <3>2 DEF Queue
        <4>2. Told(seen', ews', j) = Told(seen, ews, j)
          BY <2>9, <3>2, <4>1 DEF Told
        <4> QED
          BY <2>3, <3>1, <4>1, <4>2 DEF ToldOnce
      <3>3. CASE j # i \/ i \notin DOMAIN ews.events
        <4>1. Queue(ews', j) = Queue(ews, j) /\ seen'.told[j] = seen.told[j]
          BY <2>6, <2>9, <3>1, <3>3 DEF Queue
        <4> QED
          BY <2>3, <3>1, <4>1, ToldKept
      <3> QED
        BY <3>2, <3>3
    <2>11. /\ ews'.subs \in [DOMAIN ews'.subs -> EwsSub]
           /\ \A j \in DOMAIN ews'.subs : /\ j \in DOMAIN ews.subs /\ ews'.subs[j] = ews.subs[j]
                                          /\ ToldOnce(touched, emit, ews', seen', call', j)
           /\ \A j \in Id : \/ seen'.told[j] = seen.told[j]
                            \/ j \in DOMAIN ews.events /\ seen'.told[j] = seen.told[j] \cup ToSet(ews.events[j])
      BY <1>0, <2>5, <2>9, <2>10 DEF EwsTypes
    <2> QED
      BY <1>0, <1>2, <2>1, <2>3, <2>4, <2>5, <2>6, <2>7, <2>9, <2>11
  <1>8. ASSUME Clear PROVE IInv'
    <2>1. /\ UNCHANGED <<surface, touched, emit, seq, chan, call, gmail, graph>>
          /\ clearing' = 1 - clearing /\ clearing' \in 0..1 /\ resets' \in Nat
          /\ seen' = [told |-> seen'.told, taken |-> seen'.taken, gone |-> seen'.gone]
          /\ seen'.told = seen.told /\ seen'.taken = seen.taken
          /\ clearing = 0 =>
               /\ ews' = [ews EXCEPT !.subs = << >>]
               /\ seen'.gone = [i \in Id |-> IF i \in DOMAIN ews.subs THEN Len(touched) ELSE seen.gone[i]]
          /\ clearing = 1 => ews' = [ews EXCEPT !.events = << >>] /\ seen'.gone = seen.gone
      BY <1>8, ClearIs
    <2>2. CASE clearing = 0
      <3>1. /\ ews' = [subs |-> ews'.subs, events |-> ews'.events]
            /\ ews'.subs = << >> /\ ews'.events = ews.events
        BY <1>0, <2>1, <2>2
      <3>2. /\ DOMAIN ews'.subs = {} /\ ews'.subs \in [DOMAIN ews'.subs -> EwsSub]
            /\ ews'.events \in [DOMAIN ews'.events -> Seq(1..MaxStep)]
        BY <1>0, <3>1 DEF EwsTypes
      <3>3. /\ seen'.gone \in [Id -> Nat]
            /\ \A i \in Id : \/ seen'.gone[i] = seen.gone[i]
                             \/ seen'.gone[i] = Len(touched) /\ i \notin DOMAIN ews'.subs /\ i < seq
        BY <1>0, <1>i, <2>1, <2>2, <3>2
      <3>4. /\ call' \in [Client -> Call]
            /\ \A c \in Client : \/ call'[c] = NoCall
                                 \/ /\ call'[c].op \in {"unsubscribe", "stream"}
                                    /\ call'[c].id \in Id /\ call'[c].id < seq
        BY <1>0, <2>1
      <3> QED
        BY <1>0, <1>2, <2>1, <3>1, <3>2, <3>3, <3>4
    <2>3. CASE clearing = 1
      <3>1. /\ ews' = [subs |-> ews'.subs, events |-> ews'.events]
            /\ ews'.subs = ews.subs /\ ews'.events = << >>
        BY <1>0, <2>1, <2>3
      <3>2. /\ ews'.subs \in [DOMAIN ews'.subs -> EwsSub] /\ DOMAIN ews'.events = {}
            /\ ews'.events \in [DOMAIN ews'.events -> Seq(1..MaxStep)]
        BY <1>0, <3>1 DEF EwsTypes
      <3>3. ASSUME NEW j \in DOMAIN ews.subs PROVE ToldOnce(touched, emit, ews', seen', call', j)
        <4>1. ToldOnce(touched, emit, ews, seen, call, j) /\ ews'.subs[j] = ews.subs[j] /\ ews.subs[j].during
          BY <1>0, <2>3, <3>1 DEF EwsInv
        <4>2. Queue(ews', j) = << >>
          BY <3>2 DEF Queue
        <4>3. Told(seen', ews', j) \subseteq Told(seen, ews, j)
          BY <2>1, <4>2 DEF Told
        <4> QED
          BY <2>1, <4>1, <4>2, <4>3 DEF ToldOnce, Honest
      <3>4. /\ call' \in [Client -> Call]
            /\ \A c \in Client : \/ call'[c] = NoCall
                                 \/ /\ call'[c].op \in {"unsubscribe", "stream"}
                                    /\ call'[c].id \in Id /\ call'[c].id < seq
            /\ \A j \in DOMAIN ews'.subs : /\ j \in DOMAIN ews.subs /\ ews'.subs[j] = ews.subs[j]
                                           /\ ToldOnce(touched, emit, ews', seen', call', j)
            /\ seen'.gone = seen.gone /\ clearing' = 0
        BY <1>0, <2>1, <2>3, <3>1, <3>3
      <3> QED
        BY <1>0, <1>2, <2>1, <3>1, <3>2, <3>4
    <2> QED
      BY <1>0, <2>2, <2>3
  <1>9. ASSUME NEW s \in Stepper, EmitEws(s) PROVE IInv'
    <2> DEFINE c == Current(s)
               S == {i \in DOMAIN ews.subs : ews.subs[i].acct = c}
               r == [emit[s] EXCEPT !.at = "enqueue", !.subs = S]
    <2>1. /\ emit[s].at # "idle" /\ UNCHANGED <<surface, touched, chan, gmail, graph, ews, call, clearing, resets, seen>>
          /\ \/ S = {} /\ emit' = [emit EXCEPT ![s] = NextPush(s)] /\ seq' = seq
             \/ emit' = [emit EXCEPT ![s] = r] /\ seq' = seq + 1
      BY <1>9 DEF EmitEws, NextSeq, ListSubs
    <2>2. c = Least(emit[s].todo) /\ emit[s].n \in 1..Len(touched)
      BY <1>0, <2>1, NextPushIs
    <2>3. /\ seq' \in {seq, seq + 1} /\ seq' \in Nat /\ \A i \in Nat : (i < seq => i < seq') /\ (i >= seq' => i >= seq)
      BY <1>0, <2>1
    <2>4. EwsTypes'
      BY <1>0, <1>i, <2>1, <2>3 DEF EwsTypes
    <2>5. SeenTypes'
      BY <1>0, <1>i, <2>1, <2>3 DEF SeenTypes
    <2>6. /\ \A d \in Client : \/ call'[d] = NoCall
                               \/ /\ call'[d].op \in {"unsubscribe", "stream"}
                                  /\ call'[d].id \in Id /\ call'[d].id < seq'
          /\ call' \in [Client -> Call]
      BY <1>0, <1>i, <2>1, <2>3
    <2>7. /\ \A i \in DOMAIN ews'.events : \A n \in ToSet(ews'.events[i]) : n <= seen'.gone[i] /\ n <= Len(touched)
          /\ \A i \in Id : \A n \in seen'.told[i] : n <= seen'.gone[i] /\ n <= Len(touched)
          /\ \A i \in Id : i \in DOMAIN ews'.subs \/ i >= seq' => seen'.gone[i] = MaxStep
      BY <1>i, <1>s, <2>1, <2>3
    <2>8. clearing' \in 0..1 /\ resets' \in Nat /\ seen'.taken = seen.taken
      BY <1>0, <2>1
    <2>9. ASSUME \A j \in DOMAIN ews.subs : ToldOnce(touched, emit', ews, seen, call, j) PROVE EwsInv'
      BY <1>0, <2>1, <2>9 DEF EwsInv
    <2>10. ASSUME NEW t \in Stepper, emit'[t] = emit[t], emit[t].at = "enqueue"
           PROVE  /\ \A j \in emit'[t].subs :
                       /\ j \in Id /\ j < seq'
                       /\ j \in DOMAIN ews.subs => ews.subs[j].acct = Least(emit'[t].todo)
                  /\ \A i \in DOMAIN ews.subs :
                       ews.subs[i].acct = Least(emit'[t].todo) /\ ews.subs[i].since < emit'[t].n
                         => i \in emit'[t].subs
      <3>1. \A j \in emit[t].subs : j \in Id /\ j < seq /\ j \in Nat
        BY <1>0, <1>i, <2>10 DEF EnqueueInv
      <3> QED
        BY <1>0, <2>3, <2>10, <3>1 DEF EnqueueInv
    <2>11. CASE S = {} /\ emit' = [emit EXCEPT ![s] = NextPush(s)] /\ seq' = seq
      <3>1. /\ EmitInv' /\ emit' \in [Stepper -> Emission]
            /\ emit'[s] = NextPush(s) /\ \A t \in Stepper \ {s} : emit'[t] = emit[t]
            /\ \A H, a, k : Covers(touched, emit, H, a, k) /\ a # c => Covers(touched', emit', H, a, k)
            /\ \A H, a : Honest(touched, emit, H, a) => Honest(touched', emit', H, a)
        BY <2>1, <2>11, PushStep
      <3>2. emit'[s].at # "enqueue"
        BY <1>0, <2>1, <3>1, NextPushIs
      <3>3. ASSUME NEW j \in DOMAIN ews.subs PROVE ToldOnce(touched, emit', ews, seen, call, j)
        <4>1. ToldOnce(touched, emit, ews, seen, call, j) /\ ews.subs[j].acct # c
          BY <1>0, <2>11 DEF EwsInv
        <4> QED
          BY <2>1, <3>1, <4>1, ToldKept
      <3>4. EwsInv'
        BY <2>9, <3>3
      <3>5. EnqueueInv'
        BY <2>1, <2>10, <3>1, <3>2 DEF EnqueueInv
      <3>6. \A t \in Stepper : emit'[t].at = "enqueue" =>
               \A j \in emit'[t].subs : emit'[t].n <= seen'.gone[j]
        BY <1>s, <2>1, <3>1, <3>2
      <3> QED
        BY <2>1, <2>3, <2>4, <2>5, <2>6, <2>7, <2>8, <3>1, <3>4, <3>5, <3>6, EwsFrame
    <2>12. CASE emit' = [emit EXCEPT ![s] = r] /\ seq' = seq + 1
      <3>1. \A j \in S : j \in Id /\ j < seq' /\ j \in DOMAIN ews.subs /\ ews.subs[j].acct = c
        BY <1>i, <2>3
      <3>2. \A i \in DOMAIN ews.subs : ews.subs[i].acct = c => i \in S
        OBVIOUS
      <3> HIDE DEF S
      <3>3. S \subseteq Pending
        BY <3>1 DEF Pending
      <3>4. r \in Emission /\ r.n = emit[s].n /\ r.todo = emit[s].todo /\ r.at = "enqueue" /\ r.subs = S
        BY <1>0, <3>3 DEF Emission
      <3>5. r.at \in Stage[surface]
        BY <3>4 DEF Stage
      <3> HIDE DEF r
      <3>6. /\ EmitInv' /\ emit' \in [Stepper -> Emission]
            /\ emit'[s] = r /\ \A t \in Stepper \ {s} : emit'[t] = emit[t]
            /\ \A H, a, k : Covers(touched', emit', H, a, k) <=> Covers(touched, emit, H, a, k)
            /\ \A H, a : Honest(touched', emit', H, a) <=> Honest(touched, emit, H, a)
        BY <2>1, <2>12, <3>4, <3>5, StageStep
      <3>7. ASSUME NEW j \in DOMAIN ews.subs PROVE ToldOnce(touched, emit', ews, seen, call, j)
        <4>1. ToldOnce(touched, emit, ews, seen, call, j)
          BY <1>0 DEF EwsInv
        <4> QED
          BY <2>1, <3>6, <4>1, ToldKept
      <3>8. EwsInv'
        BY <2>9, <3>7
      <3>9. EnqueueInv'
        <4>1. /\ \A j \in emit'[s].subs :
                   j \in Id /\ j < seq' /\ (j \in DOMAIN ews.subs => ews.subs[j].acct = Least(emit'[s].todo))
              /\ \A i \in DOMAIN ews.subs :
                   ews.subs[i].acct = Least(emit'[s].todo) /\ ews.subs[i].since < emit'[s].n
                     => i \in emit'[s].subs
          BY <2>2, <3>1, <3>2, <3>4, <3>6
        <4> QED
          BY <2>1, <2>10, <3>6, <4>1 DEF EnqueueInv
      <3>10. ASSUME NEW t \in Stepper, emit'[t].at = "enqueue", NEW j \in emit'[t].subs
             PROVE  emit'[t].n <= seen'.gone[j]
        <4>1. CASE t = s
          <5>1. j \in S /\ emit'[t].n = emit[s].n
            BY <3>4, <3>6, <3>10, <4>1
          <5>2. seen.gone[j] = MaxStep
            BY <1>s, <3>1, <5>1
          <5> QED
            BY <1>0, <2>1, <2>2, <5>1, <5>2
        <4>2. CASE t # s
          BY <1>s, <2>1, <3>6, <3>10, <4>2
        <4> QED
          BY <4>1, <4>2
      <3> QED
        BY <2>1, <2>3, <2>4, <2>5, <2>6, <2>7, <2>8, <3>6, <3>8, <3>9, <3>10, EwsFrame
    <2> QED
      BY <2>1, <2>11, <2>12
  <1>10. ASSUME NEW s \in Stepper, EmitEnqueue(s) PROVE IInv'
    <2> DEFINE n == emit[s].n
               c == Current(s)
               S == emit[s].subs
               ev == [i \in DOMAIN ews.events \cup S |->
                        IF i \in S THEN Append(Queue(ews, i), n) ELSE Queue(ews, i)]
    <2>1. /\ emit[s].at = "enqueue" /\ emit' = [emit EXCEPT ![s] = NextPush(s)]
          /\ UNCHANGED <<surface, touched, seq, chan, gmail, graph, call, clearing, resets, seen>>
          /\ ews' = [ews EXCEPT !.events = ev]
      BY <1>10 DEF EmitEnqueue, Queue
    <2>2. /\ c = Least(emit[s].todo) /\ n \in 1..Len(touched) /\ n \in 1..MaxStep
          /\ NextPush(s).at # "enqueue"
      BY <1>0, <2>1, NextPushIs
    <2>3. /\ EmitInv' /\ emit' \in [Stepper -> Emission]
          /\ emit'[s] = NextPush(s) /\ \A t \in Stepper \ {s} : emit'[t] = emit[t]
          /\ \A H, a, k : Covers(touched, emit, H, a, k) /\ (a # c \/ n \in H \/ n \notin Owed(touched, a, k))
                           => Covers(touched', emit', H, a, k)
          /\ \A H, a : Honest(touched, emit, H, a) => Honest(touched', emit', H, a)
          /\ \A H : Honest(touched, emit, H, c) => n \notin H /\ Honest(touched', emit', H \cup {n}, c)
      BY <2>1, PushStep
    <2>4. /\ \A j \in S : /\ j \in Id /\ j < seq /\ n <= seen.gone[j]
                          /\ j \in DOMAIN ews.subs => ews.subs[j].acct = c
          /\ \A i \in DOMAIN ews.subs : ews.subs[i].acct = c /\ ews.subs[i].since < n => i \in S
      BY <1>0, <1>s, <2>1, <2>2 DEF EnqueueInv
    <2>5. \A i : Queue(ews, i) \in Seq(1..MaxStep)
      <3>1. << >> \in Seq(1..MaxStep)
        OBVIOUS
      <3> QED
        BY <1>0, <3>1 DEF EwsTypes, Queue
    <2>6. ews' = [subs |-> ews'.subs, events |-> ews'.events] /\ ews'.subs = ews.subs /\ ews'.events = ev
      BY <1>0, <2>1
    <2> HIDE DEF n, c
    <2>7. ASSUME NEW i
          PROVE  /\ Append(Queue(ews, i), n) \in Seq(1..MaxStep)
                 /\ ToSet(Append(Queue(ews, i), n)) = ToSet(Queue(ews, i)) \cup {n}
                 /\ \A y : AtMostOnce(Queue(ews, i), y) /\ (y = n => y \notin ToSet(Queue(ews, i)))
                             => AtMostOnce(Append(Queue(ews, i), n), y)
      BY <2>2, <2>5, AppendFacts
    <2>8. /\ DOMAIN ews'.events = DOMAIN ews.events \cup S
          /\ \A i \in DOMAIN ews'.events : ews'.events[i] \in Seq(1..MaxStep)
          /\ \A i \in DOMAIN ews'.events : i \in S => ews'.events[i] = Append(Queue(ews, i), n)
          /\ \A i \in DOMAIN ews'.events : i \notin S => ews'.events[i] = Queue(ews, i)
      <3>1. /\ DOMAIN ews'.events = DOMAIN ews.events \cup S
            /\ \A i \in DOMAIN ews'.events : i \in S => ews'.events[i] = Append(Queue(ews, i), n)
            /\ \A i \in DOMAIN ews'.events : i \notin S => ews'.events[i] = Queue(ews, i)
        <4> HIDE DEF S
        <4> QED
          BY <2>6
      <3>2. ASSUME NEW i \in DOMAIN ews'.events PROVE ews'.events[i] \in Seq(1..MaxStep)
        <4>1. CASE i \in S
          <5>1. ews'.events[i] = Append(Queue(ews, i), n)
            BY <3>1, <4>1
          <5>2. Append(Queue(ews, i), n) \in Seq(1..MaxStep)
            BY <2>7
          <5> QED
            BY <5>1, <5>2
        <4>2. CASE i \notin S
          BY <2>5, <3>1, <4>2
        <4> QED
          BY <4>1, <4>2
      <3> QED
        BY <3>1, <3>2
    <2>9. EwsTypes'
      <3>1. ews'.events \in [DOMAIN ews'.events -> Seq(1..MaxStep)]
        BY <2>6, <2>8
      <3>2. \A i \in DOMAIN ews'.subs \cup DOMAIN ews'.events : i \in Id /\ i < seq'
        BY <1>i, <2>1, <2>4, <2>6, <2>8
      <3> QED
        BY <1>0, <2>6, <3>1, <3>2 DEF EwsTypes
    <2> HIDE DEF ev, S
    <2>10. ASSUME NEW i \in DOMAIN ews.subs PROVE ToldOnce(touched, emit', ews', seen, call, i)
      <3>1. ToldOnce(touched, emit, ews, seen, call, i) /\ ews'.subs[i] = ews.subs[i]
        BY <1>0, <2>6 DEF EwsInv
      <3>2. CASE i \in S
        <4>1. Queue(ews', i) = Append(Queue(ews, i), n) /\ ews.subs[i].acct = c
          BY <2>4, <2>8, <3>2 DEF Queue
        <4>2. Told(seen, ews', i) = Told(seen, ews, i) \cup {n}
          BY <2>7, <4>1 DEF Told
        <4>3. n \notin Told(seen, ews, i) /\ Honest(touched, emit', Told(seen, ews', i), c)
          <5>1. Honest(touched, emit, Told(seen, ews, i), c)
            BY <3>1, <4>1 DEF ToldOnce
          <5>2. n \notin Told(seen, ews, i) /\ Honest(touched', emit', Told(seen, ews, i) \cup {n}, c)
            BY <2>3, <5>1
          <5> QED
            BY <2>1, <4>2, <5>2
        <4>4. n \notin seen.told[i] /\ n \notin ToSet(Queue(ews, i))
          BY <4>3 DEF Told
        <4>5. ASSUME NEW m
              PROVE  AtMostOnce(Queue(ews', i), m) /\ ~(m \in seen.told[i] /\ m \in ToSet(Queue(ews', i)))
          <5>1. AtMostOnce(Queue(ews, i), m) /\ ~(m \in seen.told[i] /\ m \in ToSet(Queue(ews, i)))
            BY <3>1 DEF ToldOnce
          <5> QED
            BY <2>7, <4>1, <4>4, <5>1
        <4>6. ASSUME ~ews.subs[i].during, ~Leaving(call, i)
              PROVE  Covers(touched, emit', Told(seen, ews', i), c, ews.subs[i].since)
          <5>1. Covers(touched, emit, Told(seen, ews, i), c, ews.subs[i].since)
            BY <3>1, <4>1, <4>6 DEF ToldOnce
          <5>2. Covers(touched, emit, Told(seen, ews', i), c, ews.subs[i].since)
            BY <4>2, <5>1 DEF Covers
          <5> QED
            BY <2>1, <2>3, <4>2, <5>2
        <4> QED
          BY <3>1, <4>1, <4>3, <4>5, <4>6 DEF ToldOnce
      <3>3. CASE i \notin S
        <4>1. Queue(ews', i) = Queue(ews, i)
          BY <2>8, <3>3 DEF Queue
        <4>2. ews.subs[i].acct # c \/ n \notin Owed(touched, ews.subs[i].acct, ews.subs[i].since)
          <5>1. ews.subs[i].since \in Nat
            BY <1>0 DEF EwsTypes, EwsSub
          <5> QED
            BY <1>0, <2>2, <2>4, <3>3, <5>1 DEF Owed
        <4> QED
          BY <2>1, <2>3, <3>1, <4>1, <4>2, ToldKept
      <3> QED
        BY <3>2, <3>3
    <2>11. EwsInv'
      BY <1>0, <2>1, <2>6, <2>10 DEF EwsInv
    <2>12. EnqueueInv'
      BY <1>0, <2>1, <2>2, <2>3, <2>6 DEF EnqueueInv
    <2>13. ASSUME NEW i \in DOMAIN ews'.events, NEW m \in ToSet(ews'.events[i])
           PROVE  m <= seen'.gone[i] /\ m <= Len(touched)
      <3>1. m \in ToSet(Queue(ews, i)) \/ (i \in S /\ m = n)
        BY <2>7, <2>8
      <3>2. CASE m \in ToSet(Queue(ews, i))
        BY <1>s, <2>1, <3>2 DEF Queue
      <3>3. CASE i \in S /\ m = n
        BY <1>0, <2>1, <2>2, <2>4, <3>3
      <3> QED
        BY <3>1, <3>2, <3>3
    <2>14. /\ \A i \in Id : \A m \in seen'.told[i] : m <= seen'.gone[i] /\ m <= Len(touched)
           /\ \A i \in Id : i \in DOMAIN ews'.subs \/ i >= seq' => seen'.gone[i] = MaxStep
           /\ \A t \in Stepper : emit'[t].at = "enqueue" =>
                \A j \in emit'[t].subs : emit'[t].n <= seen'.gone[j]
      BY <1>s, <2>1, <2>2, <2>3, <2>6
    <2>15. /\ seq' \in {seq, seq + 1} /\ clearing' \in 0..1 /\ resets' \in Nat /\ seen'.taken = seen.taken
           /\ \A d \in Client : \/ call'[d] = NoCall
                                \/ /\ call'[d].op \in {"unsubscribe", "stream"}
                                   /\ call'[d].id \in Id /\ call'[d].id < seq'
           /\ call' \in [Client -> Call]
      BY <1>0, <2>1
    <2>16. SeenTypes'
      BY <1>0, <2>1 DEF SeenTypes
    <2> QED
      BY <2>1, <2>3, <2>9, <2>11, <2>12, <2>13, <2>14, <2>15, <2>16, EwsFrame
  <1> QED
    BY <1>1, <1>3, <1>4, <1>6, <1>7, <1>8, <1>9, <1>10

-----------------------------------------------------------------------------
(* The theorems. *)

LEMMA NextIInv == IInv /\ [Next]_vars => IInv'
  <1> SUFFICES ASSUME IInv, [Next]_vars PROVE IInv'
    OBVIOUS
  <1>0. Types /\ EmitInv /\ Foreign /\ surface \in Surface
    BY DEF IInv, AllTypes, Types
  <1>1. ASSUME NEW l \in Listener, NEW a \in Caller, Register(l, a) PROVE IInv'
    BY <1>1, ListenersStep DEF Register
  <1>2. ASSUME NEW l \in Listener, Hangup(l) PROVE IInv'
    <2>1. surface = "listeners"
      BY <1>0, <1>2 DEF Hangup, Foreign
    <2> QED
      BY <1>2, <2>1, ListenersStep
  <1>3. ASSUME NEW a \in Caller, NEW r \in Resource, CreateSubscription(a, r) PROVE IInv'
    <2>1. surface = "graph"
      BY <1>3 DEF CreateSubscription
    <2> QED
      BY <1>3, <2>1, GraphStep
  <1>4. ASSUME NEW i \in Id, DeleteSubscription(i) PROVE IInv'
    <2>1. surface = "graph"
      BY <1>0, <1>4, EmptyFacts DEF DeleteSubscription, Foreign
    <2> QED
      BY <1>4, <2>1, GraphStep
  <1>5. ASSUME NEW a \in Caller, Subscribe(a) PROVE IInv'
    <2>1. surface = "ews"
      BY <1>5 DEF Subscribe
    <2> QED
      BY <1>5, <2>1, EwsStep
  <1>6. ASSUME NEW c \in Client, NEW i \in Id, UnsubscribeQueue(c, i) \/ StreamCheck(c, i) PROVE IInv'
    <2>1. surface = "ews"
      BY <1>0, <1>6, EmptyFacts DEF UnsubscribeQueue, StreamCheck, Foreign
    <2> QED
      BY <1>6, <2>1, EwsStep
  <1>7. ASSUME NEW c \in Client, UnsubscribeDone(c) \/ StreamDrain(c) PROVE IInv'
    <2>1. surface = "ews"
      BY <1>0, <1>7 DEF UnsubscribeDone, StreamDrain, Foreign, NoCall
    <2> QED
      BY <1>7, <2>1, EwsStep
  <1>8. ASSUME NEW c \in Client, WatchSet(c) PROVE IInv'
    <2>1. surface = "gmail"
      BY <1>0, <1>8 DEF WatchSet, Foreign, NoCall
    <2> QED
      BY <1>8, <2>1, GmailStep
  <1>9. ASSUME NEW c \in Client, NEW a \in Caller, WatchRead(c, a) PROVE IInv'
    <2>1. surface = "gmail"
      BY <1>9 DEF WatchRead
    <2> QED
      BY <1>9, <2>1, GmailStep
  <1>10. ASSUME NEW a \in Caller, Stop(a) \/ PublishByHand(a) PROVE IInv'
    <2>1. surface = "gmail"
      BY <1>0, <1>10, EmptyFacts DEF Stop, PublishByHand, Foreign
    <2> QED
      BY <1>10, <2>1, GmailStep
  <1>11. ASSUME ClearPubsub PROVE IInv'
    <2>1. surface = "gmail"
      BY <1>0, <1>11 DEF ClearPubsub, Foreign
    <2> QED
      BY <1>11, <2>1, GmailStep
  <1>12. ASSUME NEW s \in Stepper, NEW T \in (SUBSET Account) \ {{}}, Commit(s, T) PROVE IInv'
    BY <1>12, CommitStep
  <1>13. ASSUME NEW s \in Stepper, EmitNext(s) PROVE IInv'
    <2>1. emit[s].at # "idle" => emit[s].at \in Stage[surface]
      BY <1>0 DEF EmitInv
    <2>2. CASE EmitListeners(s)
      <3>1. surface = "listeners"
        BY <1>0, <2>1, <2>2 DEF EmitListeners, Surface, Stage
      <3> QED
        BY <2>2, <3>1, ListenersStep
    <2>3. CASE EmitGmail(s) \/ EmitPublish(s)
      <3>1. surface = "gmail"
        BY <1>0, <2>1, <2>3 DEF EmitGmail, EmitPublish, Surface, Stage
      <3> QED
        BY <2>3, <3>1, GmailStep
    <2>4. CASE EmitGraph(s) \/ EmitNotify(s) \/ EmitNotified(s)
      <3>1. surface = "graph"
        BY <1>0, <2>1, <2>4 DEF EmitGraph, EmitNotify, EmitNotified, Surface, Stage
      <3> QED
        BY <2>4, <3>1, GraphStep
    <2>5. CASE EmitEws(s) \/ EmitEnqueue(s)
      <3>1. surface = "ews"
        BY <1>0, <2>1, <2>5 DEF EmitEws, EmitEnqueue, Surface, Stage
      <3> QED
        BY <2>5, <3>1, EwsStep
    <2> QED
      BY <1>13, <2>2, <2>3, <2>4, <2>5 DEF EmitNext
  <1>14. ASSUME Clear PROVE IInv'
    <2>1. surface \in {"gmail", "graph", "ews"}
      BY <1>14, ClearIs
    <2> QED
      BY <1>14, <2>1, GmailStep, GraphStep, EwsStep
  <1>15. CASE UNCHANGED vars
    <2>1. AllTypes' /\ EmitInv' /\ Foreign'
      BY <1>15 DEF vars, IInv, AllTypes, Types, GmailTypes, GraphTypes, EwsTypes, SeenTypes, EmitInv, Foreign
    <2>2. ListenersInv' /\ GmailInv' /\ GraphInv' /\ NotifyInv'
      BY <1>15 DEF vars, IInv, ListenersInv, GmailInv, GraphInv, NotifyInv
    <2>3. EwsInv' /\ EnqueueInv' /\ SilentInv'
      BY <1>15 DEF vars, IInv, EwsInv, EnqueueInv, SilentInv, SilentAfterDelete
    <2> QED
      BY <2>1, <2>2, <2>3 DEF IInv
  <1>16. CASE Next
    <2> USE <1>16 DEF Next
    <2>1. CASE (\E l \in Listener, a \in Caller : Register(l, a)) \/ (\E l \in Listener : Hangup(l))
      BY <1>1, <1>2, <2>1
    <2>2. CASE \/ \E a \in Caller, r \in Resource : CreateSubscription(a, r)
               \/ \E i \in Id : DeleteSubscription(i)
      BY <1>3, <1>4, <2>2
    <2>3. CASE \/ \E a \in Caller : Subscribe(a)
               \/ \E c \in Client, i \in Id : UnsubscribeQueue(c, i) \/ StreamCheck(c, i)
      BY <1>5, <1>6, <2>3
    <2>4. CASE \E c \in Client : UnsubscribeDone(c) \/ StreamDrain(c) \/ WatchSet(c)
      BY <1>7, <1>8, <2>4
    <2>5. CASE \/ \E c \in Client, a \in Caller : WatchRead(c, a)
               \/ \E a \in Caller : Stop(a) \/ PublishByHand(a)
               \/ ClearPubsub
      BY <1>9, <1>10, <1>11, <2>5
    <2>6. CASE \E s \in Stepper, T \in (SUBSET Account) \ {{}} : Commit(s, T)
      BY <1>12, <2>6
    <2>7. CASE (\E s \in Stepper : EmitNext(s)) \/ Clear
      BY <1>13, <1>14, <2>7
    <2> QED
      BY <2>1, <2>2, <2>3, <2>4, <2>5, <2>6, <2>7
  <1> QED
    BY <1>15, <1>16

LEMMA Invariance == Spec => []IInv
  BY InitIInv, NextIInv, PTL DEF Spec

(* Whatever order concurrent emissions, drains, deletions and a clear of the
   registries take, a live listener, watch or subscription is told of every
   later step of its account exactly once. *)
THEOREM PushesAnnouncedOnce == Spec => []AnnouncedOnce
  BY Invariance, InvAnnounced, PTL

(* No notification and no queued or drained event names a step that committed
   after its subscription was deleted or cleared. *)
THEOREM DeletedStaySilent == Spec => []SilentAfterDelete
  <1>1. IInv => SilentAfterDelete
    BY DEF IInv, SilentInv
  <1> QED
    BY Invariance, <1>1, PTL
=============================================================================
