------------------------------- MODULE PushHub -------------------------------
(***************************************************************************)
(* The push registry of src/src/push.rs with the endpoints that fill and   *)
(* drain it: JMAP WebSockets, IMAP idle waiters, Gmail watches with their  *)
(* Pub/Sub sink, Graph webhook subscriptions and EWS streaming queues.     *)
(*                                                                         *)
(* Every registry has a mutex of its own and no call holds two of them, so *)
(* an emission, an Unsubscribe, a GetStreamingEvents, a watch and a clear  *)
(* are sequences of critical sections that interleave.  What a push says   *)
(* (state token, historyId, changeType) is abstracted to the number of the *)
(* change-script step it announces.  The loopback POSTs are spawned, never *)
(* retried and never read back, so they leave no trace in the hub.  The    *)
(* registries share nothing but the id counter, so a behaviour has clients *)
(* of one of them and shows the part of an emission that concerns it.      *)
(***************************************************************************)
EXTENDS Naturals, SequencesExt

CONSTANTS
    NAccount,   \* accounts are numbered in the order of their ids
    Caller,     \* the accounts whose bearers call the endpoints
    Stepper,    \* requests that may apply a change-script step
    Listener,   \* JMAP WebSockets and idling IMAP connections
    Client,     \* callers of the two-lock endpoints
    MaxSeq,     \* bound on the ids given to subscriptions
    MaxStep,    \* bound on committed steps
    MaxReset    \* bound on resets

ASSUME PushAssumption == /\ {NAccount, MaxSeq, MaxStep, MaxReset} \subseteq Nat
                        /\ Caller \subseteq 1..NAccount

VARIABLES
    surface,    \* the one registry that clients of this behaviour use
    touched,    \* touched[n]: accounts_touched of the n-th committed step
    emit,       \* emit[s]: the emission that stepper s is in the middle of
    seq,        \* the hub's atomic id counter
    chan,       \* chan[l]: registration and frames of listener l
    gmail,      \* [watches: account -> steps committed when set, sink: Seq]
    graph,      \* [subs: by id, log: notifications, excluded: skipped]
    ews,        \* [subs: by id, events: queues by id]
    call,       \* call[c]: what client c's request does next
    clearing,   \* how many of clear's locks are done; 0 outside a reset
    resets,     \* resets so far
    seen        \* history, see Init

vars == <<surface, touched, emit, seq, chan, gmail, graph, ews, call, clearing, resets, seen>>

Account == 1..NAccount
Id == 1..MaxSeq
Closed == [acct |-> 0, since |-> 0, inbox |-> << >>]
NoCall == [op |-> "none", id |-> 0]
NoEmit == [n |-> 0, todo |-> {}, at |-> "idle", subs |-> {}]
Emitting(n, T) == [n |-> n, todo |-> T, at |-> surface, subs |-> {}]
Committed == Len(touched)

(* The classes of a subscription's resource: the caller's own mailbox (and a
   users/ path that names no account), a user's mailbox, the public folders. *)
Resource == [ns : {"personal", "public"}, of : {0}] \cup [ns : {"shared"}, of : Account]

(* namespace_for_resource and PushNamespace::emits. *)
EmitsToAll(ns) == TRUE
Emits(ns) == ns # "public"

Init ==
    /\ surface \in {"listeners", "gmail", "graph", "ews"}
    /\ touched = << >>
    /\ emit = [s \in Stepper |-> NoEmit]
    /\ seq = 1
    /\ chan = [l \in Listener |-> Closed]
    /\ gmail = [watches |-> << >>, sink |-> << >>]
    /\ graph = [subs |-> << >>, log |-> << >>, excluded |-> << >>]
    /\ ews = [subs |-> << >>, events |-> << >>]
    /\ call = [c \in Client |-> NoCall]
    /\ clearing = 0 /\ resets = 0
    \* told[i]: what EWS clients drained from i; taken: what was cleared from
    \* the sink; gone[i]: the steps committed when i was deleted.
    /\ seen = [told  |-> [i \in Id |-> {}], taken |-> {},
               gone  |-> [i \in Id |-> MaxStep]]

Without(f, K) == [k \in DOMAIN f \ K |-> f[k]]
With(f, k, v) == [x \in DOMAIN f \cup {k} |-> IF x = k THEN v ELSE f[x]]

(* next_seq: ids of subscriptions, Pub/Sub messages and watermarks come from
   one counter, which nothing ever sets back. *)
NextSeq == seq' = seq + 1

-----------------------------------------------------------------------------
(* Registration. *)

(* register_jmap_ws and register_imap_idle. *)
Register(l, a) ==
    /\ surface = "listeners" /\ chan[l] = Closed
    /\ chan' = [chan EXCEPT ![l] = [acct |-> a, since |-> Committed, inbox |-> << >>]]
    /\ UNCHANGED <<surface, touched, emit, seq, gmail, graph, ews, call, clearing, resets, seen>>

(* The socket closes or the connection leaves IDLE: the receiver is dropped;
   an emission prunes the dead entry when its send fails. *)
Hangup(l) ==
    /\ chan[l] # Closed
    /\ chan' = [chan EXCEPT ![l] = Closed]
    /\ UNCHANGED <<surface, touched, emit, seq, gmail, graph, ews, call, clearing, resets, seen>>

(* account_for_subscription_resource, else the bearer's account. *)
SubscriptionAccount(bearer, r) ==
    IF r.ns = "shared" THEN r.of ELSE bearer

(* create_subscription (with a validationToken it only echoes). *)
CreateSubscription(bearer, r) ==
    /\ surface = "graph" /\ seq <= MaxSeq
    /\ NextSeq
    /\ graph' = [graph EXCEPT !.subs = With(@, seq,
           [acct |-> SubscriptionAccount(bearer, r), ns |-> r.ns, of |-> r.of,
            since |-> Committed, during |-> clearing # 0])]
    /\ UNCHANGED <<surface, touched, emit, chan, gmail, ews, call, clearing, resets, seen>>

DeleteSubscription(i) ==
    /\ i \in DOMAIN graph.subs
    /\ graph' = [graph EXCEPT !.subs = Without(@, {i})]
    /\ seen' = [seen EXCEPT !.gone[i] = Committed]
    /\ UNCHANGED <<surface, touched, emit, seq, chan, gmail, ews, call, clearing, resets>>

(* EWS Subscribe. *)
Subscribe(a) ==
    /\ surface = "ews" /\ seq <= MaxSeq
    /\ NextSeq
    /\ ews' = [ews EXCEPT !.subs = With(@, seq,
           [acct |-> a, since |-> Committed, during |-> clearing # 0])]
    /\ UNCHANGED <<surface, touched, emit, chan, gmail, graph, call, clearing, resets, seen>>

(* ews_delete_subscription drops the queue under one lock and the
   registration under the next. *)
UnsubscribeQueue(c, i) ==
    /\ call[c] = NoCall /\ surface = "ews" /\ i < seq
    /\ ews' = [ews EXCEPT !.events = Without(@, {i})]
    /\ call' = [call EXCEPT ![c] = [op |-> "unsubscribe", id |-> i]]
    /\ UNCHANGED <<surface, touched, emit, seq, chan, gmail, graph, clearing, resets, seen>>
UnsubscribeDone(c) ==
    LET i == call[c].id IN
    /\ call[c].op = "unsubscribe"
    /\ call' = [call EXCEPT ![c] = NoCall]
    /\ ews' = [ews EXCEPT !.subs = Without(@, {i})]
    /\ seen' = IF i \in DOMAIN ews.subs THEN [seen EXCEPT !.gone[i] = Committed] ELSE seen
    /\ UNCHANGED <<surface, touched, emit, seq, chan, gmail, graph, clearing, resets>>

(* get_streaming_events: the subscription is looked up, then its queue is
   taken.  An unknown id is answered Closed at once. *)
StreamCheck(c, i) ==
    /\ call[c] = NoCall /\ i \in DOMAIN ews.subs
    /\ call' = [call EXCEPT ![c] = [op |-> "stream", id |-> i]]
    /\ UNCHANGED <<surface, touched, emit, seq, chan, gmail, graph, ews, clearing, resets, seen>>
PeekQueue(q) == q
TakeQueue(q) == << >>
StreamDrain(c) ==
    LET i == call[c].id IN
    /\ call[c].op = "stream"
    /\ call' = [call EXCEPT ![c] = NoCall]
    /\ IF i \in DOMAIN ews.events
         THEN /\ seen' = [seen EXCEPT !.told[i] = @ \cup ToSet(ews.events[i])]
              /\ ews' = [ews EXCEPT !.events[i] = TakeQueue(@)]
         ELSE UNCHANGED <<ews, seen>>
    /\ UNCHANGED <<surface, touched, emit, seq, chan, gmail, graph, clearing, resets>>

(* users.watch reads the account's historyId under the fixture lock and sets
   the watch afterwards; users.stop removes it. *)
WatchRead(c, a) ==
    /\ call[c] = NoCall /\ surface = "gmail"
    /\ call' = [call EXCEPT ![c] = [op |-> "watch", id |-> a]]
    /\ UNCHANGED <<surface, touched, emit, seq, chan, gmail, graph, ews, clearing, resets, seen>>
WatchSet(c) ==
    /\ call[c].op = "watch"
    /\ call' = [call EXCEPT ![c] = NoCall]
    /\ gmail' = [gmail EXCEPT !.watches = With(@, call[c].id, Committed)]
    /\ UNCHANGED <<surface, touched, emit, seq, chan, graph, ews, clearing, resets, seen>>
Stop(a) ==
    /\ a \in DOMAIN gmail.watches
    /\ gmail' = [gmail EXCEPT !.watches = Without(@, {a})]
    /\ UNCHANGED <<surface, touched, emit, seq, chan, graph, ews, call, clearing, resets, seen>>

(* The test routes of the sink: publish by hand (as step 0), empty the sink. *)
PublishByHand(a) ==
    /\ surface = "gmail" /\ seq <= MaxSeq
    /\ NextSeq
    /\ gmail' = [gmail EXCEPT !.sink = Append(@, <<a, 0>>)]
    /\ UNCHANGED <<surface, touched, emit, chan, graph, ews, call, clearing, resets, seen>>
(* What the sink says of script steps. *)
Scripted(q) == {e \in ToSet(q) : e[2] # 0}
ClearPubsub ==
    /\ gmail.sink # << >>
    /\ gmail' = [gmail EXCEPT !.sink = << >>]
    /\ seen' = [seen EXCEPT !.taken = @ \cup Scripted(gmail.sink)]
    /\ UNCHANGED <<surface, touched, emit, seq, chan, graph, ews, call, clearing, resets>>

-----------------------------------------------------------------------------
(* Emission. *)

(* advance_change_cursor commits a step that touches the accounts T, lists the
   pushes under the fixture lock and drops the lock.  A step with an empty
   diff pushes nothing and is left out. *)
Commit(s, T) ==
    /\ emit[s] = NoEmit /\ Committed < MaxStep
    /\ touched' = Append(touched, T)
    /\ emit' = [emit EXCEPT ![s] = Emitting(Committed + 1, T)]
    /\ UNCHANGED <<surface, seq, chan, gmail, graph, ews, call, clearing, resets, seen>>

(* The account of the push that s is emitting. *)
Current(s) == CHOOSE a \in emit[s].todo : \A b \in emit[s].todo : a <= b

(* The next account of the emission, or its end. *)
NextPush(s) ==
    LET rest == emit[s].todo \ {Current(s)} IN
    IF rest = {} THEN NoEmit
    ELSE Emitting(emit[s].n, rest)

(* jmap_state_change and graph_notification: what the frames say is determined
   by the step they announce. *)
StateChange(s) == emit[s].n
Notification(i, s) == <<i, emit[s].n>>

(* emit_jmap and emit_imap send to the account's live listeners. *)
Send(s) ==
    [l \in Listener |-> IF chan[l].acct = Current(s)
                          THEN [chan[l] EXCEPT !.inbox = Append(@, StateChange(s))] ELSE chan[l]]
EmitListeners(s) ==
    /\ emit[s].at = "listeners"
    /\ chan' = Send(s)
    /\ emit' = [emit EXCEPT ![s] = NextPush(s)]
    /\ UNCHANGED <<surface, touched, seq, gmail, graph, ews, call, clearing, resets, seen>>

(* emit_gmail: the watch is looked up before the publish. *)
EmitGmail(s) ==
    /\ emit[s].at = "gmail"
    /\ \/ /\ Current(s) \in DOMAIN gmail.watches
          /\ NextSeq
          /\ emit' = [emit EXCEPT ![s].at = "publish"]
       \/ /\ Current(s) \notin DOMAIN gmail.watches
          /\ emit' = [emit EXCEPT ![s] = NextPush(s)]
          /\ UNCHANGED seq
    /\ UNCHANGED <<surface, touched, chan, gmail, graph, ews, call, clearing, resets, seen>>
Published(s) == Append(gmail.sink, <<Current(s), emit[s].n>>)
EmitPublish(s) ==
    /\ emit[s].at = "publish"
    /\ gmail' = [gmail EXCEPT !.sink = Published(s)]
    /\ emit' = [emit EXCEPT ![s] = NextPush(s)]
    /\ UNCHANGED <<surface, touched, seq, chan, graph, ews, call, clearing, resets, seen>>

(* emit_graph copies the account's subscriptions under the lock and then
   notifies or excludes them one by one, in the order of their ids. *)
EmitGraph(s) ==
    /\ emit[s].at = "graph"
    /\ emit' = [emit EXCEPT ![s].at = "notify",
           ![s].subs = {[id |-> i, ns |-> graph.subs[i].ns] :
                        i \in {j \in DOMAIN graph.subs : graph.subs[j].acct = Current(s)}}]
    /\ UNCHANGED <<surface, touched, seq, chan, gmail, graph, ews, call, clearing, resets, seen>>
EmitNotified(s) ==
    /\ emit[s].at = "notify" /\ emit[s].subs = {}
    /\ emit' = [emit EXCEPT ![s] = NextPush(s)]
    /\ UNCHANGED <<surface, touched, seq, chan, gmail, graph, ews, call, clearing, resets, seen>>
EmitNotify(s) ==
    /\ emit[s].at = "notify"
    /\ \E b \in emit[s].subs :
        /\ \A o \in emit[s].subs : b.id <= o.id
        /\ graph' = IF Emits(b.ns)
                      THEN [graph EXCEPT !.log = Append(@, Notification(b.id, s))]
                      ELSE [graph EXCEPT !.excluded = Append(@, Notification(b.id, s))]
        /\ emit' = [emit EXCEPT ![s].subs = @ \ {b}]
    /\ UNCHANGED <<surface, touched, seq, chan, gmail, ews, call, clearing, resets, seen>>

(* emit_ews lists the subscriptions under one lock, mints a watermark and
   fills the queues under another. *)
ListWithQueues(s) == {i \in DOMAIN ews.subs \cup DOMAIN ews.events :
                        i \in DOMAIN ews.subs => ews.subs[i].acct = Current(s)}
ListSubs(s) == {i \in DOMAIN ews.subs : ews.subs[i].acct = Current(s)}
EmitEws(s) ==
    /\ emit[s].at = "ews"
    /\ \/ /\ ListSubs(s) = {}
          /\ emit' = [emit EXCEPT ![s] = NextPush(s)]
          /\ UNCHANGED seq
       \/ /\ ListSubs(s) # {}
          /\ NextSeq
          /\ emit' = [emit EXCEPT ![s].at = "enqueue", ![s].subs = ListSubs(s)]
    /\ UNCHANGED <<surface, touched, chan, gmail, graph, ews, call, clearing, resets, seen>>
EmitEnqueue(s) ==
    /\ emit[s].at = "enqueue"
    /\ ews' = [ews EXCEPT !.events = [i \in DOMAIN @ \cup emit[s].subs |->
           LET old == IF i \in DOMAIN @ THEN @[i] ELSE << >> IN
           IF i \in emit[s].subs THEN Append(old, emit[s].n) ELSE old]]
    /\ emit' = [emit EXCEPT ![s] = NextPush(s)]
    /\ UNCHANGED <<surface, touched, seq, chan, gmail, graph, call, clearing, resets, seen>>

-----------------------------------------------------------------------------
(* Reset. *)

(* PushHub::clear: one lock after the other in this order; live sockets and
   the id counter are kept. *)
ClearOrder ==
    [listeners |-> << >>, gmail |-> <<"watches", "sink">>,
     graph |-> <<"graphSubs", "graphLog">>, ews |-> <<"ewsSubs", "ewsEvents">>]
Clear ==
    LET r == ClearOrder[surface][clearing + 1]
        ended == CASE r = "graphSubs" -> DOMAIN graph.subs
                   [] r = "ewsSubs" -> DOMAIN ews.subs
                   [] OTHER -> {}
    IN
    /\ surface # "listeners"
    /\ clearing # 0 \/ resets < MaxReset
    /\ clearing' = IF clearing = Len(ClearOrder[surface]) - 1 THEN 0 ELSE clearing + 1
    /\ resets' = IF clearing = 0 THEN resets + 1 ELSE resets
    /\ gmail' = CASE r = "watches" -> [gmail EXCEPT !.watches = << >>]
                  [] r = "sink" -> [gmail EXCEPT !.sink = << >>]
                  [] OTHER -> gmail
    /\ graph' = CASE r = "graphSubs" -> [graph EXCEPT !.subs = << >>]
                  [] r = "graphLog" -> [graph EXCEPT !.log = << >>, !.excluded = << >>]
                  [] OTHER -> graph
    /\ ews' = CASE r = "ewsSubs" -> [ews EXCEPT !.subs = << >>]
                [] r = "ewsEvents" -> [ews EXCEPT !.events = << >>]
                [] OTHER -> ews
    /\ seen' = [seen EXCEPT
           !.gone = [i \in Id |-> IF i \in ended THEN Committed ELSE @[i]],
           !.taken = IF r = "sink" THEN @ \cup Scripted(gmail.sink) ELSE @]
    /\ UNCHANGED <<surface, touched, emit, seq, chan, call>>

EmitNext(s) ==
    \/ EmitListeners(s) \/ EmitGmail(s) \/ EmitPublish(s)
    \/ EmitGraph(s) \/ EmitNotify(s) \/ EmitNotified(s) \/ EmitEws(s) \/ EmitEnqueue(s)

Next ==
    \/ \E l \in Listener, a \in Caller : Register(l, a)
    \/ \E l \in Listener : Hangup(l)
    \/ \E a \in Caller, r \in Resource : CreateSubscription(a, r)
    \/ \E i \in Id : DeleteSubscription(i)
    \/ \E a \in Caller : Subscribe(a)
    \/ \E c \in Client, i \in Id : UnsubscribeQueue(c, i) \/ StreamCheck(c, i)
    \/ \E c \in Client : UnsubscribeDone(c) \/ StreamDrain(c) \/ WatchSet(c)
    \/ \E c \in Client, a \in Caller : WatchRead(c, a)
    \/ \E a \in Caller : Stop(a) \/ PublishByHand(a)
    \/ ClearPubsub
    \/ \E s \in Stepper, T \in (SUBSET Account) \ {{}} : Commit(s, T)
    \/ \E s \in Stepper : EmitNext(s)
    \/ Clear

Spec == Init /\ [][Next]_vars

-----------------------------------------------------------------------------
(* Properties. *)

(* The registries stay well typed: ids below the counter, every client of an
   account that exists. *)
TypeOK ==
    /\ touched \in Seq(SUBSET Account)
    /\ \A s \in Stepper : /\ emit[s].n \in 0..MaxStep
                          /\ emit[s].todo \subseteq Account
                          /\ emit[s].todo = {} <=> emit[s].at = "idle"
    /\ seq \in Nat
    /\ \A l \in Listener : chan[l].acct \in 0..NAccount
    /\ DOMAIN gmail.watches \subseteq Account
    /\ DOMAIN graph.subs \cup DOMAIN ews.subs \cup DOMAIN ews.events \subseteq 1..seq - 1
    /\ DOMAIN graph.subs \cap DOMAIN ews.subs = {}
    /\ clearing \in 0..Len(ClearOrder[surface])

(* Step n is still to be announced to account a. *)
InFlight(n, a) == \E s \in Stepper : emit[s].n = n /\ a \in emit[s].todo

(* The steps that a registration of account a, made when k steps were
   committed, has to hear of. *)
Due(a, k) == {n \in k + 1..Committed : a \in touched[n]}

AtMostOnce(q, x) == \A j, k \in DOMAIN q : q[j] = x /\ q[k] = x => j = k

(* emit_state_advance loses, repeats and misdirects nothing: a WebSocket or an
   idling connection hears of every step of its own account that commits after
   it registered, exactly once, and of no other account's, in whichever order
   concurrent steps emit. *)
ListenersExactlyOnce ==
    \A l \in Listener : LET c == chan[l] IN c # Closed =>
        /\ \A n \in Due(c.acct, c.since) : n \in ToSet(c.inbox) \/ InFlight(n, c.acct)
        /\ \A n \in 1..Committed : AtMostOnce(c.inbox, n)
        /\ \A n \in ToSet(c.inbox) : c.acct \in touched[n]

(* Across concurrent emissions, drains and deletions, a live EWS subscription
   owes its client every step since Subscribe exactly once: it was drained, is
   queued or is being emitted.  Exempt are a subscription made while a reset
   clears the registries and one whose Unsubscribe has begun. *)
EwsExactlyOnce ==
    \A i \in DOMAIN ews.subs :
        LET q == IF i \in DOMAIN ews.events THEN ews.events[i] ELSE << >>
            heard == seen.told[i] \cup ToSet(q)
            sub == ews.subs[i]
        IN  /\ ~sub.during /\ (\A c \in Client : call[c].op = "unsubscribe" => call[c].id # i)
               => \A n \in Due(sub.acct, sub.since) : n \in heard \/ InFlight(n, sub.acct)
            /\ \A n \in 1..Committed : AtMostOnce(q, n) /\ ~(n \in seen.told[i] /\ n \in ToSet(q))
            /\ \A n \in heard : sub.acct \in touched[n]

(* A live Graph subscription is notified of every step of the mailbox its
   resource names, exactly once; a public-folder one is excluded each time and
   never notified. *)
GraphFanout ==
    \A i \in DOMAIN graph.subs : LET sub == graph.subs[i] IN ~sub.during =>
        LET heard == IF sub.ns = "public" THEN graph.excluded ELSE graph.log
            other == IF sub.ns = "public" THEN graph.log ELSE graph.excluded
            box == IF sub.ns = "shared" THEN sub.of ELSE sub.acct
        IN  \A n \in 1..Committed :
              /\ n \in Due(box, sub.since) => <<i, n>> \in ToSet(heard) \/ InFlight(n, box)
              /\ box \notin touched[n] => <<i, n>> \notin ToSet(heard)
              /\ AtMostOnce(heard, <<i, n>>) /\ <<i, n>> \notin ToSet(other)

(* Deleting takes effect: neither a Graph log entry nor an EWS queue, not even
   the orphan that an emission may leave behind when it races Unsubscribe or a
   reset, ever names a step committed after the subscription was deleted. *)
SilentAfterDelete ==
    /\ \A k \in 1..Len(graph.log) : graph.log[k][2] <= seen.gone[graph.log[k][1]]
    /\ \A i \in DOMAIN ews.events : \A n \in ToSet(ews.events[i]) : n <= seen.gone[i]
    /\ \A i \in Id : \A n \in seen.told[i] : n <= seen.gone[i]

(* Every step of a watched account that commits after the watch was set is
   published to the sink exactly once. *)
WatchCovers ==
    \A a \in DOMAIN gmail.watches :
        \A n \in Due(a, gmail.watches[a]) :
            /\ <<a, n>> \in seen.taken \cup ToSet(gmail.sink) \/ InFlight(n, a)
            /\ AtMostOnce(gmail.sink, <<a, n>>)
            /\ ~(<<a, n>> \in seen.taken /\ <<a, n>> \in ToSet(gmail.sink))

(* Whatever the registry, a live registration is told of every later step of
   its account exactly once, in any order of concurrent emissions, drains,
   deletions and a reset. *)
AnnouncedOnce ==
    TypeOK /\ ListenersExactlyOnce /\ EwsExactlyOnce /\ GraphFanout /\ WatchCovers

=============================================================================
