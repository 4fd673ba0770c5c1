-------------------------- MODULE TokenStoreProofs --------------------------
(***************************************************************************)
(* Proofs about TokenStore: for every set of requests, accounts and bodies *)
(* and any number of tokens and resets, as long as no reset arrives while  *)
(* a token request is in flight (ResetRaces = FALSE).                      *)
(***************************************************************************)
EXTENDS TokenStore, TLAPS

(* The tokens minted since the last clear(). *)
Minted == {t \in Token : t[1] <= counter}

OptToken == Token \cup {NoToken}
OptAccount == Account \cup {NoAccount}

Metadata ==
    [grant : {"authorization_code", "refresh_token", "refresh"},
     account : Account, paired : OptToken]

Exchange ==
    [grant : {"none", "authorization_code", "refresh_token"}, rt : OptToken,
     acct : OptAccount, body : Body, access : OptToken, refresh : OptToken,
     window : Nat, bound : OptAccount]

Types ==
    /\ counter \in 0..MaxMints /\ resets \in Nat
    /\ tokens \in [Active -> Metadata]
    /\ pc \in [Request -> {"idle", "resolve", "access", "refresh", "pair"}]
    /\ req \in [Request -> Exchange] /\ answers \subseteq Exchange

(* Nothing in the store is from the future, and revocation is final. *)
StoreInv ==
    /\ Active \subseteq Minted /\ revoked \subseteq Minted
    /\ revoked \cap Active = {}

(* What a request has so far follows from where it is.  Its access token is
   active: nobody can invalidate a token that no response has carried yet. *)
Progress(r) ==
    /\ pc[r] # "idle" => req[r].grant # "none" /\ req[r].window = resets
    /\ req[r].rt \in Minted \cup {NoToken} /\ (pc[r] = "idle" => req[r].rt = NoToken)
    /\ pc[r] \in {"idle", "resolve", "access"} => req[r].access = NoToken
    /\ pc[r] # "pair" => req[r].refresh = NoToken
    /\ pc[r] \in {"refresh", "pair"} => req[r].access \in Active
    /\ pc[r] = "pair" => req[r].refresh \in Minted /\ req[r].refresh # req[r].access
    /\ pc[r] \in {"access", "refresh", "pair"} => req[r].acct \in Account

(* The account a request is for, before and after Resolve. *)
Bound(r) ==
    /\ pc[r] = "resolve" =>
         /\ req[r].acct # NoAccount => req[r].bound = req[r].acct
         /\ req[r].acct = NoAccount /\ req[r].rt \in Active
              => tokens[req[r].rt].account = req[r].bound
    /\ pc[r] \in {"access", "refresh", "pair"} =>
         (req[r].rt \in Active /\ req[r].bound # NoAccount => req[r].acct = req[r].bound)

Requests == \A r \in Request : Progress(r) /\ Bound(r)

(* No token is held twice, in flight or in a response. *)
Held(x) == {x.access, x.refresh} \ {NoToken}
Separate ==
    /\ \A r, q \in Request : r # q => Held(req[r]) \cap Held(req[q]) = {}
    /\ \A r \in Request, a \in answers : Held(req[r]) \cap {a.access, a.refresh} = {}

(* The pairing is what the responses say, in both directions. *)
Pairing ==
    /\ \A a \in answers :
         /\ a.access \in Minted /\ a.refresh \in Minted /\ a.rt \in Minted \cup {NoToken}
         /\ a.access \in Active => tokens[a.access].paired = a.refresh
    /\ \A t \in Active :
         tokens[t].paired # NoToken =>
           \E a \in answers : t = a.access /\ tokens[t].paired = a.refresh

IInv ==
    /\ Types /\ StoreInv /\ Requests /\ Separate /\ Pairing
    /\ RevocationCascades /\ TokensDistinct /\ RefreshKeepsAccount

-----------------------------------------------------------------------------

LEMMA InitIInv == Init => IInv
  <1> SUFFICES ASSUME Init PROVE IInv
    OBVIOUS
  <1> USE StoreAssumption DEF Init
  <1>1. Active = {} /\ tokens \in [Active -> Metadata]
    BY DEF Active
  <1>2. Blank \in Exchange /\ Blank.access = NoToken /\ Blank.refresh = NoToken
        /\ Blank.rt = NoToken
    BY DEF Blank, Exchange, OptToken, OptAccount
  <1>3. Types
    BY <1>1, <1>2 DEF Types
  <1>4. StoreInv
    BY <1>1 DEF StoreInv
  <1>5. Requests
    BY <1>2 DEF Requests, Progress, Bound
  <1>6. Separate
    BY <1>2 DEF Separate, Held
  <1>7. Pairing
    BY <1>1 DEF Pairing
  <1>8. RevocationCascades /\ TokensDistinct /\ RefreshKeepsAccount
    BY DEF RevocationCascades, TokensDistinct, RefreshKeepsAccount
  <1> QED
    BY <1>3, <1>4, <1>5, <1>6, <1>7, <1>8 DEF IInv

(* A step that leaves the store and the responses alone has to keep only what
   is said of the requests. *)
LEMMA StoreUntouched ==
  ASSUME IInv, UNCHANGED <<store, resets, answers>>, Types', Requests', Separate'
  PROVE  IInv'
  <1>1. UNCHANGED <<tokens, revoked, counter, answers, Active, Minted>>
    BY DEF store, Active, Minted
  <1>2. StoreInv'
    BY <1>1 DEF IInv, StoreInv
  <1>3. Pairing'
    BY <1>1 DEF IInv, Pairing
  <1>4. RevocationCascades' /\ TokensDistinct' /\ RefreshKeepsAccount'
    BY <1>1 DEF IInv, RevocationCascades, TokensDistinct, RefreshKeepsAccount
  <1> QED
    BY <1>2, <1>3, <1>4 DEF IInv

LEMMA PresentIInv ==
  ASSUME IInv, NEW r \in Request, NEW grant \in {"authorization_code", "refresh_token"},
         NEW rt \in Issued \cup {NoToken}, NEW acct \in OptAccount, NEW b \in Body,
         Present(r, grant, rt, acct, b)
  PROVE  IInv'
  <1> USE StoreAssumption
  <1> DEFINE bd == IF acct # NoAccount THEN acct ELSE AccountForToken(rt)
             x == [Blank EXCEPT !.grant = grant, !.rt = rt, !.acct = acct, !.body = b,
                                !.window = resets, !.bound = bd]
  <1>1. rt \in Minted \cup {NoToken} /\ rt \in OptToken
    BY DEF IInv, Pairing, Issued, Minted, OptToken
  <1>2. bd \in OptAccount /\ (acct # NoAccount => bd = acct)
        /\ (acct = NoAccount /\ rt \in Active => bd = tokens[rt].account)
    BY DEF AccountForToken, OptAccount, IInv, Types, Metadata
  <1> HIDE DEF bd
  <1>3. /\ x \in Exchange /\ x.access = NoToken /\ x.refresh = NoToken /\ x.rt = rt
        /\ x.acct = acct /\ x.bound = bd /\ x.window = resets /\ x.grant = grant
    BY <1>1, <1>2 DEF Blank, Exchange, OptToken, OptAccount, IInv, Types
  <1> HIDE DEF x
  <1>4. /\ pc[r] = "idle" /\ req' = [req EXCEPT ![r] = x] /\ pc' = [pc EXCEPT ![r] = "resolve"]
        /\ UNCHANGED <<store, resets, answers>>
    BY DEF Present, x, bd
  <1>5. UNCHANGED <<tokens, revoked, counter, resets, answers, Active, Minted>>
    BY <1>4 DEF store, Active, Minted
  <1>6. Types'
    BY <1>3, <1>4, <1>5 DEF IInv, Types
  <1>7. Requests'
    <2> SUFFICES ASSUME NEW q \in Request PROVE Progress(q)' /\ Bound(q)'
      BY DEF Requests
    <2>1. CASE q = r
      BY <1>1, <1>2, <1>3, <1>4, <1>5, <2>1 DEF IInv, Types, Progress, Bound
    <2>2. CASE q # r
      <3>1. req'[q] = req[q] /\ pc'[q] = pc[q]
        BY <1>4, <2>2 DEF IInv, Types
      <3> QED
        BY <3>1, <1>5 DEF IInv, Requests, Progress, Bound
    <2> QED
      BY <2>1, <2>2
  <1>8. Separate'
    <2>1. \A q \in Request : Held(req'[q]) \subseteq Held(req[q])
      BY <1>3, <1>4 DEF IInv, Types, Held
    <2> QED
      BY <1>5, <2>1 DEF IInv, Separate
  <1> QED
    BY <1>4, <1>6, <1>7, <1>8, StoreUntouched

LEMMA ResolveIInv ==
  ASSUME IInv, NEW r \in Request, Resolve(r)
  PROVE  IInv'
  <1> USE StoreAssumption
  <1> DEFINE ac == IF req[r].acct # NoAccount THEN req[r].acct
                   ELSE IF AccountForToken(req[r].rt) # NoAccount
                        THEN AccountForToken(req[r].rt) ELSE Primary
  <1>0. req[r] \in Exchange /\ pc[r] = "resolve" /\ Progress(r) /\ Bound(r)
    BY DEF Resolve, IInv, Types, Requests
  <1>1. /\ ac \in Account
        /\ req[r].rt \in Active /\ req[r].bound # NoAccount => ac = req[r].bound
    BY <1>0 DEF AccountForToken, IInv, Types, Metadata, Exchange, OptAccount, Bound
  <1> HIDE DEF ac
  <1>2. /\ req' = [req EXCEPT ![r].acct = ac] /\ pc' = [pc EXCEPT ![r] = "access"]
        /\ UNCHANGED <<store, resets, answers>>
    BY DEF Resolve, ac
  <1>3. UNCHANGED <<tokens, revoked, counter, resets, answers, Active, Minted>>
    BY <1>2 DEF store, Active, Minted
  <1>4. Types'
    <2>1. [req[r] EXCEPT !.acct = ac] \in Exchange
      BY <1>0, <1>1 DEF Exchange, OptAccount
    <2> QED
      BY <1>2, <1>3, <2>1 DEF IInv, Types
  <1>5. \A q \in Request : q # r => req'[q] = req[q] /\ pc'[q] = pc[q]
    BY <1>2 DEF IInv, Types
  <1>6. /\ pc'[r] = "access" /\ req'[r].acct = ac /\ req'[r].access = req[r].access
        /\ req'[r].refresh = req[r].refresh /\ req'[r].rt = req[r].rt
        /\ req'[r].bound = req[r].bound /\ req'[r].grant = req[r].grant
        /\ req'[r].window = req[r].window
    BY <1>2 DEF IInv, Types, Exchange
  <1>7. Requests'
    <2> SUFFICES ASSUME NEW q \in Request PROVE Progress(q)' /\ Bound(q)'
      BY DEF Requests
    <2>1. CASE q = r
      BY <1>0, <1>1, <1>3, <1>6, <2>1 DEF Progress, Bound
    <2>2. CASE q # r
      BY <1>3, <1>5, <2>2 DEF IInv, Requests, Progress, Bound
    <2> QED
      BY <2>1, <2>2
  <1>8. Separate'
    <2>1. \A q \in Request : Held(req'[q]) = Held(req[q])
      BY <1>5, <1>6 DEF Held
    <2> QED
      BY <1>3, <2>1 DEF IInv, Separate
  <1> QED
    BY <1>2, <1>4, <1>7, <1>8, StoreUntouched

(* What mint does: one token more, which nothing in the store, in flight or in a
   response names yet. *)
LEMMA MintFresh ==
  ASSUME IInv, NEW b \in Body, NEW grant \in {"authorization_code", "refresh_token", "refresh"},
         NEW acct \in Account, NEW t, t = <<counter + 1, b>>, Mint(grant, acct, t)
  PROVE  /\ t \in Token /\ t \notin Minted /\ t \in Minted' /\ Minted \subseteq Minted'
         /\ counter' \in 0..MaxMints /\ revoked' = revoked
         /\ Active' = Active \cup {t} /\ tokens' \in [Active' -> Metadata]
         /\ \A x \in Active : tokens'[x] = tokens[x]
         /\ tokens'[t].paired = NoToken
  <1> USE StoreAssumption
  <1>1. counter \in 0..MaxMints /\ counter < MaxMints /\ counter' = counter + 1
    BY DEF IInv, Types, Mint
  <1>2. t \in Token /\ t[1] = counter + 1
    BY <1>1 DEF Token
  <1>3. t \notin Minted /\ t \in Minted' /\ Minted \subseteq Minted'
    <2>1. \A x \in Token : x[1] \in 1..MaxMints
      BY DEF Token
    <2> QED
      BY <1>1, <1>2, <2>1 DEF Minted
  <1>4. t \notin Active
    BY <1>3 DEF IInv, StoreInv
  <1>5. Active' = Active \cup {t}
    BY DEF Mint, Active
  <1>6. /\ tokens' \in [Active' -> Metadata] /\ tokens'[t].paired = NoToken
        /\ \A x \in Active : tokens'[x] = tokens[x]
    <2>1. [grant |-> grant, account |-> acct, paired |-> NoToken] \in Metadata
      BY DEF Metadata, OptToken
    <2>2. \A x \in Active : tokens[x] \in Metadata
      BY DEF IInv, Types
    <2> QED
      BY <1>4, <1>5, <2>1, <2>2 DEF Mint
  <1> QED
    BY <1>1, <1>2, <1>3, <1>5, <1>6 DEF Mint

(* A mint leaves what the store and the responses say of one another intact. *)
LEMMA MintStore ==
  ASSUME IInv, NEW t \in Token, t \notin Minted, t \in Minted', Minted \subseteq Minted',
         Active' = Active \cup {t}, \A x \in Active : tokens'[x] = tokens[x],
         tokens'[t].paired = NoToken, UNCHANGED <<revoked, answers>>
  PROVE  /\ StoreInv' /\ Pairing'
         /\ RevocationCascades' /\ TokensDistinct' /\ RefreshKeepsAccount'
  <1>1. \A a \in answers : /\ a.access \in Minted /\ a.refresh \in Minted
                           /\ a.rt \in Minted \cup {NoToken} /\ a.rt \in OptToken
    BY DEF IInv, Types, Exchange, Pairing
  <1>2. StoreInv'
    BY DEF IInv, StoreInv
  <1>3. Pairing'
    BY <1>1 DEF IInv, Pairing
  <1>4. RevocationCascades' /\ TokensDistinct'
    BY DEF IInv, RevocationCascades, TokensDistinct
  <1>5. RefreshKeepsAccount'
    <2> SUFFICES ASSUME NEW a \in answers, a.rt \in Active', a.bound # NoAccount
                 PROVE  a.acct = a.bound
      BY DEF RefreshKeepsAccount
    <2>1. CASE a.rt \in Active
      BY <2>1 DEF IInv, RefreshKeepsAccount
    <2>2. CASE a.rt = t
      BY <1>1, <2>2, StoreAssumption
    <2> QED
      BY <2>1, <2>2
  <1> QED
    BY <1>2, <1>3, <1>4, <1>5

(* A request keeps what it has while another one mints. *)
LEMMA MintOther ==
  ASSUME IInv, NEW t \in Token, t \notin Minted, Minted \subseteq Minted',
         Active' = Active \cup {t}, \A x \in Active : tokens'[x] = tokens[x],
         NEW q \in Request, UNCHANGED <<resets, req[q], pc[q]>>
  PROVE  Progress(q)' /\ Bound(q)'
  <1>1. Progress(q) /\ Bound(q)
    BY DEF IInv, Requests
  <1>2. req[q].rt # t
    BY <1>1, StoreAssumption DEF Progress
  <1>3. Progress(q)'
    BY <1>1 DEF Progress
  <1>4. Bound(q)'
    BY <1>1, <1>2 DEF Bound
  <1> QED
    BY <1>3, <1>4

(* A fresh token in one request's hands separates it from everybody else's. *)
LEMMA MintSeparate ==
  ASSUME IInv, NEW t, t \notin Minted, NEW r \in Request, UNCHANGED answers,
         Held(req'[r]) \subseteq Held(req[r]) \cup {t},
         \A q \in Request : q # r => Held(req'[q]) = Held(req[q])
  PROVE  Separate'
  <1>1. \A q \in Request : Held(req[q]) \subseteq Minted
    BY DEF IInv, Types, Exchange, Requests, Progress, Held, StoreInv
  <1>2. \A a \in answers : a.access \in Minted /\ a.refresh \in Minted
    BY DEF IInv, Pairing
  <1>3. ASSUME NEW p \in Request, NEW q \in Request, p # q
        PROVE  Held(req'[p]) \cap Held(req'[q]) = {}
    <2>1. Held(req[p]) \cap Held(req[q]) = {}
      BY <1>3 DEF IInv, Separate
    <2>2. CASE p = r
      BY <1>1, <1>3, <2>1, <2>2
    <2>3. CASE q = r
      BY <1>1, <1>3, <2>1, <2>3
    <2> QED
      BY <2>1, <2>2, <2>3
  <1>4. ASSUME NEW p \in Request, NEW a \in answers
        PROVE  Held(req'[p]) \cap {a.access, a.refresh} = {}
    <2>1. Held(req[p]) \cap {a.access, a.refresh} = {}
      BY DEF IInv, Separate
    <2> QED
      BY <1>2, <2>1
  <1> QED
    BY <1>3, <1>4 DEF Separate

LEMMA MintAccessIInv ==
  ASSUME IInv, NEW r \in Request, MintAccess(r)
  PROVE  IInv'
  <1> USE StoreAssumption
  <1> DEFINE t == <<counter + 1, req[r].body>>
  <1>0. req[r] \in Exchange /\ pc[r] = "access" /\ Progress(r) /\ Bound(r)
    BY DEF MintAccess, IInv, Types, Requests
  <1>1. /\ Mint(req[r].grant, req[r].acct, t) /\ req' = [req EXCEPT ![r].access = t]
        /\ pc' = [pc EXCEPT ![r] = "refresh"] /\ UNCHANGED <<resets, answers>>
    BY DEF MintAccess
  <1>2. /\ req[r].body \in Body /\ req[r].acct \in Account
        /\ req[r].grant \in {"authorization_code", "refresh_token", "refresh"}
    BY <1>0 DEF Exchange, Progress
  <1> HIDE DEF t
  <1>3. /\ t \in Token /\ t \notin Minted /\ t \in Minted' /\ Minted \subseteq Minted'
        /\ counter' \in 0..MaxMints /\ revoked' = revoked
        /\ Active' = Active \cup {t} /\ tokens' \in [Active' -> Metadata]
        /\ \A x \in Active : tokens'[x] = tokens[x]
        /\ tokens'[t].paired = NoToken
    BY <1>1, <1>2, MintFresh DEF t
  <1>4. \A q \in Request : q # r => req'[q] = req[q] /\ pc'[q] = pc[q]
    BY <1>1 DEF IInv, Types
  <1>5. /\ pc'[r] = "refresh" /\ req'[r].access = t
        /\ req'[r].acct = req[r].acct /\ req'[r].refresh = req[r].refresh
        /\ req'[r].rt = req[r].rt /\ req'[r].bound = req[r].bound
        /\ req'[r].grant = req[r].grant /\ req'[r].window = req[r].window
    BY <1>1 DEF IInv, Types, Exchange
  <1>6. Types'
    <2>1. [req[r] EXCEPT !.access = t] \in Exchange
      BY <1>0, <1>3 DEF Exchange, OptToken
    <2> QED
      BY <1>1, <1>3, <2>1 DEF IInv, Types
  <1>7. Requests'
    <2> SUFFICES ASSUME NEW q \in Request PROVE Progress(q)' /\ Bound(q)'
      BY DEF Requests
    <2>1. CASE q = r
      <3>1. Progress(r)'
        BY <1>0, <1>1, <1>3, <1>5 DEF Progress
      <3>2. Bound(r)'
        BY <1>0, <1>3, <1>5 DEF Bound, Progress
      <3> QED
        BY <2>1, <3>1, <3>2
    <2>2. CASE q # r
      BY <1>1, <1>3, <1>4, <2>2, MintOther
    <2> QED
      BY <2>1, <2>2
  <1>8. Separate'
    <2>1. Held(req'[r]) \subseteq Held(req[r]) \cup {t}
          /\ \A q \in Request : q # r => Held(req'[q]) = Held(req[q])
      BY <1>4, <1>5 DEF Held
    <2> QED
      BY <1>1, <1>3, <2>1, MintSeparate
  <1> QED
    BY <1>1, <1>3, <1>6, <1>7, <1>8, MintStore DEF IInv

LEMMA MintRefreshIInv ==
  ASSUME IInv, NEW r \in Request, MintRefresh(r)
  PROVE  IInv'
  <1> USE StoreAssumption
  <1> DEFINE t == <<counter + 1, req[r].body>>
  <1>0. req[r] \in Exchange /\ pc[r] = "refresh" /\ Progress(r) /\ Bound(r)
    BY DEF MintRefresh, IInv, Types, Requests
  <1>1. /\ Mint("refresh", req[r].acct, t) /\ req' = [req EXCEPT ![r].refresh = t]
        /\ pc' = [pc EXCEPT ![r] = "pair"] /\ UNCHANGED <<resets, answers>>
    BY DEF MintRefresh
  <1>2. req[r].body \in Body /\ req[r].acct \in Account
    BY <1>0 DEF Exchange, Progress
  <1> HIDE DEF t
  <1>3. /\ t \in Token /\ t \notin Minted /\ t \in Minted' /\ Minted \subseteq Minted'
        /\ counter' \in 0..MaxMints /\ revoked' = revoked
        /\ Active' = Active \cup {t} /\ tokens' \in [Active' -> Metadata]
        /\ \A x \in Active : tokens'[x] = tokens[x]
        /\ tokens'[t].paired = NoToken
    BY <1>1, <1>2, MintFresh DEF t
  <1>4. \A q \in Request : q # r => req'[q] = req[q] /\ pc'[q] = pc[q]
    BY <1>1 DEF IInv, Types
  <1>5. /\ pc'[r] = "pair" /\ req'[r].refresh = t
        /\ req'[r].acct = req[r].acct /\ req'[r].access = req[r].access
        /\ req'[r].rt = req[r].rt /\ req'[r].bound = req[r].bound
        /\ req'[r].grant = req[r].grant /\ req'[r].window = req[r].window
    BY <1>1 DEF IInv, Types, Exchange
  <1>6. Types'
    <2>1. [req[r] EXCEPT !.refresh = t] \in Exchange
      BY <1>0, <1>3 DEF Exchange, OptToken
    <2> QED
      BY <1>1, <1>3, <2>1 DEF IInv, Types
  <1>7. Requests'
    <2> SUFFICES ASSUME NEW q \in Request PROVE Progress(q)' /\ Bound(q)'
      BY DEF Requests
    <2>1. CASE q = r
      <3>1. Progress(r)'
        BY <1>0, <1>1, <1>3, <1>5 DEF Progress, IInv, StoreInv
      <3>2. Bound(r)'
        BY <1>0, <1>3, <1>5 DEF Bound, Progress
      <3> QED
        BY <2>1, <3>1, <3>2
    <2>2. CASE q # r
      BY <1>1, <1>3, <1>4, <2>2, MintOther
    <2> QED
      BY <2>1, <2>2
  <1>8. Separate'
    <2>1. Held(req'[r]) \subseteq Held(req[r]) \cup {t}
          /\ \A q \in Request : q # r => Held(req'[q]) = Held(req[q])
      BY <1>4, <1>5 DEF Held
    <2> QED
      BY <1>1, <1>3, <2>1, MintSeparate
  <1> QED
    BY <1>1, <1>3, <1>6, <1>7, <1>8, MintStore DEF IInv

(* The response is written: what the request held becomes an answer's. *)
LEMMA PairRefreshIInv ==
  ASSUME IInv, NEW r \in Request, PairRefresh(r)
  PROVE  IInv'
  <1> USE StoreAssumption
  <1> DEFINE x == req[r]
  <1>0. x \in Exchange /\ pc[r] = "pair" /\ Progress(r) /\ Bound(r)
    BY DEF PairRefresh, IInv, Types, Requests
  <1>1. /\ x.access \in Active /\ x.refresh \in Minted /\ x.refresh # x.access
        /\ x.window = resets /\ x.access \in Minted /\ x.access # NoToken /\ x.refresh # NoToken
        /\ x.refresh \in Token /\ x.rt \in Minted \cup {NoToken} /\ x.acct \in Account
    BY <1>0 DEF Progress, Minted, IInv, StoreInv
  <1>2. /\ tokens' = [tokens EXCEPT ![x.access].paired = x.refresh]
        /\ answers' = answers \cup {x} /\ pc' = [pc EXCEPT ![r] = "idle"]
        /\ req' = [req EXCEPT ![r] = Blank] /\ UNCHANGED <<revoked, counter, resets>>
    BY <1>1 DEF PairRefresh
  <1>b. Blank \in Exchange /\ Blank.access = NoToken /\ Blank.refresh = NoToken
        /\ Blank.rt = NoToken
    BY DEF Blank, Exchange, OptToken, OptAccount
  <1>h. x.access \in Held(req[r]) /\ x.refresh \in Held(req[r])
    BY <1>1 DEF Held
  <1> HIDE DEF x
  <1>3. /\ Active' = Active /\ tokens' \in [Active' -> Metadata]
        /\ tokens'[x.access].paired = x.refresh
        /\ \A t \in Active : tokens'[t].account = tokens[t].account
        /\ \A t \in Active \ {x.access} : tokens'[t] = tokens[t]
        /\ Minted' = Minted
    <2>1. tokens \in [Active -> Metadata]
      BY DEF IInv, Types
    <2>2. tokens[x.access] \in Metadata
          /\ [tokens[x.access] EXCEPT !.paired = x.refresh] \in Metadata
          /\ [tokens[x.access] EXCEPT !.paired = x.refresh].paired = x.refresh
          /\ [tokens[x.access] EXCEPT !.paired = x.refresh].account = tokens[x.access].account
      BY <1>1, <2>1 DEF Metadata, OptToken
    <2>3. DOMAIN tokens' = DOMAIN tokens /\ Minted' = Minted
      BY <1>2 DEF Minted
    <2> QED
      BY <1>1, <1>2, <2>1, <2>2, <2>3 DEF Active
  <1>4. Types'
    BY <1>0, <1>2, <1>3, <1>b DEF IInv, Types
  <1>5. \A q \in Request : q # r => req'[q] = req[q] /\ pc'[q] = pc[q]
    BY <1>2 DEF IInv, Types
  <1>6. req'[r] = Blank /\ pc'[r] = "idle"
    BY <1>2 DEF IInv, Types
  <1>7. Requests'
    <2> SUFFICES ASSUME NEW q \in Request PROVE Progress(q)' /\ Bound(q)'
      BY DEF Requests
    <2>1. CASE q = r
      BY <1>6, <1>b, <2>1 DEF Progress, Bound
    <2>2. CASE q # r
      <3>1. Progress(q) /\ Bound(q) /\ req'[q] = req[q] /\ pc'[q] = pc[q]
        BY <1>5, <2>2 DEF IInv, Requests
      <3>2. Progress(q)'
        BY <1>2, <1>3, <3>1 DEF Progress
      <3>3. Bound(q)'
        BY <1>3, <3>1 DEF Bound
      <3> QED
        BY <3>2, <3>3
    <2> QED
      BY <2>1, <2>2
  <1>8. Separate'
    <2>1. Held(req'[r]) = {} /\ \A q \in Request : q # r => Held(req'[q]) = Held(req[q])
      BY <1>5, <1>6, <1>b DEF Held
    <2>2. \A q \in Request : q # r => Held(req[q]) \cap {x.access, x.refresh} = {}
      BY <1>h DEF IInv, Separate
    <2> QED
      BY <1>2, <2>1, <2>2 DEF IInv, Separate
  <1>9. \A a \in answers : {x.access, x.refresh} \cap {a.access, a.refresh} = {}
    BY <1>h DEF IInv, Separate
  <1>10. StoreInv'
    BY <1>2, <1>3 DEF IInv, StoreInv
  <1>11. Pairing'
    <2>1. ASSUME NEW a \in answers'
          PROVE  /\ a.access \in Minted' /\ a.refresh \in Minted' /\ a.rt \in Minted' \cup {NoToken}
                 /\ a.access \in Active' => tokens'[a.access].paired = a.refresh
      <3>1. CASE a = x
        BY <1>1, <1>3, <3>1
      <3>2. CASE a \in answers
        <4>1. a.access # x.access
          BY <1>9, <3>2
        <4> QED
          BY <1>3, <3>2, <4>1 DEF IInv, Pairing
      <3> QED
        BY <1>2, <3>1, <3>2
    <2>2. ASSUME NEW t \in Active', tokens'[t].paired # NoToken
          PROVE  \E a \in answers' : t = a.access /\ tokens'[t].paired = a.refresh
      <3>1. CASE t = x.access
        BY <1>2, <1>3, <3>1
      <3>2. CASE t # x.access
        BY <1>2, <1>3, <2>2, <3>2 DEF IInv, Pairing
      <3> QED
        BY <3>1, <3>2
    <2> QED
      BY <2>1, <2>2 DEF Pairing
  <1>12. RevocationCascades'
    BY <1>1, <1>2, <1>3 DEF IInv, RevocationCascades
  <1>13. TokensDistinct'
    <2> SUFFICES ASSUME NEW a \in answers', NEW b \in answers'
                 PROVE  /\ a.access # a.refresh
                        /\ a # b => {a.access, a.refresh} \cap {b.access, b.refresh} = {}
      BY DEF TokensDistinct
    <2>1. CASE a \in answers /\ b \in answers
      BY <2>1 DEF IInv, TokensDistinct
    <2>2. CASE a = x
      BY <1>1, <1>2, <1>9, <2>2
    <2>3. CASE b = x /\ a \in answers
      BY <1>9, <2>3 DEF IInv, TokensDistinct
    <2> QED
      BY <1>2, <2>1, <2>2, <2>3
  <1>14. RefreshKeepsAccount'
    <2>1. x.rt \in Active /\ x.bound # NoAccount => x.acct = x.bound
      BY <1>0 DEF Bound, x
    <2> QED
      BY <1>2, <1>3, <2>1 DEF IInv, RefreshKeepsAccount
  <1> QED
    BY <1>4, <1>7, <1>8, <1>10, <1>11, <1>12, <1>13, <1>14 DEF IInv

(* Invalidating a token that a response carried takes at most that response's
   refresh token along, and nothing that is still in flight. *)
LEMMA InvalidateIInv ==
  ASSUME IInv, NEW t \in Issued, Invalidate(t)
  PROVE  IInv'
  <1> USE StoreAssumption
  <1> DEFINE pair == {tokens[t].paired} \ {NoToken}
             gone == {t} \cup pair
             rev == pair \cup (IF tokens[t].grant = "refresh" THEN {t} ELSE {})
  <1>1. /\ t \in Active /\ tokens' = Restrict(tokens, Active \ gone)
        /\ revoked' = revoked \cup rev
        /\ UNCHANGED <<counter, resets, pc, req, answers>>
    BY DEF Invalidate
  <1>2. ASSUME NEW u \in pair
        PROVE  \E a \in answers : t = a.access /\ u = a.refresh
    BY <1>1 DEF IInv, Pairing
  <1>3. pair \subseteq Minted /\ t \in Minted /\ rev \subseteq gone /\ pair \subseteq rev
    BY <1>1, <1>2 DEF IInv, Pairing, StoreInv
  <1>4. ASSUME NEW u \in gone
        PROVE  \E a \in answers : u \in {a.access, a.refresh}
    BY <1>2 DEF Issued
  <1>5. ASSUME NEW a \in answers, a.access \in gone
        PROVE  a.refresh \in pair
    <2>1. CASE a.access = t
      <3>1. tokens[t].paired = a.refresh /\ a.refresh \in Minted
        BY <1>1, <2>1 DEF IInv, Pairing
      <3> QED
        BY <3>1 DEF Minted
    <2>2. CASE a.access \in pair
      <3>1. PICK b \in answers : t = b.access /\ a.access = b.refresh
        BY <1>2, <2>2
      <3>2. a.access # a.refresh /\ a # b => a.access # b.refresh
        BY DEF IInv, TokensDistinct
      <3> QED
        BY <3>1, <3>2 DEF IInv, TokensDistinct
    <2> QED
      BY <1>5, <2>1, <2>2
  <1> HIDE DEF pair, gone, rev
  <1>6. /\ Active' = Active \ gone /\ tokens' \in [Active' -> Metadata]
        /\ \A x \in Active' : tokens'[x] = tokens[x]
        /\ Minted' = Minted
    <2>1. Active' = Active \ gone
      BY <1>1 DEF Restrict, Active
    <2>2. Minted' = Minted
      BY <1>1 DEF Minted
    <2> QED
      BY <1>1, <2>1, <2>2 DEF Restrict, IInv, Types
  <1>7. Types'
    BY <1>1, <1>6 DEF IInv, Types
  <1>8. StoreInv'
    BY <1>1, <1>3, <1>6 DEF IInv, StoreInv, gone
  <1>9. Requests'
    <2> SUFFICES ASSUME NEW q \in Request PROVE Progress(q)' /\ Bound(q)'
      BY DEF Requests
    <2>1. Progress(q) /\ Bound(q)
      BY DEF IInv, Requests
    <2>2. pc[q] \in {"refresh", "pair"} => req[q].access \notin gone
      <3> SUFFICES ASSUME pc[q] \in {"refresh", "pair"}, req[q].access \in gone PROVE FALSE
        OBVIOUS
      <3>1. req[q].access \in Active /\ req[q].access # NoToken
        BY <2>1 DEF Progress, IInv, StoreInv, Minted
      <3>2. PICK a \in answers : req[q].access \in {a.access, a.refresh}
        BY <1>4
      <3>3. req[q].access \in Held(req[q])
        BY <3>1 DEF Held
      <3> QED
        BY <3>2, <3>3 DEF IInv, Separate
    <2>3. Progress(q)'
      BY <1>1, <1>6, <2>1, <2>2 DEF Progress
    <2>4. Bound(q)'
      BY <1>1, <1>6, <2>1 DEF Bound
    <2> QED
      BY <2>3, <2>4
  <1>10. Separate'
    BY <1>1 DEF IInv, Separate
  <1>11. Pairing'
    <2>1. answers' = answers
      BY <1>1
    <2>2. ASSUME NEW a \in answers
          PROVE  /\ a.access \in Minted /\ a.refresh \in Minted /\ a.rt \in Minted \cup {NoToken}
                 /\ a.access \in Active' => tokens'[a.access].paired = a.refresh
      BY <1>6 DEF IInv, Pairing
    <2>3. ASSUME NEW x \in Active', tokens'[x].paired # NoToken
          PROVE  \E a \in answers : x = a.access /\ tokens'[x].paired = a.refresh
      BY <1>6, <2>3 DEF IInv, Pairing
    <2> QED
      BY <1>6, <2>1, <2>2, <2>3 DEF Pairing
  <1>12. RevocationCascades'
    <2> SUFFICES ASSUME NEW a \in answers, a.access \notin Active' PROVE a.refresh \in revoked'
      BY <1>1 DEF RevocationCascades
    <2>1. CASE a.access \in gone
      BY <1>1, <1>3, <1>5, <2>1
    <2>2. CASE a.access \notin Active
      BY <1>1, <2>2 DEF IInv, RevocationCascades
    <2> QED
      BY <1>6, <2>1, <2>2
  <1>13. TokensDistinct' /\ RefreshKeepsAccount'
    BY <1>1, <1>6 DEF IInv, TokensDistinct, RefreshKeepsAccount
  <1> QED
    BY <1>7, <1>8, <1>9, <1>10, <1>11, <1>12, <1>13 DEF IInv

(* With nothing in flight, clear() leaves nothing behind. *)
LEMMA ClearIInv ==
  ASSUME IInv, \A r \in Request : pc[r] = "idle", Clear
  PROVE  IInv'
  <1> USE StoreAssumption DEF Clear
  <1>1. Active' = {} /\ tokens' \in [Active' -> Metadata]
    BY DEF Active
  <1>2. Types'
    BY <1>1 DEF IInv, Types
  <1>3. StoreInv'
    BY <1>1 DEF StoreInv
  <1>4. \A r \in Request : Progress(r)
    BY DEF IInv, Requests
  <1>5. Requests'
    <2> SUFFICES ASSUME NEW r \in Request PROVE Progress(r)' /\ Bound(r)'
      BY DEF Requests
    <2>1. pc'[r] = "idle" /\ req'[r].access = NoToken /\ req'[r].refresh = NoToken
          /\ req'[r].rt = NoToken
      BY <1>4 DEF Progress
    <2> QED
      BY <2>1 DEF Progress, Bound
  <1>6. Separate'
    BY DEF Separate, IInv
  <1>7. Pairing' /\ RevocationCascades' /\ TokensDistinct' /\ RefreshKeepsAccount'
    BY <1>1 DEF Pairing, RevocationCascades, TokensDistinct, RefreshKeepsAccount
  <1> QED
    BY <1>2, <1>3, <1>5, <1>6, <1>7 DEF IInv

LEMMA NextIInv ==
  ASSUME ~ResetRaces, IInv, [Next]_vars
  PROVE  IInv'
  <1>1. ASSUME NEW r \in Request, NEW acct \in Account \cup {NoAccount}, NEW b \in Body,
               Present(r, "authorization_code", NoToken, acct, b)
        PROVE  IInv'
    BY <1>1, PresentIInv DEF OptAccount
  <1>2. ASSUME NEW r \in Request, NEW acct \in Account \cup {NoAccount}, NEW b \in Body,
               NEW rt \in Issued, Present(r, "refresh_token", rt, acct, b)
        PROVE  IInv'
    BY <1>2, PresentIInv DEF OptAccount
  <1>3. CASE UNCHANGED vars
    <2>1. UNCHANGED <<tokens, revoked, counter, resets, pc, req, answers, Active, Minted>>
      BY <1>3 DEF vars, store, Active, Minted
    <2>2. Types' /\ Separate'
      BY <2>1 DEF IInv, Types, Separate
    <2>3. Requests'
      BY <2>1 DEF IInv, Requests, Progress, Bound
    <2> QED
      BY <1>3, <2>2, <2>3, StoreUntouched DEF vars
  <1>4. ASSUME NEW r \in Request, NEW rt \in Issued, Refuse(r, rt)
        PROVE  IInv'
    BY <1>3, <1>4 DEF Refuse
  <1>5. ASSUME NEW r \in Request, Resolve(r) \/ MintAccess(r) \/ MintRefresh(r) \/ PairRefresh(r)
        PROVE  IInv'
    BY <1>5, ResolveIInv, MintAccessIInv, MintRefreshIInv, PairRefreshIInv
  <1>6. ASSUME NEW t \in Issued, Invalidate(t)
        PROVE  IInv'
    BY <1>6, InvalidateIInv
  <1>7. CASE MayClear /\ Clear
    BY <1>7, ClearIInv DEF MayClear
  <1> QED
    BY <1>1, <1>2, <1>3, <1>4, <1>5, <1>6, <1>7 DEF Next

-----------------------------------------------------------------------------

(* Of any number of interleaved token requests and invalidations: the strings of
   the responses are distinct, revoked tokens stay dead, and an access token that
   is gone has taken its refresh token along (token_endpoint, TokenStore::mint,
   pair_refresh, invalidate, clear). *)
THEOREM TokensStaySound ==
  ASSUME ~ResetRaces
  PROVE  Spec => []TokensSound
  <1>1. IInv => TokensSound
    <2> SUFFICES ASSUME IInv PROVE TypeOK
      BY DEF TokensSound, IInv
    <2>1. \A t \in Minted : t[1] \in 1..counter
      BY StoreAssumption DEF Minted, Token, IInv, Types
    <2>2. \A t \in Active : tokens[t].account \in Account
      BY DEF IInv, Types, Metadata
    <2> QED
      BY <2>1, <2>2 DEF TypeOK, IInv, Types, StoreInv
  <1> QED
    BY <1>1, InitIInv, NextIInv, PTL DEF Spec

(* token_endpoint answers a refresh for the account of the presented token
   unless that token itself is gone, whatever runs between its lookups. *)
THEOREM RefreshesKeepAccount ==
  ASSUME ~ResetRaces
  PROVE  Spec => []RefreshKeepsAccount
  <1>1. IInv => RefreshKeepsAccount
    BY DEF IInv
  <1> QED
    BY <1>1, InitIInv, NextIInv, PTL DEF Spec

=============================================================================
