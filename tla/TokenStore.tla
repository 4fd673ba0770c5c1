----------------------------- MODULE TokenStore -----------------------------
(***************************************************************************)
(* The OAuth mock provider (src/src/oauth.rs): TokenStore, POST            *)
(* /oauth/token, POST /test/oauth/invalidate, and the clear() that POST    *)
(* /test/fixture/reset calls.                                              *)
(*                                                                         *)
(* token_endpoint takes the store's mutex once per call it makes to the    *)
(* store (revocation check, account lookup, two mints, pairing), so those  *)
(* are the steps of a request; other requests run in between.              *)
(***************************************************************************)
EXTENDS Integers, FiniteSets, Functions

CONSTANTS
    Request,        \* token requests in flight
    Account, Primary,
    Body,           \* request bodies, told apart by their hash
    NoToken, NoAccount,
    ResetRaces,     \* may a reset arrive while a token request is in flight?
    MaxMints,       \* bound on the tokens minted in one reset window
    MaxResets       \* bound on the resets

(* "mock-access-{counter}-{hash}". *)
Token == (1..MaxMints) \X Body

ASSUME StoreAssumption ==
    /\ Primary \in Account /\ NoAccount \notin Account
    /\ Body # {} /\ NoToken \notin Token
    /\ ResetRaces \in BOOLEAN /\ MaxMints \in Nat /\ MaxResets \in Nat

VARIABLES
    tokens,     \* the active tokens and their TokenMetadata
    revoked,    \* revoked_refresh
    counter,    \* tokens minted since the last clear()
    resets,     \* history: resets so far
    pc,         \* per request: where it is
    req,        \* per request: what it presented and what it has so far
    answers     \* history: the responses of this reset window

store == <<tokens, revoked, counter>>
vars  == <<store, resets, pc, req, answers>>

Active == DOMAIN tokens

(* A request before it arrives, and the tokens a client can know. *)
Blank == [grant |-> "none", rt |-> NoToken, acct |-> NoAccount,
          body |-> CHOOSE b \in Body : TRUE, access |-> NoToken, refresh |-> NoToken,
          window |-> 0, bound |-> NoAccount]
Issued == {a.access : a \in answers} \cup {a.refresh : a \in answers}

Init ==
    /\ tokens = << >> /\ revoked = {} /\ counter = 0 /\ resets = 0
    /\ pc = [r \in Request |-> "idle"] /\ req = [r \in Request |-> Blank]
    /\ answers = {}

(* account_for_token. *)
AccountForToken(t) == IF t \in Active THEN tokens[t].account ELSE NoAccount

-----------------------------------------------------------------------------
(* token_endpoint.  An unsupported grant type and an account_id that no account
   has are refused before the store is touched; they are left out. *)

(* The request with its presented refresh token (rt), optional account_id and
   body: is_refresh_revoked decides at once whether it is invalid_grant.
   `bound` remembers the account the presented token is bound to. *)
Present(r, grant, rt, acct, b) ==
    /\ pc[r] = "idle"
    /\ grant = "refresh_token" => rt \notin revoked
    /\ req' = [req EXCEPT ![r] = [Blank EXCEPT !.grant = grant, !.rt = rt, !.acct = acct,
                        !.body = b, !.window = resets,
                        !.bound = IF acct # NoAccount THEN acct ELSE AccountForToken(rt)]]
    /\ pc' = [pc EXCEPT ![r] = "resolve"]
    /\ UNCHANGED <<store, resets, answers>>

(* invalid_grant. *)
Refuse(r, rt) ==
    /\ pc[r] = "idle" /\ rt \in revoked
    /\ UNCHANGED vars

(* The account: the explicit one, else that of the presented token, else the
   primary. *)
ResolvePrimary(r) ==
    /\ pc[r] = "resolve"
    /\ req' = [req EXCEPT ![r].acct = IF @ # NoAccount THEN @ ELSE Primary]
    /\ pc' = [pc EXCEPT ![r] = "access"]
    /\ UNCHANGED <<store, resets, answers>>
Resolve(r) ==
    /\ pc[r] = "resolve"
    /\ req' = [req EXCEPT ![r].acct =
                  IF @ # NoAccount THEN @
                  ELSE IF AccountForToken(req[r].rt) # NoAccount
                       THEN AccountForToken(req[r].rt) ELSE Primary]
    /\ pc' = [pc EXCEPT ![r] = "access"]
    /\ UNCHANGED <<store, resets, answers>>

(* TokenStore::mint of t. *)
Mint(grant, acct, t) ==
    /\ counter < MaxMints /\ counter' = counter + 1
    /\ tokens' = [x \in Active \cup {t} |->
                    IF x = t THEN [grant |-> grant, account |-> acct, paired |-> NoToken]
                    ELSE tokens[x]]
    /\ UNCHANGED revoked

MintAccess(r) ==
    LET t == <<counter + 1, req[r].body>> IN
    /\ pc[r] = "access" /\ Mint(req[r].grant, req[r].acct, t)
    /\ req' = [req EXCEPT ![r].access = t]
    /\ pc' = [pc EXCEPT ![r] = "refresh"]
    /\ UNCHANGED <<resets, answers>>

MintRefresh(r) ==
    LET t == <<counter + 1, req[r].body>> IN
    /\ pc[r] = "refresh" /\ Mint("refresh", req[r].acct, t)
    /\ req' = [req EXCEPT ![r].refresh = t]
    /\ pc' = [pc EXCEPT ![r] = "pair"]
    /\ UNCHANGED <<resets, answers>>

(* pair_refresh, a no-op when the access token is gone, and the response. *)
PairRefresh(r) ==
    /\ pc[r] = "pair"
    /\ tokens' = IF req[r].access \in Active
                 THEN [tokens EXCEPT ![req[r].access].paired = req[r].refresh] ELSE tokens
    /\ answers' = IF req[r].window = resets THEN answers \cup {req[r]} ELSE answers
    /\ pc' = [pc EXCEPT ![r] = "idle"]
    /\ req' = [req EXCEPT ![r] = Blank]
    /\ UNCHANGED <<revoked, counter, resets>>

-----------------------------------------------------------------------------

(* TokenStore::invalidate of a token a client was given: the token goes; a
   refresh token is revoked, an access token takes the refresh token it is
   paired with along. *)
InvalidateAccessOnly(t) ==
    /\ t \in Active
    /\ tokens' = Restrict(tokens, Active \ {t})
    /\ revoked' = IF tokens[t].grant = "refresh" THEN revoked \cup {t} ELSE revoked
    /\ UNCHANGED <<counter, resets, pc, req, answers>>
Invalidate(t) ==
    LET pair == {tokens[t].paired} \ {NoToken} IN
    /\ t \in Active
    /\ tokens' = Restrict(tokens, Active \ ({t} \cup pair))
    /\ revoked' = revoked \cup pair \cup (IF tokens[t].grant = "refresh" THEN {t} ELSE {})
    /\ UNCHANGED <<counter, resets, pc, req, answers>>

(* TokenStore::clear. *)
Clear ==
    /\ resets < MaxResets /\ resets' = resets + 1
    /\ tokens' = << >> /\ revoked' = {} /\ counter' = 0 /\ answers' = {}
    /\ UNCHANGED <<pc, req>>

(* The reset arrives. *)
MayClear == ResetRaces \/ \A r \in Request : pc[r] = "idle"

Next ==
    \/ \E r \in Request, acct \in Account \cup {NoAccount}, b \in Body :
         \/ Present(r, "authorization_code", NoToken, acct, b)
         \/ \E rt \in Issued : Present(r, "refresh_token", rt, acct, b)
    \/ \E r \in Request, rt \in Issued : Refuse(r, rt)
    \/ \E r \in Request : Resolve(r) \/ MintAccess(r) \/ MintRefresh(r) \/ PairRefresh(r)
    \/ \E t \in Issued : Invalidate(t)
    \/ MayClear /\ Clear

Spec == Init /\ [][Next]_vars

-----------------------------------------------------------------------------
(* Properties. *)

(* The state stays well typed; the active tokens were minted in this window. *)
TypeOK ==
    /\ counter \in 0..MaxMints
    /\ \A t \in Active : t[1] \in 1..counter /\ tokens[t].account \in Account
    /\ revoked \cap Active = {}

(* Invalidating an access token leaves no way back: once the access half of a
   response of this reset window is not active any more, its refresh half is
   revoked, whatever other requests and invalidations run in between. *)
RevocationCascades ==
    \A a \in answers : a.access \notin Active => a.refresh \in revoked

(* No two responses of a reset window share a token: the counter makes the
   strings distinct even when two requests interleave their mints. *)
TokensDistinct ==
    \A a, b \in answers :
        /\ a.access # a.refresh
        /\ a # b => {a.access, a.refresh} \cap {b.access, b.refresh} = {}

(* The tokens of the answers are distinct strings, and an access token that is
   gone has taken its refresh token along. *)
TokensSound == TypeOK /\ RevocationCascades /\ TokensDistinct

(* A refresh keeps its account: the response to a request that presented a
   token is for the account that token was bound to, whatever other requests and
   invalidations ran in between.  Only a presented token that was itself
   invalidated may be answered for another account: token_endpoint then no
   longer finds its account and falls back to the primary. *)
RefreshKeepsAccount ==
    \A a \in answers : a.rt \in Active /\ a.bound # NoAccount => a.acct = a.bound

=============================================================================
