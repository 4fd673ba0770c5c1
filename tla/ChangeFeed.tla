----------------------------- MODULE ChangeFeed -----------------------------
(***************************************************************************)
(* What a change feed promises a client that syncs incrementally: every    *)
(* account has a sequence of views, one per state token it has handed out, *)
(* and a token the feed still remembers is answered with the difference    *)
(* between the view the client saw and the view of now.                    *)
(***************************************************************************)
EXTENDS Integers, Sequences

CONSTANTS
    Account, Item,
    Unknown     \* the answer that sends the client to a full resync

VARIABLES
    hist,       \* hist[a][n + 1]: the view of account a at token n (0 = absent)
    floor,      \* the oldest token the feed remembers how to answer
    answer      \* answer[a][n]: what a client holding token n is told

fvars == <<hist, floor, answer>>

Latest(a) == Len(hist[a]) - 1

(* The delta d leads from view v to view w.  An id may be reported as updated
   needlessly, but never next to another report of the same id. *)
Leads(v, w, d) ==
    /\ d.created = {x \in Item : v[x] = 0 /\ w[x] # 0}
    /\ d.destroyed = {x \in Item : v[x] # 0 /\ w[x] = 0}
    /\ {x \in Item : v[x] # 0 /\ w[x] # 0 /\ v[x] # w[x]} \subseteq d.updated
    /\ d.updated \cap (d.created \cup d.destroyed) = {}

(* A remembered token is answered exactly, a forgotten one is refused.  Only
   token 0, the load-time seed, is still accepted once it is forgotten, and
   then nothing is promised about the answer. *)
Honest ==
    \A a \in Account :
        /\ floor[a] \in 0..Latest(a)
        /\ \A n \in 0..Latest(a) :
             IF n >= floor[a]
             THEN /\ answer[a][n] # Unknown
                  /\ Leads(hist[a][n + 1], hist[a][Latest(a) + 1], answer[a][n])
             ELSE n # 0 => answer[a][n] = Unknown

FeedInit == Honest /\ \A a \in Account : Latest(a) = 0

(* Tokens are handed out one at a time and never taken back; a token once
   forgotten stays forgotten. *)
FeedNext ==
    /\ \A a \in Account :
         /\ SubSeq(hist'[a], 1, Len(hist[a])) = hist[a]
         /\ Len(hist'[a]) <= Len(hist[a]) + 1
         /\ floor'[a] >= floor[a]
    /\ Honest'

FeedSpec == FeedInit /\ [][FeedNext]_fvars

=============================================================================
