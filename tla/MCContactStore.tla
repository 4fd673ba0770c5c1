--------------------------- MODULE MCContactStore ---------------------------
(* Two address books of the primary account, one of a second account. *)
EXTENDS ContactStore

CONSTANTS A, B, f1, f2, g1, p, q

Books == (f1 :> A) @@ (f2 :> A) @@ (g1 :> B)

(* Two contacts in the first book, so that a listing has two pages. *)
TwoContacts ==
    <<[id |-> 1, acct |-> A, folder |-> f1, card |-> p],
      [id |-> 2, acct |-> A, folder |-> f1, card |-> p]>>

(* An edit, a move within the account, a move out of it. *)
EditOrMove == {[card |-> q, folder |-> None], [card |-> None, folder |-> f2],
               [card |-> None, folder |-> g1]}

=============================================================================
