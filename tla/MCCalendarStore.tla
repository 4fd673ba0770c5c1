-------------------------- MODULE MCCalendarStore --------------------------
(* Two calendars of the primary account, which share a log, and one of a second
   account; events move freely between them. *)
EXTENDS CalendarStore

CONSTANTS A, B, c1, c2, c3, yes, no

TwoAndOne == (c1 :> A) @@ (c2 :> A) @@ (c3 :> B)

(* An edit, an answer, and a move to each calendar. *)
EditAnswerMove ==
    {[text |-> TRUE, status |-> None, cal |-> None], [text |-> FALSE, status |-> yes, cal |-> None]}
    \cup {[text |-> FALSE, status |-> None, cal |-> c] : c \in Calendar}

(* An event the account is invited to, in a calendar of the primary account. *)
OneInvitation == <<[id |-> 1, acct |-> A, cal |-> c1, text |-> [a \in Account |-> 0],
                      status |-> no]>>

=============================================================================
