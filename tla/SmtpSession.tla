----------------------------- MODULE SmtpSession -----------------------------
(***************************************************************************)
(* One connection of the SMTP submission server (src/src/smtp.rs) and the  *)
(* submission log it writes to.                                            *)
(*                                                                         *)
(* A command line is one step: the connection is served by one task.  An   *)
(* address is represented by the number of the MAIL or RCPT that named it  *)
(* (`clock`), so that a submission shows which commands its parts come     *)
(* from, and a parameter set by the address it was given with.  A command  *)
(* a Lua callback overrides, or whose syntax is wrong, is answered without *)
(* any change and is the action Refused.                                   *)
(***************************************************************************)
EXTENDS Integers, SequencesExt

CONSTANTS
    Account, Primary,
    Tls,            \* does the listener have a TLS acceptor?
    None,
    MaxCommands     \* bound on the commands of the session

ASSUME SessionAssumption ==
    /\ Primary \in Account /\ None \notin Account \cup Nat \cup BOOLEAN
    /\ Tls \in BOOLEAN /\ MaxCommands \in Nat

VARIABLES
    state,      \* SmtpState: ehlo, auth, from, from_params, rcpts, rcpt_params
    tls_active,
    account_id, \* the account the next submission belongs to
    mode,       \* command, data (between 354 and the final dot), closed
    log,        \* SubmissionLog
    clock,      \* commands so far
    fence       \* history: clock of the last EHLO, MAIL, RSET, STARTTLS or DATA

vars == <<state, tls_active, account_id, mode, log, clock, fence>>

SmtpStateDefault ==
    [ehlo |-> None, auth |-> None, from |-> None, from_params |-> None,
     rcpts |-> << >>, rcpt_params |-> << >>]

Init ==
    /\ state = SmtpStateDefault /\ tls_active = FALSE /\ account_id = Primary
    /\ mode = "command" /\ log = << >> /\ clock = 0 /\ fence = 0

Now == clock + 1
Tick == clock < MaxCommands /\ clock' = Now /\ mode = "command"

(* The envelope part of the state, empty. *)
NoEnvelope(s) ==
    [s EXCEPT !.from = None, !.from_params = None, !.rcpts = << >>, !.rcpt_params = << >>]

-----------------------------------------------------------------------------

CmdEhlo ==
    /\ Tick /\ fence' = Now
    /\ state' = [NoEnvelope(state) EXCEPT !.ehlo = tls_active]
    /\ UNCHANGED <<tls_active, account_id, mode, log>>

(* The upgrade; a second one or one without an acceptor is refused. *)
CmdStarttlsKeepsState ==
    /\ Tick /\ Tls /\ ~tls_active /\ fence' = Now
    /\ tls_active' = TRUE
    /\ UNCHANGED <<state, account_id, mode, log>>
CmdStarttls ==
    /\ Tick /\ Tls /\ ~tls_active /\ fence' = Now
    /\ tls_active' = TRUE
    /\ state' = SmtpStateDefault
    /\ UNCHANGED <<account_id, mode, log>>

(* AUTH with credentials of account a, or with ones that name no account. *)
CmdAuth(a) ==
    /\ Tick
    /\ account_id' = IF a = None THEN account_id ELSE a
    /\ state' = [state EXCEPT !.auth = tls_active]
    /\ UNCHANGED <<tls_active, mode, log, fence>>

CmdMailKeepsRcpts ==
    /\ Tick /\ state.ehlo # None /\ fence' = Now
    /\ state' = [state EXCEPT !.from = Now, !.from_params = Now]
    /\ UNCHANGED <<tls_active, account_id, mode, log>>
CmdMail ==
    /\ Tick /\ state.ehlo # None /\ fence' = Now
    /\ state' = [state EXCEPT !.from = Now, !.from_params = Now,
                              !.rcpts = << >>, !.rcpt_params = << >>]
    /\ UNCHANGED <<tls_active, account_id, mode, log>>

CmdRcpt ==
    /\ Tick /\ state.from # None
    /\ state' = [state EXCEPT !.rcpts = Append(@, Now), !.rcpt_params = Append(@, Now)]
    /\ UNCHANGED <<tls_active, account_id, mode, log, fence>>

CmdRset ==
    /\ Tick /\ fence' = Now
    /\ state' = NoEnvelope(state)
    /\ UNCHANGED <<tls_active, account_id, mode, log>>

(* DATA up to 354. *)
CmdData ==
    /\ mode = "command" /\ state.from # None /\ state.rcpts # << >>
    /\ mode' = "data"
    /\ UNCHANGED <<state, tls_active, account_id, log, clock, fence>>

(* read_data_body returns, at the final dot or because the peer closed, and
   the submission is logged either way. *)
Queue(complete) ==
    /\ mode = "data"
    /\ log' = Append(log, [from |-> state.from, from_params |-> state.from_params,
                           recipients |-> state.rcpts, rcpt_params |-> state.rcpt_params,
                           auth_mechanism |-> state.auth, account_id |-> account_id,
                           fence |-> fence, tls |-> tls_active, ehlo |-> state.ehlo,
                           complete |-> complete])
    /\ state' = NoEnvelope(state)
    /\ fence' = clock
    /\ mode' = IF complete THEN "command" ELSE "closed"
    /\ UNCHANGED <<tls_active, account_id, clock>>

(* NOOP, VRFY, an unknown verb, a command out of sequence or with wrong syntax,
   a cancelled AUTH, an override. *)
Refused == Tick /\ UNCHANGED <<state, tls_active, account_id, mode, log, fence>>

(* QUIT, the peer closing, shutdown (421), a failed TLS handshake. *)
Close ==
    /\ mode = "command" /\ mode' = "closed"
    /\ UNCHANGED <<state, tls_active, account_id, log, clock, fence>>

Next ==
    \/ CmdEhlo \/ CmdStarttls \/ CmdMail \/ CmdRcpt \/ CmdRset \/ CmdData \/ Refused \/ Close
    \/ \E a \in Account \cup {None} : CmdAuth(a)
    \/ \E complete \in BOOLEAN : Queue(complete)

Spec == Init /\ [][Next]_vars

-----------------------------------------------------------------------------
(* Properties. *)

(* A submission is made of one transaction: its recipients were all named after
   its sender, which was named by the last command that starts or ends a
   transaction, so nothing of an abandoned envelope leaks into it, and the
   parameter of each address is the one given with it. *)
OneTransaction ==
    \A i \in 1..Len(log) :
        LET s == log[i] IN
        /\ s.recipients # << >>
        /\ s.from = s.fence /\ s.from_params = s.from
        /\ \A k \in 1..Len(s.recipients) : s.recipients[k] > s.from
        /\ s.rcpt_params = s.recipients

(* Nothing said before the upgrade counts after it: a submission over TLS was
   introduced by an EHLO, and authenticated if at all, over TLS.  (The account
   that an earlier AUTH chose is not part of SmtpState and stays.) *)
UpgradeForgets ==
    \A i \in 1..Len(log) :
        log[i].tls => log[i].ehlo = TRUE /\ log[i].auth_mechanism \in {None, TRUE}

=============================================================================
