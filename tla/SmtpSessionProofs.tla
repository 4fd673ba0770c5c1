-------------------------- MODULE SmtpSessionProofs --------------------------
(***************************************************************************)
(* Proofs about SmtpSession for every set of accounts, with and without a  *)
(* TLS acceptor, and for sessions of any length.                           *)
(***************************************************************************)
EXTENDS SmtpSession, TLAPS

Opt(S) == S \cup {None}

(* The session between two commands: a number is never None, so that "no sender"
   can be told from one. *)
SmtpState ==
    [ehlo : Opt(BOOLEAN), auth : Opt(BOOLEAN), from : Opt(Nat), from_params : Opt(Nat),
     rcpts : Seq(Nat), rcpt_params : Seq(Nat)]

Submission ==
    [from : Opt(Nat), from_params : Opt(Nat), recipients : Seq(Nat), rcpt_params : Seq(Nat),
     auth_mechanism : Opt(BOOLEAN), account_id : Account, fence : Nat, tls : BOOLEAN,
     ehlo : Opt(BOOLEAN), complete : BOOLEAN]

TypeOK ==
    /\ state \in SmtpState /\ tls_active \in BOOLEAN /\ account_id \in Account
    /\ mode \in {"command", "data", "closed"}
    /\ log \in Seq(Submission) /\ clock \in Nat /\ fence \in Nat

(* The open envelope: a sender is the one the last fence named, its recipients
   came later, each with its own parameters; without a sender there are none. *)
Envelope ==
    /\ fence <= clock
    /\ state.from_params = state.from /\ state.rcpt_params = state.rcpts
    /\ state.from # None => state.from = fence
    /\ state.from = None => state.rcpts = << >>
    /\ \A k \in 1..Len(state.rcpts) : state.rcpts[k] > fence
    /\ mode = "data" => state.from # None /\ state.rcpts # << >>

(* What was said before an upgrade is forgotten, and a sender was introduced. *)
Introduced ==
    /\ state.from # None => state.ehlo # None
    /\ tls_active => state.ehlo \in {None, TRUE} /\ state.auth \in {None, TRUE}

IInv == TypeOK /\ Envelope /\ Introduced /\ OneTransaction /\ UpgradeForgets

(* The empty envelope's recipients, and the empty log. *)
LEMMA NoRecipients == << >> \in Seq(Nat) /\ << >> \in Seq(Submission)
  OBVIOUS

LEMMA InitIInv == Init => IInv
  <1> USE SessionAssumption, NoRecipients DEF Init, SmtpStateDefault
  <1> SUFFICES ASSUME Init PROVE IInv
    OBVIOUS
  <1>1. TypeOK
    BY DEF TypeOK, SmtpState, Opt
  <1>2. Envelope /\ Introduced
    BY DEF Envelope, Introduced
  <1>3. OneTransaction /\ UpgradeForgets
    BY DEF OneTransaction, UpgradeForgets
  <1> QED
    BY <1>1, <1>2, <1>3 DEF IInv

(* Clearing the envelope keeps the rest of the state. *)
LEMMA NoEnvelopeType ==
  ASSUME NEW s \in SmtpState
  PROVE  /\ NoEnvelope(s) \in SmtpState
         /\ NoEnvelope(s).ehlo = s.ehlo /\ NoEnvelope(s).auth = s.auth
         /\ NoEnvelope(s).from = None /\ NoEnvelope(s).from_params = None
         /\ NoEnvelope(s).rcpts = << >> /\ NoEnvelope(s).rcpt_params = << >>
  BY NoRecipients DEF NoEnvelope, SmtpState, Opt

(* The invariant is about the connection's own state and the log; a step that
   leaves the log alone has to keep only the former. *)
LEMMA LogUntouched ==
  ASSUME IInv, TypeOK', Envelope', Introduced', UNCHANGED log
  PROVE  IInv'
  BY DEF IInv, OneTransaction, UpgradeForgets

LEMMA CommandIInv ==
  ASSUME IInv,
         \/ CmdEhlo \/ CmdStarttls \/ CmdMail \/ CmdRcpt \/ CmdRset \/ CmdData \/ Refused \/ Close
         \/ \E a \in Account \cup {None} : CmdAuth(a)
  PROVE  IInv'
  <1> USE SessionAssumption, NoRecipients DEF IInv
  <1>t. Now \in Nat /\ Now = clock + 1 /\ Now # None
    BY DEF Now, TypeOK
  <1>1. CASE CmdEhlo
    <2> DEFINE s == NoEnvelope(state)
    <2>1. /\ s \in SmtpState /\ s.ehlo = state.ehlo /\ s.auth = state.auth /\ s.from = None
          /\ s.from_params = None /\ s.rcpts = << >> /\ s.rcpt_params = << >>
      BY NoEnvelopeType DEF TypeOK
    <2> HIDE DEF s
    <2>2. state' = [s EXCEPT !.ehlo = tls_active] /\ fence' = Now /\ clock' = Now /\ mode = "command"
          /\ UNCHANGED <<tls_active, account_id, mode, log>>
      BY <1>1 DEF CmdEhlo, Tick, s
    <2>3. TypeOK'
      BY <1>t, <2>1, <2>2 DEF TypeOK, SmtpState, Opt
    <2>4a. Envelope'
      BY <1>t, <2>1, <2>2 DEF TypeOK, SmtpState, Opt, Envelope
    <2>4b. Introduced'
      BY <1>t, <2>1, <2>2 DEF TypeOK, SmtpState, Opt, Introduced
    <2> QED
      BY <2>2, <2>3, <2>4a, <2>4b, LogUntouched
  <1>2. CASE CmdStarttls
    <2>1. TypeOK'
      BY <1>2, <1>t DEF CmdStarttls, Tick, TypeOK, SmtpStateDefault, SmtpState, Opt
    <2>2a. Envelope'
      BY <1>2, <1>t DEF CmdStarttls, Tick, TypeOK, SmtpStateDefault, Envelope
    <2>2b. Introduced'
      BY <1>2, <1>t DEF CmdStarttls, Tick, TypeOK, SmtpStateDefault, Introduced
    <2> QED
      BY <1>2, <2>1, <2>2a, <2>2b, LogUntouched DEF CmdStarttls
  <1>3. CASE CmdMail
    <2>1. TypeOK'
      BY <1>3, <1>t DEF CmdMail, Tick, TypeOK, SmtpState, Opt
    <2>2a. Envelope'
      BY <1>3, <1>t DEF CmdMail, Tick, TypeOK, SmtpState, Envelope
    <2>2b. Introduced'
      BY <1>3, <1>t DEF CmdMail, Tick, TypeOK, SmtpState, Introduced
    <2> QED
      BY <1>3, <2>1, <2>2a, <2>2b, LogUntouched DEF CmdMail
  <1>4. CASE CmdRcpt
    <2> DEFINE r == Append(state.rcpts, Now)
    <2>1. state.rcpts \in Seq(Nat) /\ state.rcpt_params = state.rcpts
      BY DEF TypeOK, SmtpState, Envelope
    <2>2. /\ r \in Seq(Nat) /\ r # << >> /\ Len(r) = Len(state.rcpts) + 1
          /\ \A i \in 1..Len(state.rcpts) : r[i] = state.rcpts[i]
          /\ r[Len(state.rcpts) + 1] = Now
      BY <1>t, <2>1
    <2> HIDE DEF r
    <2>3. /\ state' = [state EXCEPT !.rcpts = r, !.rcpt_params = r]
          /\ clock' = Now /\ mode = "command" /\ state.from # None
          /\ UNCHANGED <<tls_active, account_id, mode, log, fence>>
      BY <1>4, <2>1 DEF CmdRcpt, Tick, r
    <2>4. TypeOK'
      BY <1>t, <2>2, <2>3 DEF TypeOK, SmtpState, Opt
    <2>5. \A k \in 1..Len(r) : r[k] > fence
      <3>1. Now > fence /\ Len(state.rcpts) \in Nat
        BY <1>t, <2>1 DEF TypeOK, Envelope
      <3>2. \A k \in 1..Len(state.rcpts) : state.rcpts[k] > fence
        BY DEF Envelope
      <3>3. ASSUME NEW k \in 1..Len(r), k # Len(state.rcpts) + 1
            PROVE  k \in 1..Len(state.rcpts)
        BY <2>2, <3>1, <3>3
      <3> QED
        BY ONLY <2>2, <3>1, <3>2, <3>3
    <2>5a. /\ state'.from_params = state.from_params /\ state'.from = state.from
           /\ state'.rcpts = r /\ state'.rcpt_params = r
      BY <1>t, <2>3 DEF TypeOK, SmtpState
    <2>5b. fence' = fence /\ fence <= clock'
      BY <1>t, <2>3 DEF TypeOK, Envelope, Now
    <2>6a. Envelope'
      BY <2>2, <2>3, <2>5, <2>5a, <2>5b DEF Envelope
    <2>6b. Introduced'
      BY <1>t, <2>2, <2>3, <2>5 DEF TypeOK, SmtpState, Introduced
    <2> QED
      BY <2>3, <2>4, <2>6a, <2>6b, LogUntouched
  <1>5. CASE CmdRset
    <2> DEFINE s == NoEnvelope(state)
    <2>1. /\ s \in SmtpState /\ s.ehlo = state.ehlo /\ s.auth = state.auth /\ s.from = None
          /\ s.from_params = None /\ s.rcpts = << >> /\ s.rcpt_params = << >>
      BY NoEnvelopeType DEF TypeOK
    <2> HIDE DEF s
    <2>2. state' = s /\ fence' = Now /\ clock' = Now /\ mode = "command"
          /\ UNCHANGED <<tls_active, account_id, mode, log>>
      BY <1>5 DEF CmdRset, Tick, s
    <2>3. TypeOK'
      BY <1>t, <2>1, <2>2 DEF TypeOK
    <2>4. Envelope'
      BY <1>t, <2>1, <2>2 DEF TypeOK, Envelope
    <2>5. Introduced'
      BY <2>1, <2>2 DEF Introduced
    <2> QED
      BY <2>2, <2>3, <2>4, <2>5, LogUntouched
  <1>6. CASE CmdData \/ Refused \/ Close
    <2>1. TypeOK'
      BY <1>6, <1>t DEF CmdData, Refused, Close, Tick, TypeOK
    <2>2. Envelope'
      BY <1>6, <1>t DEF CmdData, Refused, Close, Tick, TypeOK, Envelope
    <2>3. Introduced'
      <3>1. UNCHANGED <<state, tls_active>>
        BY <1>6 DEF CmdData, Refused, Close
      <3> QED
        BY <3>1 DEF Introduced
    <2> QED
      BY <1>6, <2>1, <2>2, <2>3, LogUntouched DEF CmdData, Refused, Close
  <1>7. CASE \E a \in Account \cup {None} : CmdAuth(a)
    <2>1. TypeOK'
      BY <1>7, <1>t DEF CmdAuth, Tick, TypeOK, SmtpState, Opt
    <2>2a. Envelope'
      BY <1>7, <1>t DEF CmdAuth, Tick, TypeOK, SmtpState, Envelope
    <2>2b. Introduced'
      <3>1. /\ state'.ehlo = state.ehlo /\ state'.from = state.from
            /\ state'.auth = tls_active /\ tls_active' = tls_active
        BY <1>7 DEF CmdAuth, TypeOK, SmtpState
      <3> QED
        BY <3>1 DEF Introduced, TypeOK
    <2> QED
      BY <1>7, <2>1, <2>2a, <2>2b, LogUntouched DEF CmdAuth
  <1> QED
    BY <1>1, <1>2, <1>3, <1>4, <1>5, <1>6, <1>7

(* The submission that DATA logs is one transaction. *)
LEMMA QueueIInv ==
  ASSUME IInv, NEW complete \in BOOLEAN, Queue(complete)
  PROVE  IInv'
  <1> USE SessionAssumption, NoRecipients DEF IInv
  <1> DEFINE s == NoEnvelope(state)
             sub == [from |-> state.from, from_params |-> state.from_params,
                     recipients |-> state.rcpts, rcpt_params |-> state.rcpt_params,
                     auth_mechanism |-> state.auth, account_id |-> account_id,
                     fence |-> fence, tls |-> tls_active, ehlo |-> state.ehlo,
                     complete |-> complete]
             l == Append(log, sub)
  <1>1. /\ s \in SmtpState /\ s.ehlo = state.ehlo /\ s.auth = state.auth /\ s.from = None
        /\ s.from_params = None /\ s.rcpts = << >> /\ s.rcpt_params = << >>
    BY NoEnvelopeType DEF TypeOK
  <1>2. sub \in Submission
    BY DEF TypeOK, SmtpState, Submission
  <1>3. /\ sub.recipients # << >>
        /\ sub.from = sub.fence /\ sub.from_params = sub.from
        /\ \A k \in 1..Len(sub.recipients) : sub.recipients[k] > sub.from
        /\ sub.rcpt_params = sub.recipients
    BY DEF Queue, Envelope
  <1>4. sub.tls => sub.ehlo = TRUE /\ sub.auth_mechanism \in {None, TRUE}
    BY DEF Queue, Envelope, Introduced
  <1> HIDE DEF s, sub
  <1>5. l \in Seq(Submission) /\ Len(l) = Len(log) + 1
        /\ (\A i \in 1..Len(log) : l[i] = log[i]) /\ l[Len(log) + 1] = sub
    BY <1>2 DEF TypeOK
  <1>6. /\ log' = l /\ state' = s /\ fence' = clock /\ mode = "data"
        /\ mode' \in {"command", "closed"} /\ UNCHANGED <<tls_active, account_id, clock>>
    BY DEF Queue, s, sub
  <1> HIDE DEF l
  <1>7. TypeOK'
    BY <1>1, <1>5, <1>6 DEF TypeOK
  <1>e. Envelope'
    BY <1>1, <1>6 DEF TypeOK, Envelope
  <1>i. Introduced'
    BY <1>1, <1>6 DEF Introduced
  <1>8. OneTransaction'
    BY <1>3, <1>5, <1>6 DEF OneTransaction, TypeOK
  <1>9. UpgradeForgets'
    <2> SUFFICES ASSUME NEW i \in 1..Len(l), l[i].tls
                 PROVE  l[i].ehlo = TRUE /\ l[i].auth_mechanism \in {None, TRUE}
      BY <1>6 DEF UpgradeForgets
    <2>1. CASE i \in 1..Len(log)
      BY <1>5, <2>1 DEF UpgradeForgets
    <2>2. CASE i = Len(log) + 1
      BY <1>4, <1>5, <2>2
    <2>3. i \in 1..Len(log) \/ i = Len(log) + 1
      <3>1. Len(log) \in Nat
        BY DEF TypeOK
      <3> QED
        BY <1>5, <3>1
    <2> QED
      BY <2>1, <2>2, <2>3
  <1> QED
    BY <1>7, <1>e, <1>i, <1>8, <1>9

LEMMA NextIInv == IInv /\ [Next]_vars => IInv'
  <1> SUFFICES ASSUME IInv, [Next]_vars PROVE IInv'
    OBVIOUS
  <1>1. CASE Next
    BY <1>1, CommandIInv, QueueIInv DEF Next
  <1>2. CASE UNCHANGED vars
    BY <1>2 DEF vars, IInv, TypeOK, Envelope, Introduced, OneTransaction, UpgradeForgets
  <1> QED
    BY <1>1, <1>2

-----------------------------------------------------------------------------

(* Every submission the server logs consists of one transaction: whatever EHLO,
   MAIL, RSET, STARTTLS and refused commands came before (cmd_mail, cmd_data). *)
THEOREM TransactionsStandAlone == Spec => []OneTransaction
  <1>1. IInv => OneTransaction
    BY DEF IInv
  <1> QED
    BY <1>1, InitIInv, NextIInv, PTL DEF Spec

(* cmd_starttls resets what the client said in the clear, for sessions of any
   length. *)
THEOREM UpgradesForget == Spec => []UpgradeForgets
  <1>1. IInv => UpgradeForgets
    BY DEF IInv
  <1> QED
    BY <1>1, InitIInv, NextIInv, PTL DEF Spec

=============================================================================
