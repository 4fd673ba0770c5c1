-------------------------- MODULE ImapSessionProofs --------------------------
(***************************************************************************)
(* Proofs about ImapSession: for every set of accounts, mailboxes, emails  *)
(* and rights, every fixture and any number of commands.                   *)
(***************************************************************************)
EXTENDS ImapSession, TLAPS

(* What a selection can carry: the rights of a grant, or the owner's. *)
Rights == Grants \cup {{}, OWNER_RIGHTS}

Connection ==
    [state : {"NotAuthenticated", "Authenticated", "Selected"}, account_id : Account,
     selected : Box \cup {None}, selected_account : Account \cup {None},
     selected_rights : Rights]

Basis ==
    [owner : Account \cup {None}, rights : Rights,
     readonly : BOOLEAN, stale : BOOLEAN]

(* The types, with what the namespace answers say of the grants to come. *)
FixtureInv ==
    /\ boxes \in [Box -> [acct : Account, name : Name] \cup {None}]
    /\ acls \in [Box -> [Account -> Grants \cup {{}}]]
    /\ script \subseteq Box \X Account \X Grants
    /\ member \in [Email -> SUBSET Box] /\ flagged \subseteq {e \in Email : member[e] # {}}

Seen ==
    /\ known \subseteq Account \X Account \X Name
    /\ told => script = {} /\ \A m \in Box, a \in Account : acls[m][a] = {}

(* The selection knows the rights it was made with: all of them in a mailbox of
   its own, those of the grant elsewhere, where the grant is still in force unless
   it or the mailbox went. *)
Selection ==
    /\ conn \in Connection /\ basis \in Basis
    /\ (conn.selected # None) = (conn.state = "Selected")
    /\ conn.state # "Selected" => conn.selected_account = None /\ basis = NoBasis
    /\ conn.selected_account # conn.account_id
    /\ conn.state = "Selected" =>
         /\ basis.owner = EffectiveAccount
         /\ conn.selected_account = None => basis.rights = OWNER_RIGHTS /\ ~basis.readonly
         /\ conn.selected_account # None =>
              /\ basis.rights = conn.selected_rights /\ basis.rights # {}
              /\ basis.stale \/ acls[conn.selected][conn.account_id] # {}
              /\ basis.readonly => ~Writable(basis.rights)

IInv == FixtureInv /\ Seen /\ Selection

-----------------------------------------------------------------------------

(* One declared grant per mailbox and account, so the union in Init is it. *)
LEMMA InitIInv == Init => IInv
  <1> SUFFICES ASSUME Init PROVE IInv
    OBVIOUS
  <1> USE SessionAssumption
  <1>1. boxes \in [Box -> [acct : Account, name : Name] \cup {None}]
    BY DEF Init, Box
  <1>2. PICK f \in Fixtures :
          /\ LoadableAcls(f.acl)
          /\ acls = [m \in Box |-> [a \in Account |->
                        UNION {g[3] : g \in {h \in f.acl : h[1] = m /\ h[2] = a}}]]
          /\ script = f.script
    BY DEF Init
  <1>3. f.acl \subseteq Box \X Account \X Grants /\ f.script \subseteq Box \X Account \X Grants
    OBVIOUS
  <1>4. acls \in [Box -> [Account -> Grants \cup {{}}]]
    <2> SUFFICES ASSUME NEW m \in Box, NEW a \in Account
                 PROVE  UNION {g[3] : g \in {h \in f.acl : h[1] = m /\ h[2] = a}} \in Grants \cup {{}}
      BY <1>2
    <2> DEFINE G == {h \in f.acl : h[1] = m /\ h[2] = a}
    <2>1. \A g, h \in G : g = h
      BY <1>2 DEF LoadableAcls
    <2>2. CASE G = {}
      BY <2>2
    <2>3. CASE G # {}
      <3>1. PICK g \in G : TRUE
        BY <2>3
      <3>2. UNION {h[3] : h \in G} = g[3]
        BY <2>1, <3>1
      <3>3. g[3] \in Grants
        BY <1>3, <3>1
      <3> QED
        BY <3>2, <3>3
    <2> QED
      BY <2>2, <2>3
  <1>5. FixtureInv
    BY <1>1, <1>2, <1>3, <1>4 DEF Init, FixtureInv
  <1>6. Seen
    BY DEF Init, Seen
  <1>7. Selection
    BY DEF Init, Selection, Connection, Basis, NoBasis, Rights
  <1> QED
    BY <1>5, <1>6, <1>7 DEF IInv

(* A selection that ends takes its basis along. *)
LEMMA UnselectedSelection ==
  ASSUME IInv, NEW state \in {"NotAuthenticated", "Authenticated"},
         NEW a \in Account, basis' = NoBasis,
         conn' = [Unselected(conn, state) EXCEPT !.account_id = a]
  PROVE  Selection' /\ conn'.state = state
  <1> USE SessionAssumption
  <1>1. /\ conn' \in Connection /\ conn'.state = state /\ conn'.selected = None
        /\ conn'.selected_account = None /\ conn'.account_id = a
    BY DEF IInv, Selection, Connection, Unselected, Rights
  <1>2. basis' \in Basis
    BY DEF NoBasis, Basis, Rights
  <1> QED
    BY <1>1, <1>2 DEF Selection

LEMMA AuthenticateIInv ==
  ASSUME IInv, NEW token \in Account \cup {None}, NEW user \in Account \cup {None},
         Authenticate(token, user)
  PROVE  IInv'
  <1> USE SessionAssumption
  <1> DEFINE a == CASE token # None -> token
                    [] token = None /\ user # None -> user
                    [] OTHER -> conn.account_id
  <1>1. a \in Account
    BY DEF IInv, Selection, Connection
  <1> HIDE DEF a
  <1>2. /\ conn' = [conn EXCEPT !.state = "Authenticated", !.account_id = a]
        /\ conn.state = "NotAuthenticated"
        /\ UNCHANGED <<boxes, acls, script, member, flagged, answer, told, known, basis>>
    BY DEF Authenticate, a, fixture
  <1>3. FixtureInv' /\ Seen'
    BY <1>2 DEF IInv, FixtureInv, Seen
  <1>4. /\ conn' \in Connection /\ conn'.state = "Authenticated" /\ conn'.selected = conn.selected
        /\ conn'.selected_account = conn.selected_account
    BY <1>1, <1>2 DEF IInv, Selection, Connection
  <1>5. Selection'
    BY <1>1, <1>2, <1>4 DEF IInv, Selection, Connection
  <1> QED
    BY <1>3, <1>5 DEF IInv

(* SELECT and EXAMINE: what is resolved is a mailbox, and one that is not the
   connection's own was found through a grant. *)
LEMMA SelectIInv ==
  ASSUME IInv, NEW path \in Path, NEW read_write \in BOOLEAN, Select(path, read_write)
  PROVE  IInv'
  <1> USE SessionAssumption
  <1>1. FixtureInv' /\ Seen'
    <2>1. UNCHANGED <<boxes, acls, script, member, flagged, told, known>>
      BY DEF Select, fixture
    <2> QED
      BY <2>1 DEF IInv, FixtureInv, Seen
  <1>2. CASE ResolveMailbox(path) = {}
    <2>1. conn' = Unselected(conn, "Authenticated") /\ basis' = NoBasis
      BY <1>2 DEF Select
    <2>2. conn.account_id \in Account
      BY DEF IInv, Selection, Connection
    <2>3. conn' = [Unselected(conn, "Authenticated") EXCEPT !.account_id = conn.account_id]
      BY <2>1 DEF Unselected, IInv, Selection, Connection
    <2> QED
      BY <1>1, <2>1, <2>2, <2>3, UnselectedSelection DEF IInv
  <1>3. CASE ResolveMailbox(path) # {}
    <2>1. PICK m \in ResolveMailbox(path) :
            /\ conn' = [conn EXCEPT !.state = "Selected", !.selected = m,
                            !.selected_rights = RightsOf(path, m),
                            !.selected_account = IF boxes[m].acct = conn.account_id THEN None
                                                 ELSE boxes[m].acct]
            /\ answer' = IF read_write /\ Writable(RightsOf(path, m))
                         THEN "READ-WRITE" ELSE "READ-ONLY"
            /\ basis' = [owner |-> boxes[m].acct, stale |-> FALSE,
                         rights |-> IF boxes[m].acct = conn.account_id THEN OWNER_RIGHTS
                                    ELSE acls[m][conn.account_id],
                         readonly |-> read_write /\ answer' = "READ-ONLY"
                                      /\ boxes[m].acct # conn.account_id]
      BY <1>3 DEF Select
    <2> DEFINE holder == boxes[m].acct
               rights == RightsOf(path, m)
               acct == conn.account_id
               ro == read_write /\ answer' = "READ-ONLY" /\ holder # acct
    <2>2. m \in Box /\ boxes[m] # None /\ holder \in Account /\ acct \in Account
      BY DEF ResolveMailbox, Personal, MailboxesFor, Shared, IInv, FixtureInv, Selection, Connection
    <2>3. holder # acct => rights = acls[m][acct] /\ rights # {}
      BY DEF ResolveMailbox, Personal, MailboxesFor, Shared, RightsOf
    <2>4. rights \in Rights /\ acls[m][acct] \in Rights
      BY <2>2 DEF RightsOf, Rights, IInv, FixtureInv
    <2>5. ro \in BOOLEAN /\ (ro => holder # acct /\ ~Writable(rights))
      BY <2>1
    <2> HIDE DEF holder, rights, acct, ro
    <2>6. /\ conn' = [conn EXCEPT !.state = "Selected", !.selected = m, !.selected_rights = rights,
                          !.selected_account = IF holder = acct THEN None ELSE holder]
          /\ basis' = [owner |-> holder, stale |-> FALSE,
                       rights |-> IF holder = acct THEN OWNER_RIGHTS ELSE acls[m][acct],
                       readonly |-> ro]
          /\ conn.account_id = acct /\ acls' = acls
      BY <2>1 DEF holder, rights, acct, ro, Select, fixture
    <2>7. /\ conn' \in Connection /\ conn'.state = "Selected" /\ conn'.selected = m
          /\ conn'.selected_rights = rights /\ conn'.account_id = acct
          /\ conn'.selected_account = IF holder = acct THEN None ELSE holder
      BY <2>2, <2>4, <2>6 DEF IInv, Selection, Connection
    <2>8. /\ basis' \in Basis /\ basis'.owner = holder /\ basis'.stale = FALSE /\ basis'.readonly = ro
          /\ basis'.rights = IF holder = acct THEN OWNER_RIGHTS ELSE acls[m][acct]
      BY <2>2, <2>4, <2>5, <2>6 DEF Basis, Rights
    <2>9. Selection'
      BY <2>2, <2>3, <2>5, <2>6, <2>7, <2>8 DEF Selection, EffectiveAccount
    <2> QED
      BY <1>1, <2>9 DEF IInv
  <1> QED
    BY <1>2, <1>3

LEMMA CloseIInv ==
  ASSUME IInv, Close \/ Reconnect
  PROVE  IInv'
  <1> USE SessionAssumption
  <1>1. FixtureInv' /\ Seen'
    <2>1. UNCHANGED <<boxes, acls, script, member, flagged, told, known>>
      BY DEF Close, Reconnect, fixture
    <2> QED
      BY <2>1 DEF IInv, FixtureInv, Seen
  <1>2. CASE Close
    <2>1. conn.account_id \in Account
      BY DEF IInv, Selection, Connection
    <2>2. conn' = [Unselected(conn, "Authenticated") EXCEPT !.account_id = conn.account_id]
      BY <1>2 DEF Close, Unselected, IInv, Selection, Connection
    <2> QED
      BY <1>1, <1>2, <2>1, <2>2, UnselectedSelection DEF IInv, Close
  <1>3. CASE Reconnect
    BY <1>1, <1>3, UnselectedSelection DEF IInv, Reconnect
  <1> QED
    BY <1>2, <1>3

(* What the connection and its basis say depends on the grant of the selected
   mailbox only. *)
LEMMA SelectionUntouched ==
  ASSUME IInv, UNCHANGED <<conn, basis, acls>>
  PROVE  Selection'
  BY DEF IInv, Selection, EffectiveAccount

LEMMA NamespaceIInv ==
  ASSUME IInv, Namespace \/ ListShared
  PROVE  IInv'
  <1>1. UNCHANGED <<boxes, acls, script, member, flagged, conn, basis>>
    BY DEF Namespace, ListShared, fixture
  <1>2. FixtureInv' /\ Selection'
    BY <1>1, SelectionUntouched DEF IInv, FixtureInv
  <1>3. CASE Namespace
    <2>1. Seen'
      BY <1>1, <1>3 DEF IInv, Seen, Namespace, AdvertisesOtherNamespace
    <2> QED
      BY <1>2, <2>1 DEF IInv
  <1>4. CASE ListShared
    <2>1. \A m \in Shared(conn.account_id) :
             <<conn.account_id, boxes[m].acct, boxes[m].name>> \in Account \X Account \X Name
      BY SessionAssumption DEF Shared, IInv, FixtureInv, Selection, Connection
    <2> QED
      BY <1>1, <1>2, <1>4, <2>1 DEF IInv, Seen, ListShared
  <1> QED
    BY <1>3, <1>4

-----------------------------------------------------------------------------
(* The UID commands. *)

(* The gate looks at the rights the selection was made with. *)
LEMMA HoldsGranted ==
  ASSUME IInv, conn.state = "Selected", NEW needed \in SUBSET OWNER_RIGHTS, HoldsRights(needed)
  PROVE  needed \subseteq basis.rights
  BY DEF IInv, Selection, HoldsRights

(* What a UID command changed of one message needed this right. *)
Licensed(e) ==
    /\ member'[e] = member[e] /\ (e \in flagged) # (e \in flagged') => "w" \in basis.rights
    /\ ~(member'[e] \subseteq member[e]) => "i" \in basis.rights
    /\ ~(member[e] \subseteq member'[e]) => {"t", "e"} \cap basis.rights # {}

LEMMA UidEffect ==
  ASSUME IInv, Uid
  PROVE  /\ FixtureInv' /\ UNCHANGED <<boxes, acls, script, conn, told, known, basis>>
         /\ conn.state = "Selected" /\ Writable(basis.rights)
         /\ \A e \in Email : Licensed(e)
  <1> USE SessionAssumption
  <1>1. PICK E \in (SUBSET Email) \ {{}} :
          \/ \E on \in BOOLEAN : UidStore(E, on)
          \/ \E n \in Name : UidCopy(E, n) \/ UidMove(E, n)
          \/ UidExpunge(E)
    BY DEF Uid
  <1>2. /\ UNCHANGED <<boxes, acls, script, conn, told, known, basis>> /\ conn.state = "Selected"
        /\ \A e \in E : conn.selected \in member[e]
    BY <1>1 DEF UidStore, UidCopy, UidMove, UidExpunge, Write, Addressed
  <1>3. /\ boxes \in [Box -> [acct : Account, name : Name] \cup {None}]
        /\ acls \in [Box -> [Account -> Grants \cup {{}}]]
        /\ script \subseteq Box \X Account \X Grants
        /\ member \in [Email -> SUBSET Box] /\ flagged \subseteq {e \in Email : member[e] # {}}
    BY DEF IInv, FixtureInv
  <1>4. SUFFICES /\ member' \in [Email -> SUBSET Box]
                 /\ flagged' \subseteq {e \in Email : member'[e] # {}}
                 /\ Writable(basis.rights) /\ \A e \in Email : Licensed(e)
    BY <1>2, <1>3 DEF FixtureInv
  <1>5. CASE \E on \in BOOLEAN : UidStore(E, on)
    <2>1. PICK on \in BOOLEAN : UidStore(E, on)
      BY <1>5
    <2>2. {"w"} \subseteq basis.rights
      BY <1>2, <2>1, HoldsGranted DEF UidStore, OWNER_RIGHTS
    <2>3. member' = member /\ flagged' \subseteq flagged \cup E
      BY <2>1 DEF UidStore, Write
    <2> QED
      BY <1>2, <1>3, <2>2, <2>3 DEF Licensed, Writable
  <1>6. CASE \E n \in Name : UidCopy(E, n)
    <2>1. PICK n \in Name : UidCopy(E, n)
      BY <1>6
    <2>2. {"i"} \subseteq basis.rights
      BY <1>2, <2>1, HoldsGranted DEF UidCopy, OWNER_RIGHTS
    <2>3. PICK target \in Box :
            /\ member' = [e \in Email |-> IF e \in E THEN member[e] \cup {target} ELSE member[e]]
            /\ flagged' = flagged
      BY <2>1 DEF UidCopy, Write, Personal, MailboxesFor
    <2> QED
      BY <1>3, <2>2, <2>3 DEF Licensed, Writable
  <1>7. CASE \E n \in Name : UidMove(E, n)
    <2>1. PICK n \in Name : UidMove(E, n)
      BY <1>7
    <2>2. {"i", "t"} \subseteq basis.rights
      BY <1>2, <2>1, HoldsGranted DEF UidMove, OWNER_RIGHTS
    <2>3. PICK target \in Box \ {conn.selected} :
            /\ member' = [e \in Email |-> IF e \in E THEN (member[e] \cup {target}) \ {conn.selected}
                                          ELSE member[e]]
            /\ flagged' = flagged
      BY <2>1 DEF UidMove, Write, Personal, MailboxesFor
    <2>4. "i" \in basis.rights /\ "t" \in basis.rights /\ Writable(basis.rights)
          /\ {"t", "e"} \cap basis.rights # {}
      BY <2>2 DEF Writable
    <2>5. \A e \in Email : Licensed(e)
      <3> SUFFICES ASSUME NEW e \in Email PROVE Licensed(e)
        OBVIOUS
      <3>1. e \in flagged <=> e \in flagged'
        BY <2>3
      <3> QED
        BY <2>4, <3>1 DEF Licensed
    <2>6. member' \in [Email -> SUBSET Box] /\ flagged' \subseteq {e \in Email : member'[e] # {}}
      BY <1>3, <2>3
    <2> QED
      BY <2>4, <2>5, <2>6
  <1>8. CASE UidExpunge(E)
    <2> DEFINE gone == E \cap flagged
               left == [e \in Email |-> IF e \in gone THEN member[e] \ {conn.selected} ELSE member[e]]
    <2>1. {"e"} \subseteq basis.rights
      BY <1>2, <1>8, HoldsGranted DEF UidExpunge, OWNER_RIGHTS
    <2>2. member' = left /\ flagged' = {e \in flagged : left[e] # {}}
      BY <1>8 DEF UidExpunge, Write
    <2>3. Writable(basis.rights) /\ {"t", "e"} \cap basis.rights # {}
      BY <2>1 DEF Writable
    <2>4. \A e \in Email : Licensed(e)
      <3> SUFFICES ASSUME NEW e \in Email PROVE Licensed(e)
        OBVIOUS
      <3>1. member'[e] \subseteq member[e]
        BY <2>2
      <3>2. e \in flagged' => e \in flagged
        BY <2>2
      <3>3. CASE e \in gone
        <4>1. conn.selected \in member[e] /\ conn.selected \notin member'[e]
          BY <1>2, <2>2, <3>3
        <4> QED
          BY <2>3, <3>1, <4>1 DEF Licensed
      <3>4. CASE e \notin gone
        <4>1. member'[e] = member[e]
          BY <2>2, <3>4
        <4>2. e \in flagged => e \in flagged'
          BY <1>3, <2>2, <4>1
        <4> QED
          BY <3>2, <4>1, <4>2 DEF Licensed
      <3> QED
        BY <3>3, <3>4
    <2>5. member' \in [Email -> SUBSET Box] /\ flagged' \subseteq {e \in Email : member'[e] # {}}
      BY <1>3, <2>2
    <2> QED
      BY <2>3, <2>4, <2>5
  <1> QED
    BY <1>1, <1>5, <1>6, <1>7, <1>8

LEMMA UidIInv ==
  ASSUME IInv, Uid
  PROVE  IInv'
  <1>1. FixtureInv' /\ UNCHANGED <<boxes, acls, script, conn, told, known, basis>>
    BY UidEffect
  <1> QED
    BY <1>1, SelectionUntouched DEF IInv, Seen

-----------------------------------------------------------------------------
(* The rest of the world. *)

(* Without a selection nothing can be outdated. *)
LEMMA OutdatedNothing ==
  ASSUME IInv, NEW m \in Box, conn.state # "Selected"
  PROVE  Outdated(basis, m) = NoBasis
  <1>1. basis = NoBasis /\ conn.selected = None /\ None # m
    BY SessionAssumption DEF IInv, Selection
  <1>2. (basis.stale \/ conn.selected = m) = FALSE
    BY <1>1 DEF NoBasis
  <1>3. Outdated(basis, m) = [NoBasis EXCEPT !.stale = FALSE]
    BY <1>1, <1>2 DEF Outdated
  <1> QED
    BY <1>3 DEF NoBasis

(* A grant that comes, changes or goes leaves a selection of its mailbox stale. *)
LEMMA AclSelection ==
  ASSUME IInv, NEW m \in Box, NEW a \in Account, NEW rights \in Grants \cup {{}},
         acls' = [acls EXCEPT ![m][a] = rights], basis' = Outdated(basis, m), UNCHANGED conn
  PROVE  Selection'
  <1>1. \A b \in Box, c \in Account : b # m => acls'[b][c] = acls[b][c]
    BY DEF IInv, FixtureInv
  <1>2. /\ basis' \in Basis /\ basis'.owner = basis.owner /\ basis'.rights = basis.rights
        /\ basis'.readonly = basis.readonly
        /\ basis'.stale = (basis.stale \/ conn.selected = m)
    BY DEF IInv, Selection, Basis, Outdated
  <1>3. conn.state # "Selected" => basis' = NoBasis
    BY OutdatedNothing
  <1>4. conn.state = "Selected" =>
          conn.selected \in Box /\ conn.account_id \in Account
    BY DEF IInv, Selection, Connection
  <1>5. conn.state = "Selected" /\ conn.selected_account # None =>
          basis'.stale \/ acls'[conn.selected][conn.account_id] # {}
    BY <1>1, <1>2, <1>4 DEF IInv, Selection
  <1> QED
    BY <1>2, <1>3, <1>5 DEF IInv, Selection, EffectiveAccount

LEMMA AclIInv ==
  ASSUME IInv,
         \/ \E g \in script : AclGrant(g[1], g[2], g[3])
         \/ \E m \in Box, a \in Account : AclRevoke(m, a)
  PROVE  IInv'
  <1>1. PICK m \in Box, a \in Account, rights \in Grants \cup {{}} :
          /\ acls' = [acls EXCEPT ![m][a] = rights] /\ basis' = Outdated(basis, m)
          /\ script = {} => rights = {}
          /\ UNCHANGED <<boxes, script, member, flagged, conn, told, known>>
    <2>1. CASE \E g \in script : AclGrant(g[1], g[2], g[3])
      <3>1. PICK g \in script : AclGrant(g[1], g[2], g[3])
        BY <2>1
      <3>2. g[1] \in Box /\ g[2] \in Account /\ g[3] \in Grants
        BY DEF IInv, FixtureInv
      <3> QED
        BY <3>1, <3>2 DEF AclGrant
    <2>2. CASE \E m \in Box, a \in Account : AclRevoke(m, a)
      BY <2>2 DEF AclRevoke
    <2> QED
      BY <2>1, <2>2
  <1>2. FixtureInv'
    BY <1>1 DEF IInv, FixtureInv
  <1>3. Seen'
    <2>1. \A b \in Box, c \in Account : acls'[b][c] \in {acls[b][c], rights}
      BY <1>1 DEF IInv, FixtureInv
    <2> QED
      BY <1>1, <2>1 DEF IInv, Seen
  <1> QED
    BY <1>1, <1>2, <1>3, AclSelection DEF IInv

LEMMA BoxIInv ==
  ASSUME IInv,
         \/ \E a \in Account, n \in Name : CreateBox(a, n)
         \/ \E m \in Box : DeleteBox(m)
         \/ \E e \in Email, m \in Box : Refile(e, m)
  PROVE  IInv'
  <1> USE SessionAssumption
  <1>1. CASE \E a \in Account, n \in Name : CreateBox(a, n)
    <2>1. PICK a \in Account, n \in Name, m \in Box :
            /\ boxes' = [boxes EXCEPT ![m] = [acct |-> a, name |-> n]]
            /\ UNCHANGED <<acls, script, member, flagged, conn, told, known, basis>>
      BY <1>1 DEF CreateBox, FreshMailboxId
    <2> QED
      BY <2>1, SelectionUntouched DEF IInv, FixtureInv, Seen
  <1>2. CASE \E m \in Box : DeleteBox(m)
    <2>1. PICK m \in Box : DeleteBox(m)
      BY <1>2
    <2>2. FixtureInv' /\ Seen'
      BY <2>1 DEF IInv, FixtureInv, Seen, DeleteBox
    <2>3. Selection'
      <3>1. /\ basis' \in Basis /\ basis'.owner = basis.owner /\ basis'.rights = basis.rights
            /\ basis'.readonly = basis.readonly /\ (basis.stale => basis'.stale)
        BY <2>1 DEF IInv, Selection, Basis, Outdated, DeleteBox
      <3>2. conn.state # "Selected" => basis' = NoBasis
        BY <2>1, OutdatedNothing DEF DeleteBox
      <3> QED
        BY <2>1, <3>1, <3>2 DEF IInv, Selection, EffectiveAccount, DeleteBox
    <2> QED
      BY <2>2, <2>3 DEF IInv
  <1>3. CASE \E e \in Email, m \in Box : Refile(e, m)
    <2>1. PICK e \in Email, m \in Box : Refile(e, m)
      BY <1>3
    <2>2. FixtureInv'
      BY <2>1 DEF IInv, FixtureInv, Refile
    <2> QED
      BY <2>1, <2>2, SelectionUntouched DEF IInv, Seen, Refile
  <1> QED
    BY <1>1, <1>2, <1>3

LEMMA NextIInv ==
  ASSUME IInv, [Next]_vars
  PROVE  IInv'
  <1>1. CASE \E token, user \in Account \cup {None} : Authenticate(token, user)
    BY <1>1, AuthenticateIInv
  <1>2. CASE \E path \in Path, read_write \in BOOLEAN : Select(path, read_write)
    BY <1>2, SelectIInv
  <1>3. CASE Close \/ Reconnect \/ Namespace \/ ListShared \/ Uid
    BY <1>3, CloseIInv, NamespaceIInv, UidIInv
  <1>4. CASE World
    BY <1>4, AclIInv, BoxIInv DEF World
  <1>5. CASE UNCHANGED vars
    BY <1>5, SelectionUntouched DEF IInv, FixtureInv, Seen, vars, fixture
  <1> QED
    BY <1>1, <1>2, <1>3, <1>4, <1>5 DEF Next, Dispatch

LEMMA Invariance == Spec => []IInv
  BY InitIInv, NextIInv, PTL DEF Spec

-----------------------------------------------------------------------------

(* A mailbox is selected exactly in the Selected state, and what UID FETCH shows of
   another account was granted when it was selected, and is unless that changed
   during the selection (cmd_select_or_examine, mailbox_messages). *)
THEOREM SelectionsSound == Spec => []SelectionSound
  <1>1. IInv => SelectionSound
    <2> SUFFICES ASSUME IInv PROVE SelectionSound
      OBVIOUS
    <2>1. TypeOK
      BY DEF TypeOK, IInv, FixtureInv, Selection, Connection
    <2>2. FetchGranted
      BY DEF FetchGranted, Shown, EffectiveAccount, IInv, Selection
    <2> QED
      BY <2>1, <2>2 DEF SelectionSound
  <1> QED
    BY <1>1, Invariance, PTL

(* Whoever was told that there is no other-users namespace misses nothing in any
   later state (imap_advertises_other_namespace). *)
THEOREM NamespaceIsForeseen == Spec => []NamespaceForeseen
  <1>1. IInv => NamespaceForeseen
    BY DEF NamespaceForeseen, Shared, IInv, Seen
  <1> QED
    BY <1>1, Invariance, PTL

(* No UID command does to a message of another account what the grant did not
   allow (reject_shared_write). *)
THEOREM ForeignWritesAreGranted == Spec => ForeignWritesGranted
  <1>1. ASSUME IInv, Uid, NEW e \in Email
        PROVE  /\ member'[e] = member[e] /\ (e \in flagged) # (e \in flagged')
                    => "w" \in basis.rights
               /\ ~(member'[e] \subseteq member[e]) => "i" \in basis.rights
               /\ ~(member[e] \subseteq member'[e]) => {"t", "e"} \cap basis.rights # {}
    BY <1>1, UidEffect DEF Licensed
  <1>2. IInv => (<<member, flagged>>' # <<member, flagged>> /\ Uid => \A e \in Email :
                    EmailAccount[e] # conn.account_id =>
                        /\ member'[e] = member[e] /\ (e \in flagged) # (e \in flagged')
                                => "w" \in basis.rights
                        /\ ~(member'[e] \subseteq member[e]) => "i" \in basis.rights
                        /\ ~(member[e] \subseteq member'[e]) => {"t", "e"} \cap basis.rights # {})
    BY <1>1
  <1> QED
    BY <1>2, Invariance, PTL DEF ForeignWritesGranted

(* What SELECT announced as READ-ONLY in another account stays as it is. *)
THEOREM ReadOnlyIsHonoured == Spec => ReadOnlyHonoured
  <1>1. IInv /\ Uid => ~basis.readonly
    <2> SUFFICES ASSUME IInv, Uid PROVE ~basis.readonly
      OBVIOUS
    <2>1. conn.state = "Selected" /\ Writable(basis.rights)
      BY UidEffect
    <2> QED
      BY <2>1 DEF IInv, Selection
  <1> QED
    BY <1>1, Invariance, PTL DEF ReadOnlyHonoured

(* A folder the client has seen is refused with NOPERM as long as its owner has a
   mailbox of that path (shared_mailbox_path_exists). *)
THEOREM RevokedIsRefused == Spec => RevokedIsNoperm
  <1>1. ASSUME IInv, answer' \in {"unknown", "NOPERM"}, NEW path \in Path, Select(path, TRUE)
        PROVE  /\ conn'.state = "Authenticated"
               /\ <<conn.account_id, path[1], path[2]>> \in known
                  /\ path[1] # conn.account_id /\ Personal(path[1], path[2]) # {}
                     => answer' = "NOPERM"
    <2>1. ResolveMailbox(path) = {}
      BY <1>1 DEF Select
    <2>2. conn'.state = "Authenticated"
      BY <1>1, <2>1 DEF Select, Unselected, IInv, Selection, Connection
    <2>3. <<conn.account_id, path[1], path[2]>> \in known => path[1] # None
      BY <1>1, SessionAssumption DEF IInv, Seen
    <2> QED
      BY <1>1, <2>1, <2>2, <2>3 DEF Select, SharedPathExists
  <1>2. IInv => (answer' \in {"unknown", "NOPERM"} /\ answer' # answer => \A path \in Path :
                    Select(path, TRUE) =>
                        /\ conn'.state = "Authenticated"
                        /\ <<conn.account_id, path[1], path[2]>> \in known
                           /\ path[1] # conn.account_id /\ Personal(path[1], path[2]) # {}
                              => answer' = "NOPERM")
    BY <1>1
  <1> QED
    BY <1>2, Invariance, PTL DEF RevokedIsNoperm

=============================================================================
