--------------------------- MODULE AccountsProofs ---------------------------
(* Theorems about Accounts: for any accounts, addresses, identities,       *)
(* invitations, requests and bounds, and any registration policy.          *)
EXTENDS Migration, SequenceTheorems, FiniteSetTheorems, WellFoundedInduction, TLAPS

-----------------------------------------------------------------------------
(* The keypad number.                                                      *)

LEMMA LeastKey ==
  ASSUME NEW S \in SUBSET Nat, S # {}
  PROVE  Min(S) \in S /\ \A y \in S : Min(S) <= y
  <1>1. \E x \in S : \A y \in S : ~(<<y, x>> \in OpToRel(<, Nat))
    BY NatLessThanWellFounded, WFMin, Zenon
  <1>2. PICK x \in S : \A y \in S : ~(<<y, x>> \in OpToRel(<, Nat))
    BY <1>1
  <1>3. ASSUME NEW y \in S PROVE x <= y
    <2>1. x \in Nat /\ y \in Nat
      OBVIOUS
    <2>2. ~(y < x)
      BY <1>2, <2>1 DEF OpToRel
    <2> QED
      BY <2>1, <2>2
  <1> QED
    BY <1>3 DEF Min

LEMMA FreeKey ==
  ASSUME ~(Series \subseteq Keys)
  PROVE  LowestFree \in Nat /\ LowestFree > 0
  <1> DEFINE S == Series \ Keys
  <1>1. \A n \in Series : n \in Nat /\ n > 0
    BY DEF Series
  <1>2. S \in SUBSET Nat /\ S # {}
    BY <1>1
  <1>3. Min(S) \in S
    BY <1>2, LeastKey
  <1> QED
    BY <1>1, <1>3 DEF LowestFree

-----------------------------------------------------------------------------
(* Types.                                                                  *)

RequestRow ==
  [pc : PC, user : User \union {None}, seen : User \union {None},
   copy : UserRow, role : Role \union {None}, disable : BOOLEAN \union {None},
   todo : SUBSET {"uninvoiced", "unpaid"}, owed : BOOLEAN,
   email : Email \union {None}, inv : Invite \union {None},
   person : Person \union {None}, knew : SUBSET Invite]
InviteRow ==
  [email : Email \union {None}, role : Role, accepted : User \union {None},
   revoked : BOOLEAN, expired : BOOLEAN, knew : SUBSET Invite]

\* What a statement finds in its request.
Registering == {"key", "insert", "lockedKey", "lockedInsert"}
Accepting == {"findInvite", "saveInvite"}
Linking == {"link", "linkOnly", "login"} \union Accepting

RequestOK(q) ==
  /\ q.pc \in {"findAdmin", "checkDebts", "saveUser", "buy"} \union Linking => q.user \in User
  /\ q.pc = "findAdmin" => q.todo = {"uninvoiced", "unpaid"} /\ q.owed = FALSE
  /\ q.pc \in Linking => q.person \in Person
  /\ q.pc \in {"lockedKey", "lockedInsert", "revoke"} \union Accepting => q.inv \in Invite
  /\ q.pc \in {"insert", "lockedInsert"} => q.copy.key > 0
  /\ q.pc \in Registering => q.copy.disabled = FALSE
  /\ q.pc \in {"key", "insert"} => q.person \in Person \/ q.inv = None
  /\ q.pc \in {"revokeOld", "insertInvite"} => q.email \in Email /\ q.role \in Role

TInv == TypeOK /\ \A r \in Request : RequestOK(req[r])

LEMMA Typed ==
  ASSUME TypeOK
  PROVE  req \in [Request -> RequestRow] /\ invites \in [Invite -> InviteRow]
  BY DEF TypeOK, RequestRow, InviteRow

LEMMA BlankOK == Blank \in RequestRow /\ RequestOK(Blank) /\ Blank.pc = "idle"
  BY AccountsAssumption
  DEF Blank, NoRow, RequestRow, RequestOK, PC, UserRow, Registering, Accepting, Linking

\* The tables, counters and histories keep their types.
TablesTyped ==
  /\ policy \in Policies
  /\ users \in [User -> UserRow]
  /\ uninvoiced \subseteq User /\ unpaid \subseteq User
  /\ invites \in [Invite -> InviteRow]
  /\ links \in [Person -> User \union {None}]
  /\ begun \in Nat /\ lost \in Nat
  /\ origin \in [User -> {None, "start", "self"} \union Invite]
  /\ crossed \subseteq User /\ cut \subseteq User
  /\ signedIn \subseteq Person \X User

LEMMA RequestStep ==
  ASSUME TInv, TablesTyped', NEW r \in Request, NEW q \in RequestRow, RequestOK(q),
         req' = [req EXCEPT ![r] = q]
  PROVE  TInv'
  <1>1. req' \in [Request -> RequestRow] /\ \A x \in Request : RequestOK(req'[x])
    BY Typed DEF TInv
  <1> QED
    BY <1>1 DEF TInv, TypeOK, TablesTyped, RequestRow, InviteRow

LEMMA Tables == TInv => TablesTyped
  BY DEF TInv, TypeOK, TablesTyped, InviteRow

\* A statement that leaves the tables alone.
LEMMA OnlyRequest ==
  ASSUME TInv, NEW r \in Request, NEW q \in RequestRow, RequestOK(q),
         req' = [req EXCEPT ![r] = q], begun' \in Nat, lost' \in Nat,
         UNCHANGED <<policy, tables, uninvoiced, unpaid, history>>
  PROVE  TInv'
  <1>1. TablesTyped'
    BY Tables DEF TablesTyped, tables, history
  <1> QED
    BY <1>1, RequestStep

\* The request goes on with another pc, or ends.
LEMMA GoesOn ==
  ASSUME TInv, NEW r \in Request, NEW where \in PC, Goto(r, where)
  PROVE  \E q \in RequestRow :
           /\ req' = [req EXCEPT ![r] = q]
           /\ q = [req[r] EXCEPT !.pc = where]
  <1> DEFINE q == [req[r] EXCEPT !.pc = where]
  <1>1. req[r] \in RequestRow
    BY Typed DEF TInv
  <1>2. q \in RequestRow
    BY <1>1 DEF RequestRow
  <1>3. req' = [req EXCEPT ![r] = q]
    BY <1>1, Typed DEF Goto, TInv
  <1> QED
    BY <1>2, <1>3

LEMMA Begun ==
  ASSUME TInv, NEW r \in Request, NEW q \in RequestRow, RequestOK(q), Begin(r, q),
         UNCHANGED <<policy, tables, uninvoiced, unpaid, lost, history>>
  PROVE  TInv'
  <1>1. begun' \in Nat /\ lost' \in Nat
    BY Tables DEF Begin, TablesTyped
  <1> QED
    BY <1>1, OnlyRequest DEF Begin, Step

LEMMA EndTyped ==
  ASSUME TInv, TablesTyped', NEW r \in Request, End(r)
  PROVE  TInv'
  BY BlankOK, RequestStep DEF End, Step

-----------------------------------------------------------------------------
(* One lemma for each group of handlers.                                   *)

LEMMA UpdateUserTyped ==
  ASSUME TInv, NEW r \in Request, UpdateUser(r)
  PROVE  TInv'
  <1>0. /\ Blank \in RequestRow /\ req[r] \in RequestRow /\ RequestOK(req[r]) /\ TablesTyped
        /\ "saveUser" \in PC /\ "checkDebts" \in PC /\ "findAdmin" \in PC
    BY BlankOK, Typed, Tables DEF TInv, PC
  <1>1. ASSUME NEW u \in User, NEW w \in Wishes, UpdateLoad(r, u, w)
        PROVE  TInv'
    <2> DEFINE where == IF LosesAdmin(users[u], w) THEN "findAdmin" ELSE AfterAdmins(w)
               q == [Blank EXCEPT !.pc = where, !.user = u, !.copy = users[u], !.role = w.role,
                       !.disable = w.disable, !.todo = {"uninvoiced", "unpaid"}]
    <2>1. Begin(r, q) /\ UNCHANGED <<policy, tables, uninvoiced, unpaid, lost, history>>
      BY <1>1 DEF UpdateLoad
    <2>2. where \in {"findAdmin", "checkDebts", "saveUser"}
      BY DEF AfterAdmins
    <2>3. w.role \in Role \union {None} /\ w.disable \in BOOLEAN \union {None}
      BY DEF Wishes
    <2>4. users[u] \in UserRow
      BY <1>0 DEF TablesTyped
    <2>5. Blank.owed = FALSE
      BY DEF Blank
    <2> HIDE DEF where
    <2>6. q \in RequestRow
      BY <1>0, <2>2, <2>3, <2>4 DEF RequestRow
    <2>7. q.pc = where /\ q.user = u /\ q.todo = {"uninvoiced", "unpaid"} /\ q.owed = FALSE
      BY <1>0, <2>5 DEF RequestRow
    <2>8. RequestOK(q)
      BY <2>2, <2>7 DEF RequestOK, Linking, Accepting, Registering
    <2> HIDE DEF q
    <2> QED
      BY <2>1, <2>6, <2>8, Begun
  <1>2. CASE FindAdmin(r)
    <2>1. CASE End(r)
      BY <1>0, <1>2, <2>1, EndTyped DEF FindAdmin, tables, history, TablesTyped
    <2>2. ASSUME NEW a \in ActiveAdmins, Step(r, [req[r] EXCEPT !.pc = AfterAdmins(req[r]), !.seen = a])
          PROVE  TInv'
      <3> DEFINE where == AfterAdmins(req[r])
                 q == [req[r] EXCEPT !.pc = where, !.seen = a]
      <3>1. where \in {"checkDebts", "saveUser"} /\ a \in User
        BY DEF AfterAdmins, ActiveAdmins, Admins, Rows
      <3> HIDE DEF where
      <3>0. where \in PC
        BY <1>0, <3>1
      <3>2. q \in RequestRow /\ q.pc = where /\ q.user = req[r].user
        <4>1. q \in RequestRow
          BY <1>0, <3>0, <3>1 DEF RequestRow
        <4>2. q.pc = where /\ q.user = req[r].user
          BY <1>0 DEF RequestRow
        <4> QED
          BY <4>1, <4>2
      <3>3. RequestOK(q)
        BY <1>0, <1>2, <3>1, <3>2 DEF FindAdmin, RequestOK, Linking, Accepting, Registering
      <3>4. req' = [req EXCEPT ![r] = q]
        BY <2>2 DEF Step, where
      <3> QED
        BY <1>0, <1>2, <3>2, <3>3, <3>4, OnlyRequest DEF FindAdmin, TablesTyped
    <2> QED
      BY <1>2, <2>1, <2>2 DEF FindAdmin
  <1>3. ASSUME NEW b \in {"uninvoiced", "unpaid"}, CheckDebt(r, b)
        PROVE  TInv'
    <2> DEFINE left == req[r].todo \ {b}
               owed == req[r].owed \/ req[r].user \in Debtors(b)
               where == IF left = {} THEN "saveUser" ELSE "checkDebts"
               q == [req[r] EXCEPT !.todo = left, !.owed = owed, !.pc = where]
    <2>1. CASE End(r)
      BY <1>0, <1>3, <2>1, EndTyped DEF CheckDebt, tables, history, TablesTyped
    <2>2. CASE req' = [req EXCEPT ![r] = q]
      <3>1. where \in {"checkDebts", "saveUser"} /\ owed \in BOOLEAN
        OBVIOUS
      <3>2. left \in SUBSET {"uninvoiced", "unpaid"}
        BY <1>0 DEF RequestRow
      <3> HIDE DEF where, left, owed
      <3>5. where \in PC
        BY <1>0, <3>1
      <3>3. q \in RequestRow /\ q.pc = where /\ q.user = req[r].user
        <4>1. q \in RequestRow
          BY <1>0, <3>1, <3>2, <3>5 DEF RequestRow
        <4>2. q.pc = where /\ q.user = req[r].user
          BY <1>0 DEF RequestRow
        <4> QED
          BY <4>1, <4>2
      <3>4. RequestOK(q)
        BY <1>0, <1>3, <3>1, <3>3 DEF CheckDebt, RequestOK, Linking, Accepting, Registering
      <3> QED
        BY <1>0, <1>3, <2>2, <3>3, <3>4, OnlyRequest DEF CheckDebt, TablesTyped
    <2> QED
      BY <1>3, <2>1, <2>2 DEF CheckDebt, Step
  <1>4. CASE SaveUser(r)
    <2> DEFINE u == req[r].user
    <2>1. u \in User /\ users[u] \in UserRow
      BY <1>0, <1>4 DEF SaveUser, RequestOK, TablesTyped
    <2>2. /\ Changed(req[r].copy.role, req[r].role, users[u].role) \in Role
          /\ Changed(req[r].copy.disabled, req[r].disable, users[u].disabled) \in BOOLEAN
      BY <1>0, <2>1 DEF RequestRow, UserRow, Changed
    <2>3. users' \in [User -> UserRow]
      BY <1>0, <1>4, <2>1, <2>2 DEF SaveUser, TablesTyped, UserRow
    <2>4. crossed' \subseteq User
      BY <1>0, <1>4, <2>1 DEF SaveUser, TablesTyped
    <2>5. TablesTyped'
      BY <1>0, <1>4, <2>3, <2>4 DEF SaveUser, TablesTyped
    <2> QED
      BY <1>4, <2>5, EndTyped DEF SaveUser
  <1> QED
    BY <1>1, <1>2, <1>3, <1>4 DEF UpdateUser

LEMMA DebtsTyped ==
  ASSUME TInv, NEW r \in Request, Debts(r)
  PROVE  TInv'
  <1>0. /\ Blank \in RequestRow /\ req[r] \in RequestRow /\ RequestOK(req[r]) /\ TablesTyped
        /\ "buy" \in PC
    BY BlankOK, Typed, Tables DEF TInv, PC
  <1>1. ASSUME NEW u \in User, BuyBegin(r, u) PROVE TInv'
    <2> DEFINE q == [Blank EXCEPT !.pc = "buy", !.user = u]
    <2>1. q \in RequestRow /\ q.pc = "buy" /\ q.user = u
      BY <1>0 DEF RequestRow
    <2>2. RequestOK(q)
      BY <2>1 DEF RequestOK, Linking, Accepting, Registering
    <2> QED
      BY <1>1, <2>1, <2>2, Begun DEF BuyBegin
  <1>2. CASE BuyCommit(r)
    <2>1. req[r].user \in User
      BY <1>0, <1>2 DEF BuyCommit, RequestOK
    <2>2. TablesTyped'
      BY <1>0, <1>2, <2>1 DEF BuyCommit, TablesTyped, tables
    <2> QED
      BY <1>2, <2>2, EndTyped DEF BuyCommit
  <1> QED
    BY <1>1, <1>2 DEF Debts

\* A row is inserted.
LEMMA InsertTyped ==
  ASSUME TInv, NEW r \in Request, NEW u \in User, NEW from \in {"self"} \union Invite,
         InsertUser(u, req[r].copy, from)
  PROVE  /\ users' \in [User -> UserRow]
         /\ origin' \in [User -> {None, "start", "self"} \union Invite]
  BY Typed, Tables DEF TInv, TablesTyped, RequestRow, InsertUser

\* The keypad number is in the request.
LEMMA KeyTyped ==
  ASSUME TInv, NEW r \in Request, NEW where \in {"insert", "lockedInsert"},
         req[r].pc = IF where = "insert" THEN "key" ELSE "lockedKey",
         ~(Series \subseteq Keys),
         Step(r, [req[r] EXCEPT !.pc = where, !.copy.key = LowestFree]),
         UNCHANGED <<policy, tables, uninvoiced, unpaid, begun, lost, history>>
  PROVE  TInv'
  <1> DEFINE k == LowestFree
             q == [req[r] EXCEPT !.pc = where, !.copy.key = k]
  <1>1. req[r] \in RequestRow /\ RequestOK(req[r]) /\ where \in PC
    BY Typed DEF TInv, PC
  <1>2. k \in Nat /\ k > 0
    BY FreeKey
  <1>3. Step(r, q)
    OBVIOUS
  <1> HIDE DEF k
  <1>4. q \in RequestRow
    BY <1>1, <1>2 DEF RequestRow, UserRow
  <1>5. /\ q.pc = where /\ q.copy.key = k /\ q.copy.disabled = req[r].copy.disabled
        /\ q.person = req[r].person /\ q.inv = req[r].inv
    BY <1>1 DEF RequestRow, UserRow
  <1>6. RequestOK(q)
    BY <1>1, <1>2, <1>5 DEF RequestOK, Linking, Accepting, Registering
  <1> HIDE DEF q
  <1>7. begun' \in Nat /\ lost' \in Nat
    BY Tables DEF TablesTyped
  <1> QED
    BY <1>3, <1>4, <1>6, <1>7, OnlyRequest DEF Step

LEMMA AccountTyped ==
  ASSUME TInv, NEW e \in Email, NEW role \in Role, NEW where \in {"key", "lockedKey"},
         NEW p \in Person \union {None}, NEW i \in Invite \union {None},
         where = "key" => p \in Person \/ i = None,
         where = "lockedKey" => i \in Invite
  PROVE  LET q == [Blank EXCEPT !.pc = where, !.person = p, !.inv = i,
                     !.copy = Account(e, role)]
         IN q \in RequestRow /\ RequestOK(q)
  <1> DEFINE q == [Blank EXCEPT !.pc = where, !.person = p, !.inv = i,
                     !.copy = Account(e, role)]
  <1>1. Account(e, role) \in UserRow /\ Account(e, role).disabled = FALSE
    BY DEF Account, UserRow
  <1>2. Blank \in RequestRow /\ where \in PC
    BY BlankOK DEF PC
  <1>3. q \in RequestRow
    BY <1>1, <1>2 DEF RequestRow
  <1>4. /\ q.pc = where /\ q.person = p /\ q.inv = i /\ q.copy = Account(e, role)
    BY <1>2 DEF RequestRow
  <1>5. RequestOK(q)
    BY <1>1, <1>4 DEF RequestOK, Linking, Accepting, Registering
  <1> QED
    BY <1>3, <1>5

LEMMA RegisterTyped ==
  ASSUME TInv, NEW r \in Request, Register(r)
  PROVE  TInv'
  <1>0. /\ Blank \in RequestRow /\ req[r] \in RequestRow /\ RequestOK(req[r]) /\ TablesTyped
        /\ Blank.person = None /\ Blank.inv = None /\ {"customer", "admin"} \subseteq Role
    BY BlankOK, Typed, Tables, AccountsAssumption DEF TInv, Blank
  <1>1. ASSUME NEW e \in Email, NEW role \in {"customer", "admin"},
               Begin(r, [Blank EXCEPT !.pc = "key", !.copy = Account(e, role)]),
               UNCHANGED <<policy, tables, uninvoiced, unpaid, lost, history>>
        PROVE  TInv'
    <2> DEFINE q == [Blank EXCEPT !.pc = "key", !.person = None, !.inv = None,
                       !.copy = Account(e, role)]
    <2>1. q \in RequestRow /\ RequestOK(q)
      BY <1>0, AccountTyped
    <2>2. q = [Blank EXCEPT !.pc = "key", !.copy = Account(e, role)]
      BY <1>0 DEF Blank
    <2> QED
      BY <1>1, <2>1, <2>2, Begun
  <1>2. CASE ReadKey(r)
    <2>1. CASE End(r)
      BY <1>0, <1>2, <2>1, EndTyped DEF ReadKey, tables, history, TablesTyped
    <2> QED
      BY <1>2, <2>1, KeyTyped DEF ReadKey
  <1>3. ASSUME NEW u \in User, Insert(r, u) PROVE TInv'
    <2>1. TablesTyped'
      <3>1. (IF req[r].inv = None THEN "self" ELSE req[r].inv) \in {"self"} \union Invite
        BY <1>0 DEF RequestRow
      <3> QED
        BY <1>0, <1>3, <3>1, InsertTyped DEF Insert, TablesTyped
    <2>2. CASE End(r)
      BY <2>1, <2>2, EndTyped
    <2>3. CASE req[r].person # None
      <3> DEFINE where == AfterInsert(req[r])
                 q == [req[r] EXCEPT !.pc = where, !.user = u]
      <3>1. where \in {"link", "findInvite"} /\ (where = "findInvite" => req[r].inv # None)
        BY <2>3 DEF AfterInsert
      <3>2. Step(r, q)
        BY <1>3, <2>3 DEF Insert
      <3> HIDE DEF where
      <3>3. where \in PC
        BY <3>1 DEF PC
      <3>4. q \in RequestRow
        BY <1>0, <3>3 DEF RequestRow
      <3>5. /\ q.pc = where /\ q.user = u /\ q.person = req[r].person /\ q.inv = req[r].inv
        BY <1>0 DEF RequestRow
      <3>6. req[r].person \in Person /\ (req[r].inv # None => req[r].inv \in Invite)
        BY <1>0, <2>3 DEF RequestRow
      <3>7. RequestOK(q)
        BY <3>1, <3>5, <3>6 DEF RequestOK, Linking, Accepting, Registering
      <3> QED
        BY <2>1, <3>2, <3>4, <3>7, RequestStep DEF Step
    <2> QED
      BY <1>3, <2>2, <2>3 DEF Insert
  <1>4. CASE InsertRejected(r)
    BY <1>0, <1>4, EndTyped DEF InsertRejected, tables, history, TablesTyped
  <1> QED
    BY <1>1, <1>2, <1>3, <1>4 DEF Register, BootstrapBegin, RegisterBegin

\* One column of an invitation is written.
LEMMA AcceptedRow ==
  ASSUME NEW row \in InviteRow, NEW u \in User
  PROVE  [row EXCEPT !.accepted = u] \in InviteRow
  BY DEF InviteRow
LEMMA RevokedRow ==
  ASSUME NEW row \in InviteRow
  PROVE  [row EXCEPT !.revoked = TRUE] \in InviteRow
  BY DEF InviteRow
LEMMA ExpiredRow ==
  ASSUME NEW row \in InviteRow
  PROVE  [row EXCEPT !.expired = TRUE] \in InviteRow
  BY DEF InviteRow

LEMMA InviteTyped ==
  ASSUME TInv, NEW i \in Invite, NEW u \in User
  PROVE  /\ [invites EXCEPT ![i].accepted = u] \in [Invite -> InviteRow]
         /\ [invites EXCEPT ![i].revoked = TRUE] \in [Invite -> InviteRow]
         /\ [invites EXCEPT ![i].expired = TRUE] \in [Invite -> InviteRow]
  <1>1. invites \in [Invite -> InviteRow]
    BY Typed DEF TInv
  <1>2. /\ [invites[i] EXCEPT !.accepted = u] \in InviteRow
        /\ [invites[i] EXCEPT !.revoked = TRUE] \in InviteRow
        /\ [invites[i] EXCEPT !.expired = TRUE] \in InviteRow
    BY <1>1, AcceptedRow, RevokedRow, ExpiredRow
  <1>3. \A row \in InviteRow : [invites EXCEPT ![i] = row] \in [Invite -> InviteRow]
    BY <1>1
  <1> QED
    BY <1>1, <1>2, <1>3

LEMMA InvitationsTyped ==
  ASSUME TInv, NEW r \in Request, Invitations(r)
  PROVE  TInv'
  <1>0. /\ Blank \in RequestRow /\ req[r] \in RequestRow /\ RequestOK(req[r]) /\ TablesTyped
        /\ {"revokeOld", "insertInvite", "revoke", "lockedKey"} \subseteq PC
        /\ Blank.person = None
    BY BlankOK, Typed, Tables DEF TInv, PC, Blank
  <1>1. ASSUME NEW e \in Email, NEW x \in Role, CreateInviteBegin(r, e, x) PROVE TInv'
    <2> DEFINE q == [Blank EXCEPT !.pc = "revokeOld", !.email = e, !.role = x]
    <2>1. q \in RequestRow
      BY <1>0 DEF RequestRow
    <2>2. q.pc = "revokeOld" /\ q.email = e /\ q.role = x
      BY <1>0 DEF RequestRow
    <2>3. RequestOK(q)
      BY <2>2 DEF RequestOK, Linking, Accepting, Registering
    <2> QED
      BY <1>1, <2>1, <2>3, Begun DEF CreateInviteBegin
  <1>2. CASE RevokeOld(r)
    <2> DEFINE known == {i \in Invite : invites[i].email = req[r].email}
               q == [req[r] EXCEPT !.pc = "insertInvite", !.knew = known]
    <2>1. Step(r, q) /\ req[r].pc = "revokeOld"
      BY <1>2 DEF RevokeOld
    <2>2. known \in SUBSET Invite
      OBVIOUS
    <2> HIDE DEF known
    <2>9. "insertInvite" \in PC /\ req[r] \in RequestRow
      BY <1>0 DEF PC
    <2>3. q \in RequestRow
      BY <2>2, <2>9 DEF RequestRow
    <2>4. q.pc = "insertInvite" /\ q.email = req[r].email /\ q.role = req[r].role
      BY <1>0 DEF RequestRow
    <2>5. RequestOK(q)
      BY <1>0, <2>1, <2>4 DEF RequestOK, Linking, Accepting, Registering
    <2>6. \A i \in Invite : [invites[i] EXCEPT !.revoked = TRUE] \in InviteRow /\ invites[i] \in InviteRow
      BY <1>0, RevokedRow DEF TablesTyped
    <2>7. invites' \in [Invite -> InviteRow]
      BY <1>2, <2>6 DEF RevokeOld, Supersede
    <2>8. TablesTyped'
      BY <1>0, <1>2, <2>7 DEF RevokeOld, TablesTyped, history
    <2> QED
      BY <2>1, <2>3, <2>5, <2>8, RequestStep DEF Step
  <1>3. ASSUME NEW i \in Invite, InsertInvite(r, i) PROVE TInv'
    <2> DEFINE row == [NoInvite EXCEPT !.email = req[r].email, !.role = req[r].role,
                         !.knew = req[r].knew]
    <2>1. req[r].email \in Email /\ req[r].role \in Role /\ req[r].knew \in SUBSET Invite
      BY <1>0, <1>3 DEF InsertInvite, RequestOK, RequestRow
    <2>2. row \in InviteRow
      BY <2>1 DEF NoInvite, InviteRow
    <2>3. invites' = [invites EXCEPT ![i] = row]
      BY <1>3 DEF InsertInvite
    <2> HIDE DEF row
    <2>4. TablesTyped'
      BY <1>0, <1>3, <2>2, <2>3 DEF InsertInvite, TablesTyped, history
    <2> QED
      BY <1>3, <2>4, EndTyped DEF InsertInvite
  <1>4. ASSUME NEW i \in Invite, RevokeBegin(r, i) PROVE TInv'
    <2> DEFINE q == [Blank EXCEPT !.pc = "revoke", !.inv = i]
    <2>4. "revoke" \in PC /\ Blank \in RequestRow
      BY <1>0 DEF PC
    <2>1. q \in RequestRow
      BY <2>4 DEF RequestRow
    <2>2. q.pc = "revoke" /\ q.inv = i
      BY <1>0 DEF RequestRow
    <2>3. RequestOK(q)
      BY <2>2 DEF RequestOK, Linking, Accepting, Registering
    <2> QED
      BY <1>4, <2>1, <2>3, Begun DEF RevokeBegin
  <1>5. CASE RevokeSave(r)
    <2>1. req[r].inv \in Invite
      BY <1>0, <1>5 DEF RevokeSave, RequestOK
    <2>2. [invites EXCEPT ![req[r].inv].revoked = TRUE] \in [Invite -> InviteRow]
      <3>1. invites[req[r].inv] \in InviteRow
        BY <1>0, <2>1 DEF TablesTyped
      <3> QED
        BY <1>0, <2>1, <3>1 DEF TablesTyped, InviteRow
    <2>3. TablesTyped'
      BY <1>0, <1>5, <2>2 DEF RevokeSave, TablesTyped, history
    <2> QED
      BY <1>5, <2>3, EndTyped DEF RevokeSave
  <1>6. ASSUME NEW i \in Invite, AcceptLock(r, i) PROVE TInv'
    <2> DEFINE e == invites[i].email
               role == invites[i].role
               q == [Blank EXCEPT !.pc = "lockedKey", !.person = None, !.inv = i,
                       !.copy = Account(e, role)]
    <2>1. e \in Email /\ role \in Role
      BY <1>0, <1>6 DEF AcceptLock, Open, Issued, TablesTyped, InviteRow
    <2>2. Begin(r, [Blank EXCEPT !.pc = "lockedKey", !.inv = i, !.copy = Account(e, role)])
      BY <1>6 DEF AcceptLock
    <2> HIDE DEF e, role
    <2>3. q \in RequestRow /\ RequestOK(q)
      BY <2>1, AccountTyped
    <2>4. q = [Blank EXCEPT !.pc = "lockedKey", !.inv = i, !.copy = Account(e, role)]
      BY <1>0 DEF Blank
    <2> QED
      BY <1>6, <2>2, <2>3, <2>4, Begun DEF AcceptLock
  <1>7. CASE LockedKey(r)
    <2>1. CASE End(r)
      BY <1>0, <1>7, <2>1, EndTyped DEF LockedKey, tables, history, TablesTyped
    <2> QED
      BY <1>7, <2>1, KeyTyped DEF LockedKey
  <1>8. ASSUME NEW u \in User, LockedInsert(r, u) PROVE TInv'
    <2>1. req[r].inv \in Invite
      BY <1>0, <1>8 DEF LockedInsert, RequestOK
    <2>2. TablesTyped'
      BY <1>0, <1>8, <2>1, InsertTyped, InviteTyped DEF LockedInsert, TablesTyped
    <2> QED
      BY <1>8, <2>2, EndTyped DEF LockedInsert
  <1> QED
    BY <1>1, <1>2, <1>3, <1>4, <1>5, <1>6, <1>7, <1>8 DEF Invitations

LEMMA SignInTyped ==
  ASSUME TInv, NEW r \in Request, SignIn(r)
  PROVE  TInv'
  <1>0. /\ Blank \in RequestRow /\ req[r] \in RequestRow /\ RequestOK(req[r]) /\ TablesTyped
        /\ {"link", "linkOnly", "login", "findInvite", "saveInvite", "key"} \subseteq PC
    BY BlankOK, Typed, Tables DEF TInv, PC
  <1>1. ASSUME NEW p \in Person, SignInKnown(r, p) PROVE TInv'
    <2>1. PICK u \in Match(p) :
            Begin(r, [Blank EXCEPT !.pc = "link", !.user = u, !.copy = users[u], !.person = p])
      BY <1>1 DEF SignInKnown
    <2> DEFINE q == [Blank EXCEPT !.pc = "link", !.user = u, !.copy = users[u], !.person = p]
    <2>2. u \in User /\ users[u] \in UserRow
      BY <1>0 DEF Match, Owner, Rows, TablesTyped
    <2>3. q \in RequestRow
      BY <1>0, <2>2 DEF RequestRow
    <2>4. q.pc = "link" /\ q.user = u /\ q.person = p
      BY <1>0 DEF RequestRow
    <2>5. RequestOK(q)
      BY <2>2, <2>4 DEF RequestOK, Linking, Accepting, Registering
    <2> QED
      BY <1>1, <2>1, <2>3, <2>5, Begun DEF SignInKnown
  <1>2. ASSUME NEW p \in Person, NEW u \in User, LinkIntent(r, p, u) PROVE TInv'
    <2> DEFINE q == [Blank EXCEPT !.pc = "linkOnly", !.user = u, !.person = p]
    <2>1. q \in RequestRow
      BY <1>0 DEF RequestRow
    <2>2. q.pc = "linkOnly" /\ q.user = u /\ q.person = p
      BY <1>0 DEF RequestRow
    <2>3. RequestOK(q)
      BY <2>2 DEF RequestOK, Linking, Accepting, Registering
    <2> QED
      BY <1>2, <2>1, <2>3, Begun DEF LinkIntent
  <1>3. ASSUME NEW p \in Person, NEW intent \in Invite \union {None}, NEW boot \in BOOLEAN,
               SignInNew(r, p, intent, boot)
        PROVE  TInv'
    <2>1. PICK i \in Admission(p, intent, boot) :
            Begin(r, [Blank EXCEPT !.pc = "key", !.person = p, !.inv = i,
                        !.copy = Account(EmailOf[p], RoleOf(i, boot))])
      BY <1>3 DEF SignInNew
    <2> DEFINE role == RoleOf(i, boot)
               e == EmailOf[p]
               q == [Blank EXCEPT !.pc = "key", !.person = p, !.inv = i, !.copy = Account(e, role)]
    <2>2. i \in Invite \union {None}
      BY DEF Admission, OpenFor
    <2>3. role \in Role /\ e \in Email
      BY <1>0, <2>2, AccountsAssumption DEF RoleOf, TablesTyped, InviteRow
    <2> HIDE DEF role, e
    <2>4. q \in RequestRow /\ RequestOK(q)
      BY <2>2, <2>3, AccountTyped
    <2> QED
      BY <1>3, <2>1, <2>4, Begun DEF SignInNew, e, role
  <1>4. ASSUME req[r].pc \in Linking, NEW where \in {"link", "login", "saveInvite"},
               where = "saveInvite" => req[r].pc = "findInvite",
               Goto(r, where), TablesTyped'
        PROVE  TInv'
    <2>1. PICK q \in RequestRow : /\ req' = [req EXCEPT ![r] = q]
                                  /\ q = [req[r] EXCEPT !.pc = where]
      BY <1>0, <1>4, GoesOn
    <2>2. q.pc = where /\ q.user = req[r].user /\ q.person = req[r].person /\ q.inv = req[r].inv
      BY <1>0, <2>1 DEF RequestRow
    <2>3. RequestOK(q)
      BY <1>0, <1>4, <2>2 DEF RequestOK, Linking, Accepting, Registering
    <2> QED
      BY <1>4, <2>1, <2>3, RequestStep
  <1>5. CASE FindInvite(r)
    <2>1. TablesTyped' /\ req[r].pc = "findInvite"
      BY <1>0, <1>5 DEF FindInvite, TablesTyped, tables, history
    <2> QED
      BY <1>4, <1>5, <2>1 DEF FindInvite, Linking, Accepting
  <1>6. CASE SaveInvite(r)
    <2>1. req[r].inv \in Invite /\ req[r].user \in User
      BY <1>0, <1>6 DEF SaveInvite, RequestOK, Linking, Accepting
    <2>2. TablesTyped'
      BY <1>0, <1>6, <2>1, InviteTyped DEF SaveInvite, TablesTyped, history
    <2> QED
      BY <1>4, <1>6, <2>2 DEF SaveInvite, Linking, Accepting
  <1>7. CASE Link(r)
    <2>1. req[r].person \in Person /\ req[r].user \in User
      BY <1>0, <1>7 DEF Link, RequestOK, Linking
    <2>2. TablesTyped'
      BY <1>0, <1>7, <2>1 DEF Link, TablesTyped, history
    <2> QED
      BY <1>4, <1>7, <2>2, EndTyped DEF Link, Linking
  <1>8. CASE Login(r)
    <2>1. req[r].person \in Person /\ req[r].user \in User
      BY <1>0, <1>8 DEF Login, RequestOK, Linking
    <2>2. TablesTyped'
      BY <1>0, <1>8, <2>1 DEF Login, TablesTyped, tables
    <2> QED
      BY <1>8, <2>2, EndTyped DEF Login
  <1> QED
    BY <1>1, <1>2, <1>3, <1>5, <1>6, <1>7, <1>8 DEF SignIn

LEMMA EnvironmentTyped ==
  ASSUME TInv, Environment
  PROVE  TInv'
  <1>0. TablesTyped
    BY Tables
  <1>1. ASSUME TablesTyped', UNCHANGED req PROVE TInv'
    BY <1>1 DEF TInv, TypeOK, TablesTyped, InviteRow
  <1>2. ASSUME NEW u \in User, Bill(u) \/ Settle(u) PROVE TInv'
    <2>1. TablesTyped' /\ UNCHANGED req
      BY <1>0, <1>2 DEF Bill, Settle, TablesTyped, tables, history
    <2> QED
      BY <1>1, <2>1
  <1>3. ASSUME NEW i \in Invite, Expire(i) PROVE TInv'
    <2>1. invites[i] \in InviteRow
      BY <1>0 DEF TablesTyped
    <2>2. invites' \in [Invite -> InviteRow]
      BY <1>0, <1>3, <2>1 DEF Expire, TablesTyped, InviteRow
    <2>3. TablesTyped' /\ UNCHANGED req
      BY <1>0, <1>3, <2>2 DEF Expire, TablesTyped, history
    <2> QED
      BY <1>1, <2>3
  <1>4. ASSUME NEW u \in User, NEW e \in Email, MoveEmail(u, e) PROVE TInv'
    <2>1. users[u] \in UserRow
      BY <1>0 DEF TablesTyped
    <2>2. users' \in [User -> UserRow]
      BY <1>0, <1>4, <2>1 DEF MoveEmail, TablesTyped, UserRow
    <2>3. TablesTyped' /\ UNCHANGED req
      BY <1>0, <1>4, <2>2 DEF MoveEmail, TablesTyped, history
    <2> QED
      BY <1>1, <2>3
  <1>5. ASSUME NEW r \in Request, Lose(r) PROVE TInv'
    <2>1. RequestOK(req[r])
      BY DEF TInv
    <2>2. cut' \subseteq User
      BY <1>0, <1>5, <2>1 DEF Lose, TablesTyped, RequestOK, Linking, Accepting
    <2>3. TablesTyped'
      BY <1>0, <1>5, <2>2 DEF Lose, TablesTyped, tables
    <2> QED
      BY <1>5, <2>3, EndTyped DEF Lose
  <1> QED
    BY <1>2, <1>3, <1>4, <1>5 DEF Environment

LEMMA TInvNext == TInv /\ [Next]_vars => TInv'
  <1>1. TInv /\ UNCHANGED vars => TInv'
    BY DEF TInv, TypeOK, vars, Issued
  <1> QED
    BY <1>1, UpdateUserTyped, DebtsTyped, RegisterTyped, InvitationsTyped, SignInTyped,
       EnvironmentTyped
    DEF Next

LEMMA InitTyped == Init => TInv
  <1> SUFFICES ASSUME Init PROVE TInv
    OBVIOUS
  <1>1. /\ Blank \in RequestRow /\ RequestOK(Blank)
        /\ NoInvite \in InviteRow
    BY BlankOK, AccountsAssumption DEF NoInvite, InviteRow
  <1>2. /\ req \in [Request -> RequestRow] /\ invites \in [Invite -> InviteRow]
        /\ \A r \in Request : RequestOK(req[r])
    BY <1>1 DEF Init
  <1>3. users \in [User -> UserRow]
    BY AccountsAssumption DEF Init
  <1> QED
    BY <1>2, <1>3 DEF Init, TInv, TypeOK, RequestRow, InviteRow

LEMMA TypedAccounts == Spec => []TInv
  BY InitTyped, TInvNext, PTL DEF Spec

\* Whatever requests cross and wherever they break off, every table holds
\* rows of its type, and every account an existing row names a user.
THEOREM AccountsTyped == Spec => []TypeOK
  <1>1. TInv => TypeOK
    BY DEF TInv
  <1> QED
    BY <1>1, TypedAccounts, PTL

-----------------------------------------------------------------------------
(* Where a step takes its request.                                         *)

Moves(r, S) == req'[r].pc \in S /\ \A x \in Request \ {r} : req'[x] = req[x]

LEMMA EndMoves ==
  ASSUME TInv, NEW r \in Request, End(r)
  PROVE  Moves(r, {"idle"}) /\ req'[r] = Blank
  BY BlankOK, Typed DEF TInv, End, Step, Moves

LEMMA GotoMoves ==
  ASSUME TInv, NEW r \in Request, NEW where, Goto(r, where)
  PROVE  Moves(r, {where})
  BY Typed DEF TInv, Goto, RequestRow, Moves

LEMMA UpdateUserMoves ==
  ASSUME TInv, NEW r \in Request, UpdateUser(r)
  PROVE  Moves(r, {"idle", "findAdmin", "checkDebts", "saveUser"})
  <1>0. /\ Blank \in RequestRow /\ req[r] \in RequestRow /\ req \in [Request -> RequestRow]
    BY BlankOK, Typed DEF TInv
  <1>1. CASE End(r)
    BY <1>1, EndMoves DEF Moves
  <1>2. ASSUME NEW u, NEW w, UpdateLoad(r, u, w)
        PROVE  Moves(r, {"findAdmin", "checkDebts", "saveUser"})
    BY <1>0, <1>2 DEF UpdateLoad, Begin, Step, RequestRow, AfterAdmins, Moves
  <1>3. ASSUME NEW a, Step(r, [req[r] EXCEPT !.pc = AfterAdmins(req[r]), !.seen = a])
        PROVE  Moves(r, {"checkDebts", "saveUser"})
    BY <1>0, <1>3 DEF Step, RequestRow, AfterAdmins, Moves
  <1>4. ASSUME NEW b, CheckDebt(r, b), ~End(r)
        PROVE  Moves(r, {"checkDebts", "saveUser"})
    <2> DEFINE left == req[r].todo \ {b}
               owed == req[r].owed \/ req[r].user \in Debtors(b)
               where == IF left = {} THEN "saveUser" ELSE "checkDebts"
    <2>1. req' = [req EXCEPT ![r] = [req[r] EXCEPT !.todo = left, !.owed = owed, !.pc = where]]
      BY <1>4 DEF CheckDebt, Step
    <2>2. where \in {"checkDebts", "saveUser"}
      OBVIOUS
    <2> HIDE DEF left, owed, where
    <2> QED
      BY <1>0, <2>1, <2>2 DEF RequestRow, Moves
  <1> QED
    BY <1>1, <1>2, <1>3, <1>4 DEF UpdateUser, FindAdmin, CheckDebt, SaveUser, Moves

LEMMA DebtsMoves ==
  ASSUME TInv, NEW r \in Request, Debts(r)
  PROVE  Moves(r, {"idle", "buy"})
  <1>0. /\ Blank \in RequestRow /\ req[r] \in RequestRow /\ req \in [Request -> RequestRow]
    BY BlankOK, Typed DEF TInv
  <1>1. ASSUME NEW u, BuyBegin(r, u) PROVE Moves(r, {"buy"})
    BY <1>0, <1>1 DEF BuyBegin, Begin, Step, RequestRow, Moves
  <1> QED
    BY <1>1, EndMoves DEF Debts, BuyCommit, Moves

LEMMA RegisterMoves ==
  ASSUME TInv, NEW r \in Request, Register(r)
  PROVE  Moves(r, {"idle", "key", "insert", "link", "findInvite"})
  <1>0. /\ Blank \in RequestRow /\ req[r] \in RequestRow /\ req \in [Request -> RequestRow]
    BY BlankOK, Typed DEF TInv
  <1>1. CASE End(r)
    BY <1>1, EndMoves DEF Moves
  <1>2. ASSUME NEW c, Begin(r, [Blank EXCEPT !.pc = "key", !.copy = c])
        PROVE  Moves(r, {"key"})
    BY <1>0, <1>2 DEF Begin, Step, RequestRow, Moves
  <1>3. ASSUME Step(r, [req[r] EXCEPT !.pc = "insert", !.copy.key = LowestFree])
        PROVE  Moves(r, {"insert"})
    BY <1>0, <1>3 DEF Step, RequestRow, Moves
  <1>4. ASSUME NEW u, req[r].person # None,
               Step(r, [req[r] EXCEPT !.pc = AfterInsert(req[r]), !.user = u])
        PROVE  Moves(r, {"link", "findInvite"})
    <2>1. AfterInsert(req[r]) \in {"link", "findInvite"}
      BY <1>4 DEF AfterInsert
    <2> QED
      BY <1>0, <1>4, <2>1 DEF Step, RequestRow, Moves
  <1> QED
    BY <1>1, <1>2, <1>3, <1>4
    DEF Register, BootstrapBegin, RegisterBegin, ReadKey, Insert, InsertRejected, Moves

LEMMA InvitationsMoves ==
  ASSUME TInv, NEW r \in Request, Invitations(r)
  PROVE  Moves(r, {"idle", "revokeOld", "insertInvite", "revoke", "lockedKey", "lockedInsert"})
  <1>0. /\ Blank \in RequestRow /\ req[r] \in RequestRow /\ req \in [Request -> RequestRow]
    BY BlankOK, Typed DEF TInv
  <1>1. CASE End(r)
    BY <1>1, EndMoves DEF Moves
  <1>2. ASSUME NEW e, NEW x, CreateInviteBegin(r, e, x) PROVE Moves(r, {"revokeOld"})
    BY <1>0, <1>2 DEF CreateInviteBegin, Begin, Step, RequestRow, Moves
  <1>3. ASSUME RevokeOld(r) PROVE Moves(r, {"insertInvite"})
    BY <1>0, <1>3 DEF RevokeOld, Step, RequestRow, Moves
  <1>4. ASSUME NEW i, RevokeBegin(r, i) PROVE Moves(r, {"revoke"})
    BY <1>0, <1>4 DEF RevokeBegin, Begin, Step, RequestRow, Moves
  <1>5. ASSUME NEW i, AcceptLock(r, i) PROVE Moves(r, {"lockedKey"})
    BY <1>0, <1>5 DEF AcceptLock, Begin, Step, RequestRow, Moves
  <1>6. ASSUME Step(r, [req[r] EXCEPT !.pc = "lockedInsert", !.copy.key = LowestFree])
        PROVE  Moves(r, {"lockedInsert"})
    BY <1>0, <1>6 DEF Step, RequestRow, Moves
  <1> QED
    BY <1>1, <1>2, <1>3, <1>4, <1>5, <1>6
    DEF Invitations, InsertInvite, RevokeSave, LockedKey, LockedInsert, Moves

LEMMA SignInMoves ==
  ASSUME TInv, NEW r \in Request, SignIn(r)
  PROVE  \/ Link(r) /\ Moves(r, {"idle", "login"})
         \/ Login(r) /\ Moves(r, {"idle"})
         \/ Moves(r, {"key", "link", "linkOnly", "saveInvite"}) /\ UNCHANGED <<links, signedIn>>
  <1>0. /\ Blank \in RequestRow /\ req[r] \in RequestRow /\ req \in [Request -> RequestRow]
    BY BlankOK, Typed DEF TInv
  <1> DEFINE Other == /\ Moves(r, {"key", "link", "linkOnly", "saveInvite"})
                      /\ UNCHANGED <<links, signedIn>>
  <1>1. ASSUME Link(r) PROVE Moves(r, {"idle", "login"})
    <2>1. CASE End(r)
      BY <2>1, EndMoves DEF Moves
    <2>2. CASE Goto(r, "login")
      BY <2>2, GotoMoves DEF Moves
    <2> QED
      BY <1>1, <2>1, <2>2 DEF Link
  <1>2. ASSUME NEW p, SignInKnown(r, p) PROVE Other
    BY <1>0, <1>2 DEF SignInKnown, Begin, Step, RequestRow, Moves, tables, history
  <1>3. ASSUME NEW p, NEW u, LinkIntent(r, p, u) PROVE Other
    BY <1>0, <1>3 DEF LinkIntent, Begin, Step, RequestRow, Moves, tables, history
  <1>4. ASSUME NEW p, NEW i, NEW b, SignInNew(r, p, i, b) PROVE Other
    BY <1>0, <1>4 DEF SignInNew, Begin, Step, RequestRow, Moves, tables, history
  <1>5. CASE FindInvite(r) \/ SaveInvite(r)
    <2>1. \E where \in {"link", "saveInvite"} : Goto(r, where)
      BY <1>5 DEF FindInvite, SaveInvite
    <2>2. UNCHANGED <<links, signedIn>>
      BY <1>5 DEF FindInvite, SaveInvite, tables, history
    <2> QED
      BY <2>1, <2>2, GotoMoves DEF Moves
  <1>6. ASSUME Login(r) PROVE Moves(r, {"idle"})
    BY <1>6, EndMoves DEF Login
  <1> QED
    BY <1>1, <1>2, <1>3, <1>4, <1>5, <1>6 DEF SignIn

-----------------------------------------------------------------------------
(* Debts of disabled accounts.                                             *)

Owes(u) == u \in uninvoiced \union unpaid
Asked == {"uninvoiced", "unpaid"}

\* What a query has not found is not there, or has come in a crossing; and
\* nobody disabled has a purchase in flight but in a crossing.
DebtOK(q) ==
  /\ q.pc = "checkDebts" => q.disable = TRUE
  /\ q.pc = "checkDebts" /\ q.owed = FALSE =>
       \A b \in Asked \ q.todo : q.user \in Debtors(b) => q.user \in crossed
  /\ q.pc = "saveUser" /\ q.disable = TRUE /\ Owes(q.user) => q.user \in crossed
  /\ q.pc = "buy" /\ users[q.user].disabled = TRUE => q.user \in crossed

DInv ==
  /\ \A r \in Request : DebtOK(req[r])
  /\ \A u \in User :
       users[u].key > 0 /\ users[u].disabled = TRUE /\ Owes(u) => u \in crossed

Disablers == {"checkDebts", "saveUser", "buy"}

\* A step that concerns neither debts nor disabled flags.
LEMMA Indifferent ==
  ASSUME TInv, DInv, NEW r \in Request, req'[r].pc \notin Disablers,
         \A x \in Request \ {r} : req'[x] = req[x],
         UNCHANGED <<uninvoiced, unpaid, crossed>>,
         \A u \in User : users'[u].disabled = TRUE =>
           users[u].disabled = TRUE /\ users'[u].key = users[u].key
  PROVE  DInv'
  <1>1. ASSUME NEW x \in Request PROVE DebtOK(req[x])'
    <2>1. CASE x = r
      BY <2>1 DEF DebtOK, Disablers
    <2>2. CASE x # r
      <3>1. req'[x] = req[x] /\ DebtOK(req[x]) /\ RequestOK(req[x])
        BY <2>2 DEF DInv, TInv
      <3>2. req[x].pc = "buy" => req[x].user \in User
        BY <3>1 DEF RequestOK
      <3> QED
        BY <3>1, <3>2 DEF DebtOK, Owes, Debtors
    <2> QED
      BY <2>1, <2>2
  <1>2. ASSUME NEW u \in User, users'[u].key > 0, users'[u].disabled = TRUE, Owes(u)'
        PROVE  u \in crossed'
    BY <1>2 DEF DInv, Owes
  <1> QED
    BY <1>1, <1>2 DEF DInv

\* The request at hand and what the step does to the tables.
LEMMA DebtStep ==
  ASSUME TInv, DInv, NEW r \in Request, DebtOK(req[r])', crossed \subseteq crossed',
         \A x \in Request \ {r} :
           /\ req'[x] = req[x]
           /\ req[x].pc = "checkDebts" => \A b \in Asked :
                req[x].user \in Debtors(b)' => req[x].user \in Debtors(b) \union crossed'
           /\ req[x].pc = "saveUser" /\ req[x].disable = TRUE /\ Owes(req[x].user)' =>
                Owes(req[x].user) \/ req[x].user \in crossed'
           /\ req[x].pc = "buy" /\ users'[req[x].user].disabled = TRUE =>
                users[req[x].user].disabled = TRUE \/ req[x].user \in crossed',
         \A u \in User : users'[u].key > 0 /\ users'[u].disabled = TRUE /\ Owes(u)' => u \in crossed'
  PROVE  DInv'
  <1>1. ASSUME NEW x \in Request, x # r PROVE DebtOK(req[x])'
    <2>1. req'[x] = req[x] /\ DebtOK(req[x])
      BY <1>1 DEF DInv
    <2>2. /\ req[x].pc = "checkDebts" => req[x].disable = TRUE
          /\ req[x].pc = "checkDebts" /\ req[x].owed = FALSE =>
               \A b \in Asked \ req[x].todo : req[x].user \in Debtors(b)' => req[x].user \in crossed'
      BY <1>1, <2>1 DEF DebtOK
    <2>3. req[x].pc = "saveUser" /\ req[x].disable = TRUE /\ Owes(req[x].user)'
            => req[x].user \in crossed'
      BY <1>1, <2>1 DEF DebtOK
    <2>4. req[x].pc = "buy" /\ users'[req[x].user].disabled = TRUE => req[x].user \in crossed'
      BY <1>1, <2>1 DEF DebtOK
    <2> QED
      BY <2>1, <2>2, <2>3, <2>4 DEF DebtOK
  <1> QED
    BY <1>1 DEF DInv

LEMMA EndsUndebted ==
  ASSUME TInv, NEW r \in Request, End(r)
  PROVE  /\ req'[r] = Blank /\ req'[r].pc \notin Disablers
         /\ \A x \in Request \ {r} : req'[x] = req[x]
         /\ DebtOK(req[r])'
  BY BlankOK, Typed DEF TInv, End, Step, Disablers, DebtOK

LEMMA UpdateUserDebts ==
  ASSUME TInv, DInv, NEW r \in Request, UpdateUser(r)
  PROVE  DInv'
  <1>0. /\ Blank \in RequestRow /\ req[r] \in RequestRow /\ RequestOK(req[r])
        /\ req \in [Request -> RequestRow] /\ users \in [User -> UserRow] /\ DebtOK(req[r])
    BY BlankOK, Typed DEF TInv, TypeOK, DInv
  <1>1. ASSUME NEW q, req' = [req EXCEPT ![r] = q], DebtOK(q),
               UNCHANGED <<users, uninvoiced, unpaid, crossed>>
        PROVE  DInv'
    <2>1. req'[r] = q /\ \A x \in Request \ {r} : req'[x] = req[x]
      BY <1>0, <1>1
    <2>2. DebtOK(req[r])'
      BY <1>1, <2>1 DEF DebtOK, Owes, Debtors
    <2> QED
      BY <1>1, <2>1, <2>2, DebtStep DEF DInv, Owes, Debtors
  <1>2. ASSUME NEW u \in User, NEW w \in Wishes, UpdateLoad(r, u, w)
        PROVE  DInv'
    <2> DEFINE where == IF LosesAdmin(users[u], w) THEN "findAdmin" ELSE AfterAdmins(w)
               q == [Blank EXCEPT !.pc = where, !.user = u, !.copy = users[u], !.role = w.role,
                       !.disable = w.disable, !.todo = {"uninvoiced", "unpaid"}]
    <2>1. req' = [req EXCEPT ![r] = q] /\ UNCHANGED <<users, uninvoiced, unpaid, crossed>>
      BY <1>2 DEF UpdateLoad, Begin, Step, tables, history
    <2>2. /\ where \in {"findAdmin", "checkDebts", "saveUser"}
          /\ where = "checkDebts" => w.disable = TRUE
          /\ where = "saveUser" => w.disable # TRUE
      BY DEF AfterAdmins
    <2> HIDE DEF where
    <2>3. q.pc = where /\ q.todo = {"uninvoiced", "unpaid"} /\ q.disable = w.disable
      BY <1>0 DEF RequestRow
    <2>4. DebtOK(q)
      BY <2>2, <2>3 DEF DebtOK, Asked
    <2> QED
      BY <1>1, <2>1, <2>4
  <1>3. ASSUME FindAdmin(r), NEW a, Step(r, [req[r] EXCEPT !.pc = AfterAdmins(req[r]), !.seen = a])
        PROVE  DInv'
    <2> DEFINE where == AfterAdmins(req[r])
               q == [req[r] EXCEPT !.pc = where, !.seen = a]
    <2>1. req' = [req EXCEPT ![r] = q] /\ UNCHANGED <<users, uninvoiced, unpaid, crossed>>
      BY <1>3 DEF FindAdmin, Step, tables, history
    <2>2. /\ where \in {"checkDebts", "saveUser"}
          /\ where = "checkDebts" => req[r].disable = TRUE
          /\ where = "saveUser" => req[r].disable # TRUE
      BY DEF AfterAdmins
    <2> HIDE DEF where
    <2>3. q.pc = where /\ q.todo = req[r].todo /\ q.disable = req[r].disable
      BY <1>0 DEF RequestRow
    <2>4. req[r].todo = Asked
      BY <1>0, <1>3 DEF FindAdmin, RequestOK, Asked
    <2>5. DebtOK(q)
      BY <2>2, <2>3, <2>4 DEF DebtOK
    <2> QED
      BY <1>1, <2>1, <2>5
  <1>4. ASSUME NEW b \in Asked, CheckDebt(r, b), ~End(r)
        PROVE  DInv'
    <2> DEFINE left == req[r].todo \ {b}
               owed == req[r].owed \/ req[r].user \in Debtors(b)
               where == IF left = {} THEN "saveUser" ELSE "checkDebts"
               q == [req[r] EXCEPT !.todo = left, !.owed = owed, !.pc = where]
    <2>1. /\ req' = [req EXCEPT ![r] = q] /\ UNCHANGED <<users, uninvoiced, unpaid, crossed>>
          /\ req[r].pc = "checkDebts" /\ b \in req[r].todo /\ ~(left = {} /\ owed)
      BY <1>4 DEF CheckDebt, Step, tables, history
    <2>2. /\ q.pc = where /\ q.todo = left /\ q.disable = req[r].disable
          /\ q.owed = owed /\ q.user = req[r].user
      BY <1>0 DEF RequestRow
    <2>3. ASSUME ~owed, NEW c \in Asked \ left, req[r].user \in Debtors(c)
          PROVE  req[r].user \in crossed
      <3>1. req[r].owed = FALSE /\ c # b
        BY <1>0, <2>3 DEF RequestRow
      <3> QED
        BY <1>0, <2>1, <2>3, <3>1 DEF DebtOK
    <2>4. left = {} /\ Owes(req[r].user) => req[r].user \in crossed
      <3>1. Owes(req[r].user) => \E c \in Asked : req[r].user \in Debtors(c)
        BY DEF Owes, Asked, Debtors
      <3> QED
        BY <2>1, <2>3, <3>1
    <2>5. req[r].disable = TRUE
      BY <1>0, <2>1 DEF DebtOK
    <2> HIDE DEF q
    <2>6. DebtOK(q)
      <3>1. CASE left = {}
        BY <2>2, <2>4, <3>1 DEF DebtOK
      <3>2. CASE left # {}
        BY <2>2, <2>3, <2>5, <3>2 DEF DebtOK
      <3> QED
        BY <3>1, <3>2
    <2> QED
      BY <1>1, <2>1, <2>6
  <1>5. CASE SaveUser(r)
    <2> DEFINE u == req[r].user
    <2>1. u \in User /\ users[u] \in UserRow /\ req[r].pc = "saveUser"
      BY <1>0, <1>5 DEF SaveUser, RequestOK
    <2>2. /\ \A v \in User : users'[v].key = users[v].key
          /\ \A v \in User \ {u} : users'[v].disabled = users[v].disabled
          /\ users'[u].disabled = TRUE => users[u].disabled = TRUE \/ req[r].disable = TRUE
      BY <1>0, <1>5, <2>1 DEF SaveUser, UserRow, Changed
    <2>3. /\ UNCHANGED <<uninvoiced, unpaid>> /\ crossed \subseteq crossed'
          /\ req[r].disable = TRUE /\ Buying(u) => u \in crossed'
      BY <1>5 DEF SaveUser
    <2>4. /\ \A x \in Request \ {r} : req'[x] = req[x]
          /\ DebtOK(req[r])'
      BY <1>5, EndsUndebted DEF SaveUser
    <2>5. ASSUME NEW x \in Request \ {r}, req[x].pc = "buy", users'[req[x].user].disabled = TRUE
          PROVE  users[req[x].user].disabled = TRUE \/ req[x].user \in crossed'
      <3>1. req[x].user \in User
        BY <2>5 DEF TInv, RequestOK
      <3>2. req[x].user = u => Buying(u)
        BY <2>5 DEF Buying
      <3> QED
        BY <2>2, <2>3, <2>5, <3>1, <3>2
    <2>6. ASSUME NEW v \in User, users'[v].key > 0, users'[v].disabled = TRUE, Owes(v)'
          PROVE  v \in crossed'
      <3>1. Owes(v) /\ users[v].key > 0
        BY <2>2, <2>3, <2>6 DEF Owes
      <3>2. CASE users[v].disabled = TRUE
        BY <2>3, <3>1, <3>2 DEF DInv
      <3>3. CASE v = u /\ req[r].disable = TRUE
        BY <1>0, <2>1, <2>3, <3>1, <3>3 DEF DebtOK
      <3> QED
        BY <2>2, <2>6, <3>2, <3>3
    <2> QED
      BY <2>3, <2>4, <2>5, <2>6, DebtStep DEF Owes, Debtors
  <1>6. ASSUME End(r), UNCHANGED <<users, uninvoiced, unpaid, crossed>> PROVE DInv'
    BY <1>6, EndsUndebted, Indifferent
  <1> QED
    BY <1>2, <1>3, <1>4, <1>5, <1>6 DEF UpdateUser, FindAdmin, CheckDebt, tables, history, Asked

LEMMA DebtsDebts ==
  ASSUME TInv, DInv, NEW r \in Request, Debts(r)
  PROVE  DInv'
  <1>0. /\ Blank \in RequestRow /\ req[r] \in RequestRow /\ RequestOK(req[r])
        /\ req \in [Request -> RequestRow] /\ DebtOK(req[r])
    BY BlankOK, Typed DEF TInv, DInv
  <1>1. ASSUME NEW u \in User, BuyBegin(r, u) PROVE DInv'
    <2> DEFINE q == [Blank EXCEPT !.pc = "buy", !.user = u]
    <2>1. /\ req'[r] = q /\ \A x \in Request \ {r} : req'[x] = req[x]
          /\ UNCHANGED <<users, uninvoiced, unpaid, crossed>> /\ ~users[u].disabled
      BY <1>0, <1>1 DEF BuyBegin, Begin, Step, tables, history, MayBuy
    <2>2. q.pc = "buy" /\ q.user = u
      BY <1>0 DEF RequestRow
    <2>3. DebtOK(req[r])'
      BY <2>1, <2>2 DEF DebtOK
    <2> QED
      BY <2>1, <2>3, DebtStep DEF DInv, Owes, Debtors
  <1>2. CASE BuyCommit(r)
    <2> DEFINE u == req[r].user
    <2>1. u \in User /\ req[r].pc = "buy"
      BY <1>0, <1>2 DEF BuyCommit, RequestOK
    <2>2. /\ uninvoiced' = uninvoiced \union {u} /\ UNCHANGED <<users, unpaid>>
          /\ crossed \subseteq crossed'
          /\ Disabling(u, {"checkDebts", "saveUser"}) => u \in crossed'
      BY <1>2 DEF BuyCommit, tables
    <2>3. /\ \A x \in Request \ {r} : req'[x] = req[x]
          /\ DebtOK(req[r])'
      BY <1>2, EndsUndebted DEF BuyCommit
    <2>4. ASSUME NEW x \in Request \ {r}, req[x].pc \in {"checkDebts", "saveUser"},
                 req[x].disable = TRUE, req[x].user = u
          PROVE  u \in crossed'
      BY <2>2, <2>4 DEF Disabling
    <2>5. ASSUME NEW x \in Request \ {r}, req[x].pc = "checkDebts", NEW b \in Asked,
                 req[x].user \in Debtors(b)'
          PROVE  req[x].user \in Debtors(b) \union crossed'
      <3>1. req[x].disable = TRUE
        BY <2>5 DEF DInv, DebtOK
      <3> QED
        BY <2>2, <2>4, <2>5, <3>1 DEF Debtors
    <2>6. ASSUME NEW x \in Request \ {r}, req[x].pc = "saveUser", req[x].disable = TRUE,
                 Owes(req[x].user)'
          PROVE  Owes(req[x].user) \/ req[x].user \in crossed'
      <3>1. CASE req[x].user = u
        BY <2>4, <2>6, <3>1
      <3>2. CASE req[x].user # u
        BY <2>2, <2>3, <2>6, <3>2 DEF Owes
      <3> QED
        BY <3>1, <3>2
    <2>7. ASSUME NEW v \in User, users'[v].key > 0, users'[v].disabled = TRUE, Owes(v)'
          PROVE  v \in crossed'
      BY <1>0, <2>1, <2>2, <2>7 DEF Owes, DInv, DebtOK
    <2> QED
      BY <2>2, <2>3, <2>5, <2>6, <2>7, DebtStep
  <1> QED
    BY <1>1, <1>2 DEF Debts

\* No account becomes disabled.
NobodyDisabled == \A v \in User : users'[v].disabled = TRUE =>
  users[v].disabled = TRUE /\ users'[v].key = users[v].key

LEMMA Inserted ==
  ASSUME TInv, NEW r \in Request, NEW u \in User, NEW from,
         req[r].pc \in Registering, InsertUser(u, req[r].copy, from)
  PROVE  NobodyDisabled
  <1>1. users \in [User -> UserRow] /\ req[r].copy.disabled = FALSE
    BY DEF TInv, TypeOK, RequestOK
  <1> QED
    BY <1>1 DEF InsertUser, NobodyDisabled

LEMMA RegisterUndebted ==
  ASSUME TInv, DInv, NEW r \in Request, Register(r)
  PROVE  DInv'
  <1>1. ASSUME NEW u \in User, Insert(r, u) PROVE NobodyDisabled
    BY <1>1, Inserted DEF Insert, Registering
  <1>2. UNCHANGED <<uninvoiced, unpaid, crossed>> /\ NobodyDisabled
    BY <1>1 DEF Register, BootstrapBegin, RegisterBegin, ReadKey, Insert, InsertRejected,
      tables, history, NobodyDisabled
  <1> QED
    BY <1>2, RegisterMoves, Indifferent DEF NobodyDisabled, Moves, Disablers

LEMMA InvitationsUndebted ==
  ASSUME TInv, DInv, NEW r \in Request, Invitations(r)
  PROVE  DInv'
  <1>1. ASSUME NEW u \in User, LockedInsert(r, u) PROVE NobodyDisabled
    BY <1>1, Inserted DEF LockedInsert, Registering
  <1>2. UNCHANGED <<uninvoiced, unpaid, crossed>> /\ NobodyDisabled
    BY <1>1 DEF Invitations, CreateInviteBegin, RevokeOld, InsertInvite, RevokeBegin,
      AcceptLock, RevokeSave, LockedKey, LockedInsert, tables, history, NobodyDisabled
  <1> QED
    BY <1>2, InvitationsMoves, Indifferent DEF NobodyDisabled, Moves, Disablers

LEMMA SignInUndebted ==
  ASSUME TInv, DInv, NEW r \in Request, SignIn(r)
  PROVE  DInv'
  <1>1. UNCHANGED <<uninvoiced, unpaid, crossed, users>>
    BY DEF SignIn, SignInKnown, LinkIntent, SignInNew, FindInvite, SaveInvite, Link, Login,
       tables, history
  <1> QED
    BY <1>1, SignInMoves, Indifferent DEF Moves, Disablers

LEMMA EnvironmentDebts ==
  ASSUME TInv, DInv, Environment
  PROVE  DInv'
  <1>1. ASSUME NEW u \in User, Bill(u) PROVE DInv'
    <2>1. /\ UNCHANGED <<users, req>> /\ crossed \subseteq crossed'
          /\ uninvoiced' = uninvoiced \ {u} /\ unpaid' = unpaid \union {u} /\ u \in uninvoiced
          /\ Disabling(u, {"checkDebts"}) => u \in crossed'
      BY <1>1 DEF Bill, tables
    <2>2. \A v \in User \union {None} : Owes(v)' <=> Owes(v)
      BY <2>1 DEF Owes
    <2>3. ASSUME NEW x \in Request PROVE DebtOK(req[x])'
      <3>1. DebtOK(req[x]) /\ req[x].user \in User \union {None}
        BY Typed DEF DInv, TInv, RequestRow
      <3>2. ASSUME req[x].pc = "checkDebts", req[x].owed = FALSE, NEW b \in Asked \ req[x].todo,
                   req[x].user \in Debtors(b)'
            PROVE  req[x].user \in crossed'
        <4>1. req[x].disable = TRUE
          BY <3>1, <3>2 DEF DebtOK
        <4>2. CASE req[x].user = u
          BY <2>1, <3>2, <4>1, <4>2 DEF Disabling
        <4>3. CASE req[x].user # u
          BY <2>1, <3>1, <3>2, <4>3 DEF DebtOK, Debtors
        <4> QED
          BY <4>2, <4>3
      <3> QED
        BY <2>1, <2>2, <3>1, <3>2 DEF DebtOK
    <2> QED
      BY <2>1, <2>2, <2>3 DEF DInv
  <1>2. ASSUME UNCHANGED <<req, crossed>>, uninvoiced' \subseteq uninvoiced, unpaid' \subseteq unpaid,
               \A v \in User : users'[v].key = users[v].key /\ users'[v].disabled = users[v].disabled
        PROVE  DInv'
    <2>1. ASSUME NEW x \in Request PROVE DebtOK(req[x])'
      <3>1. DebtOK(req[x]) /\ (req[x].pc = "buy" => req[x].user \in User)
        BY DEF DInv, TInv, RequestOK
      <3> QED
        BY <1>2, <3>1 DEF DebtOK, Owes, Debtors
    <2> QED
      BY <1>2, <2>1 DEF DInv, Owes
  <1>3. ASSUME NEW u \in User, Settle(u) PROVE DInv'
    BY <1>2, <1>3 DEF Settle, tables, history
  <1>4. ASSUME NEW i \in Invite, Expire(i) PROVE DInv'
    BY <1>2, <1>4 DEF Expire, history
  <1>5. ASSUME NEW u \in User, NEW e \in Email, MoveEmail(u, e) PROVE DInv'
    <2>1. users \in [User -> UserRow]
      BY DEF TInv, TypeOK
    <2>2. \A v \in User : users'[v].key = users[v].key /\ users'[v].disabled = users[v].disabled
      BY <1>5, <2>1 DEF MoveEmail, UserRow
    <2> QED
      BY <1>2, <1>5, <2>2 DEF MoveEmail, history
  <1>6. ASSUME NEW r \in Request, Lose(r) PROVE DInv'
    BY <1>6, EndsUndebted, Indifferent DEF Lose, tables
  <1> QED
    BY <1>1, <1>3, <1>4, <1>5, <1>6 DEF Environment

LEMMA DInvNext == TInv /\ DInv /\ [Next]_vars => DInv'
  <1>1. DInv /\ UNCHANGED vars => DInv'
    BY DEF DInv, DebtOK, Owes, Debtors, vars
  <1> QED
    BY <1>1, UpdateUserDebts, DebtsDebts, RegisterUndebted, InvitationsUndebted, SignInUndebted,
       EnvironmentDebts
    DEF Next

\* A disabled account owes nothing, unless a purchase or an invoice crossed
\* the update that disabled it: updateUser asks in two queries and saves in a
\* third statement, and no other way leads to a disabled debtor.
THEOREM NoDisabledDebtors == Spec => []DisabledOwesNothing
  <1>1. Init => DInv
    BY BlankOK DEF Init, DInv, DebtOK, Owes
  <1>2. DInv => DisabledOwesNothing
    BY DEF DInv, DisabledOwesNothing, Rows, Owes
  <1> QED
    BY <1>1, <1>2, DInvNext, TypedAccounts, PTL DEF Spec

-----------------------------------------------------------------------------
(* Identities of the provider.                                             *)

\* No two identities lead to one account; a sign-in that is through its
\* link, or done, went to the account its identity is linked to.
LInv ==
  /\ \A p, q \in Person : links[p] # None /\ links[p] = links[q] => p = q
  /\ \A r \in Request : req[r].pc = "login" => links[req[r].person] = req[r].user
  /\ \A s \in signedIn : links[s[1]] = s[2]

LEMMA LinkKept ==
  ASSUME TInv, LInv, UNCHANGED <<links, signedIn>>,
         \A x \in Request : req'[x].pc = "login" => req'[x] = req[x]
  PROVE  LInv'
  BY DEF LInv

LEMMA LinkInv ==
  ASSUME TInv, LInv, NEW r \in Request, Link(r)
  PROVE  LInv'
  <1> DEFINE p == req[r].person
             u == req[r].user
  <1>1. /\ p \in Person /\ u \in User /\ u # None
        /\ links \in [Person -> User \union {None}] /\ signedIn \subseteq Person \X User
        /\ req \in [Request -> RequestRow]
    BY Typed, AccountsAssumption DEF TInv, TypeOK, RequestOK, Link, Linking
  <1>2. UNCHANGED signedIn
    BY DEF Link, history
  <1>3. CASE ~CanLink(p, u)
    <2>1. UNCHANGED links /\ Moves(r, {"idle"})
      BY <1>3, EndMoves DEF Link
    <2> QED
      BY <1>2, <2>1, LinkKept DEF Moves
  <1>4. CASE CanLink(p, u)
    <2>1. links' = [links EXCEPT ![p] = u]
      BY <1>4 DEF Link
    <2>2. \A q \in Person : links[q] # None => links'[q] = links[q]
      BY <1>1, <1>4, <2>1 DEF CanLink
    <2>3. links'[p] = u /\ \A q \in Person : links'[q] = u => q = p
      BY <1>1, <1>4, <2>1 DEF CanLink
    <2>4. \A x \in Request \ {r} : req'[x] = req[x]
      BY <1>4, EndMoves, GotoMoves DEF Link, Moves
    <2>5. req'[r].pc = "login" => req'[r].person = p /\ req'[r].user = u
      <3>1. CASE End(r)
        BY <3>1, EndMoves DEF Moves
      <3>2. CASE Goto(r, "login")
        BY <1>1, <3>2 DEF Goto, RequestRow
      <3> QED
        BY <3>1, <3>2 DEF Link
    <2>6. ASSUME NEW a \in Person, NEW b \in Person, links'[a] # None, links'[a] = links'[b]
          PROVE  a = b
      BY <1>1, <2>1, <2>3, <2>6 DEF LInv
    <2>7. ASSUME NEW x \in Request, req'[x].pc = "login"
          PROVE  links'[req'[x].person] = req'[x].user
      <3>1. CASE x = r
        BY <2>3, <2>5, <2>7, <3>1
      <3>2. CASE x # r
        <4>1. req'[x] = req[x] /\ req[x].person \in Person /\ req[x].user \in User
          BY <2>4, <2>7, <3>2 DEF TInv, RequestOK, Linking
        <4>2. links[req[x].person] = req[x].user /\ req[x].user # None
          BY <2>7, <4>1, AccountsAssumption DEF LInv
        <4> QED
          BY <2>2, <4>1, <4>2
      <3> QED
        BY <3>1, <3>2
    <2>8. ASSUME NEW s \in signedIn PROVE links'[s[1]] = s[2]
      <3>1. s[1] \in Person /\ s[2] \in User /\ s[2] # None /\ links[s[1]] = s[2]
        BY <1>1, <2>8, AccountsAssumption DEF LInv
      <3> QED
        BY <2>2, <3>1
    <2> QED
      BY <1>2, <2>6, <2>7, <2>8 DEF LInv
  <1> QED
    BY <1>3, <1>4

LEMMA LInvNext == TInv /\ LInv /\ [Next]_vars => LInv'
  <1> SUFFICES ASSUME TInv, LInv, [Next]_vars PROVE LInv'
    OBVIOUS
  <1>1. ASSUME NEW r \in Request, NEW S, "login" \notin S, Moves(r, S),
               UNCHANGED <<links, signedIn>>
        PROVE  LInv'
    BY <1>1, LinkKept DEF Moves
  <1>2. ASSUME NEW r \in Request, UpdateUser(r) PROVE LInv'
    <2>1. UNCHANGED <<links, signedIn>>
      BY <1>2 DEF UpdateUser, UpdateLoad, FindAdmin, CheckDebt, SaveUser, tables, history
    <2> QED
      BY <1>1, <1>2, <2>1, UpdateUserMoves
  <1>3. ASSUME NEW r \in Request, Debts(r) PROVE LInv'
    <2>1. UNCHANGED <<links, signedIn>>
      BY <1>3 DEF Debts, BuyBegin, BuyCommit, tables, history
    <2> QED
      BY <1>1, <1>3, <2>1, DebtsMoves
  <1>4. ASSUME NEW r \in Request, Register(r) PROVE LInv'
    <2>1. UNCHANGED <<links, signedIn>>
      BY <1>4 DEF Register, BootstrapBegin, RegisterBegin, ReadKey, Insert, InsertRejected,
        tables, history
    <2> QED
      BY <1>1, <1>4, <2>1, RegisterMoves
  <1>5. ASSUME NEW r \in Request, Invitations(r) PROVE LInv'
    <2>1. UNCHANGED <<links, signedIn>>
      BY <1>5 DEF Invitations, CreateInviteBegin, RevokeOld, InsertInvite, RevokeBegin,
        AcceptLock, RevokeSave, LockedKey, LockedInsert, tables, history
    <2> QED
      BY <1>1, <1>5, <2>1, InvitationsMoves
  <1>6. ASSUME NEW r \in Request, SignIn(r) PROVE LInv'
    <2>1. CASE Link(r)
      BY <2>1, LinkInv
    <2>2. CASE Login(r)
      <3>1. Moves(r, {"idle"}) /\ UNCHANGED links
        BY <2>2, EndMoves DEF Login, tables
      <3>2. \A s \in signedIn' : s \in signedIn \/ s = <<req[r].person, req[r].user>>
        BY <2>2 DEF Login
      <3>3. links[req[r].person] = req[r].user
        BY <2>2 DEF Login, LInv
      <3> QED
        BY <3>1, <3>2, <3>3 DEF LInv, Moves
    <2>3. CASE /\ Moves(r, {"key", "link", "linkOnly", "saveInvite"})
               /\ UNCHANGED <<links, signedIn>>
      BY <1>1, <2>3
    <2> QED
      BY <1>6, <2>1, <2>2, <2>3, SignInMoves
  <1>7. CASE Environment
    <2>1. UNCHANGED <<links, signedIn>>
      BY <1>7 DEF Environment, Bill, Settle, Expire, MoveEmail, Lose, tables, history
    <2>2. ASSUME NEW r \in Request, Lose(r) PROVE LInv'
      BY <1>1, <2>1, <2>2, EndMoves DEF Lose
    <2>3. CASE UNCHANGED req
      BY <2>1, <2>3, LinkKept
    <2> QED
      BY <1>7, <2>2, <2>3 DEF Environment, Bill, Settle, Expire, MoveEmail
  <1>8. CASE UNCHANGED vars
    BY <1>8 DEF vars, LInv
  <1> QED
    BY <1>2, <1>3, <1>4, <1>5, <1>6, <1>7, <1>8 DEF Next

LEMMA PersonsKept == TInv /\ LInv => PersonKeepsAccount
  <1> SUFFICES ASSUME TInv, LInv, NEW s \in signedIn, NEW t \in signedIn
               PROVE  s[1] = t[1] <=> s[2] = t[2]
    BY DEF PersonKeepsAccount
  <1>1. s \in Person \X User /\ t \in Person \X User
    BY DEF TInv, TypeOK
  <1>2. links[s[1]] = s[2] /\ links[t[1]] = t[2]
    BY DEF LInv
  <1>3. s[1] \in Person /\ t[1] \in Person /\ s[2] # None
    BY <1>1, AccountsAssumption
  <1> QED
    BY <1>2, <1>3 DEF LInv

\* A person of the external provider always reaches the same account and
\* nobody else does: ensureLinkedIdentity keeps one account for each identity
\* and one identity for each account, whatever sign-ins run at once.
THEOREM IdentitiesStay == Spec => []PersonKeepsAccount
  <1>1. Init => LInv
    BY BlankOK DEF Init, LInv
  <1>2. TInv /\ LInv => PersonKeepsAccount
    BY PersonsKept
  <1> QED
    BY <1>1, <1>2, LInvNext, TypedAccounts, PTL DEF Spec

-----------------------------------------------------------------------------
(* Invitations.                                                            *)

Shut(i) == Issued(i) /\ ~Open(i)
Locking == {"lockedKey", "lockedInsert"}

\* What a request knows of its invitation.
InviteOK(q) ==
  /\ q.pc \in {"revoke"} \union Registering \union Accepting /\ q.inv \in Invite => Issued(q.inv)
  /\ q.pc \in Accepting => q.user \in Rows /\ origin[q.user] = q.inv
  /\ q.pc = "insertInvite" => \A i \in q.knew : Shut(i)
  /\ q.pc \in Locking => invites[q.inv].revoked = FALSE /\ invites[q.inv].accepted = None

\* Each invitation is locked once.
OneLock ==
  \A r, x \in Request :
    r # x /\ req[r].pc \in Locking /\ req[x].pc \in Locking => req[r].inv # req[x].inv

IInv ==
  /\ \A r \in Request : InviteOK(req[r])
  /\ OneLock
  /\ \A u \in User : origin[u] \in Invite => Issued(origin[u])
  /\ \A j \in Invite : Issued(j) => \A i \in invites[j].knew : Shut(i)
  /\ UsedInviteIsClosed

\* What no step takes back.
Onward ==
  /\ \A i \in Invite : Issued(i) => Issued(i)' /\ invites'[i].knew = invites[i].knew
  /\ \A i \in Invite : Shut(i) => Shut(i)'
  /\ \A u \in Rows : u \in Rows' /\ origin'[u] = origin[u]
  /\ cut \subseteq cut'

\* A request that stands still, and what it has locked.
Still(x) ==
  /\ req'[x] = req[x]
  /\ req[x].pc \in Locking =>
       /\ invites'[req[x].inv].revoked = invites[req[x].inv].revoked
       /\ invites'[req[x].inv].accepted = invites[req[x].inv].accepted

Pursued(u) == \E x \in Request : req[x].user = u /\ req[x].pc \in Accepting

LEMMA InviteStep ==
  ASSUME TInv, IInv, Onward, OneLock',
         \A x \in Request : Still(x) \/ InviteOK(req[x])',
         \A j \in Invite : Issued(j)' => Issued(j) \/ \A i \in invites'[j].knew : Shut(i)',
         \A u \in User :
           \/ origin'[u] = origin[u] /\ (u \in Rows' => u \in Rows)
           \/ origin'[u] \in Invite =>
                Issued(origin[u])' /\ (~Open(origin[u])' \/ Pursued(u)'),
         \A x \in Request : req[x].pc \in Accepting =>
           \/ req'[x].user = req[x].user /\ req'[x].pc \in Accepting
           \/ req[x].user \in cut'
           \/ req[x].inv \in Invite /\ invites'[req[x].inv].accepted # None
           \/ req[x].inv \in Invite /\ Shut(req[x].inv)
  PROVE  IInv'
  <1>1. ASSUME NEW x \in Request PROVE InviteOK(req[x])'
    <2>1. CASE Still(x)
      <3>1. req'[x] = req[x] /\ InviteOK(req[x]) /\ RequestOK(req[x]) /\ req[x] \in RequestRow
        BY <2>1, Typed DEF Still, IInv, TInv
      <3>2. req[x].knew \subseteq Invite
        BY <3>1 DEF RequestRow
      <3> QED
        BY <2>1, <3>1, <3>2 DEF InviteOK, Still, Onward
    <2> QED
      BY <2>1
  <1>2. ASSUME NEW j \in Invite, Issued(j)', NEW i \in invites'[j].knew PROVE Shut(i)'
    <2>1. CASE Issued(j)
      <3>1. i \in invites[j].knew /\ Shut(i) /\ i \in Invite
        BY <1>2, <2>1, Typed DEF Onward, IInv, TInv, InviteRow
      <3> QED
        BY <3>1 DEF Onward
    <2> QED
      BY <1>2, <2>1
  <1>3. ASSUME NEW u \in User, origin'[u] \in Invite PROVE Issued(origin[u])'
    BY <1>3 DEF Onward, IInv, Issued
  <1>4. ASSUME NEW u \in Rows', origin'[u] \in Invite
        PROVE  ~Open(origin[u])' \/ u \in cut' \/ Pursued(u)'
    <2>0. u \in User
      BY <1>4 DEF Rows
    <2>1. CASE origin'[u] = origin[u] /\ u \in Rows
      <3>1. CASE ~Open(origin[u])
        <4>1. Shut(origin[u]) /\ origin[u] \in Invite
          BY <1>4, <2>0, <2>1, <3>1 DEF IInv, Shut
        <4>2. Shut(origin[u])'
          BY <2>1, <4>1 DEF Onward, Shut, Open, Issued
        <4> QED
          BY <4>2 DEF Shut
      <3>2. CASE u \in cut
        BY <3>2 DEF Onward
      <3>3. ASSUME NEW x \in Request, req[x].user = u, req[x].pc \in Accepting
            PROVE  ~Open(origin[u])' \/ u \in cut' \/ Pursued(u)'
        <4>1. req[x].inv = origin[u]
          BY <3>3 DEF IInv, InviteOK
        <4>2. CASE Shut(req[x].inv) /\ req[x].inv \in Invite
          BY <2>1, <4>1, <4>2 DEF Onward, Shut, Open, Issued
        <4>3. CASE invites'[req[x].inv].accepted # None
          BY <2>1, <4>1, <4>3 DEF Open
        <4> QED
          BY <3>3, <4>2, <4>3 DEF Pursued
      <3> QED
        BY <1>4, <2>1, <3>1, <3>2, <3>3 DEF IInv, UsedInviteIsClosed, Accepting
    <2>2. CASE ~(origin'[u] = origin[u] /\ u \in Rows)
      BY <1>4, <2>0, <2>2
    <2> QED
      BY <2>1, <2>2
  <1>5. UsedInviteIsClosed'
    BY <1>4 DEF UsedInviteIsClosed, Pursued, Accepting
  <1> QED
    BY <1>1, <1>2, <1>3, <1>5 DEF IInv

\* A step that leaves invitations and accounts as they are.
Quiet ==
  /\ UNCHANGED <<invites, origin>> /\ cut \subseteq cut'
  /\ \A u \in User : users'[u].key = users[u].key

LEMMA QuietOnward ==
  ASSUME Quiet
  PROVE  /\ Onward /\ Rows' = Rows
         /\ \A i : (Issued(i)' <=> Issued(i)) /\ (Shut(i)' <=> Shut(i))
         /\ \A x : req'[x] = req[x] => Still(x)
  BY DEF Quiet, Onward, Rows, Issued, Shut, Open, Still

LEMMA QuietStep ==
  ASSUME TInv, IInv, Quiet, NEW r \in Request,
         \A x \in Request \ {r} : req'[x] = req[x],
         InviteOK(req[r])',
         req'[r].pc \in Locking =>
           \/ req[r].pc \in Locking /\ req'[r].inv = req[r].inv
           \/ ~Locked(req'[r].inv),
         req[r].pc \in Accepting =>
           \/ req'[r].user = req[r].user /\ req'[r].pc \in Accepting
           \/ req[r].user \in cut'
           \/ req[r].inv \in Invite /\ Shut(req[r].inv)
  PROVE  IInv'
  <1>1. Onward /\ Rows' = Rows /\ UNCHANGED <<invites, origin>>
    BY QuietOnward DEF Quiet
  <1>2. OneLock'
    <2>1. ASSUME NEW x \in Request \ {r}, req'[r].pc \in Locking, req'[x].pc \in Locking
          PROVE  req'[r].inv # req'[x].inv
      BY <2>1 DEF IInv, OneLock, Locked, Locking
    <2>2. ASSUME NEW x \in Request \ {r}, NEW y \in Request \ {r}, x # y,
                 req'[x].pc \in Locking, req'[y].pc \in Locking
          PROVE  req'[x].inv # req'[y].inv
      BY <2>2 DEF IInv, OneLock
    <2> QED
      BY <2>1, <2>2 DEF OneLock
  <1>3. \A x \in Request : Still(x) \/ InviteOK(req[x])'
    BY QuietOnward
  <1>4. \A j \in Invite : Issued(j)' => Issued(j)
    BY QuietOnward
  <1>5. \A u \in User : origin'[u] = origin[u] /\ (u \in Rows' => u \in Rows)
    BY <1>1
  <1>6. ASSUME NEW x \in Request, req[x].pc \in Accepting
        PROVE  \/ req'[x].user = req[x].user /\ req'[x].pc \in Accepting
               \/ req[x].user \in cut'
               \/ req[x].inv \in Invite /\ Shut(req[x].inv)
    BY <1>6
  <1> QED
    BY <1>1, <1>2, <1>3, <1>4, <1>5, <1>6, InviteStep

Special == {"revoke", "insertInvite"} \union Registering \union Accepting

LEMMA Elsewhere ==
  ASSUME TInv, IInv, Quiet, NEW r \in Request, NEW S, Moves(r, S), S \intersect Special = {},
         req[r].pc \notin Accepting \/ req[r].user \in cut'
  PROVE  IInv'
  <1>1. req'[r].pc \notin Special /\ \A x \in Request \ {r} : req'[x] = req[x]
    BY DEF Moves
  <1>2. InviteOK(req[r])'
    BY <1>1 DEF InviteOK, Special, Locking, Registering
  <1>3. req'[r].pc \notin Locking
    BY <1>1 DEF Special, Locking, Registering
  <1> QED
    BY <1>1, <1>2, <1>3, QuietStep

LEMMA UpdateUserInvites ==
  ASSUME TInv, IInv, NEW r \in Request, UpdateUser(r) \/ Debts(r)
  PROVE  IInv'
  <1>1. Quiet
    <2>1. users \in [User -> UserRow] /\ (SaveUser(r) => req[r].user \in User)
      BY DEF TInv, TypeOK, SaveUser, RequestOK
    <2>2. SaveUser(r) => Quiet
      BY <2>1 DEF SaveUser, Quiet, UserRow
    <2> QED
      BY <2>2 DEF UpdateUser, UpdateLoad, FindAdmin, CheckDebt, SaveUser, Debts, BuyBegin,
        BuyCommit, tables, history, Quiet
  <1>2. req[r].pc \notin Accepting
    BY DEF UpdateUser, UpdateLoad, FindAdmin, CheckDebt, SaveUser, Debts, BuyBegin, BuyCommit,
      Begin, Accepting
  <1>3. /\ {"idle", "findAdmin", "checkDebts", "saveUser"} \intersect Special = {}
        /\ {"idle", "buy"} \intersect Special = {}
    BY DEF Special, Registering, Accepting
  <1> QED
    BY <1>1, <1>2, <1>3, UpdateUserMoves, DebtsMoves, Elsewhere

\* A number for the row, or none left.
LEMMA KeyInvites ==
  ASSUME TInv, IInv, NEW r \in Request, ReadKey(r) \/ LockedKey(r)
  PROVE  IInv'
  <1>0. req[r] \in RequestRow /\ req \in [Request -> RequestRow]
    BY Typed DEF TInv
  <1>1. Quiet /\ req[r].pc \notin Accepting
    BY DEF ReadKey, LockedKey, tables, history, Quiet, Accepting
  <1>2. CASE End(r)
    BY <1>1, <1>2, EndMoves, Elsewhere DEF Special, Registering, Accepting
  <1>3. ASSUME NEW where \in {"insert", "lockedInsert"},
               req[r].pc = IF where = "insert" THEN "key" ELSE "lockedKey",
               Step(r, [req[r] EXCEPT !.pc = where, !.copy.key = LowestFree])
        PROVE  IInv'
    <2>1. /\ req'[r].pc = where /\ req'[r].inv = req[r].inv
          /\ \A x \in Request \ {r} : req'[x] = req[x]
      BY <1>0, <1>3 DEF Step, RequestRow
    <2>2. InviteOK(req[r])'
      BY <1>1, <1>3, <2>1 DEF IInv, InviteOK, Quiet, Issued, Registering, Accepting, Locking
    <2>3. req'[r].pc \in Locking => req[r].pc \in Locking
      BY <1>3, <2>1 DEF Locking
    <2> QED
      BY <1>1, <2>1, <2>2, <2>3, QuietStep
  <1>4. CASE ReadKey(r) /\ ~End(r)
    BY <1>3, <1>4 DEF ReadKey
  <1>5. CASE LockedKey(r) /\ ~End(r)
    BY <1>3, <1>5 DEF LockedKey
  <1> QED
    BY <1>2, <1>4, <1>5

LEMMA RowTyped ==
  ASSUME TInv, NEW r \in Request, req[r].pc \in {"insert", "lockedInsert"}
  PROVE  /\ users \in [User -> UserRow] /\ req[r].copy.key > 0
         /\ origin \in [User -> {None, "start", "self"} \union Invite]
  BY DEF TInv, TypeOK, RequestOK

LEMMA InsertInvites ==
  ASSUME TInv, IInv, NEW r \in Request, NEW u \in User, Insert(r, u)
  PROVE  IInv'
  <1> DEFINE from == IF req[r].inv = None THEN "self" ELSE req[r].inv
  <1>0. /\ req[r] \in RequestRow /\ req \in [Request -> RequestRow] /\ RequestOK(req[r])
        /\ req[r].pc = "insert" /\ UNCHANGED <<invites, cut>>
    BY Typed DEF TInv, Insert
  <1>1. /\ u \notin Rows /\ Rows' = Rows \union {u}
        /\ origin'[u] = from /\ \A v \in User \ {u} : origin'[v] = origin[v]
    <2>1. /\ u \notin Rows /\ users' = [users EXCEPT ![u] = req[r].copy]
          /\ origin' = [origin EXCEPT ![u] = from]
      BY DEF Insert, InsertUser
    <2>2. /\ users \in [User -> UserRow] /\ req[r].copy.key > 0
          /\ origin \in [User -> {None, "start", "self"} \union Invite]
      BY <1>0, RowTyped
    <2> HIDE DEF from
    <2> QED
      BY <2>1, <2>2 DEF Rows
  <1>2. \A i : (Issued(i)' <=> Issued(i)) /\ (Shut(i)' <=> Shut(i)) /\ (Open(i)' <=> Open(i))
    BY <1>0 DEF Issued, Shut, Open
  <1>3. Onward
    BY <1>0, <1>1, <1>2 DEF Onward, Rows
  <1>4. \A x \in Request \ {r} : req'[x] = req[x]
    BY RegisterMoves DEF Moves, Register
  <1>5. \/ req'[r].pc \in {"idle", "link"} /\ from \notin Invite
        \/ /\ req'[r].pc = "findInvite" /\ req'[r].user = u
           /\ req[r].inv \in Invite /\ from = req[r].inv /\ req'[r].inv = from
    <2>1. CASE req[r].inv = None
      <3>1. from \notin Invite
        BY <2>1, AccountsAssumption
      <3>2. CASE End(r)
        BY <3>1, <3>2, EndMoves DEF Moves
      <3>3. CASE Step(r, [req[r] EXCEPT !.pc = AfterInsert(req[r]), !.user = u]) /\ req[r].person # None
        BY <1>0, <2>1, <3>1, <3>3 DEF Step, RequestRow, AfterInsert
      <3> QED
        BY <3>2, <3>3 DEF Insert
    <2>2. CASE req[r].inv # None
      <3>1. req[r].inv \in Invite /\ req[r].person # None /\ from = req[r].inv
        BY <1>0, <2>2, AccountsAssumption DEF RequestRow, RequestOK
      <3>2. AfterInsert(req[r]) = "findInvite"
        BY <2>2, <3>1 DEF AfterInsert
      <3>3. Step(r, [req[r] EXCEPT !.pc = "findInvite", !.user = u])
        BY <3>1, <3>2 DEF Insert
      <3>4. req'[r].pc = "findInvite" /\ req'[r].user = u /\ req'[r].inv = req[r].inv
        BY <1>0, <3>3 DEF Step, RequestRow
      <3> QED
        BY <3>1, <3>4
    <2> QED
      BY <2>1, <2>2
  <1> HIDE DEF from
  <1>6. req[r].inv \in Invite => Issued(req[r].inv)
    BY <1>0 DEF IInv, InviteOK, Registering
  <1>7. InviteOK(req[r])'
    BY <1>1, <1>2, <1>5, <1>6 DEF InviteOK, Registering, Accepting, Locking
  <1>8. \A x \in Request : Still(x) \/ InviteOK(req[x])'
    BY <1>0, <1>4, <1>7 DEF Still
  <1>9. OneLock'
    BY <1>4, <1>5 DEF IInv, OneLock, Locking
  <1>10. ASSUME NEW v \in User, ~(origin'[v] = origin[v] /\ (v \in Rows' => v \in Rows)),
                origin'[v] \in Invite
         PROVE  Issued(origin[v])' /\ (~Open(origin[v])' \/ Pursued(v)')
    <2>1. v = u /\ from \in Invite
      BY <1>1, <1>10
    <2>2. Pursued(u)'
      BY <1>5, <2>1 DEF Pursued, Accepting
    <2>3. Issued(origin[u])'
      BY <1>0, <1>1, <1>5, <1>6, <2>1 DEF Issued
    <2> QED
      BY <2>1, <2>2, <2>3
  <1>11. ASSUME NEW x \in Request, req[x].pc \in Accepting
         PROVE  req'[x].user = req[x].user /\ req'[x].pc \in Accepting
    BY <1>0, <1>4, <1>11 DEF Accepting
  <1> QED
    BY <1>2, <1>3, <1>8, <1>9, <1>10, <1>11, InviteStep

\* A step that closes invitations, and touches none that another request
\* has locked.
Closing ==
  /\ UNCHANGED <<origin>> /\ Rows' = Rows /\ cut \subseteq cut'
  /\ \A i \in Invite :
       /\ invites'[i].email = invites[i].email /\ invites'[i].knew = invites[i].knew
       /\ invites[i].revoked => invites'[i].revoked
       /\ invites[i].expired => invites'[i].expired
       /\ invites[i].accepted # None => invites'[i].accepted # None

LEMMA ClosingOnward == Closing => Onward
  BY DEF Closing, Onward, Issued, Shut, Open

LEMMA ClosingStep ==
  ASSUME TInv, IInv, Closing, NEW r \in Request,
         \A x \in Request \ {r} : Still(x), InviteOK(req[r])', req'[r].pc \notin Locking,
         req[r].pc \in Accepting =>
           req[r].inv \in Invite /\ invites'[req[r].inv].accepted # None
  PROVE  IInv'
  <1>1. OneLock'
    BY DEF IInv, OneLock, Still
  <1>2. \A j \in Invite : Issued(j)' => Issued(j)
    BY DEF Closing, Issued
  <1>3. \A u \in User : origin'[u] = origin[u] /\ (u \in Rows' => u \in Rows)
    BY DEF Closing
  <1>4. \A x \in Request : Still(x) \/ InviteOK(req[x])'
    OBVIOUS
  <1>5. ASSUME NEW x \in Request, req[x].pc \in Accepting
        PROVE  \/ req'[x].user = req[x].user /\ req'[x].pc \in Accepting
               \/ req[x].inv \in Invite /\ invites'[req[x].inv].accepted # None
    BY <1>5 DEF Still
  <1> QED
    BY <1>1, <1>2, <1>3, <1>4, <1>5, ClosingOnward, InviteStep

LEMMA RevokeOldInvites ==
  ASSUME TInv, IInv, NEW r \in Request, RevokeOld(r)
  PROVE  IInv'
  <1> DEFINE e == req[r].email
             known == {i \in Invite : invites[i].email = e}
  <1>0. /\ req[r] \in RequestRow /\ req \in [Request -> RequestRow]
        /\ invites \in [Invite -> InviteRow] /\ e \in Email /\ e # None
    BY Typed, AccountsAssumption DEF TInv, RevokeOld, RequestOK
  <1>1. /\ req'[r].pc = "insertInvite" /\ req'[r].knew = known
        /\ \A x \in Request \ {r} : req'[x] = req[x]
    BY <1>0 DEF RevokeOld, Step, RequestRow
  <1>2. \A i \in Invite : /\ i \in OpenFor(e) => invites'[i] = [invites[i] EXCEPT !.revoked = TRUE]
                          /\ i \notin OpenFor(e) => invites'[i] = invites[i]
    BY DEF RevokeOld, Supersede
  <1>3. \A i \in Invite : [invites[i] EXCEPT !.revoked = TRUE].revoked = TRUE
                          /\ [invites[i] EXCEPT !.revoked = TRUE].email = invites[i].email
                          /\ [invites[i] EXCEPT !.revoked = TRUE].knew = invites[i].knew
                          /\ [invites[i] EXCEPT !.revoked = TRUE].expired = invites[i].expired
                          /\ [invites[i] EXCEPT !.revoked = TRUE].accepted = invites[i].accepted
    BY <1>0 DEF InviteRow
  <1>4. Closing
    BY <1>2, <1>3 DEF Closing, RevokeOld, history, Rows
  <1>5. ASSUME NEW x \in Request \ {r} PROVE Still(x)
    <2>1. req[x].pc \in Locking => req[x].inv \in Invite /\ Locked(req[x].inv)
      BY DEF TInv, RequestOK, Locking, Locked
    <2>2. req[x].pc \in Locking => req[x].inv \notin OpenFor(e)
      BY <2>1 DEF RevokeOld
    <2> QED
      BY <1>1, <1>2, <2>1, <2>2 DEF Still
  <1>6. ASSUME NEW i \in known PROVE Shut(i)'
    <2>1. Issued(i) /\ (Open(i) => i \in OpenFor(e))
      BY <1>0, <1>6 DEF Issued, OpenFor
    <2>2. CASE Open(i)
      BY <1>2, <1>3, <2>1, <2>2 DEF Shut, Open, Issued
    <2>3. CASE ~Open(i)
      BY <1>4, <2>1, <2>3, ClosingOnward DEF Shut, Onward
    <2> QED
      BY <2>2, <2>3
  <1>7. InviteOK(req[r])'
    BY <1>1, <1>6 DEF InviteOK, Registering, Accepting, Locking
  <1>8. req'[r].pc \notin Locking /\ req[r].pc \notin Accepting
    BY <1>1 DEF Locking, Accepting, RevokeOld
  <1> QED
    BY <1>4, <1>5, <1>7, <1>8, ClosingStep

LEMMA InsertInviteInvites ==
  ASSUME TInv, IInv, NEW r \in Request, NEW i \in Invite, InsertInvite(r, i)
  PROVE  IInv'
  <1> DEFINE row == [NoInvite EXCEPT !.email = req[r].email, !.role = req[r].role,
                       !.knew = req[r].knew]
  <1>0. /\ req[r] \in RequestRow /\ invites \in [Invite -> InviteRow] /\ ~Issued(i)
        /\ req[r].pc = "insertInvite" /\ \A x \in req[r].knew : Shut(x) /\ x \in Invite
    BY Typed DEF TInv, InsertInvite, IInv, InviteOK, RequestRow
  <1>1. row.knew = req[r].knew
    BY DEF NoInvite
  <1>2. /\ UNCHANGED <<users, origin, cut>> /\ invites' = [invites EXCEPT ![i] = row]
        /\ Moves(r, {"idle"})
    BY EndMoves DEF InsertInvite, history
  <1> HIDE DEF row
  <1>3. invites'[i].knew = req[r].knew /\ \A j \in Invite \ {i} : invites'[j] = invites[j]
    BY <1>0, <1>1, <1>2
  <1>4. Onward /\ Rows' = Rows
    BY <1>0, <1>2, <1>3 DEF Onward, Issued, Shut, Open, Rows
  <1>5. ASSUME NEW x \in Request \ {r} PROVE Still(x)
    <2>1. req[x].pc \in Locking => req[x].inv \in Invite /\ Issued(req[x].inv)
      BY DEF TInv, RequestOK, IInv, InviteOK, Locking, Registering
    <2> QED
      BY <1>0, <1>2, <1>3, <2>1 DEF Still, Moves
  <1>6. InviteOK(req[r])' /\ req'[r].pc \notin Locking
    BY <1>2 DEF InviteOK, Registering, Accepting, Locking, Moves
  <1>7. ASSUME NEW j \in Invite, Issued(j)'
        PROVE  Issued(j) \/ \A x \in invites'[j].knew : Shut(x)'
    <2>1. CASE j = i
      BY <1>0, <1>3, <1>4, <2>1 DEF Onward
    <2>2. CASE j # i
      BY <1>3, <1>7, <2>2 DEF Issued
    <2> QED
      BY <2>1, <2>2
  <1>8. OneLock'
    BY <1>5, <1>6 DEF IInv, OneLock, Still
  <1>9. ASSUME NEW x \in Request, req[x].pc \in Accepting
        PROVE  req'[x].user = req[x].user /\ req'[x].pc \in Accepting
    BY <1>0, <1>5, <1>9 DEF Accepting, Still
  <1> QED
    BY <1>2, <1>4, <1>5, <1>6, <1>7, <1>8, <1>9, InviteStep

\* Another writer of an invitation, which waits for its row.
LEMMA WriteUnlocked ==
  ASSUME TInv, IInv, NEW r \in Request, NEW i \in Invite, ~Locked(i),
         \A j \in Invite \ {i} : invites'[j] = invites[j],
         NEW x \in Request, req'[x] = req[x]
  PROVE  Still(x)
  <1>1. req[x].pc \in Locking => req[x].inv \in Invite /\ req[x].inv # i
    BY DEF TInv, RequestOK, Locking, Locked
  <1> QED
    BY <1>1 DEF Still

LEMMA RevokeSaveInvites ==
  ASSUME TInv, IInv, NEW r \in Request, RevokeSave(r)
  PROVE  IInv'
  <1> DEFINE i == req[r].inv
  <1>0. i \in Invite /\ invites \in [Invite -> InviteRow] /\ ~Locked(i) /\ req[r].pc = "revoke"
    BY Typed DEF TInv, RevokeSave, RequestOK
  <1>1. invites' = [invites EXCEPT ![i].revoked = TRUE] /\ UNCHANGED <<users, origin, cut>>
        /\ Moves(r, {"idle"})
    BY EndMoves DEF RevokeSave, history
  <1> HIDE DEF i
  <1>2. Closing /\ \A j \in Invite \ {i} : invites'[j] = invites[j]
    BY <1>0, <1>1 DEF Closing, InviteRow, Rows
  <1>3. \A x \in Request \ {r} : Still(x)
    BY <1>0, <1>1, <1>2, WriteUnlocked DEF Moves
  <1>4. InviteOK(req[r])' /\ req'[r].pc \notin Locking /\ req[r].pc \notin Accepting
    BY <1>0, <1>1 DEF InviteOK, Registering, Accepting, Locking, Moves
  <1> QED
    BY <1>2, <1>3, <1>4, ClosingStep

LEMMA SaveInviteInvites ==
  ASSUME TInv, IInv, NEW r \in Request, SaveInvite(r)
  PROVE  IInv'
  <1> DEFINE i == req[r].inv
             u == req[r].user
  <1>0. /\ i \in Invite /\ u \in User /\ u # None
        /\ invites \in [Invite -> InviteRow] /\ ~Locked(i) /\ req[r].pc = "saveInvite"
    BY Typed, AccountsAssumption DEF TInv, SaveInvite, RequestOK, Accepting, Linking
  <1>1. invites' = [invites EXCEPT ![i].accepted = u] /\ UNCHANGED <<users, origin, cut>>
        /\ Moves(r, {"link"})
    BY GotoMoves DEF SaveInvite, history
  <1> HIDE DEF i, u
  <1>2. Closing /\ \A j \in Invite \ {i} : invites'[j] = invites[j]
    BY <1>0, <1>1 DEF Closing, InviteRow, Rows
  <1>3. \A x \in Request \ {r} : Still(x)
    BY <1>0, <1>1, <1>2, WriteUnlocked DEF Moves
  <1>4. InviteOK(req[r])' /\ req'[r].pc \notin Locking
    BY <1>1 DEF InviteOK, Registering, Accepting, Locking, Moves
  <1>5. invites'[i].accepted # None
    BY <1>0, <1>1
  <1> QED
    BY <1>0, <1>2, <1>3, <1>4, <1>5, ClosingStep DEF i

LEMMA LockedInsertInvites ==
  ASSUME TInv, IInv, NEW r \in Request, NEW u \in User, LockedInsert(r, u)
  PROVE  IInv'
  <1> DEFINE i == req[r].inv
  <1>0. /\ i \in Invite /\ u # None /\ Issued(i)
        /\ invites \in [Invite -> InviteRow] /\ req[r].pc = "lockedInsert"
    BY Typed, AccountsAssumption
    DEF TInv, LockedInsert, RequestOK, IInv, InviteOK, Locking, Registering
  <1>1. invites' = [invites EXCEPT ![i].accepted = u] /\ UNCHANGED cut /\ Moves(r, {"idle"})
    BY EndMoves DEF LockedInsert
  <1>2. /\ u \notin Rows /\ Rows' = Rows \union {u}
        /\ origin'[u] = i /\ \A v \in User \ {u} : origin'[v] = origin[v]
    <2>1. /\ u \notin Rows /\ users' = [users EXCEPT ![u] = req[r].copy]
          /\ origin' = [origin EXCEPT ![u] = i]
      BY DEF LockedInsert, InsertUser
    <2>2. /\ users \in [User -> UserRow] /\ req[r].copy.key > 0
          /\ origin \in [User -> {None, "start", "self"} \union Invite]
      BY <1>0, RowTyped
    <2> HIDE DEF i
    <2> QED
      BY <2>1, <2>2 DEF Rows
  <1>3. \A x \in Request \ {r} : req[x].pc \in Locking => req[x].inv # i /\ req[x].inv \in Invite
    BY <1>0 DEF IInv, OneLock, Locking, TInv, RequestOK
  <1> HIDE DEF i
  <1>4. /\ invites'[i].accepted = u /\ invites'[i].email = invites[i].email
        /\ invites'[i].knew = invites[i].knew
        /\ \A j \in Invite \ {i} : invites'[j] = invites[j]
    BY <1>0, <1>1 DEF InviteRow
  <1>5. Onward
    <2>1. ASSUME NEW j \in Invite, Issued(j)
          PROVE  Issued(j)' /\ invites'[j].knew = invites[j].knew
      BY <1>4, <2>1 DEF Issued
    <2>2. ASSUME NEW j \in Invite, Shut(j) PROVE Shut(j)'
      BY <1>0, <1>4, <2>2 DEF Shut, Open, Issued
    <2> QED
      BY <1>1, <1>2, <2>1, <2>2 DEF Onward, Rows
  <1>6. \A x \in Request \ {r} : Still(x)
    BY <1>1, <1>3, <1>4 DEF Still, Moves
  <1>7. InviteOK(req[r])' /\ req'[r].pc \notin Locking /\ req[r].pc \notin Accepting
    BY <1>0, <1>1 DEF InviteOK, Registering, Accepting, Locking, Moves
  <1>8. OneLock'
    BY <1>6, <1>7 DEF IInv, OneLock, Still
  <1>9. \A j \in Invite : Issued(j)' => Issued(j)
    BY <1>0, <1>4 DEF Issued
  <1>10. ASSUME NEW v \in User
         PROVE  \/ origin'[v] = origin[v] /\ (v \in Rows' => v \in Rows)
                \/ Issued(origin[v])' /\ ~Open(origin[v])'
    <2>1. CASE v = u
      <3>1. origin'[v] = i
        BY <1>2, <2>1
      <3>2. invites'[i].email # None /\ invites'[i].accepted # None
        BY <1>0, <1>4 DEF Issued
      <3>3. Issued(origin[v])' /\ ~Open(origin[v])'
        BY <3>1, <3>2 DEF Issued, Open
      <3> QED
        BY <3>3
    <2>2. CASE v # u
      BY <1>2, <2>2
    <2> QED
      BY <2>1, <2>2
  <1>11. ASSUME NEW x \in Request, req[x].pc \in Accepting
         PROVE  req'[x].user = req[x].user /\ req'[x].pc \in Accepting
    BY <1>6, <1>7, <1>11 DEF Still
  <1> QED
    BY <1>5, <1>6, <1>7, <1>8, <1>9, <1>10, <1>11, InviteStep

\* A request begins with what its first query has found.
LEMMA BeginInvites ==
  ASSUME TInv, IInv, NEW r \in Request, NEW q \in RequestRow, Begin(r, q), Quiet,
         q.pc \in {"key", "revoke", "lockedKey"},
         q.inv \in Invite => Issued(q.inv),
         q.pc = "lockedKey" => Open(q.inv) /\ ~Locked(q.inv) /\ q.inv \in Invite
  PROVE  IInv'
  <1>1. /\ req'[r] = q /\ \A x \in Request \ {r} : req'[x] = req[x]
        /\ req[r].pc \notin Accepting /\ UNCHANGED invites
        /\ invites \in [Invite -> InviteRow]
    BY Typed DEF TInv, Begin, Step, Accepting, Quiet
  <1>2. q.pc = "lockedKey" => invites[q.inv].revoked = FALSE /\ invites[q.inv].accepted = None
    BY <1>1 DEF Open, InviteRow
  <1>3. InviteOK(req[r])'
    BY <1>1, <1>2 DEF InviteOK, Issued, Registering, Accepting, Locking
  <1>4. req'[r].pc \in Locking => ~Locked(req'[r].inv)
    BY <1>1 DEF Locking
  <1> QED
    BY <1>1, <1>3, <1>4, QuietStep

LEMMA RegisterInvites ==
  ASSUME TInv, IInv, NEW r \in Request, Register(r)
  PROVE  IInv'
  <1>1. ASSUME NEW e \in Email, NEW role \in Role,
               Begin(r, [Blank EXCEPT !.pc = "key", !.copy = Account(e, role)]), Quiet
        PROVE  IInv'
    <2> DEFINE q == [Blank EXCEPT !.pc = "key", !.person = None, !.inv = None,
                       !.copy = Account(e, role)]
    <2>1. q \in RequestRow
      BY AccountTyped
    <2>0. Blank \in RequestRow /\ Blank.person = None /\ Blank.inv = None
      BY BlankOK DEF Blank
    <2>2. q = [Blank EXCEPT !.pc = "key", !.copy = Account(e, role)]
      BY <2>0 DEF RequestRow
    <2>3. q.pc = "key" /\ q.inv = None
      BY BlankOK DEF RequestRow
    <2> HIDE DEF q
    <2> QED
      BY <1>1, <2>1, <2>2, <2>3, BeginInvites, AccountsAssumption
  <1>2. CASE InsertRejected(r)
    <2>1. Quiet /\ Moves(r, {"idle"}) /\ req[r].pc \notin Accepting
      BY <1>2, EndMoves DEF InsertRejected, Quiet, tables, history, Accepting
    <2> QED
      BY <2>1, Elsewhere DEF Special, Registering, Accepting
  <1>3. ASSUME NEW e \in Email, BootstrapBegin(r, e) \/ RegisterBegin(r, e) PROVE IInv'
    <2>1. Quiet /\ {"customer", "admin"} \subseteq Role
      BY <1>3, AccountsAssumption DEF BootstrapBegin, RegisterBegin, Quiet, tables, history
    <2> QED
      BY <1>1, <1>3, <2>1 DEF BootstrapBegin, RegisterBegin
  <1> QED
    BY <1>2, <1>3, KeyInvites, InsertInvites DEF Register

LEMMA InvitationsInvites ==
  ASSUME TInv, IInv, NEW r \in Request, Invitations(r)
  PROVE  IInv'
  <1>0. Blank \in RequestRow /\ Blank.person = None /\ {"revoke", "revokeOld"} \subseteq PC
        /\ invites \in [Invite -> InviteRow] /\ req \in [Request -> RequestRow]
    BY BlankOK, Typed DEF Blank, PC, TInv
  <1>1. ASSUME NEW e \in Email, NEW x \in Role, CreateInviteBegin(r, e, x) PROVE IInv'
    <2>1. Quiet /\ Moves(r, {"revokeOld"}) /\ req[r].pc \notin Accepting
      BY <1>0, <1>1 DEF CreateInviteBegin, Begin, Step, RequestRow, Quiet, tables, history,
        Accepting, Moves
    <2> QED
      BY <2>1, Elsewhere DEF Special, Registering, Accepting
  <1>2. ASSUME NEW i \in Invite, RevokeBegin(r, i) PROVE IInv'
    <2> DEFINE q == [Blank EXCEPT !.pc = "revoke", !.inv = i]
    <2>1. "revoke" \in PC /\ Blank \in RequestRow
      BY <1>0
    <2>2. q \in RequestRow /\ q.pc = "revoke" /\ q.inv = i
      BY <2>1 DEF RequestRow
    <2>3. Begin(r, q) /\ Quiet /\ Issued(i)
      BY <1>2 DEF RevokeBegin, Quiet, tables, history
    <2> HIDE DEF q
    <2> QED
      BY <2>2, <2>3, BeginInvites
  <1>3. ASSUME NEW i \in Invite, AcceptLock(r, i) PROVE IInv'
    <2> DEFINE e == invites[i].email
               role == invites[i].role
               q == [Blank EXCEPT !.pc = "lockedKey", !.person = None, !.inv = i,
                       !.copy = Account(e, role)]
    <2>1. e \in Email /\ role \in Role /\ Open(i) /\ Issued(i) /\ ~Locked(i) /\ Quiet
      BY <1>0, <1>3 DEF AcceptLock, Open, Issued, InviteRow, Quiet, tables, history
    <2>2. Begin(r, [Blank EXCEPT !.pc = "lockedKey", !.inv = i, !.copy = Account(e, role)])
      BY <1>3 DEF AcceptLock
    <2> HIDE DEF e, role
    <2>3. q \in RequestRow
      BY <2>1, AccountTyped
    <2>4. q = [Blank EXCEPT !.pc = "lockedKey", !.inv = i, !.copy = Account(e, role)]
      BY <1>0 DEF Blank
    <2>5. q.pc = "lockedKey" /\ q.inv = i
      BY <1>0 DEF RequestRow
    <2> HIDE DEF q
    <2> QED
      BY <2>1, <2>2, <2>3, <2>4, <2>5, BeginInvites
  <1> QED
    BY <1>1, <1>2, <1>3, RevokeOldInvites, InsertInviteInvites, RevokeSaveInvites, KeyInvites,
       LockedInsertInvites
    DEF Invitations

LEMMA SignInInvites ==
  ASSUME TInv, IInv, NEW r \in Request, SignIn(r)
  PROVE  IInv'
  <1>0. Blank \in RequestRow /\ invites \in [Invite -> InviteRow] /\ req \in [Request -> RequestRow]
        /\ req[r] \in RequestRow
    BY BlankOK, Typed DEF TInv
  <1>1. ASSUME NEW S \in {{"idle", "login"}, {"idle"}, {"link"}, {"linkOnly"}}, Moves(r, S), Quiet,
               req[r].pc \notin Accepting
        PROVE  IInv'
    BY <1>1, Elsewhere DEF Special, Registering, Accepting
  <1>2. ASSUME NEW p, SignInKnown(r, p) PROVE IInv'
    <2>1. Moves(r, {"link"}) /\ Quiet /\ req[r].pc \notin Accepting
      BY <1>0, <1>2 DEF SignInKnown, Begin, Step, RequestRow, Moves, Quiet, tables, history, Accepting
    <2> QED
      BY <1>1, <2>1
  <1>3. ASSUME NEW p, NEW u, LinkIntent(r, p, u) PROVE IInv'
    <2>1. Moves(r, {"linkOnly"}) /\ Quiet /\ req[r].pc \notin Accepting
      BY <1>0, <1>3 DEF LinkIntent, Begin, Step, RequestRow, Moves, Quiet, tables, history, Accepting
    <2> QED
      BY <1>1, <2>1
  <1>4. CASE Link(r) \/ Login(r)
    <2>1. Quiet /\ req[r].pc \notin Accepting
      BY <1>4 DEF Link, Login, Quiet, tables, history, Accepting
    <2>2. Moves(r, {"idle", "login"})
      BY <1>4, EndMoves, GotoMoves DEF Link, Login, Moves
    <2> QED
      BY <1>1, <2>1, <2>2
  <1>5. ASSUME NEW p \in Person, NEW intent \in Invite \union {None}, NEW boot \in BOOLEAN,
               SignInNew(r, p, intent, boot)
        PROVE  IInv'
    <2>1. PICK i \in Admission(p, intent, boot) :
            Begin(r, [Blank EXCEPT !.pc = "key", !.person = p, !.inv = i,
                        !.copy = Account(EmailOf[p], RoleOf(i, boot))])
      BY <1>5 DEF SignInNew
    <2> DEFINE role == RoleOf(i, boot)
               e == EmailOf[p]
               q == [Blank EXCEPT !.pc = "key", !.person = p, !.inv = i, !.copy = Account(e, role)]
    <2>2. i \in Invite \union {None} /\ (i \in Invite => Issued(i))
      BY AccountsAssumption DEF Admission, OpenFor, Open
    <2>3. role \in Role /\ e \in Email
      BY <1>0, <2>2, AccountsAssumption DEF RoleOf, InviteRow
    <2>4. Begin(r, q)
      BY <2>1
    <2> HIDE DEF role, e
    <2>5. q \in RequestRow
      BY <2>2, <2>3, AccountTyped
    <2>6. q.pc = "key" /\ q.inv = i
      BY <1>0 DEF RequestRow
    <2>7. Quiet
      BY <1>5 DEF SignInNew, Quiet, tables, history
    <2> HIDE DEF q
    <2> QED
      BY <2>2, <2>4, <2>5, <2>6, <2>7, BeginInvites
  <1>6. CASE FindInvite(r)
    <2>1. Quiet /\ req[r].pc = "findInvite" /\ req[r].inv \in Invite /\ Issued(req[r].inv)
      BY <1>6 DEF FindInvite, Quiet, tables, history, TInv, RequestOK, IInv, InviteOK, Accepting
    <2>2. CASE ~Open(req[r].inv)
      <3>1. Moves(r, {"link"})
        BY <1>6, <2>2, GotoMoves DEF FindInvite
      <3>2. InviteOK(req[r])' /\ req'[r].pc \notin Locking
        BY <3>1 DEF Moves, InviteOK, Registering, Accepting, Locking
      <3> QED
        BY <2>1, <2>2, <3>1, <3>2, QuietStep DEF Moves, Shut
    <2>3. CASE Open(req[r].inv)
      <3>1. /\ Moves(r, {"saveInvite"}) /\ req'[r].user = req[r].user /\ req'[r].inv = req[r].inv
        BY <1>0, <1>6, <2>3 DEF FindInvite, Goto, RequestRow, Moves
      <3>2. /\ req[r].user \in Rows /\ origin[req[r].user] = req[r].inv
            /\ Rows' = Rows /\ UNCHANGED <<origin, invites>>
        BY <2>1, QuietOnward DEF IInv, InviteOK, Accepting, Quiet
      <3>3. InviteOK(req[r])' /\ req'[r].pc \notin Locking /\ req'[r].pc \in Accepting
        BY <2>1, <3>1, <3>2 DEF Moves, InviteOK, Issued, Registering, Accepting, Locking
      <3> QED
        BY <2>1, <3>1, <3>3, QuietStep DEF Moves
    <2> QED
      BY <2>2, <2>3
  <1> QED
    BY <1>2, <1>3, <1>4, <1>5, <1>6, SaveInviteInvites DEF SignIn

LEMMA EnvironmentInvites ==
  ASSUME TInv, IInv, Environment
  PROVE  IInv'
  <1>1. ASSUME UNCHANGED req, Closing,
               \A i \in Invite : /\ invites'[i].revoked = invites[i].revoked
                                 /\ invites'[i].accepted = invites[i].accepted
        PROVE  IInv'
    <2>1. \A x \in Request : Still(x)
      BY <1>1 DEF Still, TInv, RequestOK, Locking
    <2>2. OneLock'
      BY <1>1 DEF IInv, OneLock
    <2>3. \A j \in Invite : Issued(j)' => Issued(j)
      BY <1>1 DEF Closing, Issued
    <2>4. \A u \in User : origin'[u] = origin[u] /\ (u \in Rows' => u \in Rows)
      BY <1>1 DEF Closing
    <2>5. \A x \in Request : req[x].pc \in Accepting =>
            req'[x].user = req[x].user /\ req'[x].pc \in Accepting
      BY <1>1
    <2> QED
      BY <1>1, <2>1, <2>2, <2>3, <2>4, <2>5, ClosingOnward, InviteStep
  <1>2. ASSUME Quiet, UNCHANGED req PROVE IInv'
    BY <1>1, <1>2, QuietOnward DEF Closing, Quiet
  <1>3. ASSUME NEW u \in User, Bill(u) \/ Settle(u) PROVE IInv'
    BY <1>2, <1>3 DEF Bill, Settle, Quiet, tables, history
  <1>4. ASSUME NEW i \in Invite, Expire(i) PROVE IInv'
    <2>1. invites \in [Invite -> InviteRow]
      BY Typed DEF TInv
    <2>2. Closing /\ UNCHANGED req /\ \A j \in Invite : /\ invites'[j].revoked = invites[j].revoked
                                 /\ invites'[j].accepted = invites[j].accepted
      BY <1>4, <2>1 DEF Expire, Closing, InviteRow, history, Rows
    <2> QED
      BY <1>1, <2>2
  <1>5. ASSUME NEW u \in User, NEW e \in Email, MoveEmail(u, e) PROVE IInv'
    <2>1. users \in [User -> UserRow]
      BY DEF TInv, TypeOK
    <2>2. Quiet /\ UNCHANGED req
      BY <1>5, <2>1 DEF MoveEmail, Quiet, UserRow, history
    <2> QED
      BY <1>2, <2>2
  <1>6. ASSUME NEW r \in Request, Lose(r) PROVE IInv'
    <2>1. Quiet /\ Moves(r, {"idle"}) /\ (req[r].pc \in Accepting => req[r].user \in cut')
      BY <1>6, EndMoves DEF Lose, Quiet, tables, Accepting
    <2> QED
      BY <2>1, Elsewhere DEF Special, Registering, Accepting
  <1> QED
    BY <1>3, <1>4, <1>5, <1>6 DEF Environment

LEMMA IInvNext == TInv /\ IInv /\ [Next]_vars => IInv'
  <1>1. IInv /\ UNCHANGED vars => IInv'
    BY DEF vars, IInv, InviteOK, OneLock, Issued, Shut, Open, Rows, UsedInviteIsClosed
  <1> QED
    BY <1>1, UpdateUserInvites, RegisterInvites, InvitationsInvites, SignInInvites,
       EnvironmentInvites
    DEF Next

LEMMA InvitesClosed == TInv /\ IInv => UsedInviteIsClosed /\ SupersededStaysClosed
  <1> SUFFICES ASSUME TInv, IInv PROVE UsedInviteIsClosed /\ SupersededStaysClosed
    OBVIOUS
  <1> QED
    BY DEF IInv, Shut, SupersededStaysClosed

\* Nothing takes a revocation or an acceptance back.
LEMMA ClosedStays ==
  ASSUME TInv, NEW i \in Invite, Closed(i)
  PROVE  [Next]_vars => Closed(i)'
  <1>1. invites \in [Invite -> InviteRow] /\ Closed(i) /\ invites[i] \in InviteRow
    BY Typed DEF TInv
  <1>2. ASSUME UNCHANGED invites PROVE Closed(i)'
    BY <1>2 DEF Closed, Issued
  <1>3. ASSUME NEW r \in Request, RevokeOld(r) PROVE Closed(i)'
    <2>1. /\ invites'[i].email = invites[i].email
          /\ invites'[i].revoked \/ invites'[i].accepted # None
      BY <1>1, <1>3 DEF RevokeOld, Supersede, Closed, InviteRow
    <2> QED
      BY <1>1, <2>1 DEF Closed, Issued
  <1>4. ASSUME NEW r \in Request, NEW j \in Invite, InsertInvite(r, j) PROVE Closed(i)'
    <2>1. j # i /\ invites'[i] = invites[i]
      BY <1>1, <1>4 DEF InsertInvite, Closed
    <2> QED
      BY <1>1, <2>1 DEF Closed, Issued
  <1>5. ASSUME NEW j \in Invite,
               \/ invites' = [invites EXCEPT ![j].revoked = TRUE]
               \/ invites' = [invites EXCEPT ![j].expired = TRUE]
               \/ \E u \in User : invites' = [invites EXCEPT ![j].accepted = u]
        PROVE  Closed(i)'
    <2>1. None \notin User
      BY AccountsAssumption
    <2>2. /\ invites'[i].email = invites[i].email
          /\ invites'[i].revoked \/ invites'[i].accepted # None
      BY <1>1, <1>5, <2>1 DEF Closed, InviteRow
    <2> QED
      BY <1>1, <2>2 DEF Closed, Issued
  <1>6. ASSUME NEW r \in Request, RevokeSave(r) \/ (\E u \in User : LockedInsert(r, u)) \/ SaveInvite(r)
        PROVE  Closed(i)'
    <2>1. req[r].inv \in Invite /\ (SaveInvite(r) => req[r].user \in User)
      BY <1>6 DEF RevokeSave, LockedInsert, SaveInvite, TInv, RequestOK, Linking, Accepting
    <2> QED
      BY <1>5, <1>6, <2>1 DEF RevokeSave, LockedInsert, SaveInvite
  <1>7. ASSUME NEW r \in Request, Invitations(r) PROVE Closed(i)'
    <2>1. ASSUME \/ \E e \in Email, x \in Role : CreateInviteBegin(r, e, x)
                 \/ \E j \in Invite : RevokeBegin(r, j) \/ AcceptLock(r, j)
                 \/ LockedKey(r)
          PROVE  UNCHANGED invites
      BY <2>1 DEF CreateInviteBegin, RevokeBegin, AcceptLock, LockedKey, tables
    <2> QED
      BY <1>2, <1>3, <1>4, <1>6, <1>7, <2>1 DEF Invitations
  <1>8. ASSUME NEW r \in Request, SignIn(r) PROVE Closed(i)'
    <2>1. SaveInvite(r) \/ UNCHANGED invites
      BY <1>8 DEF SignIn, SignInKnown, LinkIntent, SignInNew, FindInvite, Link, Login, tables
    <2> QED
      BY <1>2, <1>6, <2>1
  <1>9. ASSUME NEW r \in Request, UpdateUser(r) \/ Debts(r) PROVE UNCHANGED invites
    BY <1>9 DEF UpdateUser, UpdateLoad, FindAdmin, CheckDebt, SaveUser, Debts, BuyBegin, BuyCommit, tables
  <1>10. ASSUME NEW r \in Request, Register(r) PROVE UNCHANGED invites
    BY <1>10 DEF Register, BootstrapBegin, RegisterBegin, ReadKey, Insert, InsertRejected, tables
  <1>11. ASSUME Environment PROVE Closed(i)'
    BY <1>2, <1>5, <1>11 DEF Environment, Bill, Settle, Expire, MoveEmail, Lose, tables
  <1> QED
    BY <1>2, <1>7, <1>8, <1>9, <1>10, <1>11 DEF Next, vars

Admitting == {"key", "insert", "lockedKey", "lockedInsert"}

\* Only one of the steps that look at an open invitation lets a request in on it.
LEMMA ClosedAdmitsNobody ==
  ASSUME TInv, NEW i \in Invite, Closed(i), NEW r \in Request, Admitted(r, i)'
  PROVE  [Next]_vars => Admitted(r, i)
  <1>0. /\ Blank \in RequestRow /\ req[r] \in RequestRow /\ req \in [Request -> RequestRow]
        /\ ~Open(i) /\ i # None
    BY BlankOK, Typed, AccountsAssumption DEF TInv, Closed, Open
  <1>1. ASSUME req'[r] = req[r] PROVE Admitted(r, i)
    BY <1>1 DEF Admitted
  <1>2. ASSUME NEW x \in Request, NEW S, Moves(x, S), S \intersect Admitting = {}
        PROVE  Admitted(r, i)
    BY <1>1, <1>2 DEF Moves, Admitted, Admitting
  <1>3. ASSUME NEW x \in Request, UpdateUser(x) \/ Debts(x) PROVE Admitted(r, i)
    <2>1. /\ {"idle", "findAdmin", "checkDebts", "saveUser"} \intersect Admitting = {}
          /\ {"idle", "buy"} \intersect Admitting = {}
      BY DEF Admitting
    <2> QED
      BY <1>2, <1>3, <2>1, UpdateUserMoves, DebtsMoves
  <1>4. ASSUME NEW x \in Request, End(x) PROVE Admitted(r, i)
    BY <1>1, <1>4, EndMoves DEF Moves, Admitted, Blank
  <1>5. ASSUME NEW c, Begin(r, [Blank EXCEPT !.pc = "key", !.copy = c])
        PROVE  FALSE
    <2>1. req'[r].inv = None
      BY <1>0, <1>5 DEF Begin, Step, RequestRow, Blank
    <2> QED
      BY <1>0, <2>1 DEF Admitted
  <1>6. ASSUME NEW where \in {"insert", "lockedInsert"}, req[r].pc \in Admitting,
               Step(r, [req[r] EXCEPT !.pc = where, !.copy.key = LowestFree])
        PROVE  Admitted(r, i)
    <2>1. req'[r].inv = req[r].inv
      BY <1>0, <1>6 DEF Step, RequestRow
    <2> QED
      BY <1>6, <2>1 DEF Admitted, Admitting
  <1>7. ASSUME NEW x \in Request, Register(x) PROVE Admitted(r, i)
    <2>1. CASE x # r
      BY <1>1, <1>7, <2>1, RegisterMoves DEF Moves
    <2>2. CASE x = r /\ (\E e \in Email : BootstrapBegin(x, e) \/ RegisterBegin(x, e))
      <3>1. PICK e \in Email : BootstrapBegin(r, e) \/ RegisterBegin(r, e)
        BY <2>2
      <3>2. \E c : Begin(r, [Blank EXCEPT !.pc = "key", !.copy = c])
        BY <3>1 DEF BootstrapBegin, RegisterBegin
      <3> QED
        BY <1>5, <3>2
    <2>3. CASE x = r /\ ReadKey(x)
      BY <1>4, <1>6, <2>3 DEF ReadKey, Admitting
    <2>4. CASE x = r /\ \E u \in User : Insert(x, u)
      <3>1. Moves(x, {"idle", "link", "findInvite"})
        <4>1. CASE End(r)
          BY <2>4, <4>1, EndMoves DEF Moves
        <4>2. ASSUME NEW u, req[r].person # None,
                     Step(r, [req[r] EXCEPT !.pc = AfterInsert(req[r]), !.user = u])
              PROVE  Moves(r, {"link", "findInvite"})
          <5>1. AfterInsert(req[r]) \in {"link", "findInvite"}
            BY <4>2 DEF AfterInsert
          <5> QED
            BY <1>0, <4>2, <5>1 DEF Step, RequestRow, Moves
        <4>3. PICK u \in User : Insert(r, u)
          BY <2>4
        <4>4. CASE req[r].person = None
          BY <2>4, <4>1, <4>3, <4>4 DEF Insert
        <4>5. CASE req[r].person # None
          <5>1. Moves(r, {"link", "findInvite"})
            BY <4>2, <4>3, <4>5 DEF Insert
          <5> QED
            BY <2>4, <5>1 DEF Moves
        <4> QED
          BY <4>4, <4>5
      <3>2. {"idle", "link", "findInvite"} \intersect Admitting = {}
        BY DEF Admitting
      <3> QED
        BY <1>2, <3>1, <3>2
    <2> QED
      BY <1>4, <1>7, <2>1, <2>2, <2>3, <2>4 DEF Register, InsertRejected
  <1>8. ASSUME NEW x \in Request, Invitations(x) PROVE Admitted(r, i)
    <2>1. CASE x # r
      BY <1>1, <1>8, <2>1, InvitationsMoves DEF Moves
    <2>2. CASE x = r /\ \E k \in Invite : AcceptLock(x, k)
      <3>1. PICK k \in Invite : AcceptLock(r, k)
        BY <2>2
      <3>2. req'[r].inv = k /\ Open(k)
        BY <1>0, <3>1 DEF AcceptLock, Begin, Step, RequestRow, Blank
      <3> QED
        BY <1>0, <3>2 DEF Admitted
    <2>3. CASE x = r /\ LockedKey(x)
      BY <1>4, <1>6, <2>3 DEF LockedKey, Admitting
    <2>4. CASE x = r /\ RevokeOld(x)
      <3>1. Moves(x, {"insertInvite"})
        BY <1>0, <2>4 DEF RevokeOld, Step, RequestRow, Moves
      <3> QED
        BY <1>2, <3>1 DEF Admitting
    <2>5. CASE x = r /\ \/ \E e \in Email, q \in Role : CreateInviteBegin(x, e, q)
                        \/ \E k \in Invite : RevokeBegin(x, k)
      <3>1. ASSUME NEW e, NEW q, CreateInviteBegin(r, e, q) PROVE Moves(r, {"revokeOld"})
        BY <1>0, <3>1 DEF CreateInviteBegin, Begin, Step, RequestRow, Moves
      <3>2. ASSUME NEW k, RevokeBegin(r, k) PROVE Moves(r, {"revoke"})
        BY <1>0, <3>2 DEF RevokeBegin, Begin, Step, RequestRow, Moves
      <3>3. /\ {"revokeOld"} \intersect Admitting = {} /\ {"revoke"} \intersect Admitting = {}
        BY DEF Admitting
      <3> QED
        BY <1>2, <2>5, <3>1, <3>2, <3>3
    <2> QED
      BY <1>4, <1>8, <2>1, <2>2, <2>3, <2>4, <2>5
      DEF Invitations, InsertInvite, RevokeSave, LockedInsert
  <1>9. ASSUME NEW x \in Request, SignIn(x) PROVE Admitted(r, i)
    <2>1. CASE x # r
      BY <1>1, <1>9, <2>1, SignInMoves DEF Moves
    <2>2. ASSUME NEW p \in Person, NEW intent \in Invite \union {None}, NEW b \in BOOLEAN,
                 SignInNew(r, p, intent, b)
          PROVE  Admitted(r, i)
      <3>1. PICK k \in Admission(p, intent, b) :
              Begin(r, [Blank EXCEPT !.pc = "key", !.person = p, !.inv = k,
                          !.copy = Account(EmailOf[p], RoleOf(k, b))])
        BY <2>2 DEF SignInNew
      <3>2. k = None \/ Open(k)
        BY <3>1 DEF Admission, OpenFor
      <3>3. req'[r].inv = k
        BY <1>0, <3>1 DEF Begin, Step, RequestRow, Blank
      <3> QED
        BY <1>0, <3>2, <3>3 DEF Admitted
    <2>3. CASE x = r /\ (FindInvite(x) \/ SaveInvite(x))
      <3>1. \E where \in {"link", "saveInvite"} : Moves(x, {where})
        BY <2>3, GotoMoves DEF FindInvite, SaveInvite
      <3> QED
        BY <1>2, <3>1 DEF Admitting
    <2>4. CASE x = r /\ (Link(x) \/ Login(x))
      <3>1. Moves(x, {"idle"}) \/ Moves(x, {"login"})
        BY <2>4, EndMoves, GotoMoves DEF Link, Login
      <3> QED
        BY <1>2, <3>1 DEF Admitting
    <2>5. CASE x = r /\ \/ \E p \in Person : SignInKnown(x, p)
                        \/ \E p \in Person, u \in User : LinkIntent(x, p, u)
      <3>1. ASSUME NEW p, SignInKnown(r, p) PROVE Moves(r, {"link"})
        BY <1>0, <3>1 DEF SignInKnown, Begin, Step, RequestRow, Moves
      <3>2. ASSUME NEW p, NEW u, LinkIntent(r, p, u) PROVE Moves(r, {"linkOnly"})
        BY <1>0, <3>2 DEF LinkIntent, Begin, Step, RequestRow, Moves
      <3>3. /\ {"link"} \intersect Admitting = {} /\ {"linkOnly"} \intersect Admitting = {}
        BY DEF Admitting
      <3> QED
        BY <1>2, <2>5, <3>1, <3>2, <3>3
    <2> QED
      BY <1>9, <2>1, <2>2, <2>3, <2>4, <2>5 DEF SignIn
  <1>10. ASSUME Environment PROVE Admitted(r, i)
    <2>1. UNCHANGED req \/ \E x \in Request : End(x)
      BY <1>10 DEF Environment, Bill, Settle, Expire, MoveEmail, Lose
    <2> QED
      BY <1>1, <1>4, <2>1
  <1> QED
    BY <1>1, <1>3, <1>7, <1>8, <1>9, <1>10 DEF Next, vars

\* Who comes in on a closed invitation is a sign-in that was let in before: the lock of
\* acceptInvite keeps its own invitation open until the account is in.
LEMMA ComesInBySignIn ==
  ASSUME TInv, IInv, NEW i \in Invite, Closed(i),
         NEW u \in User, origin[u] # i, origin'[u] = i
  PROVE  [Next]_vars =>
           \E r \in Request : Admitted(r, i) /\ ~Admitted(r, i)' /\ req[r].person # None
  <1>0. /\ Blank \in RequestRow /\ req \in [Request -> RequestRow] /\ i \notin {None, "start", "self"}
        /\ origin \in [User -> {None, "start", "self"} \union Invite]
    BY BlankOK, Typed, AccountsAssumption DEF TInv, TypeOK
  <1>1. origin' # origin
    OBVIOUS
  <1>2. ASSUME NEW r \in Request, NEW v \in User, Insert(r, v)
        PROVE  Admitted(r, i) /\ ~Admitted(r, i)' /\ req[r].person # None
    <2>1. req[r].inv = i /\ req[r].pc = "insert"
      BY <1>0, <1>2 DEF Insert, InsertUser
    <2>2. req[r].person # None
      BY <1>0, <2>1, AccountsAssumption DEF TInv, RequestOK
    <2>3. req'[r].pc = "findInvite"
      <3>1. AfterInsert(req[r]) = "findInvite"
        BY <1>0, <2>1, <2>2 DEF AfterInsert
      <3>2. Step(r, [req[r] EXCEPT !.pc = "findInvite", !.user = v])
        BY <1>2, <2>2, <3>1 DEF Insert
      <3> QED
        BY <1>0, <3>2 DEF Step, RequestRow
    <2> QED
      BY <2>1, <2>2, <2>3 DEF Admitted
  <1>3. ASSUME NEW r \in Request, NEW v \in User, LockedInsert(r, v) PROVE FALSE
    <2>1. req[r].inv = i /\ req[r].pc = "lockedInsert"
      BY <1>0, <1>3 DEF LockedInsert, InsertUser
    <2> QED
      BY <2>1 DEF IInv, InviteOK, Locking, Closed
  <1>4. ASSUME NEW r \in Request, UpdateUser(r) \/ Debts(r) \/ SignIn(r) PROVE FALSE
    BY <1>1, <1>4 DEF UpdateUser, UpdateLoad, FindAdmin, CheckDebt, SaveUser, Debts, BuyBegin, BuyCommit,
      SignIn, SignInKnown, LinkIntent, SignInNew, FindInvite, SaveInvite, Link, Login, history
  <1>5. ASSUME NEW r \in Request, Register(r) PROVE \E v \in User : Insert(r, v)
    BY <1>1, <1>5 DEF Register, BootstrapBegin, RegisterBegin, ReadKey, InsertRejected, history
  <1>6. ASSUME NEW r \in Request, Invitations(r) PROVE \E v \in User : LockedInsert(r, v)
    BY <1>1, <1>6 DEF Invitations, CreateInviteBegin, RevokeOld, InsertInvite, RevokeBegin, RevokeSave,
      AcceptLock, LockedKey, history
  <1>7. ~Environment
    BY <1>1 DEF Environment, Bill, Settle, Expire, MoveEmail, Lose, history
  <1> QED
    BY <1>1, <1>2, <1>3, <1>4, <1>5, <1>6, <1>7 DEF Next, vars

LEMMA ClosedStep == TInv /\ IInv /\ [Next]_vars => ClosedLetsNobodyIn
  BY ClosedStays, ClosedAdmitsNobody, ComesInBySignIn DEF ClosedLetsNobodyIn

\* A closed invitation brings in only a sign-in it let in before: the row lock of
\* acceptInvite keeps the other writers out, and what is closed stays closed, whatever
\* requests cross.
THEOREM ClosedInvites == Spec => InvitesStayClosed
  <1>1. Init => IInv
    <2> SUFFICES ASSUME Init PROVE IInv
      OBVIOUS
    <2>1. \A i \in Invite : ~Issued(i)
      BY DEF Init, Issued, NoInvite
    <2>2. \A u \in User : origin[u] \notin Invite
      BY AccountsAssumption DEF Init
    <2>3. \A r \in Request : InviteOK(req[r]) /\ req[r].pc = "idle"
      BY BlankOK DEF Init, InviteOK, Registering, Accepting, Locking
    <2> QED
      BY <2>1, <2>2, <2>3 DEF IInv, OneLock, Locking, UsedInviteIsClosed, Rows
  <1>2. TInv /\ IInv /\ [Next]_vars => [ClosedLetsNobodyIn]_vars
    BY ClosedStep
  <1> QED
    BY <1>1, <1>2, InvitesClosed, IInvNext, TypedAccounts, PTL DEF Spec, InvitesStayClosed
-----------------------------------------------------------------------------
(* Keypad numbers.                                                         *)

\* A finite set of numbers has a largest one: the smallest subset without a
\* largest number would have one as soon as a number is taken away.
LEMMA GreatestKey ==
  ASSUME NEW S \in SUBSET Nat, IsFiniteSet(S), S # {}
  PROVE  Max(S) \in S /\ \A y \in S : y <= Max(S)
  <1> DEFINE Tops(A) == {x \in A : \A y \in A : y <= x}
             Bad == {A \in SUBSET S : A # {} /\ Tops(A) = {}}
             sizes == {Cardinality(A) : A \in Bad}
  <1>1. ASSUME Bad # {} PROVE FALSE
    <2>1. \A A \in Bad : IsFiniteSet(A) /\ Cardinality(A) \in Nat
      BY FS_Subset, FS_CardinalityType
    <2> HIDE DEF Bad
    <2>2. sizes \in SUBSET Nat /\ sizes # {}
      BY <1>1, <2>1
    <2>3. PICK A \in Bad : \A B \in Bad : Cardinality(A) <= Cardinality(B)
      <3>1. PICK n \in sizes : \A m \in sizes : n <= m
        BY <2>2, LeastKey
      <3> QED
        BY <3>1
    <2> USE DEF Bad
    <2>4. PICK x \in A : TRUE
      OBVIOUS
    <2> DEFINE B == A \ {x}
    <2>5. IsFiniteSet(A) /\ A \subseteq S /\ x \in Nat
      BY FS_Subset
    <2>6. Cardinality(B) = Cardinality(A) - 1 /\ Cardinality(A) \in Nat
      BY <2>5, FS_RemoveElement, FS_CardinalityType
    <2>7. B \notin Bad
      <3>1. ~(Cardinality(A) <= Cardinality(B))
        BY <2>6
      <3> HIDE DEF Bad, B
      <3> QED
        BY <2>3, <3>1
    <2>8. CASE B = {}
      <3>1. x \in Tops(A)
        BY <2>5, <2>8
      <3> QED
        BY <3>1
    <2>9. CASE B # {}
      <3>1. PICK z \in B : \A y \in B : y <= z
        BY <2>7, <2>9
      <3>2. z \in Nat /\ \A y \in A : y = x \/ y <= z
        BY <2>5, <3>1
      <3>3. x \in Tops(A) \/ z \in Tops(A)
        BY <2>5, <3>1, <3>2
      <3> QED
        BY <3>3
    <2> QED
      BY <2>8, <2>9
  <1>2. \E x \in S : \A y \in S : y <= x
    BY <1>1
  <1> QED
    BY <1>2 DEF Max

\* The number read is the lowest free one: all below it are in use.
LEMMA BelowFree ==
  ASSUME TInv, ~(Series \subseteq Keys)
  PROVE  1 .. (LowestFree - 1) \subseteq Keys
  <1> DEFINE S == Series \ Keys
             used == (Keys \ {Placeholder}) \union {0}
             top == Max(used) + 1
  <1>1. S \in SUBSET Nat /\ S # {}
    BY DEF Series
  <1>2. Min(S) \in S /\ \A n \in S : Min(S) <= n
    BY <1>1, LeastKey
  <1>3. LowestFree = Min(S) /\ Series = 1 .. top
    BY DEF LowestFree, Series
  <1>4. used \in SUBSET Nat /\ IsFiniteSet(used)
    <2>1. Keys \in SUBSET Nat
      BY DEF TInv, TypeOK, UserRow, Keys, Rows
    <2>2. IsFiniteSet(Rows)
      BY AccountsAssumption, FS_Subset DEF Rows
    <2>3. IsFiniteSet(Keys)
      <3> DEFINE f == [u \in Rows |-> users[u].key]
      <3>1. f \in Surjection(Rows, Keys)
        BY DEF Keys, Surjection
      <3> QED
        BY <2>2, <3>1, FS_Surjection
    <2>4. IsFiniteSet(used)
      <3>1. IsFiniteSet(Keys \ {Placeholder})
        BY <2>3, FS_Difference
      <3> QED
        BY <3>1, FS_AddElement
    <2>5. ASSUME NEW x \in used PROVE x \in Nat
      <3>1. x = 0 \/ x \in Keys
        OBVIOUS
      <3> QED
        BY <2>1, <3>1
    <2> QED
      BY <2>4, <2>5
  <1>5. top \in Nat
    <2>1. used # {}
      OBVIOUS
    <2> HIDE DEF used
    <2>2. Max(used) \in used
      BY <1>4, <2>1, GreatestKey
    <2>3. PICK m \in Nat : m = Max(used)
      BY <1>4, <2>2
    <2>4. m + 1 \in Nat
      OBVIOUS
    <2> QED
      BY <2>3, <2>4
  <1> HIDE DEF used
  <1> HIDE DEF top
  <1>6. LowestFree \in 1 .. top /\ \A n \in 1 .. top : n \notin Keys => LowestFree <= n
    BY <1>2, <1>3
  <1> HIDE DEF S
  <1>7. PICK k : k = LowestFree
    OBVIOUS
  <1>8. ASSUME NEW n \in 1 .. (k - 1) PROVE n \in Keys
    <2>1. n \in 1 .. top /\ ~(k <= n)
      BY <1>5, <1>6, <1>7
    <2> QED
      BY <1>6, <1>7, <2>1
  <1> QED
    BY <1>7, <1>8

\* A request that has read its number and not yet inserted the row.
Carrying == {"insert", "lockedInsert"}

NInv ==
  /\ NumbersFillUp
  /\ \A r \in Request : req[r].pc \in Carrying => 1 .. (req[r].copy.key - 1) \subseteq Keys

\* Nobody's number changes, and nobody comes in.
SameKeys == UNCHANGED origin /\ \A u \in User : users'[u].key = users[u].key

LEMMA KeysKept == SameKeys => Rows' = Rows /\ Keys' = Keys
  BY DEF SameKeys, Rows, Keys

LEMMA NumbersStep ==
  ASSUME NInv, SameKeys, NEW r \in Request, \A x \in Request \ {r} : req'[x] = req[x],
         req'[r].pc \in Carrying => 1 .. (req'[r].copy.key - 1) \subseteq Keys
  PROVE  NInv'
  <1>1. Rows' = Rows /\ Keys' = Keys
    BY KeysKept
  <1>2. NumbersFillUp'
    BY <1>1 DEF NInv, NumbersFillUp, SameKeys, Rows
  <1> QED
    BY <1>1, <1>2 DEF NInv

LEMMA NumbersIndifferent ==
  ASSUME NInv, SameKeys, NEW r \in Request, NEW S, Moves(r, S), S \intersect Carrying = {}
  PROVE  NInv'
  BY NumbersStep DEF Moves

\* A row with the number that was read: what is below it is still in use.
LEMMA InsertNumbers ==
  ASSUME TInv, NInv, NEW r \in Request, NEW u \in User, NEW from,
         req[r].pc \in Carrying, InsertUser(u, req[r].copy, from),
         NEW S, Moves(r, S), S \intersect Carrying = {}
  PROVE  NInv'
  <1> DEFINE k == req[r].copy.key
  <1>1. /\ users \in [User -> UserRow] /\ origin \in [User -> {None, "start", "self"} \union Invite]
        /\ k \in Nat \ {0} /\ 1 .. (k - 1) \subseteq Keys
    BY Typed DEF TInv, TypeOK, RequestOK, RequestRow, UserRow, NInv, Carrying
  <1>2. u \notin Rows /\ users' = [users EXCEPT ![u] = req[r].copy]
        /\ origin' = [origin EXCEPT ![u] = from]
    BY DEF InsertUser
  <1>3. /\ Rows' = Rows \union {u} /\ users'[u].key = k
        /\ \A v \in Rows : users'[v] = users[v] /\ origin'[v] = origin[v]
    BY <1>1, <1>2 DEF Rows
  <1> HIDE DEF k
  <1>4. Keys \subseteq Keys' /\ k \in Keys'
    BY <1>3 DEF Keys
  <1>5. 1 .. k \subseteq Keys'
    <2>1. \A n \in 1 .. k : n = k \/ n \in 1 .. (k - 1)
      BY <1>1
    <2> QED
      BY <1>1, <1>4, <2>1
  <1>6. NumbersFillUp'
    BY <1>3, <1>4, <1>5 DEF NInv, NumbersFillUp
  <1> QED
    BY <1>4, <1>6 DEF NInv, Moves

LEMMA KeyNumbers ==
  ASSUME TInv, NInv, NEW r \in Request, SameKeys, NEW where \in Carrying,
         ~(Series \subseteq Keys),
         Step(r, [req[r] EXCEPT !.pc = where, !.copy.key = LowestFree])
  PROVE  NInv'
  <1>1. PICK k : k = LowestFree
    OBVIOUS
  <1>2. 1 .. (k - 1) \subseteq Keys
    BY <1>1, BelowFree
  <1>3. req[r] \in RequestRow /\ req \in [Request -> RequestRow]
    BY Typed DEF TInv
  <1>4. req' = [req EXCEPT ![r] = [req[r] EXCEPT !.pc = where, !.copy.key = k]]
    BY <1>1 DEF Step
  <1>5. req'[r].copy.key = k /\ \A x \in Request \ {r} : req'[x] = req[x]
    BY <1>3, <1>4 DEF RequestRow, UserRow
  <1> QED
    BY <1>2, <1>5, NumbersStep

LEMMA UpdateUserNumbers ==
  ASSUME TInv, NInv, NEW r \in Request, UpdateUser(r)
  PROVE  NInv'
  <1>1. ASSUME SaveUser(r) PROVE SameKeys
    <2>1. users \in [User -> UserRow]
      BY DEF TInv, TypeOK
    <2> QED
      BY <1>1, <2>1 DEF SaveUser, SameKeys, UserRow
  <1>2. SameKeys
    BY <1>1 DEF UpdateUser, UpdateLoad, FindAdmin, CheckDebt, SameKeys, tables, history
  <1> QED
    BY <1>2, UpdateUserMoves, NumbersIndifferent DEF Carrying

LEMMA DebtsNumbers ==
  ASSUME TInv, NInv, NEW r \in Request, Debts(r)
  PROVE  NInv'
  <1>1. SameKeys
    BY DEF Debts, BuyBegin, BuyCommit, SameKeys, tables, history
  <1> QED
    BY <1>1, DebtsMoves, NumbersIndifferent DEF Carrying

LEMMA RegisterNumbers ==
  ASSUME TInv, NInv, NEW r \in Request, Register(r)
  PROVE  NInv'
  <1>0. Blank \in RequestRow /\ req[r] \in RequestRow /\ req \in [Request -> RequestRow]
    BY BlankOK, Typed DEF TInv
  <1>1. ASSUME NEW e \in Email, BootstrapBegin(r, e) \/ RegisterBegin(r, e) PROVE NInv'
    <2>1. PICK c : Begin(r, [Blank EXCEPT !.pc = "key", !.copy = c])
      BY <1>1 DEF BootstrapBegin, RegisterBegin
    <2>2. SameKeys /\ Moves(r, {"key"})
      BY <1>0, <1>1, <2>1
      DEF BootstrapBegin, RegisterBegin, SameKeys, tables, history, Begin, Step, RequestRow, Moves
    <2> QED
      BY <2>2, NumbersIndifferent DEF Carrying
  <1>2. CASE ReadKey(r)
    <2>1. SameKeys
      BY <1>2 DEF ReadKey, SameKeys, tables, history
    <2>2. CASE End(r)
      BY <2>1, <2>2, EndMoves, NumbersIndifferent DEF Carrying
    <2> QED
      BY <1>2, <2>1, <2>2, KeyNumbers DEF ReadKey, Carrying
  <1>3. ASSUME NEW u \in User, Insert(r, u) PROVE NInv'
    <2>1. Moves(r, {"idle", "link", "findInvite"})
      <3>1. CASE End(r)
        BY <3>1, EndMoves DEF Moves
      <3>2. ASSUME req[r].person # None,
                   Step(r, [req[r] EXCEPT !.pc = AfterInsert(req[r]), !.user = u])
            PROVE  Moves(r, {"link", "findInvite"})
        <4>1. AfterInsert(req[r]) \in {"link", "findInvite"}
          BY <3>2 DEF AfterInsert
        <4> QED
          BY <1>0, <3>2, <4>1 DEF Step, RequestRow, Moves
      <3> QED
        BY <1>3, <3>1, <3>2 DEF Insert, Moves
    <2> QED
      BY <1>3, <2>1, InsertNumbers DEF Insert, Carrying
  <1>4. CASE InsertRejected(r)
    BY <1>4, EndMoves, NumbersIndifferent DEF InsertRejected, SameKeys, tables, history, Carrying
  <1> QED
    BY <1>1, <1>2, <1>3, <1>4 DEF Register

LEMMA InvitationsNumbers ==
  ASSUME TInv, NInv, NEW r \in Request, Invitations(r)
  PROVE  NInv'
  <1>0. Blank \in RequestRow /\ req[r] \in RequestRow /\ req \in [Request -> RequestRow]
    BY BlankOK, Typed DEF TInv
  <1>1. CASE LockedKey(r)
    <2>1. SameKeys
      BY <1>1 DEF LockedKey, SameKeys, tables, history
    <2>2. CASE End(r)
      BY <2>1, <2>2, EndMoves, NumbersIndifferent DEF Carrying
    <2> QED
      BY <1>1, <2>1, <2>2, KeyNumbers DEF LockedKey, Carrying
  <1>2. ASSUME NEW u \in User, LockedInsert(r, u) PROVE NInv'
    BY <1>2, EndMoves, InsertNumbers DEF LockedInsert, Carrying
  <1>3. ASSUME NEW S \in {{"revokeOld"}, {"insertInvite"}, {"revoke"}, {"lockedKey"}, {"idle"}},
               Moves(r, S), SameKeys
        PROVE  NInv'
    BY <1>3, NumbersIndifferent DEF Carrying
  <1>4. ASSUME NEW e, NEW x, CreateInviteBegin(r, e, x) PROVE NInv'
    <2>1. Moves(r, {"revokeOld"}) /\ SameKeys
      BY <1>0, <1>4 DEF CreateInviteBegin, Begin, Step, RequestRow, Moves, SameKeys, tables, history
    <2> QED
      BY <1>3, <2>1
  <1>5. CASE RevokeOld(r)
    <2>1. Moves(r, {"insertInvite"}) /\ SameKeys
      BY <1>0, <1>5 DEF RevokeOld, Step, RequestRow, Moves, SameKeys, history
    <2> QED
      BY <1>3, <2>1
  <1>6. ASSUME NEW i, RevokeBegin(r, i) PROVE NInv'
    <2>1. Moves(r, {"revoke"}) /\ SameKeys
      BY <1>0, <1>6 DEF RevokeBegin, Begin, Step, RequestRow, Moves, SameKeys, tables, history
    <2> QED
      BY <1>3, <2>1
  <1>7. ASSUME NEW i, AcceptLock(r, i) PROVE NInv'
    <2>1. Moves(r, {"lockedKey"}) /\ SameKeys
      BY <1>0, <1>7 DEF AcceptLock, Begin, Step, RequestRow, Moves, SameKeys, tables, history
    <2> QED
      BY <1>3, <2>1
  <1>8. ASSUME NEW i, InsertInvite(r, i) \/ RevokeSave(r) PROVE NInv'
    <2>1. Moves(r, {"idle"}) /\ SameKeys
      BY <1>8, EndMoves DEF InsertInvite, RevokeSave, SameKeys, history
    <2> QED
      BY <1>3, <2>1
  <1> QED
    BY <1>1, <1>2, <1>4, <1>5, <1>6, <1>7, <1>8 DEF Invitations

LEMMA SignInNumbers ==
  ASSUME TInv, NInv, NEW r \in Request, SignIn(r)
  PROVE  NInv'
  <1>1. SameKeys
    BY DEF SignIn, SignInKnown, LinkIntent, SignInNew, FindInvite, SaveInvite, Link, Login,
       SameKeys, tables, history
  <1>2. PICK S \in {{"idle", "login"}, {"idle"}, {"key", "link", "linkOnly", "saveInvite"}} :
          Moves(r, S)
    BY SignInMoves
  <1> QED
    BY <1>1, <1>2, NumbersIndifferent DEF Carrying

LEMMA EnvironmentNumbers ==
  ASSUME TInv, NInv, Environment
  PROVE  NInv'
  <1>1. ASSUME SameKeys, UNCHANGED req PROVE NInv'
    BY <1>1, KeysKept DEF NInv, NumbersFillUp, SameKeys, Rows
  <1>2. ASSUME NEW u \in User, Bill(u) \/ Settle(u) PROVE NInv'
    BY <1>1, <1>2 DEF Bill, Settle, SameKeys, tables, history
  <1>3. ASSUME NEW i \in Invite, Expire(i) PROVE NInv'
    BY <1>1, <1>3 DEF Expire, SameKeys, history
  <1>4. ASSUME NEW u \in User, NEW e \in Email, MoveEmail(u, e) PROVE NInv'
    <2>1. users \in [User -> UserRow]
      BY DEF TInv, TypeOK
    <2>2. SameKeys /\ UNCHANGED req
      BY <1>4, <2>1 DEF MoveEmail, SameKeys, UserRow, history
    <2> QED
      BY <1>1, <2>2
  <1>5. ASSUME NEW r \in Request, Lose(r) PROVE NInv'
    BY <1>5, EndMoves, NumbersIndifferent DEF Lose, SameKeys, tables, Carrying
  <1> QED
    BY <1>2, <1>3, <1>4, <1>5 DEF Environment

LEMMA NInvNext == TInv /\ NInv /\ [Next]_vars => NInv'
  <1>1. NInv /\ UNCHANGED vars => NInv'
    BY DEF vars, NInv, NumbersFillUp, Rows, Keys
  <1> QED
    BY <1>1, UpdateUserNumbers, DebtsNumbers, RegisterNumbers, InvitationsNumbers, SignInNumbers,
       EnvironmentNumbers
    DEF Next

\* Below the number of an account the application made every number is in
\* use: of two registrations that read one number the second is turned away,
\* and no number, once given, becomes free again.
THEOREM KeypadHasNoGaps == Spec => []NumbersFillUp
  <1>1. Init => NInv
    BY BlankOK DEF Init, NInv, NumbersFillUp, Rows, Carrying
  <1> QED
    BY <1>1, NInvNext, TypedAccounts, PTL DEF Spec, NInv

-----------------------------------------------------------------------------
(* The last admin.                                                         *)

\* An update that takes an admin away has seen another one.
SeenOther(q) ==
  q.pc \in {"checkDebts", "saveUser"} /\ LosesAdmin(q.copy, q) => q.seen \in User \ {q.user}
AInv == \A r \in Request : SeenOther(req[r])

LEMMA UnseenStep ==
  ASSUME AInv, NEW r \in Request, NEW S, Moves(r, S), S \intersect {"checkDebts", "saveUser"} = {}
  PROVE  AInv'
  BY DEF AInv, SeenOther, Moves

LEMMA UpdateUserSees ==
  ASSUME TInv, AInv, NEW r \in Request, UpdateUser(r)
  PROVE  AInv'
  <1>0. /\ Blank \in RequestRow /\ req[r] \in RequestRow /\ req \in [Request -> RequestRow]
        /\ RequestOK(req[r])
    BY BlankOK, Typed DEF TInv
  <1>1. CASE End(r)
    BY <1>1, EndMoves, UnseenStep
  <1>2. ASSUME NEW u \in User, NEW w \in Wishes, UpdateLoad(r, u, w)
        PROVE  AInv'
    <2> DEFINE where == IF LosesAdmin(users[u], w) THEN "findAdmin" ELSE AfterAdmins(w)
               q == [Blank EXCEPT !.pc = where, !.user = u, !.copy = users[u], !.role = w.role,
                       !.disable = w.disable, !.todo = {"uninvoiced", "unpaid"}]
    <2>1. req' = [req EXCEPT ![r] = q]
      BY <1>2 DEF UpdateLoad, Begin, Step
    <2>2. where # "findAdmin" => ~LosesAdmin(users[u], w)
      OBVIOUS
    <2> HIDE DEF where
    <2>3. q.pc = where /\ q.copy = users[u] /\ q.role = w.role /\ q.disable = w.disable
      BY <1>0 DEF RequestRow
    <2>4. req'[r] = q /\ \A x \in Request \ {r} : req'[x] = req[x]
      BY <1>0, <2>1
    <2> HIDE DEF q
    <2>5. SeenOther(req[r])'
      BY <2>2, <2>3, <2>4 DEF SeenOther, LosesAdmin
    <2> QED
      BY <2>4, <2>5 DEF AInv
  <1>3. ASSUME NEW a \in ActiveAdmins \ {req[r].user},
               Step(r, [req[r] EXCEPT !.pc = AfterAdmins(req[r]), !.seen = a])
        PROVE  AInv'
    <2> DEFINE where == AfterAdmins(req[r])
               q == [req[r] EXCEPT !.pc = where, !.seen = a]
    <2>1. req' = [req EXCEPT ![r] = q] /\ a \in User
      BY <1>3 DEF Step, ActiveAdmins, Admins, Rows
    <2> HIDE DEF where
    <2>2. q.seen = a /\ q.user = req[r].user
      BY <1>0 DEF RequestRow
    <2>3. req'[r] = q /\ \A x \in Request \ {r} : req'[x] = req[x]
      BY <1>0, <2>1
    <2> HIDE DEF q
    <2>4. SeenOther(req[r])'
      BY <1>3, <2>1, <2>2, <2>3 DEF SeenOther
    <2> QED
      BY <2>3, <2>4 DEF AInv
  <1>4. ASSUME NEW b \in {"uninvoiced", "unpaid"}, CheckDebt(r, b), ~End(r)
        PROVE  AInv'
    <2> DEFINE left == req[r].todo \ {b}
               owed == req[r].owed \/ req[r].user \in Debtors(b)
               where == IF left = {} THEN "saveUser" ELSE "checkDebts"
               q == [req[r] EXCEPT !.todo = left, !.owed = owed, !.pc = where]
    <2>1. req' = [req EXCEPT ![r] = q] /\ req[r].pc = "checkDebts"
      BY <1>4 DEF CheckDebt, Step
    <2> HIDE DEF left, owed, where
    <2>2. /\ q.seen = req[r].seen /\ q.user = req[r].user /\ q.copy = req[r].copy
          /\ q.role = req[r].role /\ q.disable = req[r].disable
      BY <1>0 DEF RequestRow
    <2>3. req'[r] = q /\ \A x \in Request \ {r} : req'[x] = req[x]
      BY <1>0, <2>1
    <2> HIDE DEF q
    <2>4. SeenOther(req[r])'
      BY <2>1, <2>2, <2>3 DEF AInv, SeenOther, LosesAdmin
    <2> QED
      BY <2>3, <2>4 DEF AInv
  <1> QED
    BY <1>1, <1>2, <1>3, <1>4 DEF UpdateUser, FindAdmin, SaveUser

LEMMA AInvNext == TInv /\ AInv /\ [Next]_vars => AInv'
  <1> SUFFICES ASSUME TInv, AInv, [Next]_vars PROVE AInv'
    OBVIOUS
  <1>1. CASE UNCHANGED req
    BY <1>1 DEF AInv, SeenOther
  <1>2. ASSUME NEW r \in Request, UpdateUser(r) PROVE AInv'
    BY <1>2, UpdateUserSees
  <1>3. ASSUME NEW r \in Request, Debts(r) PROVE AInv'
    BY <1>3, DebtsMoves, UnseenStep
  <1>4. ASSUME NEW r \in Request, Register(r) PROVE AInv'
    BY <1>4, RegisterMoves, UnseenStep
  <1>5. ASSUME NEW r \in Request, Invitations(r) PROVE AInv'
    BY <1>5, InvitationsMoves, UnseenStep
  <1>6. ASSUME NEW r \in Request, SignIn(r) PROVE AInv'
    <2>1. PICK S \in {{"idle", "login"}, {"idle"}, {"key", "link", "linkOnly", "saveInvite"}} :
            Moves(r, S)
      BY <1>6, SignInMoves
    <2> QED
      BY <2>1, UnseenStep
  <1>7. ASSUME NEW r \in Request, Lose(r) PROVE AInv'
    BY <1>7, EndMoves, UnseenStep DEF Lose
  <1>8. CASE UNCHANGED vars
    BY <1>1, <1>8 DEF vars
  <1>9. ASSUME Environment, \A r \in Request : ~Lose(r) PROVE UNCHANGED req
    BY <1>9 DEF Environment, Bill, Settle, Expire, MoveEmail
  <1> QED
    BY <1>1, <1>2, <1>3, <1>4, <1>5, <1>6, <1>7, <1>8, <1>9 DEF Next

\* Active admins stay, whatever the step, unless it saves an update.
AdminsStay == ActiveAdmins \subseteq ActiveAdmins'

LEMMA InsertKeepsAdmins ==
  ASSUME TInv, NEW u \in User, NEW row, NEW from, InsertUser(u, row, from)
  PROVE  AdminsStay
  <1>1. users \in [User -> UserRow]
    BY DEF TInv, TypeOK
  <1>2. \A v \in Rows : users'[v] = users[v]
    BY <1>1 DEF InsertUser, Rows
  <1> QED
    BY <1>2 DEF AdminsStay, ActiveAdmins, Admins, Rows

LEMMA OnlyUpdatesTakeAdmins ==
  ASSUME TInv, [Next]_vars, \A r \in Request : ~SaveUser(r)
  PROVE  AdminsStay
  <1>0. users \in [User -> UserRow]
    BY DEF TInv, TypeOK
  <1>1. CASE UNCHANGED users
    BY <1>1 DEF AdminsStay, ActiveAdmins, Admins, Rows
  <1>2. ASSUME NEW r \in Request, UpdateUser(r) PROVE UNCHANGED users
    BY <1>2 DEF UpdateUser, UpdateLoad, FindAdmin, CheckDebt, tables
  <1>3. ASSUME NEW r \in Request, Debts(r) PROVE UNCHANGED users
    BY <1>3 DEF Debts, BuyBegin, BuyCommit, tables
  <1>4. ASSUME NEW r \in Request, Register(r) PROVE AdminsStay
    <2>1. ASSUME NEW u \in User, Insert(r, u) PROVE AdminsStay
      BY <2>1, InsertKeepsAdmins DEF Insert
    <2> QED
      BY <1>1, <1>4, <2>1 DEF Register, BootstrapBegin, RegisterBegin, ReadKey, InsertRejected, tables
  <1>5. ASSUME NEW r \in Request, Invitations(r) PROVE AdminsStay
    <2>1. ASSUME NEW u \in User, LockedInsert(r, u) PROVE AdminsStay
      BY <2>1, InsertKeepsAdmins DEF LockedInsert
    <2> QED
      BY <1>1, <1>5, <2>1 DEF Invitations, CreateInviteBegin, RevokeOld, InsertInvite, RevokeBegin,
        AcceptLock, RevokeSave, LockedKey, tables
  <1>6. ASSUME NEW r \in Request, SignIn(r) PROVE UNCHANGED users
    BY <1>6 DEF SignIn, SignInKnown, LinkIntent, SignInNew, FindInvite, SaveInvite, Link, Login, tables
  <1>7. ASSUME NEW u \in User, NEW e \in Email, MoveEmail(u, e) PROVE AdminsStay
    <2>1. \A v \in User : /\ users'[v].role = users[v].role /\ users'[v].key = users[v].key
                          /\ users'[v].disabled = users[v].disabled
      BY <1>0, <1>7 DEF MoveEmail, UserRow
    <2> QED
      BY <2>1 DEF AdminsStay, ActiveAdmins, Admins, Rows
  <1>8. ASSUME Environment PROVE AdminsStay
    BY <1>1, <1>7, <1>8 DEF Environment, Bill, Settle, Expire, Lose, tables
  <1>9. CASE UNCHANGED vars
    BY <1>1, <1>9 DEF vars
  <1> QED
    BY <1>1, <1>2, <1>3, <1>4, <1>5, <1>6, <1>8, <1>9 DEF Next

\* The update that takes the last one away has seen another, who is none now.
LEMMA LastOne ==
  ASSUME TInv, AInv, NEW r \in Request, SaveUser(r),
         ActiveAdmins # {}, ActiveAdmins' = {}
  PROVE  req[r].pc = "saveUser" /\ req'[r] = Blank /\ Stale(r)
  <1> DEFINE u == req[r].user
             q == req[r]
             newRole == Changed(q.copy.role, q.role, users[u].role)
             newDisabled == Changed(q.copy.disabled, q.disable, users[u].disabled)
  <1>0. /\ users \in [User -> UserRow] /\ q \in RequestRow /\ u \in User
        /\ q.pc = "saveUser" /\ req'[r] = Blank
    BY Typed, EndMoves DEF TInv, TypeOK, SaveUser, RequestOK
  <1>1. users' = [users EXCEPT ![u].role = newRole, ![u].disabled = newDisabled]
    BY DEF SaveUser
  <1> HIDE DEF newRole, newDisabled
  <1>2. /\ \A v \in User \ {u} : users'[v] = users[v]
        /\ users'[u].key = users[u].key
        /\ users'[u].role = newRole /\ users'[u].disabled = newDisabled
    BY <1>0, <1>1 DEF UserRow
  <1>3. ActiveAdmins = {u}
    <2>1. ASSUME NEW a \in ActiveAdmins, a # u PROVE FALSE
      <3>1. a \in ActiveAdmins'
        BY <1>2, <2>1 DEF ActiveAdmins, Admins, Rows
      <3> QED
        BY <3>1
    <2> QED
      BY <2>1
  <1>4. /\ users[u].role = "admin" /\ users[u].disabled = FALSE
        /\ newRole # "admin" \/ newDisabled = TRUE
    <2>1. users[u].role = "admin" /\ ~users[u].disabled /\ users[u].key > 0
      BY <1>3 DEF ActiveAdmins, Admins, Rows
    <2>2. newRole # "admin" \/ newDisabled
      BY <1>0, <1>2, <2>1 DEF ActiveAdmins, Admins, Rows
    <2>3. newDisabled \in BOOLEAN /\ users[u].disabled \in BOOLEAN
      BY <1>0 DEF newDisabled, Changed, RequestRow, UserRow
    <2> QED
      BY <2>1, <2>2, <2>3
  <1>5. ASSUME ~Stale(r) PROVE FALSE
    <2>1. /\ q.copy.role = "admin" /\ q.copy.disabled = FALSE
          /\ q.seen = None \/ q.seen \in ActiveAdmins
      BY <1>4, <1>5 DEF Stale
    <2>2. q.role \notin {None, "admin"} \/ q.disable = TRUE
      <3>1. CASE newRole # "admin"
        BY <1>4, <2>1, <3>1 DEF newRole, Changed
      <3>2. CASE newDisabled = TRUE
        BY <1>4, <2>1, <3>2 DEF newDisabled, Changed
      <3> QED
        BY <1>4, <3>1, <3>2
    <2>3. LosesAdmin(q.copy, q)
      BY <2>1, <2>2 DEF LosesAdmin
    <2>4. q.seen \in User \ {u}
      BY <1>0, <2>3 DEF AInv, SeenOther
    <2> QED
      BY <1>3, <2>1, <2>4, AccountsAssumption
  <1> QED
    BY <1>0, <1>5

LEMMA LastAdminStep == TInv /\ AInv /\ [Next]_vars => LostInCrossing
  <1> SUFFICES ASSUME TInv, AInv, [Next]_vars, ActiveAdmins # {}, ActiveAdmins' = {}
               PROVE  \E r \in Request : req[r].pc = "saveUser" /\ req'[r] = Blank /\ Stale(r)
    BY DEF LostInCrossing
  <1>1. PICK r \in Request : SaveUser(r)
    BY OnlyUpdatesTakeAdmins DEF AdminsStay
  <1> QED
    BY <1>1, LastOne

LEMMA AInvInit == Init => AInv
  BY BlankOK DEF Init, AInv, SeenOther

\* The last active admin goes only in a crossing: every update that takes an
\* admin away has seen another one, and no other statement takes one away.
THEOREM AdminsGoInCrossings == Spec => LastAdminLostInCrossing
  <1>1. Spec => []AInv
    BY AInvInit, AInvNext, TypedAccounts, PTL DEF Spec
  <1>2. TInv /\ AInv /\ [Next]_vars => [LostInCrossing]_vars
    BY LastAdminStep
  <1> QED
    BY <1>1, <1>2, TypedAccounts, PTL DEF Spec, LastAdminLostInCrossing

-----------------------------------------------------------------------------
(* The migration script.                                                   *)

Collections == {"users", "deliveries", "invoices", "orders", "links"}
\* The placeholder user is in.
Placed == Collections \union {"settle", "done"}
Stages == Placed \union {"stopped", "placeholders", "live"}

Memory == [row : Seq(User \union {None}), placeholder : User \union {None}, keys : SUBSET Nat,
           fallback : Nat, emails : SUBSET Email, people : SUBSET Person]
InvoiceRow == [buyer : User, supplier : User, paid : BOOLEAN]
OrderRow == [buyer : User, delivery : Nat, invoice : Nat]
InvoiceDoc == [buyer : Reference(mongo.users), supplier : Reference(mongo.users),
               paid : BOOLEAN, orders : SUBSET DOMAIN mongo.orders]
OrderDoc == [buyer : Reference(mongo.users), delivery : Reference(mongo.deliveries),
             invoice : Reference(mongo.invoices)]

\* While the users are copied: what is in the table is in memory, the numbers
\* below the fallback are in use, and there are no more numbers than users.
Copying ==
  /\ Len(memory.row) = at - 1
  /\ \A u \in Rows : /\ users[u].email \in memory.emails
                     /\ users[u].key \in memory.keys \union {Placeholder}
  /\ IsFiniteSet(memory.keys) /\ Cardinality(memory.keys) <= at /\ 0 \in memory.keys
  /\ memory.fallback > 0 /\ 1 .. (memory.fallback - 1) \subseteq memory.keys
  /\ \A p \in Person : links[p] = None \/ \E n \in 1 .. (at - 1) : links[p] = Ids[n + 1]

\* Every document whose number is not the placeholder's became a row.
UsersOK ==
  /\ memory \in Memory
  /\ stage = "placeholders" =>
       memory = Fresh /\ at = 1 /\ Rows = {} /\ \A p \in Person : links[p] = None
  /\ stage = "users" => Copying
  /\ stage \in Placed \ {"users"} => Len(memory.row) = Len(mongo.users)
  /\ stage \in Placed =>
       /\ memory.placeholder = Ids[1]
       /\ \A n \in DOMAIN memory.row :
            /\ memory.row[n] \in {None, Ids[n + 1]}
            /\ mongo.users[n].key # Placeholder => memory.row[n] = Ids[n + 1]

DeliveriesOK ==
  /\ stage \in {"placeholders", "users"} => deliveries = <<>>
  /\ stage = "deliveries" => Len(deliveries) = at - 1
  /\ stage \in {"invoices", "orders", "links", "settle", "done"} =>
       Len(deliveries) = Len(mongo.deliveries)
  /\ stage \in Placed =>
       /\ deliveries \in Seq(User)
       /\ \A d \in DOMAIN deliveries :
            Kept(mongo.deliveries[d]) => deliveries[d] = Ids[mongo.deliveries[d] + 1]

InvoicesOK ==
  /\ stage \in {"placeholders", "users", "deliveries"} => invoices = <<>>
  /\ stage = "invoices" => Len(invoices) = at - 1
  /\ stage \in {"orders", "links"} => Len(invoices) = Len(mongo.invoices)
  /\ stage \in {"settle", "done"} => Len(invoices) >= Len(mongo.invoices)
  /\ stage \in Placed =>
       /\ invoices \in Seq(InvoiceRow)
       /\ \A n \in DOMAIN invoices \intersect DOMAIN mongo.invoices :
            LET doc == mongo.invoices[n] IN
            Kept(doc.buyer) /\ Kept(doc.supplier)
              => invoices[n] = [buyer |-> Ids[doc.buyer + 1],
                                supplier |-> Ids[doc.supplier + 1], paid |-> doc.paid]
  /\ stage = "done" => \A n \in DOMAIN invoices :
       memory.placeholder \in {invoices[n].buyer, invoices[n].supplier} => invoices[n].paid

\* An order that is owed: by somebody, to somebody, and on no invoice.
Due(n) ==
  LET doc == mongo.orders[n] IN
  /\ Kept(doc.buyer) /\ doc.delivery > 0 /\ Kept(mongo.deliveries[doc.delivery])
  /\ doc.invoice = 0 /\ \A i \in DOMAIN mongo.invoices : n \notin mongo.invoices[i].orders

OrdersOK ==
  /\ stage \in {"placeholders", "users", "deliveries", "invoices"} => orders = <<>>
  /\ stage = "orders" => Len(orders) = at - 1
  /\ stage \in {"links", "settle", "done"} => Len(orders) = Len(mongo.orders)
  /\ stage \in Placed =>
       /\ orders \in Seq(OrderRow)
       /\ \A n \in DOMAIN orders :
            /\ orders[n].delivery = mongo.orders[n].delivery
            /\ Kept(mongo.orders[n].buyer) => orders[n].buyer = Ids[mongo.orders[n].buyer + 1]
            /\ Due(n) => orders[n].invoice = 0
            /\ orders[n].invoice <= Len(invoices)
  /\ stage = "done" => Orphaned = {}

\* The script goes through the documents of a collection one by one.
PlaceOK ==
  /\ mongo \in Mongo /\ stage \in Stages /\ at \in Nat \ {0}
  /\ stage \in Collections => at = 1 \/ at <= Len(Docs[stage])

ScriptOK == PlaceOK /\ UsersOK /\ DeliveriesOK /\ InvoicesOK /\ OrdersOK

\* Before the application is started, no request has touched a table.
Untouched ==
  /\ req = [r \in Request |-> Blank]
  /\ \A i \in Invite : ~Issued(i)
  /\ \A u \in User : origin[u] \in {None, "start"} /\ (u \in Rows => origin[u] = "start")
  /\ \A p, q \in Person : links[p] # None /\ links[p] = links[q] => p = q
  /\ signedIn = {}

MInv == ScriptOK /\ (stage # "live" => Untouched)

-----------------------------------------------------------------------------
(* The documents.                                                          *)

LEMMA DocsTyped ==
  ASSUME mongo \in Mongo
  PROVE  /\ mongo.users \in Seq(MongoUser)
         /\ Len(mongo.users) < Len(Ids) /\ Len(mongo.users) < Placeholder
         /\ mongo.deliveries \in Seq(Reference(mongo.users))
         /\ mongo.invoices \in Seq(InvoiceDoc)
         /\ mongo.orders \in Seq(OrderDoc)
  BY MigrationAssumption DEF InvoiceDoc, OrderDoc

LEMMA DocsAre ==
  /\ Docs["users"] = mongo.users /\ Docs["deliveries"] = mongo.deliveries
  /\ Docs["invoices"] = mongo.invoices /\ Docs["orders"] = mongo.orders
  /\ Docs["links"] = mongo.invoices
  /\ DOMAIN Docs = Collections
  BY DEF Docs, Collections

LEMMA AfterIs ==
  /\ After["users"] = "deliveries" /\ After["deliveries"] = "invoices"
  /\ After["invoices"] = "orders" /\ After["orders"] = "links" /\ After["links"] = "settle"
  BY DEF After

\* After each document, and after a collection that has none, the script is
\* in its place.
LEMMA AdvancePlace ==
  ASSUME PlaceOK, stage \in Collections, at <= Len(Docs[stage]), Advance, UNCHANGED mongo
  PROVE  /\ PlaceOK'
         /\ \/ at < Len(Docs[stage]) /\ stage' = stage /\ at' = at + 1
            \/ at = Len(Docs[stage]) /\ stage' = After[stage] /\ at' = 1
  <1>1. Len(Docs[stage]) \in Nat
    BY DocsTyped, DocsAre, LenProperties DEF PlaceOK, Collections
  <1>2. Docs' = Docs
    BY DEF Docs
  <1>3. CASE at < Len(Docs[stage])
    BY <1>1, <1>2, <1>3 DEF Advance, PlaceOK
  <1>4. CASE ~(at < Len(Docs[stage]))
    <2>1. After[stage] \in Stages
      BY AfterIs DEF Stages, Placed, Collections
    <2> QED
      BY <1>1, <1>4, <2>1 DEF Advance, PlaceOK
  <1> QED
    BY <1>3, <1>4

\* The row of a reference.
LEMMA UserOfIs ==
  ASSUME ScriptOK, stage \in Placed \ {"users"}, NEW n \in Reference(mongo.users)
  PROVE  UserOf(n) \in User /\ (Kept(n) => UserOf(n) = Ids[n + 1])
  <1>1. /\ mongo.users \in Seq(MongoUser) /\ Len(mongo.users) < Len(Ids) /\ Ids \in Seq(User)
        /\ memory \in Memory
        /\ Len(memory.row) = Len(mongo.users) /\ memory.placeholder = Ids[1]
    BY DocsTyped, MigrationAssumption DEF ScriptOK, PlaceOK, UsersOK
  <1>2. Ids[1] \in User
    BY <1>1, LenProperties, ElementOfSeq
  <1>3. n = 0 \/ n \in 1 .. Len(mongo.users)
    BY <1>1, LenProperties DEF Reference
  <1>4. memory.row \in Seq(User \union {None})
    BY <1>1 DEF Memory
  <1>5. CASE n = 0
    BY <1>1, <1>2, <1>5 DEF UserOf, Kept
  <1>6. CASE n \in 1 .. Len(mongo.users)
    <2>1. n \in DOMAIN memory.row /\ n + 1 \in 1 .. Len(Ids)
      BY <1>1, <1>4, <1>6, LenProperties
    <2>2. /\ memory.row[n] \in {None, Ids[n + 1]} /\ Ids[n + 1] \in User
          /\ mongo.users[n].key # Placeholder => memory.row[n] = Ids[n + 1]
      BY <1>1, <2>1, ElementOfSeq DEF ScriptOK, UsersOK
    <2>3. Ids[n + 1] # None
      BY <2>2, AccountsAssumption
    <2> QED
      BY <1>1, <1>2, <1>6, <2>2, <2>3 DEF UserOf, Kept
  <1> QED
    BY <1>3, <1>5, <1>6

-----------------------------------------------------------------------------
(* The users.                                                              *)

LEMMA FallbackIs ==
  ASSUME memory \in Memory, Copying, at \in Nat
  PROVE  /\ Fallback(memory) \in Nat \ {0} /\ Fallback(memory) \notin memory.keys
         /\ Fallback(memory) <= at
         /\ 1 .. (Fallback(memory) - 1) \subseteq memory.keys
  <1> DEFINE f == memory.fallback
             K == memory.keys
             c == Cardinality(K)
             I == f .. (f + c)
             S == {n \in I : n \notin K}
  <1>1. f \in Nat /\ f > 0 /\ K \in SUBSET Nat /\ IsFiniteSet(K) /\ 0 \in K /\ 1 .. (f - 1) \subseteq K
    BY DEF Memory, Copying
  <1>2. c \in Nat /\ c <= at
    BY <1>1, FS_CardinalityType DEF Copying
  <1>3. Fallback(memory) = Min(S)
    BY DEF Fallback
  <1> HIDE DEF f, K, c
  <1>4. S \in SUBSET Nat
    BY <1>1, <1>2
  <1>5. S # {}
    <2>1. Cardinality(I) = c + 1
      BY <1>1, <1>2, FS_Interval
    <2>2. ASSUME I \subseteq K PROVE FALSE
      <3>1. Cardinality(I) <= c
        BY <1>1, <2>2, FS_Subset DEF c
      <3> QED
        BY <1>2, <2>1, <3>1
    <2> QED
      BY <2>2
  <1>6. PICK k \in S : k = Min(S) /\ \A n \in S : k <= n
    BY <1>4, <1>5, LeastKey
  <1>7. k \in Nat \ {0} /\ k \notin K
    BY <1>1, <1>4
  <1>8. ASSUME NEW n \in 1 .. (k - 1) PROVE n \in K
    <2>1. CASE n <= f - 1
      BY <1>1, <1>7, <2>1
    <2>2. CASE ~(n <= f - 1)
      <3>1. n \in I /\ ~(k <= n)
        BY <1>1, <1>2, <1>6, <1>7, <2>2
      <3> QED
        BY <1>6, <3>1
    <2> QED
      BY <2>1, <2>2
  <1>9. k <= at
    <2> DEFINE B == 1 .. (k - 1)
    <2>1. Cardinality(K \ {0}) = c - 1 /\ IsFiniteSet(K \ {0})
      BY <1>1, FS_RemoveElement DEF c
    <2>2. B \subseteq K \ {0}
      BY <1>7, <1>8
    <2>3. Cardinality(B) = k - 1
      <3>1. 1 \in Int /\ k - 1 \in Int
        BY <1>7
      <3>2. Cardinality(B) = IF 1 > k - 1 THEN 0 ELSE k - 1 - 1 + 1
        BY <3>1, FS_Interval
      <3> QED
        BY <1>7, <3>2
    <2>4. Cardinality(B) <= Cardinality(K \ {0})
      BY <2>1, <2>2, FS_Subset
    <2> HIDE DEF B
    <2> QED
      BY <1>2, <1>7, <2>1, <2>3, <2>4
  <1> QED
    BY <1>3, <1>6, <1>7, <1>8, <1>9 DEF K

\* The number a document gets.
LEMMA KeyIs ==
  ASSUME memory \in Memory, Copying, at \in Nat, NEW doc \in MongoUser, NEW k, k = KeyOf(doc, memory)
  PROVE  /\ k \in Nat \ {0} /\ k \notin memory.keys
         /\ k # doc.key => k <= at
         /\ LET f == IF k = doc.key THEN memory.fallback ELSE k + 1 IN
            f \in Nat /\ f > 0 /\ 1 .. (f - 1) \subseteq memory.keys \union {k}
         /\ IsFiniteSet(memory.keys \union {k})
         /\ Cardinality(memory.keys \union {k}) <= at + 1
  <1>1. /\ doc.key \in Nat /\ memory.fallback \in Nat /\ memory.keys \in SUBSET Nat
        /\ IsFiniteSet(memory.keys) /\ Cardinality(memory.keys) <= at
        /\ memory.fallback > 0 /\ 1 .. (memory.fallback - 1) \subseteq memory.keys
        /\ Cardinality(memory.keys) \in Nat
    BY FS_CardinalityType DEF MongoUser, Memory, Copying
  <1>2. /\ IsFiniteSet(memory.keys \union {k})
        /\ k \notin memory.keys => Cardinality(memory.keys \union {k}) = Cardinality(memory.keys) + 1
    BY <1>1, FS_AddElement
  <1>3. CASE k = doc.key /\ doc.key > 0 /\ doc.key \notin memory.keys
    BY <1>1, <1>2, <1>3
  <1>4. CASE k = Fallback(memory) /\ ~(doc.key > 0 /\ doc.key \notin memory.keys)
    <2>1. /\ k \in Nat \ {0} /\ k \notin memory.keys /\ k <= at
          /\ 1 .. (k - 1) \subseteq memory.keys
      BY <1>4, FallbackIs
    <2>2. k # doc.key
      BY <1>1, <1>4, <2>1
    <2>3. \A n \in 1 .. k : n = k \/ n \in 1 .. (k - 1)
      BY <2>1
    <2>4. k + 1 \in Nat /\ k + 1 > 0 /\ (k + 1) - 1 = k
      BY <2>1
    <2>5. 1 .. k \subseteq memory.keys \union {k}
      BY <2>1, <2>3
    <2> QED
      BY <1>1, <1>2, <2>1, <2>2, <2>4, <2>5
  <1> QED
    BY <1>3, <1>4 DEF KeyOf


LEMMA UserMigrates ==
  ASSUME TInv, ScriptOK, Untouched, MigrateUser
  PROVE  /\ PlaceOK' /\ UsersOK' /\ TInv' /\ Untouched'
         /\ stage' \in {"users", "deliveries"}
  <1> DEFINE doc == mongo.users[at]
             k == KeyOf(doc, memory)
             u == Ids[at + 1]
  <1>0. /\ stage = "users" /\ at <= Len(Docs[stage]) /\ Advance
        /\ UNCHANGED <<idle, deliveries, invoices, orders, mongo, runs, outcome>>
        /\ Docs["users"] = mongo.users
    BY DocsAre DEF MigrateUser
  <1>1. /\ PlaceOK' /\ stage' \in {"users", "deliveries"}
        /\ stage' = "users" => at' = at + 1
        /\ stage' = "deliveries" => at = Len(mongo.users)
    BY <1>0, AdvancePlace, AfterIs DEF ScriptOK, Collections
  <1>2. /\ mongo.users \in Seq(MongoUser) /\ Len(mongo.users) < Len(Ids)
        /\ Len(mongo.users) < Placeholder /\ Ids \in Seq(User)
        /\ \A n, m \in DOMAIN Ids : Ids[n] = Ids[m] => n = m
        /\ at \in Nat \ {0} /\ memory \in Memory /\ Copying
        /\ at \in 1 .. Len(mongo.users) /\ Placeholder \in Nat \ {0}
    BY <1>0, DocsTyped, LenProperties, MigrationAssumption, AccountsAssumption
    DEF ScriptOK, PlaceOK, UsersOK
  <1>3. /\ doc \in MongoUser /\ u \in User /\ u # None
        /\ DOMAIN Ids = 1 .. Len(Ids) /\ at + 1 \in 1 .. Len(Ids)
        /\ \A n \in 1 .. (at - 1) : Ids[n + 1] # u
    <2>1. doc \in MongoUser
      BY <1>2, ElementOfSeq
    <2>2. DOMAIN Ids = 1 .. Len(Ids) /\ Len(Ids) \in Nat /\ Len(mongo.users) \in Nat
      BY <1>2, LenProperties
    <2>3. at + 1 \in 1 .. Len(Ids)
      BY <1>2, <2>2
    <2>4. u \in User
      BY <1>2, <2>3, ElementOfSeq
    <2>5. ASSUME NEW n \in 1 .. (at - 1) PROVE Ids[n + 1] # u
      <3>1. n + 1 \in 1 .. Len(Ids) /\ n + 1 # at + 1
        BY <1>2, <2>2
      <3> QED
        BY <1>2, <2>2, <2>3, <3>1
    <2> QED
      BY <2>1, <2>2, <2>3, <2>4, <2>5, AccountsAssumption
  <1>4. PICK e \in EmailsOf(doc, memory) :
       /\ users' = IF Fits(e, k)
                   THEN [users EXCEPT ![u] = [email |-> e, role |-> doc.role,
                                              disabled |-> doc.disabled, key |-> k]]
                   ELSE users
       /\ origin' = IF Fits(e, k) THEN [origin EXCEPT ![u] = "start"] ELSE origin
       /\ links' = IF Fits(e, k) /\ doc.identity # None /\ doc.identity \notin memory.people
                     THEN [links EXCEPT ![doc.identity] = u] ELSE links
       /\ memory' = [memory EXCEPT
            !.row = Append(@, IF Fits(e, k) THEN u ELSE None),
            !.keys = @ \union {k},
            !.fallback = IF k = doc.key THEN @ ELSE k + 1,
            !.emails = @ \union {e},
            !.people = IF Fits(e, k) /\ doc.identity # None /\ doc.identity \notin memory.people
                         THEN @ \union {doc.identity} ELSE @]
    BY DEF MigrateUser
  <1> DEFINE fits == Fits(e, k)
             new == doc.identity # None /\ doc.identity \notin memory.people
             row == [email |-> e, role |-> doc.role, disabled |-> doc.disabled, key |-> k]
  <1>5. e \in Email /\ e \notin memory.emails
    BY <1>3, MigrationAssumption DEF EmailsOf, MongoUser
  <1>6. /\ k \in Nat \ {0} /\ k \notin memory.keys /\ (k # doc.key => k <= at)
        /\ LET f == IF k = doc.key THEN memory.fallback ELSE k + 1 IN
            f \in Nat /\ f > 0 /\ 1 .. (f - 1) \subseteq memory.keys \union {k}
        /\ IsFiniteSet(memory.keys \union {k})
        /\ Cardinality(memory.keys \union {k}) <= at + 1
    <2>1. PICK d \in MongoUser : d = doc
      BY <1>3
    <2>2. PICK j : j = k
      OBVIOUS
    <2>3. j = KeyOf(d, memory) /\ at \in Nat
      BY <1>2, <2>1, <2>2
    <2> HIDE DEF doc, k
    <2> QED
      BY <1>2, <2>1, <2>2, <2>3, KeyIs
  <1>7. row \in UserRow /\ row.email = e /\ row.key = k /\ doc.key \in Nat
        /\ (doc.identity # None => doc.identity \in Person)
    BY <1>3, <1>5, <1>6 DEF UserRow, MongoUser
  <1> HIDE DEF row, k, u
  <1>8. doc.key # Placeholder => fits
    <2>1. ASSUME doc.key # Placeholder PROVE k # Placeholder
      BY <1>2, <1>6, <1>7, <2>1
    <2>2. k # Placeholder => k \notin Keys
      BY <1>2, <1>6 DEF Copying, Keys
    <2>3. EmailFree(e)
      BY <1>2, <1>5 DEF Copying, EmailFree
    <2> QED
      BY <2>1, <2>2, <2>3 DEF Fits
  <1> HIDE DEF doc, fits, new
  <1>9. /\ users' = IF fits THEN [users EXCEPT ![u] = row] ELSE users
        /\ origin' = IF fits THEN [origin EXCEPT ![u] = "start"] ELSE origin
        /\ links' = IF fits /\ new THEN [links EXCEPT ![doc.identity] = u] ELSE links
    BY <1>4 DEF row, fits, new
  <1>10. /\ users \in [User -> UserRow] /\ links \in [Person -> User \union {None}]
         /\ origin \in [User -> {None, "start", "self"} \union Invite]
         /\ new => doc.identity \in Person
    BY <1>7 DEF TInv, TypeOK, new
  <1> DEFINE f == IF k = doc.key THEN memory.fallback ELSE k + 1
             known == IF fits /\ new THEN memory.people \union {doc.identity} ELSE memory.people
             mine == IF fits THEN u ELSE None
  <1>11. /\ memory' = [memory EXCEPT !.row = Append(memory.row, mine), !.keys = memory.keys \union {k},
                        !.fallback = f, !.emails = memory.emails \union {e}, !.people = known]
         /\ f \in Nat /\ f > 0 /\ 1 .. (f - 1) \subseteq memory.keys \union {k}
    BY <1>2, <1>4, <1>6 DEF fits, new, Memory
  <1>12. mine \in User \union {None} /\ known \in SUBSET Person
    BY <1>2, <1>3, <1>10 DEF Memory
  <1> HIDE DEF f, known, mine
  <1>13. memory.row \in Seq(User \union {None}) /\ Len(memory.row) = at - 1
    BY <1>2 DEF Memory, Copying
  <1>14. /\ Append(memory.row, mine) \in Seq(User \union {None})
         /\ Len(Append(memory.row, mine)) = at
         /\ DOMAIN Append(memory.row, mine) = 1 .. at
         /\ \A n \in 1 .. at : Append(memory.row, mine)[n] = IF n = at THEN mine ELSE memory.row[n]
         /\ DOMAIN memory.row = 1 .. (at - 1)
    BY <1>2, <1>12, <1>13, AppendProperties, LenProperties
  <1>15. /\ memory' \in Memory
         /\ memory'.row = Append(memory.row, mine) /\ memory'.keys = memory.keys \union {k}
         /\ memory'.fallback = f /\ memory'.emails = memory.emails \union {e}
         /\ memory'.placeholder = memory.placeholder
    BY <1>2, <1>5, <1>6, <1>11, <1>12, <1>14 DEF Memory
  <1>16. TInv'
    <2>1. users' \in [User -> UserRow] /\ links' \in [Person -> User \union {None}]
          /\ origin' \in [User -> {None, "start", "self"} \union Invite]
      BY <1>3, <1>7, <1>9, <1>10
    <2> QED
      BY <1>0, <2>1 DEF TInv, TypeOK, idle
  <1>17. /\ \A v \in User : v \in Rows' => (v = u /\ fits /\ users'[v] = row /\ origin'[v] = "start")
                             \/ (v \in Rows /\ users'[v] = users[v] /\ origin'[v] = origin[v])
         /\ \A v \in User : origin'[v] = origin[v] \/ origin'[v] = "start"
    BY <1>3, <1>9, <1>10 DEF Rows
  <1>18. \A p \in Person : links'[p] = links[p] \/ links'[p] = u
    BY <1>9, <1>10
  <1>19. Untouched'
    <2>1. \A p, q \in Person : links'[p] # None /\ links'[p] = links'[q] => p = q
      <3>1. \A p \in Person : links[p] # u
        BY <1>2, <1>3 DEF Copying
      <3>2. CASE fits /\ new
        BY <1>9, <1>10, <3>1, <3>2 DEF Untouched
      <3>3. CASE ~(fits /\ new)
        BY <1>9, <3>3 DEF Untouched
      <3> QED
        BY <3>2, <3>3
    <2> QED
      BY <1>0, <1>17, <2>1 DEF Untouched, idle, Issued, Rows
  <1>20. Copying' \/ stage' # "users"
    <2>1. ASSUME at' = at + 1 PROVE Copying'
      <3>1. Len(memory'.row) = at' - 1
        BY <1>2, <1>14, <1>15, <2>1
      <3>2. ASSUME NEW v \in Rows'
            PROVE  users'[v].email \in memory'.emails /\ users'[v].key \in memory'.keys \union {Placeholder}
        BY <1>2, <1>7, <1>15, <1>17 DEF Copying, Rows
      <3>3. IsFiniteSet(memory'.keys) /\ Cardinality(memory'.keys) <= at' /\ 0 \in memory'.keys
        BY <1>2, <1>6, <1>15, <2>1 DEF Copying
      <3>4. memory'.fallback > 0 /\ 1 .. (memory'.fallback - 1) \subseteq memory'.keys
        BY <1>11, <1>15
      <3>5. ASSUME NEW p \in Person
            PROVE  links'[p] = None \/ \E n \in 1 .. (at' - 1) : links'[p] = Ids[n + 1]
        <4>1. at \in 1 .. (at' - 1) /\ \A n \in 1 .. (at - 1) : n \in 1 .. (at' - 1)
          BY <1>2, <2>1
        <4> QED
          BY <1>2, <1>18, <4>1 DEF Copying, u
      <3> QED
        BY <3>1, <3>2, <3>3, <3>4, <3>5 DEF Copying
    <2> QED
      BY <1>1, <2>1
  <1>21. UsersOK'
    <2>1. stage' \in Placed \ {"users"} => Len(memory'.row) = Len(mongo'.users)
      BY <1>0, <1>1, <1>14, <1>15
    <2>2. memory'.placeholder = Ids[1]
      BY <1>0, <1>15 DEF ScriptOK, UsersOK, Placed, Collections
    <2>3. ASSUME NEW n \in DOMAIN memory'.row
          PROVE  /\ memory'.row[n] \in {None, Ids[n + 1]}
                 /\ mongo'.users[n].key # Placeholder => memory'.row[n] = Ids[n + 1]
      <3>1. n \in 1 .. at
        BY <1>14, <1>15
      <3>2. CASE n = at
        BY <1>0, <1>8, <1>14, <1>15, <3>1, <3>2 DEF mine, u, doc
      <3>3. CASE n # at
        <4>1. n \in 1 .. (at - 1)
          BY <1>2, <3>1, <3>3
        <4> QED
          BY <1>0, <1>14, <1>15, <3>1, <3>3, <4>1 DEF ScriptOK, UsersOK, Placed, Collections
      <3> QED
        BY <3>2, <3>3
    <2> QED
      BY <1>1, <1>15, <1>20, <2>1, <2>2, <2>3 DEF UsersOK
  <1> QED
    BY <1>1, <1>16, <1>19, <1>21

\* The other collections leave the tables of Accounts alone.
LEMMA TablesStay ==
  ASSUME TInv, Untouched, UNCHANGED <<idle, users, origin, links>>
  PROVE  TInv' /\ Untouched'
  BY DEF TInv, TypeOK, idle, Untouched, Issued, Rows

-----------------------------------------------------------------------------
(* The other collections.                                                  *)

LEMMA DeliveryMigrates ==
  ASSUME ScriptOK, MigrateDelivery
  PROVE  ScriptOK'
  <1>0. /\ stage = "deliveries" /\ at <= Len(Docs[stage]) /\ Advance
        /\ UNCHANGED <<users, origin, links, invoices, orders, mongo, memory>>
        /\ deliveries' = Append(deliveries, UserOf(mongo.deliveries[at]))
    BY DEF MigrateDelivery
  <1>1. /\ PlaceOK' /\ stage' \in {"deliveries", "invoices"}
        /\ stage' = "deliveries" => at' = at + 1
        /\ stage' = "invoices" => at = Len(mongo.deliveries) /\ at' = 1
    BY <1>0, AdvancePlace, AfterIs, DocsAre DEF ScriptOK, Collections
  <1>2. /\ at \in 1 .. Len(mongo.deliveries) /\ mongo.deliveries[at] \in Reference(mongo.users)
        /\ at \in Nat
    <2>1. mongo.deliveries \in Seq(Reference(mongo.users)) /\ at \in Nat \ {0}
      BY DocsTyped DEF ScriptOK, PlaceOK
    <2>2. Len(mongo.deliveries) \in Nat /\ at <= Len(mongo.deliveries)
      BY <1>0, <2>1, DocsAre, LenProperties
    <2> QED
      BY <2>1, <2>2, ElementOfSeq
  <1>3. PICK d \in Reference(mongo.users) : d = mongo.deliveries[at]
    BY <1>2
  <1>4. UserOf(d) \in User /\ (Kept(d) => UserOf(d) = Ids[d + 1])
    BY <1>0, UserOfIs DEF Placed, Collections
  <1>5. PICK u \in User : u = UserOf(d)
    BY <1>4
  <1>6. /\ deliveries \in Seq(User) /\ Len(deliveries) = at - 1
    BY <1>0 DEF ScriptOK, DeliveriesOK, Placed, Collections
  <1>7. /\ deliveries' = Append(deliveries, u) /\ deliveries' \in Seq(User)
        /\ Len(deliveries') = at /\ DOMAIN deliveries' = 1 .. at /\ DOMAIN deliveries = 1 .. (at - 1)
        /\ \A n \in 1 .. at : deliveries'[n] = IF n = at THEN u ELSE deliveries[n]
    BY <1>0, <1>2, <1>3, <1>5, <1>6, AppendProperties, LenProperties
  <1>8. UsersOK'
    BY <1>0, <1>1 DEF ScriptOK, UsersOK, Placed, Collections
  <1>9. InvoicesOK'
    <2>1. invoices = <<>> /\ Len(<<>>) = 0
      BY <1>0, EmptySeq DEF ScriptOK, InvoicesOK
    <2> QED
      BY <1>0, <1>1, <2>1 DEF ScriptOK, InvoicesOK, Placed, Collections, Kept
  <1>10. OrdersOK'
    BY <1>0, <1>1 DEF ScriptOK, OrdersOK, Placed, Collections, Kept, Due
  <1>11. DeliveriesOK'
    <2>1. ASSUME NEW n \in 1 .. at, Kept(mongo.deliveries[n])
          PROVE  deliveries'[n] = Ids[mongo.deliveries[n] + 1]
      <3>1. CASE n = at
        BY <1>3, <1>4, <1>5, <1>7, <2>1, <3>1
      <3>2. CASE n # at
        <4>1. n \in DOMAIN deliveries
          BY <1>2, <1>7, <3>2
        <4> QED
          BY <1>0, <1>7, <2>1, <3>2, <4>1 DEF ScriptOK, DeliveriesOK, Placed, Collections
      <3> QED
        BY <3>1, <3>2
    <2> QED
      BY <1>0, <1>1, <1>2, <1>7, <2>1 DEF DeliveriesOK, Kept
  <1> QED
    BY <1>1, <1>8, <1>9, <1>10, <1>11 DEF ScriptOK

LEMMA InvoiceMigrates ==
  ASSUME ScriptOK, MigrateInvoice
  PROVE  ScriptOK'
  <1> DEFINE doc == mongo.invoices[at]
  <1>0. /\ stage = "invoices" /\ at <= Len(Docs[stage]) /\ Advance
        /\ UNCHANGED <<users, origin, links, deliveries, orders, mongo, memory>>
        /\ invoices' = Append(invoices, [buyer |-> UserOf(doc.buyer),
                                         supplier |-> UserOf(doc.supplier), paid |-> doc.paid])
    BY DEF MigrateInvoice
  <1>1. /\ PlaceOK' /\ stage' \in {"invoices", "orders"}
        /\ stage' = "invoices" => at' = at + 1
        /\ stage' = "orders" => at = Len(mongo.invoices) /\ at' = 1
    BY <1>0, AdvancePlace, AfterIs, DocsAre DEF ScriptOK, Collections
  <1>2. /\ at \in 1 .. Len(mongo.invoices) /\ doc \in InvoiceDoc /\ at \in Nat
        /\ DOMAIN mongo.invoices = 1 .. Len(mongo.invoices)
    <2>1. mongo.invoices \in Seq(InvoiceDoc) /\ at \in Nat \ {0}
      BY DocsTyped DEF ScriptOK, PlaceOK
    <2>2. /\ Len(mongo.invoices) \in Nat /\ at <= Len(mongo.invoices)
          /\ DOMAIN mongo.invoices = 1 .. Len(mongo.invoices)
      BY <1>0, <2>1, DocsAre, LenProperties
    <2> QED
      BY <2>1, <2>2, ElementOfSeq
  <1>3. /\ doc.buyer \in Reference(mongo.users) /\ doc.supplier \in Reference(mongo.users)
        /\ doc.paid \in BOOLEAN
    BY <1>2 DEF InvoiceDoc
  <1>4. /\ UserOf(doc.buyer) \in User /\ (Kept(doc.buyer) => UserOf(doc.buyer) = Ids[doc.buyer + 1])
        /\ UserOf(doc.supplier) \in User
        /\ (Kept(doc.supplier) => UserOf(doc.supplier) = Ids[doc.supplier + 1])
    BY <1>0, <1>3, UserOfIs DEF Placed, Collections
  <1> DEFINE row == [buyer |-> UserOf(doc.buyer), supplier |-> UserOf(doc.supplier), paid |-> doc.paid]
  <1>5. /\ row \in InvoiceRow
        /\ Kept(doc.buyer) /\ Kept(doc.supplier)
             => row = [buyer |-> Ids[doc.buyer + 1], supplier |-> Ids[doc.supplier + 1],
                       paid |-> doc.paid]
    BY <1>3, <1>4 DEF InvoiceRow
  <1>6. /\ invoices \in Seq(InvoiceRow) /\ Len(invoices) = at - 1
    BY <1>0 DEF ScriptOK, InvoicesOK, Placed, Collections
  <1>6a. invoices' = Append(invoices, row)
    BY <1>0
  <1> HIDE DEF row
  <1>7. /\ invoices' \in Seq(InvoiceRow)
        /\ Len(invoices') = at /\ DOMAIN invoices' = 1 .. at /\ DOMAIN invoices = 1 .. (at - 1)
        /\ \A n \in 1 .. at : invoices'[n] = IF n = at THEN row ELSE invoices[n]
    BY <1>6a, <1>2, <1>5, <1>6, AppendProperties, LenProperties
  <1>8. UsersOK'
    BY <1>0, <1>1 DEF ScriptOK, UsersOK, Placed, Collections
  <1>9. DeliveriesOK'
    BY <1>0, <1>1 DEF ScriptOK, DeliveriesOK, Placed, Collections, Kept
  <1>10. OrdersOK'
    <2>1. orders = <<>> /\ Len(<<>>) = 0
      BY <1>0, EmptySeq DEF ScriptOK, OrdersOK
    <2> QED
      BY <1>0, <1>1, <2>1 DEF ScriptOK, OrdersOK, Placed, Collections, Kept, Due
  <1>11. InvoicesOK'
    <2>1. ASSUME NEW n \in 1 .. at, Kept(mongo.invoices[n].buyer), Kept(mongo.invoices[n].supplier)
          PROVE  invoices'[n] = [buyer |-> Ids[mongo.invoices[n].buyer + 1],
                                 supplier |-> Ids[mongo.invoices[n].supplier + 1],
                                 paid |-> mongo.invoices[n].paid]
      <3>1. CASE n = at
        BY <1>5, <1>7, <2>1, <3>1
      <3>2. CASE n # at
        <4>1. n \in DOMAIN invoices \intersect DOMAIN mongo.invoices
          BY <1>2, <1>7, <3>2
        <4> QED
          BY <1>0, <1>7, <2>1, <3>2, <4>1 DEF ScriptOK, InvoicesOK, Placed, Collections
      <3> QED
        BY <3>1, <3>2
    <2> QED
      BY <1>0, <1>1, <1>2, <1>7, <2>1 DEF InvoicesOK, Kept
  <1> QED
    BY <1>1, <1>8, <1>9, <1>10, <1>11 DEF ScriptOK

LEMMA OrderMigrates ==
  ASSUME ScriptOK, MigrateOrder
  PROVE  ScriptOK'
  <1> DEFINE doc == mongo.orders[at]
  <1>0. /\ stage = "orders" /\ at <= Len(Docs[stage]) /\ Advance
        /\ UNCHANGED <<users, origin, links, deliveries, invoices, mongo, memory>>
        /\ orders' = Append(orders, [buyer |-> UserOf(doc.buyer), delivery |-> doc.delivery,
                                     invoice |-> doc.invoice])
    BY DEF MigrateOrder
  <1>1. /\ PlaceOK' /\ stage' \in {"orders", "links"}
        /\ stage' = "orders" => at' = at + 1
        /\ stage' = "links" => at = Len(mongo.orders) /\ at' = 1
    BY <1>0, AdvancePlace, AfterIs, DocsAre DEF ScriptOK, Collections
  <1>2. /\ at \in 1 .. Len(mongo.orders) /\ doc \in OrderDoc /\ at \in Nat
    <2>1. mongo.orders \in Seq(OrderDoc) /\ at \in Nat \ {0}
      BY DocsTyped DEF ScriptOK, PlaceOK
    <2>2. Len(mongo.orders) \in Nat /\ at <= Len(mongo.orders)
      BY <1>0, <2>1, DocsAre, LenProperties
    <2> QED
      BY <2>1, <2>2, ElementOfSeq
  <1>3. /\ doc.buyer \in Reference(mongo.users) /\ doc.delivery \in Nat
        /\ doc.invoice \in Nat /\ doc.invoice <= Len(invoices)
    <2>1. /\ Len(mongo.deliveries) \in Nat /\ Len(mongo.invoices) \in Nat
          /\ Len(invoices) = Len(mongo.invoices)
      BY <1>0, DocsTyped, LenProperties DEF ScriptOK, PlaceOK, InvoicesOK
    <2> QED
      BY <1>2, <2>1 DEF OrderDoc, Reference
  <1>4. /\ UserOf(doc.buyer) \in User /\ (Kept(doc.buyer) => UserOf(doc.buyer) = Ids[doc.buyer + 1])
    BY <1>0, <1>3, UserOfIs DEF Placed, Collections
  <1> DEFINE row == [buyer |-> UserOf(doc.buyer), delivery |-> doc.delivery, invoice |-> doc.invoice]
  <1>5. /\ row \in OrderRow /\ row.delivery = doc.delivery /\ row.invoice = doc.invoice
        /\ Kept(doc.buyer) => row.buyer = Ids[doc.buyer + 1]
        /\ row.invoice <= Len(invoices) /\ (Due(at) => row.invoice = 0)
    BY <1>3, <1>4 DEF OrderRow, Due
  <1>6. /\ orders \in Seq(OrderRow) /\ Len(orders) = at - 1
    BY <1>0 DEF ScriptOK, OrdersOK, Placed, Collections
  <1>6a. orders' = Append(orders, row)
    BY <1>0
  <1> HIDE DEF row
  <1>7. /\ orders' \in Seq(OrderRow)
        /\ Len(orders') = at /\ DOMAIN orders' = 1 .. at /\ DOMAIN orders = 1 .. (at - 1)
        /\ \A n \in 1 .. at : orders'[n] = IF n = at THEN row ELSE orders[n]
    BY <1>6a, <1>2, <1>5, <1>6, AppendProperties, LenProperties
  <1>8. UsersOK'
    BY <1>0, <1>1 DEF ScriptOK, UsersOK, Placed, Collections
  <1>9. DeliveriesOK'
    BY <1>0, <1>1 DEF ScriptOK, DeliveriesOK, Placed, Collections, Kept
  <1>10. InvoicesOK'
    BY <1>0, <1>1 DEF ScriptOK, InvoicesOK, Placed, Collections, Kept
  <1>11. OrdersOK'
    <2>1. ASSUME NEW n \in 1 .. at
          PROVE  /\ orders'[n].delivery = mongo.orders[n].delivery
                 /\ Kept(mongo.orders[n].buyer) => orders'[n].buyer = Ids[mongo.orders[n].buyer + 1]
                 /\ Due(n) => orders'[n].invoice = 0
                 /\ orders'[n].invoice <= Len(invoices)
      <3>1. CASE n = at
        BY <1>5, <1>7, <2>1, <3>1
      <3>2. CASE n # at
        <4>1. n \in DOMAIN orders
          BY <1>2, <1>7, <3>2
        <4> QED
          BY <1>0, <1>7, <2>1, <3>2, <4>1 DEF ScriptOK, OrdersOK, Placed, Collections
      <3> QED
        BY <3>1, <3>2
    <2>2. /\ \A n : (Due(n)' <=> Due(n)) /\ (Kept(mongo.orders[n].buyer)' <=> Kept(mongo.orders[n].buyer))
          /\ mongo'.orders = mongo.orders
      BY <1>0 DEF Due, Kept
    <2> QED
      BY <1>0, <1>1, <1>2, <1>7, <2>1, <2>2 DEF OrdersOK
  <1> QED
    BY <1>1, <1>8, <1>9, <1>10, <1>11 DEF ScriptOK

LEMMA OrdersLinked ==
  ASSUME ScriptOK, LinkOrders
  PROVE  ScriptOK'
  <1>0. /\ stage = "links" /\ at <= Len(Docs[stage]) /\ Advance
        /\ UNCHANGED <<users, origin, links, deliveries, invoices, mongo, memory>>
        /\ orders' = [n \in DOMAIN orders |->
             IF n \in mongo.invoices[at].orders /\ orders[n].invoice = 0
               THEN [orders[n] EXCEPT !.invoice = at] ELSE orders[n]]
    BY DEF LinkOrders
  <1>1. PlaceOK' /\ stage' \in {"links", "settle"}
    BY <1>0, AdvancePlace, AfterIs, DocsAre DEF ScriptOK, Collections
  <1>2. /\ at \in DOMAIN mongo.invoices /\ at \in Nat /\ at <= Len(invoices)
    <2>1. mongo.invoices \in Seq(InvoiceDoc) /\ at \in Nat \ {0}
      BY DocsTyped DEF ScriptOK, PlaceOK
    <2>2. Len(mongo.invoices) \in Nat /\ at <= Len(mongo.invoices) /\ Len(invoices) = Len(mongo.invoices)
      BY <1>0, <2>1, DocsAre, LenProperties DEF ScriptOK, InvoicesOK
    <2> QED
      BY <2>1, <2>2, LenProperties
  <1>3. /\ orders \in Seq(OrderRow) /\ DOMAIN orders = 1 .. Len(orders) /\ Len(orders) \in Nat
        /\ Len(orders) = Len(mongo.orders)
    BY <1>0, LenProperties DEF ScriptOK, OrdersOK, Placed, Collections
  <1>4. ASSUME NEW n \in DOMAIN orders
        PROVE  /\ orders'[n] \in OrderRow /\ orders'[n].delivery = orders[n].delivery
               /\ orders'[n].buyer = orders[n].buyer
               /\ orders'[n] = orders[n] \/
                    (n \in mongo.invoices[at].orders /\ orders'[n].invoice = at)
    <2>1. orders[n] \in OrderRow
      BY <1>3, ElementOfSeq
    <2> QED
      BY <1>0, <1>2, <2>1 DEF OrderRow
  <1>5. /\ orders' \in Seq(OrderRow) /\ Len(orders') = Len(orders) /\ DOMAIN orders' = DOMAIN orders
    <2>1. orders' \in [1 .. Len(orders) -> OrderRow]
      BY <1>0, <1>3, <1>4
    <2> QED
      BY <1>3, <2>1, SeqDef
  <1>6. UsersOK'
    BY <1>0, <1>1 DEF ScriptOK, UsersOK, Placed, Collections
  <1>7. DeliveriesOK'
    BY <1>0, <1>1 DEF ScriptOK, DeliveriesOK, Placed, Collections, Kept
  <1>8. InvoicesOK'
    <2>1. Len(invoices) = Len(mongo.invoices) /\ Len(invoices) \in Nat
      BY <1>0, LenProperties DEF ScriptOK, InvoicesOK, Placed, Collections
    <2> QED
      BY <1>0, <1>1, <2>1 DEF ScriptOK, InvoicesOK, Placed, Collections, Kept
  <1>9. OrdersOK'
    <2>1. ASSUME NEW n \in DOMAIN orders
          PROVE  /\ orders'[n].delivery = mongo.orders[n].delivery
                 /\ Kept(mongo.orders[n].buyer) => orders'[n].buyer = Ids[mongo.orders[n].buyer + 1]
                 /\ Due(n) => orders'[n].invoice = 0
                 /\ orders'[n].invoice <= Len(invoices)
      <3>1. /\ orders[n].delivery = mongo.orders[n].delivery
            /\ Kept(mongo.orders[n].buyer) => orders[n].buyer = Ids[mongo.orders[n].buyer + 1]
            /\ Due(n) => orders[n].invoice = 0
            /\ orders[n].invoice <= Len(invoices)
        BY <1>0 DEF ScriptOK, OrdersOK, Placed, Collections
      <3>2. Due(n) => n \notin mongo.invoices[at].orders
        BY <1>2 DEF Due
      <3> QED
        BY <1>2, <1>4, <3>1, <3>2
    <2>2. /\ \A n : (Due(n)' <=> Due(n)) /\ (Kept(mongo.orders[n].buyer)' <=> Kept(mongo.orders[n].buyer))
          /\ mongo'.orders = mongo.orders
      BY <1>0 DEF Due, Kept
    <2> QED
      BY <1>0, <1>1, <1>3, <1>5, <2>1, <2>2 DEF OrdersOK
  <1> QED
    BY <1>1, <1>6, <1>7, <1>8, <1>9 DEF ScriptOK

\* An order that is owed is not the placeholder's.
LEMMA DueIsNotOrphaned ==
  ASSUME ScriptOK, stage = "settle", NEW n \in DOMAIN orders, Due(n)
  PROVE  n \notin Orphaned
  <1> DEFINE b == mongo.orders[n].buyer
             d == mongo.orders[n].delivery
             s == mongo.deliveries[d]
  <1>1. /\ Kept(b) /\ Kept(s) /\ d > 0
    BY DEF Due
  <1>2. /\ mongo.users \in Seq(MongoUser) /\ mongo.deliveries \in Seq(Reference(mongo.users))
        /\ mongo.orders \in Seq(OrderDoc) /\ Len(mongo.users) < Len(Ids) /\ Ids \in Seq(User)
    BY DocsTyped, MigrationAssumption DEF ScriptOK, PlaceOK
  <1>3. /\ Len(mongo.users) \in Nat /\ Len(mongo.deliveries) \in Nat /\ Len(Ids) \in Nat
        /\ DOMAIN Ids = 1 .. Len(Ids)
    BY <1>2, LenProperties
  <1>4. n \in 1 .. Len(mongo.orders) /\ orders \in Seq(OrderRow)
    BY LenProperties DEF ScriptOK, OrdersOK, Placed, Collections
  <1>5. mongo.orders[n] \in OrderDoc
    BY <1>2, <1>4, ElementOfSeq
  <1>6. b \in 0 .. Len(mongo.users) /\ d \in 1 .. Len(mongo.deliveries)
    BY <1>1, <1>3, <1>5 DEF OrderDoc, Reference
  <1>7. s \in 0 .. Len(mongo.users)
    BY <1>2, <1>6, ElementOfSeq DEF Reference
  <1>8. b + 1 \in 1 .. Len(Ids) /\ s + 1 \in 1 .. Len(Ids) /\ b + 1 # 1 /\ s + 1 # 1 /\ 1 \in 1 .. Len(Ids)
    <2>1. b > 0 /\ s > 0
      BY <1>1 DEF Kept
    <2> HIDE DEF b, s
    <2> QED
      BY <1>2, <1>3, <1>6, <1>7, <2>1
  <1>9. Ids[b + 1] # Ids[1] /\ Ids[s + 1] # Ids[1]
    BY <1>3, <1>8, MigrationAssumption
  <1>10. memory.placeholder = Ids[1]
    BY DEF ScriptOK, UsersOK, Placed, Collections
  <1>11. orders[n].buyer = Ids[b + 1] /\ orders[n].delivery = d
    BY <1>1 DEF ScriptOK, OrdersOK, Placed, Collections
  <1>12. deliveries[d] = Ids[s + 1]
    <2>1. d \in DOMAIN deliveries
      BY <1>6, LenProperties DEF ScriptOK, DeliveriesOK, Placed, Collections
    <2> QED
      BY <1>1, <2>1 DEF ScriptOK, DeliveriesOK, Placed, Collections
  <1>13. d # 0
    BY <1>6
  <1> HIDE DEF b, d, s
  <1> QED
    BY <1>9, <1>10, <1>11, <1>12, <1>13 DEF Orphaned, SupplierOf

LEMMA GroupSettles ==
  ASSUME ScriptOK, SettleGroup
  PROVE  ScriptOK'
  <1>0. stage = "settle" /\ UNCHANGED <<users, origin, links, deliveries, mongo, stage, at, memory>>
    BY DEF SettleGroup
  <1>1. PICK k \in Orphaned :
       /\ invoices' = Append(invoices, [buyer |-> orders[k].buyer,
            supplier |-> SupplierOf(orders[k].delivery), paid |-> TRUE])
       /\ orders' = [m \in DOMAIN orders |->
            IF m \in Orphaned /\ Rank(m) = Rank(k)
              THEN [orders[m] EXCEPT !.invoice = Len(invoices) + 1] ELSE orders[m]]
    BY DEF SettleGroup
  <1>2. /\ orders \in Seq(OrderRow) /\ DOMAIN orders = 1 .. Len(orders) /\ Len(orders) \in Nat
        /\ Len(orders) = Len(mongo.orders)
        /\ invoices \in Seq(InvoiceRow) /\ Len(invoices) \in Nat /\ Len(invoices) >= Len(mongo.invoices)
        /\ DOMAIN mongo.invoices = 1 .. Len(mongo.invoices) /\ Len(mongo.invoices) \in Nat
        /\ deliveries \in Seq(User) /\ DOMAIN deliveries = 1 .. Len(mongo.deliveries)
        /\ DOMAIN invoices = 1 .. Len(invoices)
    BY <1>0, DocsTyped, LenProperties
    DEF ScriptOK, PlaceOK, OrdersOK, InvoicesOK, DeliveriesOK, Placed, Collections
  <1>3. k \in DOMAIN orders /\ orders[k] \in OrderRow
    BY <1>2, ElementOfSeq DEF Orphaned
  <1>4. SupplierOf(orders[k].delivery) \in User
    <2>1. mongo.orders \in Seq(OrderDoc)
      BY DocsTyped DEF ScriptOK, PlaceOK
    <2>2. mongo.orders[k] \in OrderDoc
      BY <1>2, <1>3, <2>1, ElementOfSeq
    <2>3. orders[k].delivery = mongo.orders[k].delivery
      BY <1>0, <1>3 DEF ScriptOK, OrdersOK, Placed, Collections
    <2>4. orders[k].delivery \in Reference(mongo.deliveries)
      BY <2>2, <2>3 DEF OrderDoc
    <2>5. orders[k].delivery = 0 \/ orders[k].delivery \in 1 .. Len(mongo.deliveries)
      <3>1. Len(mongo.deliveries) \in Nat
        BY DocsTyped, LenProperties DEF ScriptOK, PlaceOK
      <3> QED
        BY <2>4, <3>1 DEF Reference
    <2>6. memory.placeholder \in User
      <3>1. Ids \in Seq(User) /\ Len(mongo.users) < Len(Ids) /\ Len(mongo.users) \in Nat
        BY DocsTyped, MigrationAssumption, LenProperties DEF ScriptOK, PlaceOK
      <3>2. 1 \in 1 .. Len(Ids)
        BY <3>1, LenProperties
      <3>3. Ids[1] \in User
        BY <3>1, <3>2, ElementOfSeq
      <3> QED
        BY <1>0, <3>3 DEF ScriptOK, UsersOK, Placed, Collections
    <2>7. orders[k].delivery \in 1 .. Len(mongo.deliveries) => deliveries[orders[k].delivery] \in User
      BY <1>2, LenProperties, ElementOfSeq
    <2> QED
      BY <2>5, <2>6, <2>7 DEF SupplierOf
  <1> DEFINE row == [buyer |-> orders[k].buyer, supplier |-> SupplierOf(orders[k].delivery), paid |-> TRUE]
             x == Len(invoices) + 1
  <1>5. row \in InvoiceRow /\ invoices' = Append(invoices, row)
    BY <1>1, <1>3, <1>4 DEF InvoiceRow, OrderRow
  <1> HIDE DEF row
  <1>6. /\ invoices' \in Seq(InvoiceRow) /\ Len(invoices') = x /\ x \in Nat /\ x > 0
        /\ \A n \in DOMAIN invoices : n \in DOMAIN invoices' /\ invoices'[n] = invoices[n]
        /\ DOMAIN invoices' = 1 .. x
    BY <1>2, <1>5, AppendProperties, LenProperties
  <1>7. ASSUME NEW n \in DOMAIN orders
        PROVE  /\ orders'[n] \in OrderRow /\ orders'[n].delivery = orders[n].delivery
               /\ orders'[n].buyer = orders[n].buyer
               /\ orders'[n] = orders[n] \/ (n \in Orphaned /\ orders'[n].invoice = x)
    <2>1. orders[n] \in OrderRow
      BY <1>2, ElementOfSeq
    <2> HIDE DEF x
    <2>2. orders'[n] = IF n \in Orphaned /\ Rank(n) = Rank(k)
                         THEN [orders[n] EXCEPT !.invoice = x] ELSE orders[n]
      BY <1>1 DEF x
    <2> QED
      BY <1>6, <2>1, <2>2 DEF OrderRow
  <1>8. /\ orders' \in Seq(OrderRow) /\ Len(orders') = Len(orders) /\ DOMAIN orders' = DOMAIN orders
    <2>1. orders' \in [1 .. Len(orders) -> OrderRow]
      BY <1>1, <1>2, <1>7
    <2>2. Len(orders) \in Nat /\ DOMAIN orders = 1 .. Len(orders)
      BY <1>2
    <2> HIDE DEF x
    <2> QED
      BY <2>1, <2>2, SeqDef
  <1>9. UsersOK'
    BY <1>0 DEF ScriptOK, UsersOK, Placed, Collections
  <1>10. DeliveriesOK'
    BY <1>0 DEF ScriptOK, DeliveriesOK, Placed, Collections, Kept
  <1>11. InvoicesOK'
    <2>1. DOMAIN mongo.invoices \subseteq DOMAIN invoices
      BY <1>2
    <2>2. Len(invoices') >= Len(mongo.invoices)
      BY <1>2, <1>6
    <2>3. ASSUME NEW n \in DOMAIN mongo.invoices, Kept(mongo.invoices[n].buyer),
                 Kept(mongo.invoices[n].supplier)
          PROVE  invoices'[n] = [buyer |-> Ids[mongo.invoices[n].buyer + 1],
                                 supplier |-> Ids[mongo.invoices[n].supplier + 1],
                                 paid |-> mongo.invoices[n].paid]
      BY <1>0, <1>6, <2>1, <2>3 DEF ScriptOK, InvoicesOK, Placed, Collections
    <2> QED
      BY <1>0, <1>6, <2>2, <2>3 DEF InvoicesOK, Kept
  <1>12. OrdersOK'
    <2>1. ASSUME NEW n \in DOMAIN orders
          PROVE  /\ orders'[n].delivery = mongo.orders[n].delivery
                 /\ Kept(mongo.orders[n].buyer) => orders'[n].buyer = Ids[mongo.orders[n].buyer + 1]
                 /\ Due(n) => orders'[n].invoice = 0
                 /\ orders'[n].invoice <= Len(invoices')
      <3>1. /\ orders[n].delivery = mongo.orders[n].delivery
            /\ Kept(mongo.orders[n].buyer) => orders[n].buyer = Ids[mongo.orders[n].buyer + 1]
            /\ Due(n) => orders[n].invoice = 0
            /\ orders[n].invoice <= Len(invoices)
        BY <1>0 DEF ScriptOK, OrdersOK, Placed, Collections
      <3>2. Due(n) => n \notin Orphaned
        BY <1>0, DueIsNotOrphaned
      <3>3. orders[n].invoice \in Nat
        <4>1. orders[n] \in OrderRow
          BY <1>2, ElementOfSeq
        <4> QED
          BY <4>1 DEF OrderRow
      <3> QED
        BY <1>2, <1>6, <1>7, <3>1, <3>2, <3>3
    <2>2. /\ \A n : (Due(n)' <=> Due(n)) /\ (Kept(mongo.orders[n].buyer)' <=> Kept(mongo.orders[n].buyer))
          /\ mongo'.orders = mongo.orders
      BY <1>0 DEF Due, Kept
    <2> QED
      BY <1>0, <1>2, <1>8, <2>1, <2>2 DEF OrdersOK
  <1> QED
    BY <1>0, <1>9, <1>10, <1>11, <1>12 DEF ScriptOK, PlaceOK, Docs

LEMMA Normalises ==
  ASSUME ScriptOK, Normalise
  PROVE  ScriptOK'
  <1>0. /\ stage = "settle" /\ Orphaned = {} /\ stage' = "done" /\ at' = 1
        /\ UNCHANGED <<users, origin, links, deliveries, orders, mongo, memory>>
        /\ invoices' = [n \in DOMAIN invoices |->
             IF memory.placeholder \in {invoices[n].buyer, invoices[n].supplier}
               THEN [invoices[n] EXCEPT !.paid = TRUE] ELSE invoices[n]]
    BY DEF Normalise
  <1>2. /\ invoices \in Seq(InvoiceRow) /\ Len(invoices) \in Nat /\ Len(invoices) >= Len(mongo.invoices)
        /\ DOMAIN invoices = 1 .. Len(invoices) /\ memory.placeholder = Ids[1]
    BY <1>0, LenProperties DEF ScriptOK, InvoicesOK, UsersOK, Placed, Collections
  <1>3. ASSUME NEW n \in DOMAIN invoices
        PROVE  /\ invoices'[n] \in InvoiceRow /\ invoices'[n].buyer = invoices[n].buyer
               /\ invoices'[n].supplier = invoices[n].supplier
               /\ IF Ids[1] \in {invoices[n].buyer, invoices[n].supplier}
                    THEN invoices'[n].paid = TRUE ELSE invoices'[n] = invoices[n]
    <2>1. invoices[n] \in InvoiceRow
      BY <1>2, ElementOfSeq
    <2> QED
      BY <1>0, <1>2, <2>1 DEF InvoiceRow
  <1>4. /\ invoices' \in Seq(InvoiceRow) /\ Len(invoices') = Len(invoices)
        /\ DOMAIN invoices' = DOMAIN invoices
    <2>1. invoices' \in [1 .. Len(invoices) -> InvoiceRow]
      BY <1>0, <1>2, <1>3
    <2> QED
      BY <1>2, <2>1, SeqDef
  <1>5. PlaceOK'
    BY <1>0 DEF ScriptOK, PlaceOK, Stages, Placed, Collections
  <1>6. UsersOK'
    BY <1>0 DEF ScriptOK, UsersOK, Placed, Collections
  <1>7. DeliveriesOK'
    BY <1>0 DEF ScriptOK, DeliveriesOK, Placed, Collections, Kept
  <1>8. OrdersOK'
    <2>1. Orphaned' = Orphaned
      BY <1>0 DEF Orphaned, SupplierOf
    <2> QED
      BY <1>0, <1>4, <2>1 DEF ScriptOK, OrdersOK, Placed, Collections, Kept, Due
  <1>9. InvoicesOK'
    <2>1. ASSUME NEW n \in DOMAIN invoices \intersect DOMAIN mongo.invoices,
                 Kept(mongo.invoices[n].buyer), Kept(mongo.invoices[n].supplier)
          PROVE  invoices'[n] = [buyer |-> Ids[mongo.invoices[n].buyer + 1],
                                 supplier |-> Ids[mongo.invoices[n].supplier + 1],
                                 paid |-> mongo.invoices[n].paid]
      <3> DEFINE b == mongo.invoices[n].buyer
                 s == mongo.invoices[n].supplier
      <3>1. invoices[n] = [buyer |-> Ids[b + 1], supplier |-> Ids[s + 1], paid |-> mongo.invoices[n].paid]
        BY <1>0, <2>1 DEF ScriptOK, InvoicesOK, Placed, Collections
      <3>2. Ids[b + 1] # Ids[1] /\ Ids[s + 1] # Ids[1]
        <4>1. /\ mongo.users \in Seq(MongoUser) /\ Len(mongo.users) < Len(Ids) /\ Ids \in Seq(User)
              /\ mongo.invoices \in Seq(InvoiceDoc)
          BY DocsTyped, MigrationAssumption DEF ScriptOK, PlaceOK
        <4>2. /\ Len(mongo.users) \in Nat /\ Len(Ids) \in Nat /\ DOMAIN Ids = 1 .. Len(Ids)
          BY <4>1, LenProperties
        <4>3. mongo.invoices[n] \in InvoiceDoc
          BY <4>1, LenProperties, ElementOfSeq
        <4>4. b \in 0 .. Len(mongo.users) /\ s \in 0 .. Len(mongo.users) /\ b > 0 /\ s > 0
          BY <2>1, <4>3 DEF InvoiceDoc, Reference, Kept
        <4>5. /\ b + 1 \in 1 .. Len(Ids) /\ s + 1 \in 1 .. Len(Ids) /\ b + 1 # 1 /\ s + 1 # 1
              /\ 1 \in 1 .. Len(Ids)
          BY <4>1, <4>2, <4>4
        <4> QED
          BY <4>2, <4>5, MigrationAssumption
      <3>3. invoices[n].buyer = Ids[b + 1] /\ invoices[n].supplier = Ids[s + 1]
        BY <3>1
      <3> QED
        BY <1>3, <3>1, <3>2, <3>3
    <2>2. ASSUME NEW n \in DOMAIN invoices, Ids[1] \in {invoices'[n].buyer, invoices'[n].supplier}
          PROVE  invoices'[n].paid
      BY <1>3, <2>2
    <2> QED
      BY <1>0, <1>2, <1>4, <2>1, <2>2 DEF InvoicesOK, Kept
  <1> QED
    BY <1>5, <1>6, <1>7, <1>8, <1>9 DEF ScriptOK

-----------------------------------------------------------------------------
(* The beginning and the end of a run.                                     *)

LEMMA FreshIs ==
  /\ Fresh \in Memory /\ Fresh.row = <<>> /\ Fresh.keys = {0} /\ Fresh.fallback = 1
  /\ Fresh.emails = {MigrationEmail}
  BY MigrationAssumption, EmptySeq DEF Fresh, Memory

LEMMA RunStarts ==
  ASSUME TInv, ScriptOK, Untouched, StartRun
  PROVE  TInv' /\ ScriptOK' /\ Untouched'
  <1>0. /\ stage' = "placeholders" /\ at' = 1 /\ memory' = Fresh
        /\ users' = [u \in User |-> NoRow] /\ origin' = [u \in User |-> None]
        /\ links' = [p \in Person |-> None]
        /\ deliveries' = <<>> /\ invoices' = <<>> /\ orders' = <<>>
        /\ UNCHANGED <<idle, mongo>>
    BY DEF StartRun, Truncated
  <1>1. NoRow \in UserRow /\ NoRow.key = 0
    BY AccountsAssumption DEF NoRow, UserRow
  <1>2. Rows' = {}
    BY <1>0, <1>1 DEF Rows
  <1>3. TInv'
    BY <1>0, <1>1 DEF TInv, TypeOK, idle
  <1>4. Untouched'
    BY <1>0, <1>2 DEF Untouched, idle, Issued
  <1>5. PlaceOK' /\ UsersOK'
    BY <1>0, <1>2, FreshIs DEF ScriptOK, PlaceOK, UsersOK, Stages, Placed, Collections
  <1>6. DeliveriesOK' /\ InvoicesOK' /\ OrdersOK'
    BY <1>0 DEF DeliveriesOK, InvoicesOK, OrdersOK, Placed, Collections
  <1> QED
    BY <1>3, <1>4, <1>5, <1>6 DEF ScriptOK

LEMMA PlaceholdersCreated ==
  ASSUME TInv, ScriptOK, Untouched, CreatePlaceholders
  PROVE  TInv' /\ ScriptOK' /\ Untouched'
  <1> DEFINE u == Ids[1]
             row == [email |-> MigrationEmail, role |-> "customer", disabled |-> TRUE, key |-> Placeholder]
  <1>0. /\ stage = "placeholders" /\ stage' = "users" /\ at' = 1
        /\ users' = [users EXCEPT ![u] = row] /\ origin' = [origin EXCEPT ![u] = "start"]
        /\ memory' = [memory EXCEPT !.placeholder = u]
        /\ UNCHANGED <<idle, links, deliveries, invoices, orders, mongo>>
    BY DEF CreatePlaceholders
  <1>1. u \in User
    <2>1. Ids \in Seq(User) /\ Len(mongo.users) < Len(Ids) /\ Len(mongo.users) \in Nat /\ Len(Ids) \in Nat
      BY DocsTyped, MigrationAssumption, LenProperties DEF ScriptOK, PlaceOK
    <2>2. 1 \in 1 .. Len(Ids)
      BY <2>1
    <2> QED
      BY <2>1, <2>2, ElementOfSeq
  <1>2. row \in UserRow /\ row.key = Placeholder /\ row.email = MigrationEmail
    BY AccountsAssumption, MigrationAssumption DEF UserRow
  <1> HIDE DEF u, row
  <1>3. /\ users \in [User -> UserRow] /\ origin \in [User -> {None, "start", "self"} \union Invite]
        /\ links \in [Person -> User \union {None}]
    BY DEF TInv, TypeOK
  <1>4. /\ memory = Fresh /\ Rows = {} /\ \A p \in Person : links[p] = None
    BY <1>0 DEF ScriptOK, UsersOK
  <1>5. Placeholder \in Nat \ {0}
    BY AccountsAssumption
  <1>6. /\ users' \in [User -> UserRow] /\ users'[u] = row
        /\ origin' \in [User -> {None, "start", "self"} \union Invite]
        /\ Rows' = {u} /\ origin'[u] = "start"
        /\ \A v \in User : origin'[v] = origin[v] \/ origin'[v] = "start"
    BY <1>0, <1>1, <1>2, <1>3, <1>4, <1>5 DEF Rows
  <1>7. TInv'
    BY <1>0, <1>6 DEF TInv, TypeOK, idle
  <1>8. Untouched'
    BY <1>0, <1>6 DEF Untouched, idle, Issued
  <1>9. /\ memory' \in Memory /\ memory'.row = <<>> /\ memory'.keys = {0} /\ memory'.fallback = 1
        /\ memory'.emails = {MigrationEmail} /\ memory'.placeholder = u
    <2>1. memory \in Memory
      BY <1>4, FreshIs
    <2>2. /\ memory' \in Memory /\ memory'.row = memory.row /\ memory'.keys = memory.keys
          /\ memory'.fallback = memory.fallback /\ memory'.emails = memory.emails
          /\ memory'.placeholder = u
      BY <1>0, <1>1, <2>1 DEF Memory
    <2> QED
      BY <1>4, <2>2, FreshIs
  <1>10. PlaceOK'
    BY <1>0 DEF ScriptOK, PlaceOK, Stages, Placed, Collections
  <1>11. Len(<<>>) = 0 /\ DOMAIN <<>> = {} /\ \A S : <<>> \in Seq(S)
    BY EmptySeq, LenProperties
  <1>12. Copying'
    <2>1. IsFiniteSet({0}) /\ Cardinality({0}) = 1
      BY FS_Singleton
    <2>2. 1 .. (1 - 1) = {}
      OBVIOUS
    <2>3. Len(memory'.row) = at' - 1
      BY <1>0, <1>9, <1>11
    <2>4. ASSUME NEW v \in Rows'
          PROVE  users'[v].email \in memory'.emails /\ users'[v].key \in memory'.keys \union {Placeholder}
      BY <1>2, <1>6, <1>9, <2>4
    <2>5. IsFiniteSet(memory'.keys) /\ Cardinality(memory'.keys) <= at' /\ 0 \in memory'.keys
      <3>1. memory'.keys = {0} /\ at' = 1
        BY <1>0, <1>9
      <3>2. IsFiniteSet(memory'.keys) /\ Cardinality(memory'.keys) = 1 /\ 0 \in memory'.keys
        BY <2>1, <3>1
      <3> QED
        BY <3>1, <3>2
    <2>6. memory'.fallback > 0 /\ 1 .. (memory'.fallback - 1) \subseteq memory'.keys
      BY <1>9, <2>2
    <2>7. \A p \in Person : links'[p] = None
      BY <1>0, <1>4
    <2> QED
      BY <2>3, <2>4, <2>5, <2>6, <2>7 DEF Copying
  <1>13. UsersOK'
    BY <1>0, <1>9, <1>11, <1>12 DEF UsersOK, u
  <1>14. deliveries = <<>> /\ invoices = <<>> /\ orders = <<>>
    BY <1>0 DEF ScriptOK, DeliveriesOK, InvoicesOK, OrdersOK
  <1>15. DeliveriesOK'
    BY <1>0, <1>11, <1>14 DEF DeliveriesOK, Placed, Collections
  <1>16. InvoicesOK'
    BY <1>0, <1>11, <1>14 DEF InvoicesOK, Placed, Collections
  <1>17. OrdersOK'
    BY <1>0, <1>11, <1>14 DEF OrdersOK, Placed, Collections
  <1> QED
    BY <1>7, <1>8, <1>10, <1>13, <1>15, <1>16, <1>17 DEF ScriptOK

\* Copying a user leaves the other collections where they are.
LEMMA UsersLeaveRest ==
  ASSUME ScriptOK, MigrateUser, stage' \in {"users", "deliveries"}, stage' = "deliveries" => at' = 1
  PROVE  DeliveriesOK' /\ InvoicesOK' /\ OrdersOK'
  <1>0. stage = "users" /\ UNCHANGED <<deliveries, invoices, orders, mongo>>
    BY DEF MigrateUser
  <1>1. deliveries = <<>> /\ invoices = <<>> /\ orders = <<>>
    BY <1>0 DEF ScriptOK, DeliveriesOK, InvoicesOK, OrdersOK
  <1>2. Len(<<>>) = 0 /\ DOMAIN <<>> = {} /\ \A S : <<>> \in Seq(S)
    BY EmptySeq, LenProperties
  <1>3. DeliveriesOK'
    BY <1>0, <1>1, <1>2 DEF DeliveriesOK, Placed, Collections
  <1>4. InvoicesOK'
    BY <1>0, <1>1, <1>2 DEF InvoicesOK, Placed, Collections
  <1>5. OrdersOK'
    BY <1>0, <1>1, <1>2 DEF OrdersOK, Placed, Collections
  <1> QED
    BY <1>3, <1>4, <1>5

LEMMA EmptySkipped ==
  ASSUME TInv, ScriptOK, Untouched, SkipEmpty
  PROVE  TInv' /\ ScriptOK' /\ Untouched'
  <1>0. /\ stage \in Collections /\ Docs[stage] = <<>> /\ stage' = After[stage] /\ at' = 1
        /\ UNCHANGED <<idle, users, links, deliveries, invoices, orders, origin, mongo, memory>>
        /\ Len(<<>>) = 0
    BY DocsAre, EmptySeq DEF SkipEmpty, copied
  <1>1. at = 1
    BY <1>0 DEF ScriptOK, PlaceOK
  <1>2. TInv' /\ Untouched'
    BY <1>0, TablesStay
  <1>3. PlaceOK'
    <2>1. After[stage] \in Stages
      BY <1>0, AfterIs DEF Stages, Placed, Collections
    <2> QED
      BY <1>0, <2>1 DEF ScriptOK, PlaceOK
  <1>4. /\ stage = "users" => Len(mongo.users) = 0 /\ stage' = "deliveries"
        /\ stage = "deliveries" => Len(mongo.deliveries) = 0 /\ stage' = "invoices"
        /\ stage = "invoices" => Len(mongo.invoices) = 0 /\ stage' = "orders"
        /\ stage = "orders" => Len(mongo.orders) = 0 /\ stage' = "links"
        /\ stage = "links" => Len(mongo.invoices) = 0 /\ stage' = "settle"
    BY <1>0, DocsAre, AfterIs
  <1>5. UsersOK'
    BY <1>0, <1>1, <1>4 DEF ScriptOK, UsersOK, Copying, Placed, Collections
  <1>6. DeliveriesOK'
    BY <1>0, <1>1, <1>4 DEF ScriptOK, DeliveriesOK, Placed, Collections, Kept
  <1>7. InvoicesOK'
    BY <1>0, <1>1, <1>4 DEF ScriptOK, InvoicesOK, Placed, Collections, Kept
  <1>8. OrdersOK'
    BY <1>0, <1>1, <1>4 DEF ScriptOK, OrdersOK, Placed, Collections, Kept, Due
  <1> QED
    BY <1>2, <1>3, <1>5, <1>6, <1>7, <1>8 DEF ScriptOK

LEMMA RunStops ==
  ASSUME TInv, ScriptOK, Untouched, StopRun
  PROVE  TInv' /\ ScriptOK' /\ Untouched'
  <1>0. /\ stage' = "stopped" /\ at' = 1 /\ memory' = Fresh
        /\ UNCHANGED <<idle, users, links, origin, mongo>>
    BY DEF StopRun, copied
  <1>1. TInv' /\ Untouched'
    BY <1>0, TablesStay
  <1>2. PlaceOK' /\ UsersOK'
    BY <1>0, FreshIs DEF ScriptOK, PlaceOK, UsersOK, Stages, Placed, Collections
  <1>3. DeliveriesOK' /\ InvoicesOK' /\ OrdersOK'
    BY <1>0 DEF DeliveriesOK, InvoicesOK, OrdersOK, Placed, Collections
  <1> QED
    BY <1>1, <1>2, <1>3 DEF ScriptOK

LEMMA GoesLive ==
  ASSUME TInv, ScriptOK, Untouched, GoLive
  PROVE  TInv' /\ ScriptOK' /\ Untouched'
  <1>0. /\ stage = "done" /\ stage' = "live" /\ memory' = Fresh
        /\ uninvoiced' = {orders[n].buyer : n \in {i \in DOMAIN orders : orders[i].invoice = 0}}
        /\ unpaid' = {invoices[n].buyer : n \in {i \in DOMAIN invoices : ~invoices[i].paid}}
        /\ UNCHANGED <<policy, users, invites, links, req, begun, lost, origin, crossed, cut, signedIn,
                       mongo, at>>
    BY DEF GoLive, tables, history
  <1>1. uninvoiced' \subseteq User /\ unpaid' \subseteq User
    <2>1. orders \in Seq(OrderRow) /\ invoices \in Seq(InvoiceRow)
      BY <1>0 DEF ScriptOK, OrdersOK, InvoicesOK, Placed
    <2>2. \A n \in DOMAIN orders : orders[n] \in OrderRow
      BY <2>1, LenProperties, ElementOfSeq
    <2>3. \A n \in DOMAIN invoices : invoices[n] \in InvoiceRow
      BY <2>1, LenProperties, ElementOfSeq
    <2> QED
      BY <1>0, <2>2, <2>3 DEF OrderRow, InvoiceRow
  <1>2. TInv'
    BY <1>0, <1>1 DEF TInv, TypeOK
  <1>3. Untouched'
    BY <1>0 DEF Untouched, Issued, Rows
  <1>4. PlaceOK' /\ UsersOK'
    BY <1>0, FreshIs DEF ScriptOK, PlaceOK, UsersOK, Stages, Placed, Collections
  <1>5. DeliveriesOK' /\ InvoicesOK' /\ OrdersOK'
    BY <1>0 DEF DeliveriesOK, InvoicesOK, OrdersOK, Placed, Collections
  <1> QED
    BY <1>2, <1>3, <1>4, <1>5 DEF ScriptOK

LEMMA MigrateStep ==
  ASSUME TInv, ScriptOK, Untouched, Migrate
  PROVE  TInv' /\ ScriptOK' /\ Untouched'
  <1>1. CASE MigrateUser
    <2>1. stage' = "deliveries" => at' = 1
      BY <1>1, AdvancePlace, AfterIs DEF MigrateUser, Advance
    <2> QED
      BY <1>1, <2>1, UserMigrates, UsersLeaveRest DEF ScriptOK
  <1>2. ASSUME UNCHANGED <<idle, users, origin, links>>, ScriptOK'
        PROVE  TInv' /\ ScriptOK' /\ Untouched'
    BY <1>2, TablesStay
  <1>3. CASE MigrateDelivery
    BY <1>2, <1>3, DeliveryMigrates DEF MigrateDelivery
  <1>4. CASE MigrateInvoice
    BY <1>2, <1>4, InvoiceMigrates DEF MigrateInvoice
  <1>5. CASE MigrateOrder
    BY <1>2, <1>5, OrderMigrates DEF MigrateOrder
  <1>6. CASE LinkOrders
    BY <1>2, <1>6, OrdersLinked DEF LinkOrders
  <1>7. CASE SettleGroup
    BY <1>2, <1>7, GroupSettles DEF SettleGroup
  <1>8. CASE Normalise
    BY <1>2, <1>8, Normalises DEF Normalise
  <1> QED
    BY <1>1, <1>3, <1>4, <1>5, <1>6, <1>7, <1>8, RunStarts, PlaceholdersCreated, EmptySkipped,
       RunStops, GoesLive
    DEF Migrate

-----------------------------------------------------------------------------
(* What holds of the accounts, on whatever tables the script leaves.       *)

\* Where no request has touched the tables, all that the requests keep holds.
LEMMA UntouchedIsSound == TInv /\ Untouched => NInv /\ IInv /\ LInv /\ AInv
  <1> SUFFICES ASSUME TInv, Untouched PROVE NInv /\ IInv /\ LInv /\ AInv
    OBVIOUS
  <1>1. \A r \in Request : req[r] = Blank /\ req[r].pc = "idle"
    BY BlankOK DEF Untouched
  <1>2. NInv
    BY <1>1 DEF Untouched, NInv, NumbersFillUp, Carrying, Rows
  <1>3. IInv
    <2>1. \A u \in User : origin[u] \notin Invite
      BY AccountsAssumption DEF Untouched
    <2>2. \A r \in Request : InviteOK(req[r])
      BY <1>1 DEF InviteOK, Registering, Accepting, Locking
    <2> QED
      BY <1>1, <2>1, <2>2 DEF Untouched, IInv, OneLock, Locking, UsedInviteIsClosed, Rows
  <1>4. LInv
    BY <1>1 DEF Untouched, LInv
  <1>5. AInv
    BY <1>1 DEF AInv, SeenOther
  <1> QED
    BY <1>2, <1>3, <1>4, <1>5

Sound == TInv /\ MInv /\ NInv /\ IInv /\ LInv /\ AInv

LEMMA SoundInit == MigrationInit => Sound
  <1> SUFFICES ASSUME MigrationInit PROVE Sound
    OBVIOUS
  <1>1. TInv
    BY InitTyped DEF MigrationInit
  <1>2. Untouched
    <2>1. /\ req = [r \in Request |-> Blank] /\ \A i \in Invite : ~Issued(i)
          /\ signedIn = {} /\ \A p \in Person : links[p] = None
      BY DEF MigrationInit, Init, Issued, NoInvite
    <2>2. \A u \in User : origin[u] \in {None, "start"} /\ (u \in Rows => origin[u] = "start")
      BY DEF MigrationInit, Init, Rows
    <2> QED
      BY <2>1, <2>2 DEF Untouched
  <1>3. ScriptOK
    BY FreshIs DEF MigrationInit, ScriptOK, PlaceOK, UsersOK, DeliveriesOK, InvoicesOK, OrdersOK,
      Stages, Placed, Collections
  <1> QED
    BY <1>1, <1>2, <1>3, UntouchedIsSound DEF Sound, MInv

LEMMA SoundNext == Sound /\ [MigrationNext]_<<vars, script>> => Sound'
  <1> SUFFICES ASSUME Sound, [MigrationNext]_<<vars, script>> PROVE Sound'
    OBVIOUS
  <1>1. CASE Migrate
    <2>1. stage # "live"
      BY <1>1, DocsAre DEF Migrate, StartRun, CreatePlaceholders, MigrateUser, MigrateDelivery,
        MigrateInvoice, MigrateOrder, LinkOrders, SettleGroup, Normalise, SkipEmpty, StopRun, GoLive,
        Collections
    <2>2. TInv' /\ ScriptOK' /\ Untouched'
      BY <1>1, <2>1, MigrateStep DEF Sound, MInv
    <2>3. (TInv /\ Untouched)' => (NInv /\ IInv /\ LInv /\ AInv)'
      BY UntouchedIsSound, PTL
    <2> QED
      BY <2>2, <2>3 DEF Sound, MInv
  <1>2. CASE UNCHANGED script /\ [Next]_vars /\ (stage = "live" \/ UNCHANGED vars)
    <2>1. TInv' /\ NInv' /\ IInv' /\ LInv' /\ AInv'
      BY <1>2, TInvNext, NInvNext, IInvNext, LInvNext, AInvNext DEF Sound
    <2>2. CASE stage = "live"
      BY <1>2, <2>2, <2>1 DEF Sound, MInv, ScriptOK, PlaceOK, UsersOK, DeliveriesOK, InvoicesOK,
        OrdersOK, Placed, Collections, script
    <2>3. CASE UNCHANGED vars
      BY <1>2, <2>1, <2>3 DEF Sound, MInv, ScriptOK, PlaceOK, UsersOK, DeliveriesOK, InvoicesOK,
        OrdersOK, script, vars, Docs, Copying, Rows, Kept, Due, Orphaned, SupplierOf, Untouched, Issued
    <2> QED
      BY <1>2, <2>2, <2>3
  <1> QED
    BY <1>1, <1>2 DEF MigrationNext

LEMMA SoundMigration == MigrationSpec => []Sound
  BY SoundInit, SoundNext, PTL DEF MigrationSpec

\* Whatever the former database holds, wherever the script stops and however
\* often it runs, the tables of accounts hold rows of their types, and do so
\* when the application works on them.
THEOREM MigrationTyped == MigrationSpec => []TypeOK
  <1>1. Sound => TypeOK
    BY DEF Sound, TInv
  <1> QED
    BY <1>1, SoundMigration, PTL

\* After any complete run, what was owed is owed by and to the same people,
\* and what the placeholder stands for is settled.
THEOREM DebtsComeAlong == MigrationSpec => []DebtsMigrate
  <1>1. Sound => DebtsMigrate
    <2> SUFFICES ASSUME Sound, stage = "done" PROVE DebtsSurvive /\ PlaceholderIsSettled
      BY DEF DebtsMigrate, DebtsSurvive, PlaceholderIsSettled
    <2>1. /\ orders \in Seq(OrderRow) /\ Len(orders) = Len(mongo.orders) /\ Orphaned = {}
          /\ \A n \in DOMAIN orders :
               /\ orders[n].delivery = mongo.orders[n].delivery
               /\ Kept(mongo.orders[n].buyer) => orders[n].buyer = Ids[mongo.orders[n].buyer + 1]
               /\ Due(n) => orders[n].invoice = 0
               /\ orders[n].invoice <= Len(invoices)
      BY DEF Sound, MInv, ScriptOK, OrdersOK, Placed
    <2>2. /\ invoices \in Seq(InvoiceRow) /\ Len(invoices) >= Len(mongo.invoices)
          /\ \A n \in DOMAIN invoices \intersect DOMAIN mongo.invoices :
              LET doc == mongo.invoices[n] IN
              Kept(doc.buyer) /\ Kept(doc.supplier)
                => invoices[n] = [buyer |-> Ids[doc.buyer + 1],
                                  supplier |-> Ids[doc.supplier + 1], paid |-> doc.paid]
          /\ \A n \in DOMAIN invoices :
              memory.placeholder \in {invoices[n].buyer, invoices[n].supplier} => invoices[n].paid
      BY DEF Sound, MInv, ScriptOK, InvoicesOK, Placed
    <2>3. /\ DOMAIN orders = DOMAIN mongo.orders
          /\ DOMAIN mongo.invoices \subseteq DOMAIN invoices
          /\ DOMAIN invoices = 1 .. Len(invoices) /\ Len(invoices) \in Nat
      <3>1. mongo.orders \in Seq(OrderDoc) /\ mongo.invoices \in Seq(InvoiceDoc)
        BY DocsTyped DEF Sound, MInv, ScriptOK, PlaceOK
      <3> QED
        BY <2>1, <2>2, <3>1, LenProperties
    <2>4. DebtsSurvive
      <3>1. ASSUME NEW n \in DOMAIN mongo.orders, Due(n)
            PROVE  orders[n].invoice = 0 /\ orders[n].buyer = Ids[mongo.orders[n].buyer + 1]
        BY <2>1, <2>3, <3>1 DEF Due
      <3> QED
        BY <2>2, <2>3, <3>1 DEF DebtsSurvive, Due
    <2>5. PlaceholderIsSettled
      <3>1. ASSUME NEW n \in DOMAIN orders,
                   memory.placeholder \in {orders[n].buyer, SupplierOf(orders[n].delivery)}
            PROVE  orders[n].invoice \in DOMAIN invoices
        <4>1. orders[n] \in OrderRow
          BY <2>1, LenProperties, ElementOfSeq
        <4>2. orders[n].invoice # 0
          BY <2>1, <3>1 DEF Orphaned
        <4> QED
          BY <2>1, <2>3, <4>1, <4>2 DEF OrderRow
      <3> QED
        BY <2>2, <3>1 DEF PlaceholderIsSettled
    <2> QED
      BY <2>4, <2>5
  <1> QED
    BY <1>1, SoundMigration, PTL

\* On the tables of any run, too: the numbers the application hands out fill
\* the gaps the former keypad numbers left.
THEOREM MigratedKeypadHasNoGaps == MigrationSpec => []NumbersFillUp
  <1>1. Sound => NumbersFillUp
    BY DEF Sound, NInv
  <1> QED
    BY <1>1, SoundMigration, PTL

\* While the script runs there is no invitation, and once it is done the requests treat
\* those they make as on tables of their own.
LEMMA MigrationLetsNobodyIn ==
  Sound /\ [MigrationNext]_<<vars, script>> => [ClosedLetsNobodyIn]_vars
  <1> SUFFICES ASSUME Sound, [MigrationNext]_<<vars, script>> PROVE [ClosedLetsNobodyIn]_vars
    OBVIOUS
  <1>1. CASE Migrate
    <2>1. stage # "live"
      BY <1>1, DocsAre DEF Migrate, StartRun, CreatePlaceholders, MigrateUser, MigrateDelivery,
        MigrateInvoice, MigrateOrder, LinkOrders, SettleGroup, Normalise, SkipEmpty, StopRun, GoLive,
        Collections
    <2>2. Untouched
      BY <2>1 DEF Sound, MInv
    <2> QED
      BY <2>2 DEF Untouched, ClosedLetsNobodyIn, Closed
  <1>2. CASE [Next]_vars
    BY <1>2, ClosedStep DEF Sound
  <1> QED
    BY <1>1, <1>2 DEF MigrationNext, vars

\* Invitations and identities, on the tables of any run: a closed invitation lets nobody
\* in but the sign-ins it let in before, and a migrated identity keeps its account.
THEOREM MigratedAccountsStay == MigrationSpec => InvitesStayClosed /\ []PersonKeepsAccount
  <1>1. Sound => UsedInviteIsClosed /\ SupersededStaysClosed
    BY InvitesClosed DEF Sound
  <1>2. Sound => PersonKeepsAccount
    BY PersonsKept DEF Sound
  <1> QED
    BY <1>1, <1>2, MigrationLetsNobodyIn, SoundMigration, PTL DEF MigrationSpec, InvitesStayClosed

\* Once the application runs on migrated tables, the last active admin goes
\* only in a crossing of two updates.
THEOREM LiveAdminsGoInCrossings == MigrationSpec => LastAdminLostLive
  <1>1. Sound /\ [MigrationNext]_<<vars, script>> => [stage = "live" => LostInCrossing]_vars
    <2> SUFFICES ASSUME Sound, [MigrationNext]_<<vars, script>>, stage = "live", ~(UNCHANGED vars)
                 PROVE  LostInCrossing
      OBVIOUS
    <2>1. ~Migrate
      BY DocsAre DEF Migrate, StartRun, CreatePlaceholders, MigrateUser, MigrateDelivery,
        MigrateInvoice, MigrateOrder, LinkOrders, SettleGroup, Normalise, SkipEmpty, StopRun, GoLive,
        Collections
    <2>2. Next
      BY <2>1 DEF MigrationNext
    <2> QED
      BY <2>2, LastAdminStep DEF Sound
  <1> QED
    BY <1>1, SoundMigration, PTL DEF MigrationSpec, LastAdminLostLive

-----------------------------------------------------------------------------
(* The script decides by itself.  Where a run is, and what its tables hold, *)
(* follow from the documents alone, but for the addresses made up: a run is *)
(* a walk along StepFrom from its beginning, and all of them end together. *)

\* What a run keeps, and the tables it fills, without the made-up addresses.
Progress ==
  [stage |-> stage, at |-> at, memory |-> [memory EXCEPT !.emails = @ \ Anon],
   users |-> Plain(users), links |-> links, deliveries |-> deliveries,
   invoices |-> invoices, orders |-> orders]

Beginning ==
  [stage |-> "placeholders", at |-> 1, memory |-> [Fresh EXCEPT !.emails = @ \ Anon],
   users |-> [u \in User |-> NoRow], links |-> [p \in Person |-> None],
   deliveries |-> <<>>, invoices |-> <<>>, orders |-> <<>>]

\* Docs, UserOf, SupplierOf, Orphaned and Rank, of such a record.
Contents(m) == [users |-> m.users, deliveries |-> m.deliveries,
                invoices |-> m.invoices, orders |-> m.orders, links |-> m.invoices]
UserIn(s, n) ==
  IF n = 0 \/ s.memory.row[n] = None THEN s.memory.placeholder ELSE s.memory.row[n]
SupplierIn(s, d) == IF d = 0 THEN s.memory.placeholder ELSE s.deliveries[d]
OrphanedIn(s) ==
  {n \in DOMAIN s.orders :
    /\ s.orders[n].invoice = 0
    /\ s.memory.placeholder \in {s.orders[n].buyer, SupplierIn(s, s.orders[n].delivery)}}
RankIn(s, n) ==
  Position(s.orders[n].buyer) * Len(Ids) + Position(SupplierIn(s, s.orders[n].delivery))

\* The address a document brings along, if it is not replaced.
Brought(s, doc) ==
  IF doc.email \notin Anon \union s.memory.emails THEN doc.email ELSE None

Shown(e) == IF e \in Anon THEN None ELSE e

WithPlaceholder(s) ==
  [s EXCEPT !.stage = "users", !.at = 1, !.memory = [s.memory EXCEPT !.placeholder = Ids[1]],
            !.users = [s.users EXCEPT ![Ids[1]] =
               [email |-> Shown(MigrationEmail), role |-> "customer", disabled |-> TRUE,
                key |-> Placeholder]]]

WithUser(s, doc) ==
  LET k == KeyOf(doc, s.memory)
      e == Brought(s, doc)
      u == Ids[s.at + 1]
      fits == k # Placeholder
      new == fits /\ doc.identity # None /\ doc.identity \notin s.memory.people IN
  [s EXCEPT
    !.memory = [s.memory EXCEPT
       !.row = Append(@, IF fits THEN u ELSE None), !.keys = @ \union {k},
       !.fallback = IF k = doc.key THEN @ ELSE k + 1, !.emails = @ \union ({e} \ {None}),
       !.people = IF new THEN @ \union {doc.identity} ELSE @],
    !.users = IF fits THEN [s.users EXCEPT ![u] = [email |-> e, role |-> doc.role,
                                                   disabled |-> doc.disabled, key |-> k]]
              ELSE s.users,
    !.links = IF new THEN [s.links EXCEPT ![doc.identity] = u] ELSE s.links]

WithDocument(m, s) ==
  CASE s.stage = "users" -> WithUser(s, m.users[s.at])
    [] s.stage = "deliveries" ->
         [s EXCEPT !.deliveries = Append(s.deliveries, UserIn(s, m.deliveries[s.at]))]
    [] s.stage = "invoices" ->
         LET doc == m.invoices[s.at] IN
         [s EXCEPT !.invoices = Append(s.invoices,
            [buyer |-> UserIn(s, doc.buyer), supplier |-> UserIn(s, doc.supplier),
             paid |-> doc.paid])]
    [] s.stage = "orders" ->
         LET doc == m.orders[s.at] IN
         [s EXCEPT !.orders = Append(s.orders,
            [buyer |-> UserIn(s, doc.buyer), delivery |-> doc.delivery, invoice |-> doc.invoice])]
    [] s.stage = "links" ->
         [s EXCEPT !.orders = [n \in DOMAIN s.orders |->
            IF n \in m.invoices[s.at].orders /\ s.orders[n].invoice = 0
              THEN [s.orders[n] EXCEPT !.invoice = s.at] ELSE s.orders[n]]]

\* The place after a document.
Moved(m, s, t) ==
  IF s.at < Len(Contents(m)[s.stage]) THEN [t EXCEPT !.at = s.at + 1]
  ELSE [t EXCEPT !.stage = After[s.stage], !.at = 1]

Least(s) == CHOOSE n \in OrphanedIn(s) : \A i \in OrphanedIn(s) : RankIn(s, n) <= RankIn(s, i)

WithGroup(s, n) ==
  [s EXCEPT
    !.invoices = Append(s.invoices, [buyer |-> s.orders[n].buyer,
       supplier |-> SupplierIn(s, s.orders[n].delivery), paid |-> TRUE]),
    !.orders = [i \in DOMAIN s.orders |->
       IF i \in OrphanedIn(s) /\ RankIn(s, i) = RankIn(s, n)
         THEN [s.orders[i] EXCEPT !.invoice = Len(s.invoices) + 1] ELSE s.orders[i]]]

Normalised(s) ==
  [s EXCEPT !.stage = "done", !.at = 1,
    !.invoices = [n \in DOMAIN s.invoices |->
       IF s.memory.placeholder \in {s.invoices[n].buyer, s.invoices[n].supplier}
         THEN [s.invoices[n] EXCEPT !.paid = TRUE] ELSE s.invoices[n]]]

StepFrom(m, s) ==
  IF s.stage = "placeholders" THEN WithPlaceholder(s)
  ELSE IF s.stage = "settle" THEN IF OrphanedIn(s) = {} THEN Normalised(s) ELSE WithGroup(s, Least(s))
  ELSE IF Contents(m)[s.stage] = <<>> THEN [s EXCEPT !.stage = After[s.stage], !.at = 1]
  ELSE Moved(m, s, WithDocument(m, s))


\* A walk of n steps, and where walks lead.
Walk(m, t, n) ==
  /\ t[0] = Beginning
  /\ \A i \in 0 .. (n - 1) : t[i].stage # "done" /\ t[i + 1] = StepFrom(m, t[i])
Reached(m, s) == \E n \in Nat : \E t : Walk(m, t, n) /\ t[n] = s

LEMMA WalkBegins ==
  ASSUME NEW m
  PROVE  Reached(m, Beginning)
  <1> DEFINE t == [i \in {0} |-> Beginning]
  <1>1. Walk(m, t, 0) /\ t[0] = Beginning
    BY DEF Walk
  <1> HIDE DEF t
  <1> QED
    BY <1>1 DEF Reached

LEMMA WalkGoesOn ==
  ASSUME NEW m, NEW s, Reached(m, s), s.stage # "done"
  PROVE  Reached(m, StepFrom(m, s))
  <1>0. PICK n \in Nat : \E t : Walk(m, t, n) /\ t[n] = s
    BY DEF Reached
  <1>1. PICK t : Walk(m, t, n) /\ t[n] = s
    BY <1>0
  <1> DEFINE w == [i \in 0 .. (n + 1) |-> IF i = n + 1 THEN StepFrom(m, s) ELSE t[i]]
  <1>2. /\ \A i \in 0 .. n : w[i] = t[i]
        /\ w[n + 1] = StepFrom(m, s)
    OBVIOUS
  <1> HIDE DEF w
  <1>3. ASSUME NEW i \in 0 .. ((n + 1) - 1)
        PROVE  w[i].stage # "done" /\ w[i + 1] = StepFrom(m, w[i])
    <2>1. CASE i = n
      BY <1>1, <1>2, <2>1
    <2>2. CASE i # n
      <3>1. i \in 0 .. (n - 1) /\ i \in 0 .. n /\ i + 1 \in 0 .. n
        BY <2>2
      <3> QED
        BY <1>1, <1>2, <3>1 DEF Walk
    <2> QED
      BY <2>1, <2>2
  <1>4. w[0] = Beginning
    BY <1>1, <1>2 DEF Walk
  <1>5. Walk(m, w, n + 1)
    BY <1>3, <1>4 DEF Walk
  <1> QED
    BY <1>2, <1>5 DEF Reached

\* Two walks take the same steps, as far as both go.
LEMMA WalksAgree ==
  ASSUME NEW m, NEW n \in Nat, NEW k \in Nat, NEW t, NEW w, Walk(m, t, n), Walk(m, w, k)
  PROVE  \A i \in Nat : i <= n /\ i <= k => t[i] = w[i]
  <1> DEFINE C == {i \in Nat : i <= n /\ i <= k /\ t[i] # w[i]}
  <1> SUFFICES ASSUME C # {} PROVE FALSE
    OBVIOUS
  <1>1. PICK i \in C : \A j \in C : i <= j
    BY LeastKey
  <1>2. i # 0
    BY <1>1 DEF Walk
  <1>3. i - 1 \in Nat /\ i - 1 \in 0 .. (n - 1) /\ i - 1 \in 0 .. (k - 1) /\ (i - 1) + 1 = i
    BY <1>1, <1>2
  <1>4. t[i - 1] = w[i - 1]
    BY <1>1, <1>3
  <1>5. t[i] = w[i]
    BY <1>3, <1>4 DEF Walk
  <1> QED
    BY <1>1, <1>5

\* All that end, end at the same.
LEMMA WalksEndTogether ==
  ASSUME NEW m, NEW s, NEW r, Reached(m, s), Reached(m, r), s.stage = "done", r.stage = "done"
  PROVE  s = r
  <1>0. PICK n \in Nat, k \in Nat : (\E t : Walk(m, t, n) /\ t[n] = s) /\ (\E w : Walk(m, w, k) /\ w[k] = r)
    BY DEF Reached
  <1>1. PICK t : Walk(m, t, n) /\ t[n] = s
    BY <1>0
  <1>2. PICK w : Walk(m, w, k) /\ w[k] = r
    BY <1>0
  <1>3. \A i \in Nat : i <= n /\ i <= k => t[i] = w[i]
    BY <1>1, <1>2, WalksAgree
  <1>4. ~(n < k)
    <2>1. ASSUME n < k PROVE FALSE
      <3>1. n \in 0 .. (k - 1) /\ n <= k
        BY <2>1
      <3> QED
        BY <1>1, <1>2, <1>3, <3>1 DEF Walk
    <2> QED
      BY <2>1
  <1>5. ~(k < n)
    <2>1. ASSUME k < n PROVE FALSE
      <3>1. k \in 0 .. (n - 1) /\ k <= n
        BY <2>1
      <3> QED
        BY <1>1, <1>2, <1>3, <3>1 DEF Walk
    <2> QED
      BY <2>1
  <1>6. n = k
    BY <1>4, <1>5
  <1> QED
    BY <1>1, <1>2, <1>3, <1>6

-----------------------------------------------------------------------------
(* Each statement of the script is the next step of the walk.              *)

LEMMA ContentsAre == Contents(mongo) = Docs /\ Contents(mongo)' = Docs'
  BY DEF Contents, Docs

LEMMA BeginningIs ==
  ASSUME StartRun
  PROVE  Progress' = Beginning
  <1>1. \A u \in User : NoRow.email \notin Anon
    BY AccountsAssumption, MigrationAssumption DEF NoRow
  <1>2. /\ stage' = "placeholders" /\ at' = 1 /\ memory' = Fresh
        /\ users' = [u \in User |-> NoRow]
        /\ links' = [p \in Person |-> None]
        /\ deliveries' = <<>> /\ invoices' = <<>> /\ orders' = <<>>
    BY DEF StartRun, Truncated
  <1>3. Plain(users') = [u \in User |-> NoRow]
    BY <1>1, <1>2 DEF Plain
  <1> QED
    BY <1>2, <1>3 DEF Progress, Beginning

LEMMA PlainRow ==
  ASSUME NEW u \in User, users \in [User -> UserRow], NEW row \in UserRow
  PROVE  Plain([users EXCEPT ![u] = row])
           = [Plain(users) EXCEPT ![u] = [email |-> Shown(row.email), role |-> row.role,
                                          disabled |-> row.disabled, key |-> row.key]]
  <1>1. /\ DOMAIN Plain([users EXCEPT ![u] = row]) = User
        /\ \A v \in User : Plain([users EXCEPT ![u] = row])[v]
             = IF v = u THEN IF row.email \in Anon THEN [row EXCEPT !.email = None] ELSE row
               ELSE Plain(users)[v]
    BY DEF Plain
  <1>2. (IF row.email \in Anon THEN [row EXCEPT !.email = None] ELSE row)
          = [email |-> Shown(row.email), role |-> row.role, disabled |-> row.disabled, key |-> row.key]
    BY DEF UserRow, Shown
  <1>3. DOMAIN Plain(users) = User
    BY DEF Plain
  <1> QED
    BY <1>1, <1>2, <1>3 DEF Plain

LEMMA PlaceholderSteps ==
  ASSUME TInv, ScriptOK, CreatePlaceholders
  PROVE  Progress' = StepFrom(mongo, Progress)
  <1> DEFINE row == [email |-> MigrationEmail, role |-> "customer", disabled |-> TRUE, key |-> Placeholder]
  <1>1. /\ stage = "placeholders" /\ stage' = "users" /\ at' = 1
        /\ users' = [users EXCEPT ![Ids[1]] = row]
        /\ memory' = [memory EXCEPT !.placeholder = Ids[1]]
        /\ UNCHANGED <<links, deliveries, invoices, orders>>
    BY DEF CreatePlaceholders
  <1>2. row \in UserRow
    BY AccountsAssumption, MigrationAssumption DEF UserRow
  <1>3. Ids[1] \in User
    <2>1. Ids \in Seq(User) /\ Len(mongo.users) < Len(Ids) /\ Len(mongo.users) \in Nat
      BY DocsTyped, MigrationAssumption, LenProperties DEF ScriptOK, PlaceOK
    <2>2. 1 \in 1 .. Len(Ids)
      BY <2>1, LenProperties
    <2> QED
      BY <2>1, <2>2, ElementOfSeq
  <1>4. Plain(users') = [Plain(users) EXCEPT ![Ids[1]] =
          [email |-> Shown(MigrationEmail), role |-> "customer", disabled |-> TRUE, key |-> Placeholder]]
    BY <1>1, <1>2, <1>3, PlainRow DEF TInv, TypeOK
  <1>5. memory \in Memory
    BY DEF ScriptOK, UsersOK
  <1>6. [memory' EXCEPT !.emails = memory'.emails \ Anon]
          = [[memory EXCEPT !.emails = memory.emails \ Anon] EXCEPT !.placeholder = Ids[1]]
    BY <1>1, <1>5 DEF Memory
  <1> QED
    BY <1>1, <1>4, <1>6 DEF Progress, StepFrom, WithPlaceholder

\* The placeholder user keeps its number.
Reserved == stage \in Placed => users[Ids[1]].key = Placeholder

\* A document copied is a step of the walk, when its row is what WithDocument
\* says.
LEMMA DocumentSteps ==
  ASSUME ScriptOK, stage \in Collections, at <= Len(Docs[stage]), Advance,
         WithDocument(mongo, Progress) =
           [stage |-> stage, at |-> at, memory |-> [memory' EXCEPT !.emails = memory'.emails \ Anon],
            users |-> Plain(users'), links |-> links', deliveries |-> deliveries',
            invoices |-> invoices', orders |-> orders']
  PROVE  Progress' = StepFrom(mongo, Progress)
  <1> DEFINE t == [stage |-> stage, at |-> at,
                   memory |-> [memory' EXCEPT !.emails = memory'.emails \ Anon],
                   users |-> Plain(users'), links |-> links', deliveries |-> deliveries',
                   invoices |-> invoices', orders |-> orders']
  <1>1. t = [stage |-> stage, at |-> at, memory |-> [memory' EXCEPT !.emails = memory'.emails \ Anon],
             users |-> Plain(users'), links |-> links', deliveries |-> deliveries',
             invoices |-> invoices', orders |-> orders']
    OBVIOUS
  <1>2. Progress.stage = stage /\ Progress.at = at
    BY DEF Progress
  <1>3. Docs[stage] # <<>>
    <2>1. at \in Nat \ {0}
      BY DEF ScriptOK, PlaceOK
    <2>2. Len(<<>>) = 0
      BY EmptySeq
    <2> QED
      BY <2>1, <2>2
  <1>4. StepFrom(mongo, Progress) = Moved(mongo, Progress, t)
    BY <1>2, <1>3, ContentsAre DEF StepFrom, Collections
  <1> HIDE DEF t
  <1>5. Moved(mongo, Progress, t)
          = [stage |-> stage', at |-> at', memory |-> [memory' EXCEPT !.emails = memory'.emails \ Anon],
             users |-> Plain(users'), links |-> links', deliveries |-> deliveries',
             invoices |-> invoices', orders |-> orders']
    BY <1>1, <1>2, ContentsAre DEF Moved, Advance
  <1> QED
    BY <1>4, <1>5 DEF Progress

LEMMA UserSteps ==
  ASSUME TInv, ScriptOK, Reserved, MigrateUser
  PROVE  Progress' = StepFrom(mongo, Progress) /\ users'[Ids[1]].key = Placeholder
  <1> DEFINE doc == mongo.users[at]
             k == KeyOf(doc, memory)
             u == Ids[at + 1]
  <1>0. /\ stage = "users" /\ at <= Len(mongo.users) /\ Advance
        /\ UNCHANGED <<deliveries, invoices, orders, mongo>>
        /\ Docs["users"] = mongo.users
    BY DocsAre DEF MigrateUser
  <1>1. /\ mongo.users \in Seq(MongoUser) /\ Len(mongo.users) < Len(Ids)
        /\ Len(mongo.users) < Placeholder /\ Ids \in Seq(User)
        /\ \A n, m \in DOMAIN Ids : Ids[n] = Ids[m] => n = m
        /\ at \in Nat \ {0} /\ memory \in Memory /\ Copying
        /\ at \in 1 .. Len(mongo.users) /\ Len(mongo.users) \in Nat
        /\ DOMAIN Ids = 1 .. Len(Ids) /\ Len(Ids) \in Nat
    BY <1>0, DocsTyped, LenProperties, MigrationAssumption DEF ScriptOK, PlaceOK, UsersOK
  <1>2. /\ doc \in MongoUser /\ u \in User /\ Ids[1] \in User /\ u # Ids[1]
    <2>1. doc \in MongoUser
      BY <1>1, ElementOfSeq
    <2>2. at + 1 \in 1 .. Len(Ids) /\ 1 \in 1 .. Len(Ids) /\ at + 1 # 1
      BY <1>1
    <2> QED
      BY <1>1, <2>1, <2>2, ElementOfSeq
  <1>3. k \in Nat \ {0} /\ k \notin memory.keys
    <2>1. PICK d \in MongoUser : d = doc
      BY <1>2
    <2>2. PICK j : j = k
      OBVIOUS
    <2>3. j = KeyOf(d, memory) /\ at \in Nat
      BY <1>1, <2>1, <2>2
    <2> HIDE DEF doc, k
    <2> QED
      BY <1>1, <2>1, <2>2, <2>3, KeyIs
  <1>4. PICK e \in EmailsOf(doc, memory) :
       /\ users' = IF Fits(e, k)
                   THEN [users EXCEPT ![u] = [email |-> e, role |-> doc.role,
                                              disabled |-> doc.disabled, key |-> k]]
                   ELSE users
       /\ links' = IF Fits(e, k) /\ doc.identity # None /\ doc.identity \notin memory.people
                     THEN [links EXCEPT ![doc.identity] = u] ELSE links
       /\ memory' = [memory EXCEPT
            !.row = Append(@, IF Fits(e, k) THEN u ELSE None),
            !.keys = @ \union {k},
            !.fallback = IF k = doc.key THEN @ ELSE k + 1,
            !.emails = @ \union {e},
            !.people = IF Fits(e, k) /\ doc.identity # None /\ doc.identity \notin memory.people
                         THEN @ \union {doc.identity} ELSE @]
    BY DEF MigrateUser
  <1> DEFINE s == [memory EXCEPT !.emails = memory.emails \ Anon]
  <1>5. /\ e \in Email /\ e \notin memory.emails /\ e # None
        /\ Shown(e) = IF doc.email \notin Anon \union (memory.emails \ Anon) THEN doc.email ELSE None
        /\ {e} \ Anon = {Shown(e)} \ {None}
    BY <1>2, MigrationAssumption, AccountsAssumption DEF EmailsOf, MongoUser, Shown
  <1>6. Fits(e, k) <=> k # Placeholder
    <2>1. k = Placeholder => k \in Keys
      <3>1. users[Ids[1]].key = Placeholder /\ Placeholder \in Nat \ {0}
        BY <1>0, AccountsAssumption DEF Reserved, Placed, Collections
      <3>2. Ids[1] \in Rows
        BY <1>2, <3>1 DEF Rows
      <3> QED
        BY <3>1, <3>2 DEF Keys
    <2>2. k # Placeholder => k \notin Keys
      BY <1>1, <1>3 DEF Copying, Keys
    <2>3. EmailFree(e)
      BY <1>1, <1>5 DEF Copying, EmailFree
    <2> QED
      BY <2>1, <2>2, <2>3 DEF Fits
  <1> DEFINE new == k # Placeholder /\ doc.identity # None /\ doc.identity \notin memory.people
             row == [email |-> e, role |-> doc.role, disabled |-> doc.disabled, key |-> k]
             plain == [email |-> Shown(e), role |-> doc.role, disabled |-> doc.disabled, key |-> k]
  <1>7. row \in UserRow /\ row.key = k
    BY <1>2, <1>3, <1>5 DEF UserRow, MongoUser
  <1>8. k = KeyOf(doc, s) /\ s.keys = memory.keys /\ s.people = memory.people
        /\ s.emails = memory.emails \ Anon /\ s.row = memory.row /\ s.fallback = memory.fallback
    BY <1>1 DEF Memory, KeyOf, Fallback
  <1>9. Plain(users') = IF k # Placeholder THEN [Plain(users) EXCEPT ![u] = plain] ELSE Plain(users)
    <2>1. CASE k # Placeholder
      <3>1. users' = [users EXCEPT ![u] = row]
        BY <1>4, <1>6, <2>1
      <3>2. users \in [User -> UserRow]
        BY DEF TInv, TypeOK
      <3> HIDE DEF k, u, doc
      <3> QED
        BY <1>2, <1>7, <2>1, <3>1, <3>2, PlainRow
    <2> QED
      BY <1>4, <1>6, <2>1
  <1> DEFINE mine == IF k # Placeholder THEN u ELSE None
             f == IF k = doc.key THEN memory.fallback ELSE k + 1
             known == IF new THEN memory.people \union {doc.identity} ELSE memory.people
  <1>10. memory' = [memory EXCEPT !.row = Append(memory.row, mine), !.keys = memory.keys \union {k},
                      !.fallback = f, !.emails = memory.emails \union {e}, !.people = known]
    BY <1>1, <1>4, <1>6 DEF Memory
  <1>11. links' = IF new THEN [links EXCEPT ![doc.identity] = u] ELSE links
    BY <1>4, <1>6
  <1>12. users'[Ids[1]].key = Placeholder
    BY <1>0, <1>2, <1>4 DEF Reserved, Placed, Collections, TInv, TypeOK
  <1>13. Shown(e) = Brought(Progress, doc)
    BY <1>1, <1>5 DEF Brought, Progress, Memory
  <1>14. Progress.memory = s /\ Progress.at = at /\ Progress.users = Plain(users)
         /\ Progress.links = links /\ Progress.stage = "users"
    BY <1>0 DEF Progress
  <1> DEFINE t == WithUser(Progress, doc)
  <1>15. t = [Progress EXCEPT
               !.memory = [s EXCEPT
                  !.row = Append(memory.row, mine), !.keys = memory.keys \union {k},
                  !.fallback = f, !.emails = (memory.emails \ Anon) \union ({Shown(e)} \ {None}),
                  !.people = known],
               !.users = IF k # Placeholder THEN [Plain(users) EXCEPT ![u] = plain] ELSE Plain(users),
               !.links = IF new THEN [links EXCEPT ![doc.identity] = u] ELSE links]
    <2> DEFINE j == KeyOf(doc, s)
    <2>1. j = k
      BY <1>8
    <2>2. t = [Progress EXCEPT
               !.memory = [s EXCEPT
                  !.row = Append(s.row, IF j # Placeholder THEN u ELSE None), !.keys = s.keys \union {j},
                  !.fallback = IF j = doc.key THEN s.fallback ELSE j + 1,
                  !.emails = s.emails \union ({Brought(Progress, doc)} \ {None}),
                  !.people = IF j # Placeholder /\ doc.identity # None /\ doc.identity \notin s.people
                               THEN s.people \union {doc.identity} ELSE s.people],
               !.users = IF j # Placeholder THEN [Plain(users) EXCEPT ![u] =
                           [email |-> Brought(Progress, doc), role |-> doc.role,
                            disabled |-> doc.disabled, key |-> j]] ELSE Plain(users),
               !.links = IF j # Placeholder /\ doc.identity # None /\ doc.identity \notin s.people
                           THEN [links EXCEPT ![doc.identity] = u] ELSE links]
      BY <1>14 DEF WithUser
    <2> HIDE DEF j, k, u, doc, s, t
    <2> QED
      BY <1>8, <1>13, <2>1, <2>2
  <1> HIDE DEF mine, f, known, k, u, doc, new, plain
  <1>16. [memory' EXCEPT !.emails = memory'.emails \ Anon]
           = [s EXCEPT !.row = Append(memory.row, mine), !.keys = memory.keys \union {k},
                !.fallback = f, !.emails = (memory.emails \ Anon) \union ({Shown(e)} \ {None}),
                !.people = known]
    <2>1. (memory.emails \union {e}) \ Anon = (memory.emails \ Anon) \union ({Shown(e)} \ {None})
      BY <1>5
    <2> QED
      BY <1>1, <1>10, <2>1 DEF Memory
  <1> HIDE DEF s, t
  <1> DEFINE M == [memory' EXCEPT !.emails = memory'.emails \ Anon]
             P == Plain(users')
  <1>17. t = [Progress EXCEPT !.memory = M, !.users = P, !.links = links']
    BY <1>9, <1>11, <1>15, <1>16 DEF plain
  <1>18. WithDocument(mongo, Progress) = t
    BY <1>14 DEF WithDocument, t, doc
  <1> HIDE DEF M, P
  <1>19. t = [stage |-> stage, at |-> at, memory |-> M, users |-> P, links |-> links',
              deliveries |-> deliveries, invoices |-> invoices, orders |-> orders]
    BY <1>17 DEF Progress
  <1> QED
    BY <1>0, <1>12, <1>18, <1>19, DocsAre, DocumentSteps DEF Collections, M, P

LEMMA InProgress ==
  ASSUME memory \in Memory
  PROVE  /\ Progress.memory.placeholder = memory.placeholder
         /\ \A n : UserIn(Progress, n) = UserOf(n)
         /\ \A d : SupplierIn(Progress, d) = SupplierOf(d)
         /\ OrphanedIn(Progress) = Orphaned
         /\ \A n : RankIn(Progress, n) = Rank(n)
         /\ [memory EXCEPT !.emails = memory.emails \ Anon] = Progress.memory
  <1>1. /\ Progress.memory.placeholder = memory.placeholder /\ Progress.memory.row = memory.row
        /\ Progress.orders = orders /\ Progress.deliveries = deliveries
        /\ [memory EXCEPT !.emails = memory.emails \ Anon] = Progress.memory
    BY DEF Progress, Memory
  <1> HIDE DEF Progress
  <1>2. \A n : UserIn(Progress, n) = UserOf(n)
    BY <1>1 DEF UserIn, UserOf
  <1>3. \A d : SupplierIn(Progress, d) = SupplierOf(d)
    BY <1>1 DEF SupplierIn, SupplierOf
  <1>4. OrphanedIn(Progress) = Orphaned
    BY <1>1, <1>3 DEF OrphanedIn, Orphaned
  <1>5. \A n : RankIn(Progress, n) = Rank(n)
    BY <1>1, <1>3 DEF RankIn, Rank
  <1> QED
    BY <1>1, <1>2, <1>3, <1>4, <1>5

LEMMA DeliverySteps ==
  ASSUME ScriptOK, MigrateDelivery
  PROVE  Progress' = StepFrom(mongo, Progress)
  <1>1. /\ stage = "deliveries" /\ at <= Len(Docs[stage]) /\ Advance
        /\ deliveries' = Append(deliveries, UserOf(mongo.deliveries[at]))
        /\ UNCHANGED <<users, links, invoices, orders, memory>> /\ memory \in Memory
    BY DEF MigrateDelivery, ScriptOK, UsersOK
  <1>2. Progress.stage = "deliveries" /\ Progress.at = at /\ Progress.deliveries = deliveries
    BY <1>1 DEF Progress
  <1>3. WithDocument(mongo, Progress) = [Progress EXCEPT !.deliveries = deliveries']
    BY <1>1, <1>2, InProgress DEF WithDocument
  <1>4. [Progress EXCEPT !.deliveries = deliveries']
          = [stage |-> stage, at |-> at, memory |-> [memory EXCEPT !.emails = memory.emails \ Anon],
             users |-> Plain(users), links |-> links, deliveries |-> deliveries',
             invoices |-> invoices, orders |-> orders]
    BY DEF Progress
  <1> QED
    BY <1>1, <1>3, <1>4, DocumentSteps DEF Collections

LEMMA InvoiceSteps ==
  ASSUME ScriptOK, MigrateInvoice
  PROVE  Progress' = StepFrom(mongo, Progress)
  <1> DEFINE doc == mongo.invoices[at]
  <1>1. /\ stage = "invoices" /\ at <= Len(Docs[stage]) /\ Advance
        /\ invoices' = Append(invoices, [buyer |-> UserOf(doc.buyer),
                                         supplier |-> UserOf(doc.supplier), paid |-> doc.paid])
        /\ UNCHANGED <<users, links, deliveries, orders, memory>> /\ memory \in Memory
    BY DEF MigrateInvoice, ScriptOK, UsersOK
  <1>2. Progress.stage = "invoices" /\ Progress.at = at /\ Progress.invoices = invoices
    BY <1>1 DEF Progress
  <1>3. WithDocument(mongo, Progress) = [Progress EXCEPT !.invoices = invoices']
    BY <1>1, <1>2, InProgress DEF WithDocument
  <1>4. [Progress EXCEPT !.invoices = invoices']
          = [stage |-> stage, at |-> at, memory |-> [memory EXCEPT !.emails = memory.emails \ Anon],
             users |-> Plain(users), links |-> links, deliveries |-> deliveries,
             invoices |-> invoices', orders |-> orders]
    BY DEF Progress
  <1> QED
    BY <1>1, <1>3, <1>4, DocumentSteps DEF Collections

LEMMA OrderSteps ==
  ASSUME ScriptOK, MigrateOrder \/ LinkOrders
  PROVE  Progress' = StepFrom(mongo, Progress)
  <1>1. /\ stage \in {"orders", "links"} /\ at <= Len(Docs[stage]) /\ Advance
        /\ UNCHANGED <<users, links, deliveries, invoices, memory>> /\ memory \in Memory
    BY DEF MigrateOrder, LinkOrders, ScriptOK, UsersOK
  <1>2. Progress.stage = stage /\ Progress.at = at /\ Progress.orders = orders
    BY DEF Progress
  <1>3. WithDocument(mongo, Progress) = [Progress EXCEPT !.orders = orders']
    <2>1. CASE MigrateOrder
      <3> DEFINE doc == mongo.orders[at]
      <3>1. /\ stage = "orders"
            /\ orders' = Append(orders, [buyer |-> UserOf(doc.buyer), delivery |-> doc.delivery,
                                         invoice |-> doc.invoice])
        BY <2>1 DEF MigrateOrder
      <3> QED
        BY <1>1, <1>2, <3>1, InProgress DEF WithDocument
    <2>2. CASE LinkOrders
      <3>1. /\ stage = "links"
            /\ orders' = [n \in DOMAIN orders |->
                 IF n \in mongo.invoices[at].orders /\ orders[n].invoice = 0
                   THEN [orders[n] EXCEPT !.invoice = at] ELSE orders[n]]
        BY <2>2 DEF LinkOrders
      <3> QED
        BY <1>2, <3>1 DEF WithDocument
    <2> QED
      BY <2>1, <2>2
  <1>4. [Progress EXCEPT !.orders = orders']
          = [stage |-> stage, at |-> at, memory |-> [memory EXCEPT !.emails = memory.emails \ Anon],
             users |-> Plain(users), links |-> links, deliveries |-> deliveries,
             invoices |-> invoices, orders |-> orders']
    BY DEF Progress
  <1> QED
    BY <1>1, <1>3, <1>4, DocumentSteps DEF Collections

LEMMA EmptySteps ==
  ASSUME SkipEmpty
  PROVE  Progress' = StepFrom(mongo, Progress)
  <1>1. /\ stage \in Collections /\ Docs[stage] = <<>> /\ stage' = After[stage] /\ at' = 1
        /\ UNCHANGED <<users, links, deliveries, invoices, orders, memory>>
    BY DocsAre DEF SkipEmpty, copied
  <1>2. Progress.stage = stage
    BY DEF Progress
  <1>3. StepFrom(mongo, Progress) = [Progress EXCEPT !.stage = After[stage], !.at = 1]
    BY <1>1, <1>2, ContentsAre DEF StepFrom, Collections
  <1> QED
    BY <1>1, <1>3 DEF Progress

-----------------------------------------------------------------------------
(* The groups that are settled.                                            *)

\* A user has one position, and every rank one pair of users.
LEMMA PositionIs ==
  ASSUME NEW n \in 1 .. Len(Ids)
  PROVE  Position(Ids[n]) = n
  <1>1. DOMAIN Ids = 1 .. Len(Ids)
    BY MigrationAssumption, LenProperties
  <1> QED
    BY <1>1, MigrationAssumption DEF Position

LEMMA RanksDiffer ==
  ASSUME NEW l \in Nat, NEW b \in 1 .. l, NEW c \in 1 .. l, NEW s \in 1 .. l, NEW t \in 1 .. l,
         b * l + s = c * l + t
  PROVE  b = c /\ s = t
  <1>1. ASSUME NEW x \in 1 .. l, NEW y \in 1 .. l, x < y PROVE x * l + l <= y * l
    <2>1. y = x + (y - x) /\ y - x >= 1 /\ y - x \in Nat
      BY <1>1
    <2>2. PICK d \in Nat : d = y - x /\ d >= 1
      BY <2>1
    <2>3. y * l = x * l + d * l
      BY <2>1, <2>2
    <2>4. d * l >= l
      BY <2>2
    <2> QED
      BY <2>3, <2>4
  <1>2. b * l \in Nat /\ c * l \in Nat
    OBVIOUS
  <1>3. ~(b < c)
    BY <1>1, <1>2
  <1>4. ~(c < b)
    BY <1>1, <1>2
  <1> QED
    BY <1>2, <1>3, <1>4

\* Whoever bought or delivered has an id the sequence handed out.
Handed == {Ids[n] : n \in 1 .. Len(Ids)}
Named ==
  stage \in Placed =>
    /\ \A d \in DOMAIN deliveries : deliveries[d] \in Handed
    /\ \A n \in DOMAIN orders : orders[n].buyer \in Handed

LEMMA HandedIs ==
  ASSUME NEW u \in Handed
  PROVE  Position(u) \in 1 .. Len(Ids) /\ u = Ids[Position(u)]
  BY PositionIs DEF Handed

LEMMA UserOfHanded ==
  ASSUME ScriptOK, stage \in Placed \ {"users"}, NEW n \in Reference(mongo.users)
  PROVE  UserOf(n) \in Handed
  <1>1. /\ mongo.users \in Seq(MongoUser) /\ Len(mongo.users) < Len(Ids)
        /\ Ids \in Seq(User) /\ memory \in Memory
        /\ Len(memory.row) = Len(mongo.users) /\ memory.placeholder = Ids[1]
    BY DocsTyped, MigrationAssumption DEF ScriptOK, PlaceOK, UsersOK
  <1>2. Len(mongo.users) \in Nat /\ Len(Ids) \in Nat
    BY <1>1, LenProperties
  <1>3. Ids[1] \in Handed
    BY <1>1, <1>2 DEF Handed
  <1>4. CASE n = 0 \/ memory.row[n] = None
    BY <1>1, <1>3, <1>4 DEF UserOf
  <1>5. CASE ~(n = 0 \/ memory.row[n] = None)
    <2>1. n \in 1 .. Len(mongo.users)
      BY <1>2, <1>5 DEF Reference
    <2>2. n \in DOMAIN memory.row /\ n + 1 \in 1 .. Len(Ids)
      BY <1>1, <1>2, <2>1, LenProperties DEF Memory
    <2>3. memory.row[n] = Ids[n + 1]
      BY <1>5, <2>2 DEF ScriptOK, UsersOK
    <2> QED
      BY <1>5, <2>2, <2>3 DEF UserOf, Handed
  <1> QED
    BY <1>4, <1>5

\* In the groups, too.
LEMMA SupplierHanded ==
  ASSUME ScriptOK, Named, stage \in {"settle", "done"}, NEW n \in DOMAIN orders
  PROVE  SupplierOf(orders[n].delivery) \in Handed /\ orders[n].buyer \in Handed
  <1>1. /\ mongo.orders \in Seq(OrderDoc) /\ mongo.deliveries \in Seq(Reference(mongo.users))
        /\ orders \in Seq(OrderRow) /\ Len(orders) = Len(mongo.orders)
        /\ deliveries \in Seq(User) /\ Len(deliveries) = Len(mongo.deliveries)
        /\ orders[n].delivery = mongo.orders[n].delivery
    BY DocsTyped DEF ScriptOK, PlaceOK, OrdersOK, DeliveriesOK, Placed
  <1>2. n \in 1 .. Len(mongo.orders) /\ Len(mongo.deliveries) \in Nat
        /\ DOMAIN deliveries = 1 .. Len(mongo.deliveries)
    BY <1>1, LenProperties
  <1>3. mongo.orders[n] \in OrderDoc
    BY <1>1, <1>2, ElementOfSeq
  <1>4. orders[n].delivery \in 0 .. Len(mongo.deliveries)
    BY <1>1, <1>3 DEF OrderDoc, Reference
  <1>5. CASE orders[n].delivery = 0
    <2>1. Ids \in Seq(User) /\ Len(mongo.users) < Len(Ids) /\ Len(mongo.users) \in Nat /\ Len(Ids) \in Nat
      BY DocsTyped, MigrationAssumption, LenProperties DEF ScriptOK, PlaceOK
    <2>2. memory.placeholder = Ids[1]
      BY DEF ScriptOK, UsersOK, Placed
    <2>3. Ids[1] \in Handed
      BY <2>1 DEF Handed
    <2> QED
      BY <1>5, <2>2, <2>3 DEF SupplierOf, Named, Placed
  <1>6. CASE orders[n].delivery # 0
    <2>1. orders[n].delivery \in DOMAIN deliveries
      BY <1>2, <1>4, <1>6
    <2> QED
      BY <1>6, <2>1 DEF SupplierOf, Named, Placed
  <1> QED
    BY <1>5, <1>6

LEMMA GroupSteps ==
  ASSUME ScriptOK, Named, SettleGroup
  PROVE  Progress' = StepFrom(mongo, Progress)
  <1>1. PICK k \in Orphaned :
       /\ \A i \in Orphaned : Rank(k) <= Rank(i)
       /\ invoices' = Append(invoices, [buyer |-> orders[k].buyer,
            supplier |-> SupplierOf(orders[k].delivery), paid |-> TRUE])
       /\ orders' = [m \in DOMAIN orders |->
            IF m \in Orphaned /\ Rank(m) = Rank(k)
              THEN [orders[m] EXCEPT !.invoice = Len(invoices) + 1] ELSE orders[m]]
    BY DEF SettleGroup
  <1>2. /\ stage = "settle" /\ memory \in Memory
        /\ UNCHANGED <<users, links, deliveries, stage, at, memory>>
    BY DEF SettleGroup, ScriptOK, UsersOK
  <1> DEFINE n == CHOOSE n \in Orphaned : \A i \in Orphaned : Rank(n) <= Rank(i)
  <1>3. n \in Orphaned /\ \A i \in Orphaned : Rank(n) <= Rank(i)
    BY <1>1
  <1>4. n = Least(Progress)
    BY <1>2, InProgress DEF Least
  <1>5. Orphaned \subseteq DOMAIN orders
    BY DEF Orphaned
  <1> HIDE DEF n
  <1> DEFINE b == Position(orders[k].buyer)
             c == Position(orders[n].buyer)
             s == Position(SupplierOf(orders[k].delivery))
             t == Position(SupplierOf(orders[n].delivery))
  <1>6. /\ b \in 1 .. Len(Ids) /\ c \in 1 .. Len(Ids) /\ s \in 1 .. Len(Ids) /\ t \in 1 .. Len(Ids)
        /\ orders[k].buyer = Ids[b] /\ orders[n].buyer = Ids[c]
        /\ SupplierOf(orders[k].delivery) = Ids[s] /\ SupplierOf(orders[n].delivery) = Ids[t]
    BY <1>1, <1>2, <1>3, <1>5, SupplierHanded, HandedIs
  <1>7. Rank(k) = b * Len(Ids) + s /\ Rank(n) = c * Len(Ids) + t
    BY DEF Rank
  <1>8. Len(Ids) \in Nat
    BY MigrationAssumption, LenProperties
  <1> HIDE DEF b, c, s, t
  <1>9. b * Len(Ids) + s \in Nat /\ c * Len(Ids) + t \in Nat
    BY <1>6, <1>8
  <1>10. Rank(k) = Rank(n)
    BY <1>1, <1>3, <1>7, <1>9
  <1>11. b = c /\ s = t
    BY <1>6, <1>7, <1>8, <1>10, RanksDiffer
  <1>12. /\ Progress.stage = "settle" /\ Progress.orders = orders /\ Progress.invoices = invoices
    BY <1>2 DEF Progress
  <1>13. StepFrom(mongo, Progress) = WithGroup(Progress, n)
    BY <1>2, <1>3, <1>4, <1>12, InProgress DEF StepFrom
  <1> DEFINE rows == Append(invoices, [buyer |-> orders[n].buyer,
                       supplier |-> SupplierOf(orders[n].delivery), paid |-> TRUE])
             linked == [i \in DOMAIN orders |->
                IF i \in Orphaned /\ Rank(i) = Rank(n)
                  THEN [orders[i] EXCEPT !.invoice = Len(invoices) + 1] ELSE orders[i]]
  <1>14. WithGroup(Progress, n) = [Progress EXCEPT !.invoices = rows, !.orders = linked]
    <2>1. /\ RankIn(Progress, n) = Rank(n) /\ SupplierIn(Progress, orders[n].delivery) = SupplierOf(orders[n].delivery)
          /\ OrphanedIn(Progress) = Orphaned /\ \A i \in DOMAIN orders : RankIn(Progress, i) = Rank(i)
      BY <1>2, InProgress
    <2> QED
      BY <1>12, <2>1 DEF WithGroup
  <1>15. rows = invoices' /\ linked = orders'
    BY <1>1, <1>6, <1>10, <1>11
  <1> HIDE DEF rows, linked
  <1>16. [Progress EXCEPT !.invoices = invoices', !.orders = orders']
           = [stage |-> stage, at |-> at, memory |-> [memory EXCEPT !.emails = memory.emails \ Anon],
              users |-> Plain(users), links |-> links, deliveries |-> deliveries,
              invoices |-> invoices', orders |-> orders']
    <2> DEFINE M == [memory EXCEPT !.emails = memory.emails \ Anon]
               P == Plain(users)
    <2>1. Progress = [stage |-> stage, at |-> at, memory |-> M, users |-> P, links |-> links,
                      deliveries |-> deliveries, invoices |-> invoices, orders |-> orders]
      BY DEF Progress
    <2> HIDE DEF M, P
    <2>2. [Progress EXCEPT !.invoices = invoices', !.orders = orders']
            = [stage |-> stage, at |-> at, memory |-> M, users |-> P, links |-> links,
               deliveries |-> deliveries, invoices |-> invoices', orders |-> orders']
      <3>1. PICK h : h = [Progress EXCEPT !.invoices = invoices']
        OBVIOUS
      <3>2. h = [stage |-> stage, at |-> at, memory |-> M, users |-> P, links |-> links,
                 deliveries |-> deliveries, invoices |-> invoices', orders |-> orders]
        BY <2>1, <3>1
      <3>3. [Progress EXCEPT !.invoices = invoices', !.orders = orders'] = [h EXCEPT !.orders = orders']
        BY <3>1
      <3> QED
        BY <3>2, <3>3
    <2> QED
      BY <2>2 DEF M, P
  <1>17. Progress' = [stage |-> stage, at |-> at, memory |-> [memory EXCEPT !.emails = memory.emails \ Anon],
              users |-> Plain(users), links |-> links, deliveries |-> deliveries,
              invoices |-> invoices', orders |-> orders']
    BY <1>2 DEF Progress
  <1> QED
    BY <1>13, <1>14, <1>15, <1>16, <1>17

LEMMA NormaliseSteps ==
  ASSUME ScriptOK, Normalise
  PROVE  Progress' = StepFrom(mongo, Progress)
  <1>1. /\ stage = "settle" /\ Orphaned = {} /\ stage' = "done" /\ at' = 1 /\ memory \in Memory
        /\ UNCHANGED <<users, links, deliveries, orders, memory>>
        /\ invoices' = [n \in DOMAIN invoices |->
             IF memory.placeholder \in {invoices[n].buyer, invoices[n].supplier}
               THEN [invoices[n] EXCEPT !.paid = TRUE] ELSE invoices[n]]
    BY DEF Normalise, ScriptOK, UsersOK
  <1>2. Progress.stage = "settle" /\ Progress.invoices = invoices
    BY <1>1 DEF Progress
  <1>3. StepFrom(mongo, Progress) = [Progress EXCEPT !.stage = "done", !.at = 1, !.invoices = invoices']
    BY <1>1, <1>2, InProgress DEF StepFrom, Normalised
  <1> QED
    BY <1>1, <1>3 DEF Progress

-----------------------------------------------------------------------------
\* Where the script is, a walk has reached; what the first complete run left
\* is where a walk has ended.
Leaves(s, left) ==
  /\ s.stage = "done"
  /\ left = <<left[1], s.links, s.deliveries, s.invoices, s.orders>>
  /\ Plain(left[1]) = s.users

WalkInv ==
  /\ stage \in Placed \union {"placeholders"} => Reached(mongo, Progress)
  /\ outcome = <<>> \/ \E s : Reached(mongo, s) /\ Leaves(s, outcome)
  /\ stage = "done" => outcome # <<>>
  /\ Reserved /\ Named

LEMMA WalkInvInit == MigrationInit => WalkInv
  BY DEF MigrationInit, WalkInv, Placed, Collections, Reserved, Named

LEMMA CopySteps ==
  ASSUME TInv, ScriptOK, Reserved, Named,
         CreatePlaceholders \/ MigrateUser \/ MigrateDelivery \/ MigrateInvoice \/ MigrateOrder
           \/ LinkOrders \/ SettleGroup \/ Normalise \/ SkipEmpty
  PROVE  Progress' = StepFrom(mongo, Progress) /\ stage \in Placed \union {"placeholders"} /\ stage # "done"
  BY PlaceholderSteps, UserSteps, DeliverySteps, InvoiceSteps, OrderSteps, GroupSteps,
     NormaliseSteps, EmptySteps, DocsAre
  DEF CreatePlaceholders, MigrateUser, MigrateDelivery, MigrateInvoice, MigrateOrder, LinkOrders,
     SettleGroup, Normalise, SkipEmpty, Placed, Collections

LEMMA ReservedNext ==
  ASSUME TInv, ScriptOK, Reserved, Migrate
  PROVE  Reserved'
  <1>1. CASE CreatePlaceholders
    <2>1. Ids \in Seq(User) /\ Len(mongo.users) < Len(Ids) /\ Len(mongo.users) \in Nat /\ Len(Ids) \in Nat
      BY DocsTyped, MigrationAssumption, LenProperties DEF ScriptOK, PlaceOK
    <2>2. Ids[1] \in User
      BY <2>1, ElementOfSeq
    <2> QED
      BY <1>1, <2>2 DEF CreatePlaceholders, Reserved, TInv, TypeOK
  <1>2. CASE MigrateUser
    BY <1>2, UserSteps DEF Reserved
  <1>3. CASE StartRun \/ StopRun \/ GoLive
    BY <1>3 DEF StartRun, StopRun, GoLive, Reserved, Placed, Collections
  <1>4. CASE UNCHANGED users /\ stage \in Placed
    BY <1>4 DEF Reserved
  <1> QED
    BY <1>1, <1>2, <1>3, <1>4, DocsAre
    DEF Migrate, MigrateDelivery, MigrateInvoice, MigrateOrder, LinkOrders, SettleGroup, Normalise,
        SkipEmpty, copied, Placed, Collections

LEMMA NamedNext ==
  ASSUME ScriptOK, ScriptOK', Named, Migrate
  PROVE  Named'
  <1>1. CASE StartRun \/ StopRun \/ GoLive
    BY <1>1 DEF StartRun, StopRun, GoLive, Named, Placed, Collections
  <1>2. CASE CreatePlaceholders
    <2>1. deliveries = <<>> /\ orders = <<>> /\ UNCHANGED <<deliveries, orders>>
      BY <1>2 DEF CreatePlaceholders, ScriptOK, DeliveriesOK, OrdersOK
    <2>2. DOMAIN <<>> = {}
      BY EmptySeq
    <2> QED
      BY <2>1, <2>2 DEF Named
  <1>3. CASE MigrateDelivery
    <2> DEFINE u == UserOf(mongo.deliveries[at])
    <2>1. /\ stage = "deliveries" /\ deliveries' = Append(deliveries, u) /\ UNCHANGED orders
          /\ deliveries \in Seq(User) /\ at \in Nat \ {0} /\ at <= Len(mongo.deliveries)
          /\ mongo.deliveries \in Seq(Reference(mongo.users))
      <3>1. stage = "deliveries" /\ deliveries' = Append(deliveries, u) /\ UNCHANGED orders /\ at <= Len(Docs[stage])
        BY <1>3 DEF MigrateDelivery
      <3> HIDE DEF u
      <3> QED
        BY <3>1, DocsAre, DocsTyped DEF ScriptOK, DeliveriesOK, PlaceOK, Placed, Collections
    <2>2. mongo.deliveries[at] \in Reference(mongo.users)
      BY <2>1, LenProperties, ElementOfSeq
    <2>3. u \in Handed
      BY <2>1, <2>2, UserOfHanded DEF Placed, Collections
    <2>4. u \in User
      BY <2>1, <2>2, UserOfIs DEF Placed, Collections
    <2> HIDE DEF u
    <2>5. \A d \in DOMAIN deliveries' : deliveries'[d] = u \/ (d \in DOMAIN deliveries /\ deliveries'[d] = deliveries[d])
      BY <2>1, <2>4, AppendProperties, LenProperties
    <2> QED
      BY <2>1, <2>3, <2>5 DEF Named, Placed, Collections
  <1>4. CASE MigrateOrder
    <2> DEFINE doc == mongo.orders[at]
               row == [buyer |-> UserOf(doc.buyer), delivery |-> doc.delivery, invoice |-> doc.invoice]
    <2>1. /\ stage = "orders" /\ orders' = Append(orders, row) /\ UNCHANGED deliveries
          /\ orders \in Seq(OrderRow) /\ at \in Nat \ {0} /\ at <= Len(mongo.orders)
          /\ mongo.orders \in Seq(OrderDoc)
      BY <1>4, DocsAre, DocsTyped DEF MigrateOrder, ScriptOK, OrdersOK, PlaceOK, Placed, Collections
    <2>2. doc \in OrderDoc
      BY <2>1, LenProperties, ElementOfSeq
    <2>3. row.buyer \in Handed
      BY <2>1, <2>2, UserOfHanded DEF Placed, Collections, OrderDoc
    <2>4. \A n \in DOMAIN orders' : orders'[n] = row \/ (n \in DOMAIN orders /\ orders'[n] = orders[n])
      <3>1. orders \in Seq(OrderRow \union {row})
        BY <2>1
      <3> HIDE DEF row
      <3>2. /\ Append(orders, row) \in Seq(OrderRow \union {row})
            /\ Len(Append(orders, row)) = Len(orders) + 1
            /\ \A i \in 1 .. Len(orders) : Append(orders, row)[i] = orders[i]
            /\ Append(orders, row)[Len(orders) + 1] = row
        BY <3>1, AppendProperties
      <3> QED
        BY <2>1, <3>1, <3>2, LenProperties
    <2> HIDE DEF row
    <2> QED
      BY <2>1, <2>3, <2>4 DEF Named, Placed, Collections
  <1>5. CASE LinkOrders
    <2>1. /\ UNCHANGED deliveries /\ DOMAIN orders' = DOMAIN orders /\ stage \in Placed
          /\ orders \in Seq(OrderRow)
      BY <1>5 DEF LinkOrders, ScriptOK, OrdersOK, Placed, Collections
    <2>2. ASSUME NEW n \in DOMAIN orders PROVE orders'[n].buyer = orders[n].buyer
      <3>1. orders[n] \in OrderRow
        BY <2>1, LenProperties, ElementOfSeq
      <3> QED
        BY <1>5, <3>1 DEF LinkOrders, OrderRow
    <2> QED
      BY <2>1, <2>2 DEF Named
  <1>6. CASE SettleGroup
    <2>1. /\ UNCHANGED deliveries /\ DOMAIN orders' = DOMAIN orders /\ stage \in Placed
          /\ orders \in Seq(OrderRow)
      BY <1>6 DEF SettleGroup, ScriptOK, OrdersOK, Placed, Collections
    <2>2. ASSUME NEW n \in DOMAIN orders PROVE orders'[n].buyer = orders[n].buyer
      <3>1. orders[n] \in OrderRow
        BY <2>1, LenProperties, ElementOfSeq
      <3> QED
        BY <1>6, <3>1 DEF SettleGroup, OrderRow
    <2> QED
      BY <2>1, <2>2 DEF Named
  <1>7. CASE UNCHANGED <<deliveries, orders>> /\ stage \in Placed
    BY <1>7 DEF Named
  <1> QED
    BY <1>1, <1>2, <1>3, <1>4, <1>5, <1>6, <1>7, DocsAre
    DEF Migrate, MigrateUser, MigrateInvoice, Normalise, SkipEmpty, copied, Placed, Collections

LEMMA WalkInvNext ==
  ASSUME TInv, ScriptOK, ScriptOK', WalkInv, Migrate
  PROVE  WalkInv'
  <1> USE DEF WalkInv
  <1>1. Reserved' /\ Named'
    BY ReservedNext, NamedNext
  <1>2. mongo' = mongo
    BY DEF Migrate, StartRun, CreatePlaceholders, MigrateUser, MigrateDelivery, MigrateInvoice,
      MigrateOrder, LinkOrders, SettleGroup, Normalise, SkipEmpty, StopRun, GoLive
  <1>3. CASE StartRun
    <2>1. Reached(mongo, Progress')
      BY <1>3, BeginningIs, WalkBegins
    <2> QED
      BY <1>1, <1>2, <1>3, <2>1 DEF StartRun
  <1>4. CASE StopRun \/ GoLive
    BY <1>1, <1>2, <1>4 DEF StopRun, GoLive, Placed, Collections
  <1>5. CASE ~(StartRun \/ StopRun \/ GoLive)
    <2>1. Progress' = StepFrom(mongo, Progress) /\ stage \in Placed \union {"placeholders"} /\ stage # "done"
      BY <1>5, CopySteps DEF Migrate
    <2>2. Progress.stage = stage
      BY DEF Progress
    <2>3. Reached(mongo, Progress')
      BY <2>1, <2>2, WalkGoesOn
    <2>4. CASE Normalise
      <3>1. /\ stage' = "done" /\ UNCHANGED <<users, links, deliveries, orders>>
            /\ outcome' = IF outcome # <<>> THEN outcome ELSE <<users, links, deliveries, invoices', orders>>
        BY <2>4 DEF Normalise
      <3>2. CASE outcome # <<>>
        BY <1>1, <1>2, <2>3, <3>1, <3>2
      <3>3. CASE outcome = <<>>
        <4>1. /\ Progress'.stage = "done" /\ Progress'.users = Plain(users') /\ Progress'.links = links'
              /\ Progress'.deliveries = deliveries' /\ Progress'.invoices = invoices'
              /\ Progress'.orders = orders'
          BY <3>1 DEF Progress
        <4>2. outcome' = <<users', links', deliveries', invoices', orders'>>
          BY <3>1, <3>3
        <4>3. Leaves(Progress', outcome')
          BY <4>1, <4>2 DEF Leaves
        <4>4. outcome' # <<>>
          BY <4>2
        <4> QED
          BY <1>1, <1>2, <2>3, <4>3, <4>4
      <3> QED
        BY <3>2, <3>3
    <2>5. CASE ~Normalise
      <3>1. outcome' = outcome /\ stage' # "done"
        BY <1>5, <2>5, AfterIs, DocsAre
        DEF Migrate, CreatePlaceholders, MigrateUser, MigrateDelivery, MigrateInvoice, MigrateOrder,
          LinkOrders, SettleGroup, SkipEmpty, Advance, Collections
      <3> QED
        BY <1>1, <1>2, <2>3, <3>1
    <2> QED
      BY <2>4, <2>5
  <1> QED
    BY <1>3, <1>4, <1>5

LEMMA WalkInvStays ==
  ASSUME WalkInv, UNCHANGED script, stage = "live" \/ UNCHANGED vars
  PROVE  WalkInv'
  <1>1. CASE stage = "live"
    BY <1>1 DEF WalkInv, script, Reserved, Named, Placed, Collections
  <1>2. CASE UNCHANGED vars
    <2>1. Progress' = Progress
      BY <1>2 DEF Progress, Plain, vars, script
    <2>2. Reserved' /\ Named'
      BY <1>2 DEF WalkInv, Reserved, Named, vars, script
    <2>3. stage' = stage /\ mongo' = mongo /\ outcome' = outcome
      BY DEF script
    <2> QED
      BY <2>1, <2>2, <2>3 DEF WalkInv
  <1> QED
    BY <1>1, <1>2

LEMMA TailOfFive ==
  ASSUME NEW a, NEW b, NEW c, NEW d, NEW e
  PROVE  SubSeq(<<a, b, c, d, e>>, 2, 5) = <<b, c, d, e>>
  <1> DEFINE S == {a, b, c, d, e}
             s == <<a, b, c, d, e>>
             t == <<b, c, d, e>>
  <1>1. s \in Seq(S) /\ Len(s) = 5 /\ t \in Seq(S) /\ Len(t) = 4
        /\ s[2] = b /\ s[3] = c /\ s[4] = d /\ s[5] = e
        /\ t[1] = b /\ t[2] = c /\ t[3] = d /\ t[4] = e
    OBVIOUS
  <1> HIDE DEF s, t, S
  <1>2. /\ SubSeq(s, 2, 5) \in Seq(S) /\ Len(SubSeq(s, 2, 5)) = 4
        /\ \A i \in 1 .. 4 : SubSeq(s, 2, 5)[i] = s[2 + i - 1]
    <2>1. /\ SubSeq(s, 2, 5) \in Seq(S) 
          /\ Len(SubSeq(s, 2, 5)) = IF 2 <= 5 THEN 5 - 2 + 1 ELSE 0
          /\ \A i \in 1 .. 5 - 2 + 1 : SubSeq(s, 2, 5)[i] = s[2 + i - 1]
      <3>1. ASSUME NEW i \in 2 .. 5 PROVE s[i] \in S
        <4>1. i = 2 \/ i = 3 \/ i = 4 \/ i = 5
          OBVIOUS
        <4> QED
          BY <1>1, <4>1 DEF S
      <3> QED
        BY <3>1, SubSeqProperties
    <2> QED
      BY <2>1
  <1>3. \A i \in 1 .. 4 : s[2 + i - 1] = t[i]
    <2> TAKE i \in 1 .. 4
    <2>1. i = 1 \/ i = 2 \/ i = 3 \/ i = 4
      OBVIOUS
    <2> QED
      BY <1>1, <2>1
  <1>4. SubSeq(s, 2, 5) = t
    BY <1>1, <1>2, <1>3, SeqEqual
  <1> QED
    BY <1>4 DEF s, t

\* Running the script again, wherever it stopped before and whatever it had
\* written, ends with the tables its first complete run left, but for the
\* addresses it made up: nothing of an earlier run gets into a later one, and
\* no choice of the database's shows in what is copied.
THEOREM AgainIsTheSame == MigrationSpec => []RunAgainIsTheSame
  <1>1. MigrationInit => WalkInv
    BY WalkInvInit
  <1>2. Sound /\ Sound' /\ WalkInv /\ [MigrationNext]_<<vars, script>> => WalkInv'
    <2> SUFFICES ASSUME Sound, Sound', WalkInv, [MigrationNext]_<<vars, script>> PROVE WalkInv'
      OBVIOUS
    <2>1. CASE Migrate
      BY <2>1, WalkInvNext DEF Sound, MInv
    <2>2. CASE ~Migrate
      <3>1. UNCHANGED script /\ (stage = "live" \/ UNCHANGED vars)
        BY <2>2 DEF MigrationNext
      <3> QED
        BY <3>1, WalkInvStays
    <2> QED
      BY <2>1, <2>2
  <1>3. WalkInv => RunAgainIsTheSame
    <2> SUFFICES ASSUME WalkInv, stage = "done"
                 PROVE  /\ Plain(users) = Plain(outcome[1])
                        /\ <<links, deliveries, invoices, orders>> = SubSeq(outcome, 2, 5)
      BY DEF RunAgainIsTheSame
    <2>1. PICK s : Reached(mongo, s) /\ Leaves(s, outcome)
      BY DEF WalkInv
    <2>2. Reached(mongo, Progress)
      BY DEF WalkInv, Placed
    <2>3. /\ Progress.stage = "done" /\ Progress.users = Plain(users) /\ Progress.links = links
          /\ Progress.deliveries = deliveries /\ Progress.invoices = invoices
          /\ Progress.orders = orders
      BY DEF Progress
    <2>4. s = Progress
      BY <2>1, <2>2, <2>3, WalksEndTogether DEF Leaves
    <2>5. Plain(users) = Plain(outcome[1]) /\ outcome = <<outcome[1], links, deliveries, invoices, orders>>
      BY <2>1, <2>3, <2>4 DEF Leaves
    <2>6. SubSeq(<<outcome[1], links, deliveries, invoices, orders>>, 2, 5)
            = <<links, deliveries, invoices, orders>>
      BY TailOfFive
    <2> QED
      BY <2>5, <2>6
  <1> QED
    BY <1>1, <1>2, <1>3, SoundMigration, PTL DEF MigrationSpec

-----------------------------------------------------------------------------
(* Debts of disabled accounts, on migrated tables.                         *)

\* Each row is what its document says, with the placeholder for whoever is
\* gone; an order on no invoice, and an invoice not paid, were so before.
Followed ==
  stage \in Placed =>
    /\ \A n \in DOMAIN memory.row :
         memory.row[n] # None => users[Ids[n + 1]].disabled = mongo.users[n].disabled
    /\ \A d \in DOMAIN deliveries : deliveries[d] = UserOf(mongo.deliveries[d])
    /\ \A n \in DOMAIN orders :
         /\ orders[n].buyer = UserOf(mongo.orders[n].buyer)
         /\ orders[n].invoice = 0 =>
              /\ mongo.orders[n].invoice = 0
              /\ \A i \in DOMAIN mongo.invoices : n \in mongo.invoices[i].orders =>
                   stage = "orders" \/ (stage = "links" /\ at <= i)
    /\ \A n \in DOMAIN invoices : ~invoices[n].paid =>
         /\ n \in DOMAIN mongo.invoices /\ ~mongo.invoices[n].paid
         /\ invoices[n].buyer = UserOf(mongo.invoices[n].buyer)
         /\ invoices[n].supplier = UserOf(mongo.invoices[n].supplier)

OwingInv ==
  /\ Followed
  /\ stage # "live" => uninvoiced = {} /\ unpaid = {}
  /\ DInv

\* Whoever owes what the migration does not settle is enabled.
DebtorsEnabled(m) ==
  /\ \A n \in DOMAIN m.orders :
       LET doc == m.orders[n] IN
       /\ doc.buyer > 0 /\ m.users[doc.buyer].disabled
       /\ doc.delivery > 0 /\ m.deliveries[doc.delivery] > 0
       => doc.invoice # 0 \/ \E i \in DOMAIN m.invoices : n \in m.invoices[i].orders
  /\ \A n \in DOMAIN m.invoices :
       LET doc == m.invoices[n] IN
       doc.buyer > 0 /\ m.users[doc.buyer].disabled /\ doc.supplier > 0 => doc.paid

LEMMA OwingInit == MigrationInit => OwingInv
  BY BlankOK DEF MigrationInit, Init, OwingInv, Followed, DInv, DebtOK, Owes, Placed, Collections

LEMMA SomebodyIs ==
  ASSUME ScriptOK, stage \in Placed \ {"users"}, NEW n \in Reference(mongo.users),
         UserOf(n) # memory.placeholder
  PROVE  n > 0 /\ n \in DOMAIN memory.row /\ memory.row[n] # None /\ UserOf(n) = Ids[n + 1]
  <1>1. /\ mongo.users \in Seq(MongoUser) /\ memory \in Memory
        /\ Len(memory.row) = Len(mongo.users)
    BY DocsTyped DEF ScriptOK, PlaceOK, UsersOK
  <1>2. Len(mongo.users) \in Nat /\ DOMAIN memory.row = 1 .. Len(mongo.users)
    BY <1>1, LenProperties DEF Memory
  <1>3. n # 0 /\ memory.row[n] # None /\ UserOf(n) = memory.row[n]
    BY DEF UserOf
  <1>4. n \in DOMAIN memory.row
    BY <1>2, <1>3 DEF Reference
  <1>5. memory.row[n] = Ids[n + 1]
    BY <1>3, <1>4 DEF ScriptOK, UsersOK
  <1> QED
    BY <1>2, <1>3, <1>4, <1>5

LEMMA UserFollows ==
  ASSUME TInv, ScriptOK, Followed, MigrateUser
  PROVE  Followed'
  <1> DEFINE doc == mongo.users[at]
             k == KeyOf(doc, memory)
             u == Ids[at + 1]
  <1>0. /\ stage = "users" /\ at <= Len(mongo.users)
        /\ UNCHANGED <<deliveries, invoices, orders, mongo>>
    BY DocsAre DEF MigrateUser
  <1>1. /\ Len(mongo.users) < Len(Ids) /\ Ids \in Seq(User)
        /\ \A n, m \in DOMAIN Ids : Ids[n] = Ids[m] => n = m
        /\ at \in Nat \ {0} /\ memory \in Memory /\ Copying
        /\ Len(mongo.users) \in Nat
        /\ DOMAIN Ids = 1 .. Len(Ids) /\ Len(Ids) \in Nat
    BY <1>0, DocsTyped, LenProperties, MigrationAssumption DEF ScriptOK, PlaceOK, UsersOK
  <1>2. u \in User /\ \A n \in 1 .. (at - 1) : Ids[n + 1] # u
    <2>1. at + 1 \in 1 .. Len(Ids)
      BY <1>0, <1>1
    <2>2. ASSUME NEW n \in 1 .. (at - 1) PROVE n + 1 \in 1 .. Len(Ids) /\ n + 1 # at + 1
      BY <1>0, <1>1
    <2> QED
      BY <1>1, <2>1, <2>2, ElementOfSeq
  <1>3. PICK e \in EmailsOf(doc, memory) :
       /\ users' = IF Fits(e, k)
                   THEN [users EXCEPT ![u] = [email |-> e, role |-> doc.role,
                                              disabled |-> doc.disabled, key |-> k]]
                   ELSE users
       /\ memory' = [memory EXCEPT
            !.row = Append(@, IF Fits(e, k) THEN u ELSE None),
            !.keys = @ \union {k},
            !.fallback = IF k = doc.key THEN @ ELSE k + 1,
            !.emails = @ \union {e},
            !.people = IF Fits(e, k) /\ doc.identity # None /\ doc.identity \notin memory.people
                         THEN @ \union {doc.identity} ELSE @]
    BY DEF MigrateUser
  <1> DEFINE fits == Fits(e, k)
             mine == IF fits THEN u ELSE None
  <1>4. memory'.row = Append(memory.row, mine) /\ mine \in User \union {None}
    BY <1>1, <1>2, <1>3 DEF Memory
  <1>5. memory.row \in Seq(User \union {None}) /\ Len(memory.row) = at - 1
    BY <1>1 DEF Memory, Copying
  <1> HIDE DEF mine
  <1>6. /\ DOMAIN memory'.row = 1 .. at
        /\ \A n \in 1 .. at : memory'.row[n] = IF n = at THEN mine ELSE memory.row[n]
        /\ DOMAIN memory.row = 1 .. (at - 1)
    BY <1>1, <1>4, <1>5, AppendProperties, LenProperties
  <1>7. /\ users \in [User -> UserRow]
        /\ mine = None \/ users'[u].disabled = doc.disabled
        /\ \A v \in User \ {u} : users'[v] = users[v]
    BY <1>2, <1>3 DEF mine, TInv, TypeOK
  <1>8. ASSUME NEW n \in DOMAIN memory'.row, memory'.row[n] # None
        PROVE  users'[Ids[n + 1]].disabled = mongo.users[n].disabled
    <2>1. CASE n = at
      BY <1>0, <1>1, <1>6, <1>7, <1>8, <2>1
    <2>2. CASE n # at
      <3>1. n \in 1 .. (at - 1) /\ memory.row[n] # None
        BY <1>1, <1>6, <1>8, <2>2
      <3>2. memory.row[n] = Ids[n + 1]
        BY <1>0, <1>6, <3>1 DEF ScriptOK, UsersOK, Placed, Collections
      <3>3. Ids[n + 1] \in User \ {u}
        <4>1. n + 1 \in 1 .. Len(Ids)
          BY <1>0, <1>1, <3>1
        <4> QED
          BY <1>1, <1>2, <3>1, <4>1, ElementOfSeq
      <3> QED
        BY <1>0, <1>6, <1>7, <3>1, <3>3 DEF Followed, Placed, Collections
    <2> QED
      BY <2>1, <2>2
  <1>9. deliveries' = <<>> /\ invoices' = <<>> /\ orders' = <<>> /\ DOMAIN <<>> = {}
    BY <1>0, EmptySeq DEF ScriptOK, DeliveriesOK, InvoicesOK, OrdersOK
  <1> QED
    BY <1>0, <1>8, <1>9 DEF Followed

LEMMA DeliveryFollows ==
  ASSUME ScriptOK, Followed, MigrateDelivery
  PROVE  Followed'
  <1> DEFINE u == UserOf(mongo.deliveries[at])
  <1>1. /\ stage = "deliveries" /\ deliveries' = Append(deliveries, u)
        /\ UNCHANGED <<users, invoices, orders, mongo, memory>>
        /\ at <= Len(Docs[stage])
    BY DEF MigrateDelivery
  <1>2. /\ deliveries \in Seq(User) /\ Len(deliveries) = at - 1 /\ at \in Nat \ {0}
        /\ invoices = <<>> /\ orders = <<>> /\ DOMAIN <<>> = {}
    BY <1>1, EmptySeq DEF ScriptOK, PlaceOK, DeliveriesOK, InvoicesOK, OrdersOK, Placed, Collections
  <1>3. u \in User
    <2>1. mongo.deliveries \in Seq(Reference(mongo.users)) /\ at \in 1 .. Len(mongo.deliveries)
      BY <1>1, <1>2, DocsAre, DocsTyped, LenProperties DEF ScriptOK, PlaceOK
    <2>2. mongo.deliveries[at] \in Reference(mongo.users)
      BY <2>1, ElementOfSeq
    <2> QED
      BY <1>1, <2>2, UserOfIs DEF Placed, Collections
  <1>4. \A n : UserOf(n)' = UserOf(n)
    BY <1>1 DEF UserOf
  <1>5. ASSUME NEW d \in DOMAIN deliveries'
        PROVE  deliveries'[d] = UserOf(mongo.deliveries[d])
    <2> HIDE DEF u
    <2>1. d \in 1 .. at /\ DOMAIN deliveries = 1 .. (at - 1)
          /\ deliveries'[d] = IF d = at THEN u ELSE deliveries[d]
      BY <1>1, <1>2, <1>3, <1>5, AppendProperties, LenProperties
    <2>2. CASE d = at
      BY <2>1, <2>2 DEF u
    <2>3. CASE d # at
      <3>1. d \in DOMAIN deliveries
        BY <1>2, <2>1, <2>3
      <3> QED
        BY <1>1, <2>1, <2>3, <3>1 DEF Followed, Placed, Collections
    <2> QED
      BY <2>2, <2>3
  <1> QED
    BY <1>1, <1>2, <1>4, <1>5 DEF Followed, Placed, Collections

LEMMA InvoiceFollows ==
  ASSUME ScriptOK, Followed, MigrateInvoice
  PROVE  Followed'
  <1> DEFINE doc == mongo.invoices[at]
             row == [buyer |-> UserOf(doc.buyer), supplier |-> UserOf(doc.supplier), paid |-> doc.paid]
  <1>1. /\ stage = "invoices" /\ invoices' = Append(invoices, row)
        /\ UNCHANGED <<users, deliveries, orders, mongo, memory>>
        /\ at <= Len(mongo.invoices)
    BY DocsAre DEF MigrateInvoice
  <1>2. /\ invoices \in Seq(InvoiceRow) /\ Len(invoices) = at - 1 /\ at \in Nat \ {0}
        /\ orders = <<>> /\ DOMAIN <<>> = {}
    BY <1>1, EmptySeq DEF ScriptOK, PlaceOK, InvoicesOK, OrdersOK, Placed, Collections
  <1>3. at \in DOMAIN mongo.invoices
    BY <1>1, <1>2, DocsTyped, LenProperties DEF ScriptOK, PlaceOK
  <1>4. \A n : UserOf(n)' = UserOf(n)
    BY <1>1 DEF UserOf
  <1>5. ASSUME NEW n \in DOMAIN invoices', ~invoices'[n].paid
        PROVE  /\ n \in DOMAIN mongo.invoices /\ ~mongo.invoices[n].paid
               /\ invoices'[n].buyer = UserOf(mongo.invoices[n].buyer)
               /\ invoices'[n].supplier = UserOf(mongo.invoices[n].supplier)
    <2>1. /\ n \in 1 .. at /\ DOMAIN invoices = 1 .. (at - 1)
          /\ invoices'[n] = IF n = at THEN row ELSE invoices[n]
      <3>1. invoices \in Seq(InvoiceRow \union {row}) /\ row \in InvoiceRow \union {row}
        BY <1>2
      <3> HIDE DEF row
      <3> QED
        BY <1>1, <1>2, <1>5, <3>1, AppendProperties, LenProperties
    <2>2. CASE n = at
      BY <1>3, <1>5, <2>1, <2>2
    <2>3. CASE n # at
      <3>1. n \in DOMAIN invoices
        BY <1>2, <2>1, <2>3
      <3> QED
        BY <1>1, <1>5, <2>1, <2>3, <3>1 DEF Followed, Placed, Collections
    <2> QED
      BY <2>2, <2>3
  <1> HIDE DEF row, doc
  <1>6. orders' = <<>> /\ stage \notin {"deliveries", "orders", "links"}
    BY <1>1, <1>2
  <1>7. ASSUME NEW n \in DOMAIN orders'
        PROVE  FALSE
    BY <1>2, <1>6, <1>7
  <1> QED
    BY <1>1, <1>4, <1>5, <1>7 DEF Followed, Placed, Collections

LEMMA OrderFollows ==
  ASSUME ScriptOK, Followed, MigrateOrder
  PROVE  Followed'
  <1> DEFINE doc == mongo.orders[at]
             row == [buyer |-> UserOf(doc.buyer), delivery |-> doc.delivery, invoice |-> doc.invoice]
  <1>1. /\ stage = "orders" /\ orders' = Append(orders, row)
        /\ UNCHANGED <<users, deliveries, invoices, mongo, memory>>
        /\ at <= Len(mongo.orders) /\ Advance
    BY DocsAre DEF MigrateOrder
  <1>2. /\ orders \in Seq(OrderRow) /\ Len(orders) = at - 1 /\ at \in Nat \ {0}
    BY <1>1 DEF ScriptOK, PlaceOK, OrdersOK, Placed, Collections
  <1>3. \A n : UserOf(n)' = UserOf(n)
    BY <1>1 DEF UserOf
  <1>4. stage' = "orders" \/ (stage' = "links" /\ at' = 1)
    BY <1>1, AfterIs DEF Advance
  <1>5. \A i \in DOMAIN mongo.invoices : 1 <= i
    BY DocsTyped, LenProperties DEF ScriptOK, PlaceOK
  <1>6. ASSUME NEW n \in DOMAIN orders'
        PROVE  /\ orders'[n].buyer = UserOf(mongo.orders[n].buyer)
               /\ orders'[n].invoice = 0 => mongo.orders[n].invoice = 0
    <2>1. /\ n \in 1 .. at /\ DOMAIN orders = 1 .. (at - 1)
          /\ orders'[n] = IF n = at THEN row ELSE orders[n]
      <3>1. orders \in Seq(OrderRow \union {row}) /\ row \in OrderRow \union {row}
        BY <1>2
      <3> HIDE DEF row
      <3> QED
        BY <1>1, <1>2, <1>6, <3>1, AppendProperties, LenProperties
    <2>2. CASE n = at
      BY <2>1, <2>2
    <2>3. CASE n # at
      <3>1. n \in DOMAIN orders
        BY <1>2, <2>1, <2>3
      <3> QED
        BY <1>1, <2>1, <2>3, <3>1 DEF Followed, Placed, Collections
    <2> QED
      BY <2>2, <2>3
  <1> HIDE DEF row
  <1> QED
    BY <1>1, <1>3, <1>4, <1>5, <1>6 DEF Followed, Placed, Collections

LEMMA LinksFollow ==
  ASSUME ScriptOK, Followed, LinkOrders
  PROVE  Followed'
  <1>1. /\ stage = "links" /\ UNCHANGED <<users, deliveries, invoices, mongo, memory>>
        /\ at <= Len(mongo.invoices) /\ Advance
        /\ orders' = [n \in DOMAIN orders |->
             IF n \in mongo.invoices[at].orders /\ orders[n].invoice = 0
               THEN [orders[n] EXCEPT !.invoice = at] ELSE orders[n]]
    BY DocsAre DEF LinkOrders
  <1>2. /\ orders \in Seq(OrderRow) /\ at \in Nat \ {0}
    BY <1>1 DEF ScriptOK, PlaceOK, OrdersOK, Placed, Collections
  <1>3. \A n : UserOf(n)' = UserOf(n)
    BY <1>1 DEF UserOf
  <1>4. (stage' = "links" /\ at' = at + 1) \/ (stage' = "settle" /\ at = Len(mongo.invoices))
    <2>1. Len(mongo.invoices) \in Nat
      BY DocsTyped, LenProperties DEF ScriptOK, PlaceOK
    <2> QED
      BY <1>1, <1>2, <2>1, AfterIs, DocsAre DEF Advance
  <1>5. DOMAIN mongo.invoices = 1 .. Len(mongo.invoices) /\ Len(mongo.invoices) \in Nat
    BY DocsTyped, LenProperties DEF ScriptOK, PlaceOK
  <1>6. ASSUME NEW n \in DOMAIN orders
        PROVE  /\ orders'[n].buyer = orders[n].buyer
               /\ orders'[n].invoice = 0 => orders[n].invoice = 0 /\ n \notin mongo.invoices[at].orders
    <2>1. orders[n] \in OrderRow
      BY <1>2, LenProperties, ElementOfSeq
    <2> QED
      BY <1>1, <1>2, <2>1 DEF OrderRow
  <1>7. ASSUME NEW n \in DOMAIN orders, orders'[n].invoice = 0, NEW i \in DOMAIN mongo.invoices,
               n \in mongo.invoices[i].orders
        PROVE  stage' = "links" /\ at' <= i
    <2>1. at <= i /\ i # at
      BY <1>1, <1>6, <1>7 DEF Followed, Placed, Collections
    <2> QED
      BY <1>2, <1>4, <1>5, <2>1
  <1>8. DOMAIN orders' = DOMAIN orders
    BY <1>1
  <1> QED
    BY <1>1, <1>3, <1>6, <1>7, <1>8 DEF Followed, Placed, Collections

LEMMA GroupFollows ==
  ASSUME ScriptOK, Followed, SettleGroup
  PROVE  Followed'
  <1>1. PICK k \in Orphaned :
       /\ invoices' = Append(invoices, [buyer |-> orders[k].buyer,
            supplier |-> SupplierOf(orders[k].delivery), paid |-> TRUE])
       /\ orders' = [m \in DOMAIN orders |->
            IF m \in Orphaned /\ Rank(m) = Rank(k)
              THEN [orders[m] EXCEPT !.invoice = Len(invoices) + 1] ELSE orders[m]]
    BY DEF SettleGroup
  <1>2. /\ stage = "settle" /\ UNCHANGED <<users, deliveries, mongo, memory, stage, at>>
        /\ orders \in Seq(OrderRow) /\ invoices \in Seq(InvoiceRow)
    BY DEF SettleGroup, ScriptOK, OrdersOK, InvoicesOK, Placed, Collections
  <1>3. \A n : UserOf(n)' = UserOf(n)
    BY <1>2 DEF UserOf
  <1> DEFINE row == [buyer |-> orders[k].buyer, supplier |-> SupplierOf(orders[k].delivery), paid |-> TRUE]
  <1>4. \A n \in DOMAIN invoices' : invoices'[n] = row \/ (n \in DOMAIN invoices /\ invoices'[n] = invoices[n])
    <2>1. invoices \in Seq(InvoiceRow \union {row}) /\ row \in InvoiceRow \union {row}
          /\ invoices' = Append(invoices, row)
      BY <1>1, <1>2
    <2> HIDE DEF row
    <2> QED
      BY <2>1, AppendProperties, LenProperties
  <1>5. ASSUME NEW n \in DOMAIN orders
        PROVE  /\ orders'[n].buyer = orders[n].buyer
               /\ orders'[n].invoice = 0 => orders[n].invoice = 0
    <2>1. orders[n] \in OrderRow /\ Len(invoices) \in Nat
      BY <1>2, LenProperties, ElementOfSeq
    <2> QED
      BY <1>1, <2>1 DEF OrderRow
  <1>6. DOMAIN orders' = DOMAIN orders /\ row.paid
    BY <1>1
  <1> HIDE DEF row
  <1> QED
    BY <1>2, <1>3, <1>4, <1>5, <1>6 DEF Followed, Placed, Collections

LEMMA NormaliseFollows ==
  ASSUME ScriptOK, Followed, Normalise
  PROVE  Followed'
  <1>1. /\ stage = "settle" /\ stage' = "done"
        /\ UNCHANGED <<users, deliveries, orders, mongo, memory>>
        /\ invoices' = [n \in DOMAIN invoices |->
             IF memory.placeholder \in {invoices[n].buyer, invoices[n].supplier}
               THEN [invoices[n] EXCEPT !.paid = TRUE] ELSE invoices[n]]
        /\ invoices \in Seq(InvoiceRow)
    BY DEF Normalise, ScriptOK, InvoicesOK, Placed, Collections
  <1>2. \A n : UserOf(n)' = UserOf(n)
    BY <1>1 DEF UserOf
  <1>3. ASSUME NEW n \in DOMAIN invoices'
        PROVE  n \in DOMAIN invoices /\ (invoices'[n].paid \/ invoices'[n] = invoices[n])
    <2>1. invoices[n] \in InvoiceRow
      BY <1>1, LenProperties, ElementOfSeq
    <2> QED
      BY <1>1, <2>1 DEF InvoiceRow
  <1> QED
    BY <1>1, <1>2, <1>3 DEF Followed, Placed, Collections

LEMMA FollowedNext ==
  ASSUME TInv, ScriptOK, Followed, Migrate
  PROVE  Followed'
  <1>1. CASE StartRun \/ StopRun \/ GoLive
    BY <1>1 DEF StartRun, StopRun, GoLive, Followed, Placed, Collections
  <1>2. CASE CreatePlaceholders
    <2>1. /\ memory = Fresh /\ memory'.row = memory.row
          /\ deliveries' = <<>> /\ invoices' = <<>> /\ orders' = <<>>
      BY <1>2, FreshIs DEF CreatePlaceholders, ScriptOK, UsersOK, DeliveriesOK, InvoicesOK, OrdersOK, Memory
    <2>2. memory'.row = <<>> /\ DOMAIN <<>> = {}
      BY <2>1, FreshIs, EmptySeq
    <2> QED
      BY <2>1, <2>2 DEF Followed
  <1>3. CASE SkipEmpty
    <2>1. /\ stage \in Collections /\ Docs[stage] = <<>> /\ stage' = After[stage] /\ at' = 1
          /\ UNCHANGED <<users, deliveries, invoices, orders, mongo, memory>>
      BY <1>3, DocsAre DEF SkipEmpty, copied
    <2>2. \A n : UserOf(n)' = UserOf(n)
      BY <2>1 DEF UserOf
    <2>3. /\ stage = "orders" => stage' = "links"
          /\ stage = "links" => DOMAIN mongo.invoices = {}
          /\ \A i \in DOMAIN mongo.invoices : 1 <= i
      <3>1. DOMAIN <<>> = {}
        BY EmptySeq
      <3> QED
        BY <2>1, <3>1, DocsAre, AfterIs, DocsTyped, LenProperties DEF ScriptOK, PlaceOK
    <2>4. stage \in {"users", "deliveries", "invoices"} => orders = <<>> /\ DOMAIN <<>> = {}
      BY EmptySeq DEF ScriptOK, OrdersOK
    <2> QED
      BY <2>1, <2>2, <2>3, <2>4 DEF Followed, Placed, Collections
  <1> QED
    BY <1>1, <1>2, <1>3, UserFollows, DeliveryFollows, InvoiceFollows, OrderFollows, LinksFollow,
       GroupFollows, NormaliseFollows
    DEF Migrate

\* What is owed when the application starts is owed by somebody enabled.
LEMMA DebtorsAreEnabled ==
  ASSUME TInv, ScriptOK, Followed, GoLive, DebtorsEnabled(mongo),
         NEW u \in User, u \in uninvoiced' \union unpaid'
  PROVE  ~users[u].disabled
  <1>1. /\ stage = "done"
        /\ uninvoiced' = {orders[n].buyer : n \in {i \in DOMAIN orders : orders[i].invoice = 0}}
        /\ unpaid' = {invoices[n].buyer : n \in {i \in DOMAIN invoices : ~invoices[i].paid}}
    BY DEF GoLive
  <1>2. /\ mongo.users \in Seq(MongoUser) /\ mongo.deliveries \in Seq(Reference(mongo.users))
        /\ mongo.orders \in Seq(OrderDoc) /\ mongo.invoices \in Seq(InvoiceDoc)
        /\ \A n \in DOMAIN memory.row :
             memory.row[n] # None => users[Ids[n + 1]].disabled = mongo.users[n].disabled
    BY <1>1, DocsTyped DEF ScriptOK, PlaceOK, Followed, Placed
  <1>3. CASE u \in uninvoiced'
    <2>1. PICK n \in DOMAIN orders : orders[n].invoice = 0 /\ u = orders[n].buyer
      BY <1>1, <1>3
    <2> DEFINE doc == mongo.orders[n]
    <2>2. /\ orders[n].buyer = UserOf(doc.buyer) /\ doc.invoice = 0
          /\ \A i \in DOMAIN mongo.invoices : n \notin mongo.invoices[i].orders
          /\ orders[n].delivery = doc.delivery
          /\ Orphaned = {}
      BY <1>1, <2>1 DEF Followed, ScriptOK, OrdersOK, Placed
    <2>3. n \in DOMAIN mongo.orders /\ doc \in OrderDoc
      <3>1. orders \in Seq(OrderRow) /\ Len(orders) = Len(mongo.orders)
        BY <1>1 DEF ScriptOK, OrdersOK, Placed
      <3> QED
        BY <1>2, <3>1, LenProperties, ElementOfSeq
    <2>4. u # memory.placeholder /\ SupplierOf(doc.delivery) # memory.placeholder
      BY <2>1, <2>2 DEF Orphaned
    <2>5. doc.delivery > 0 /\ mongo.deliveries[doc.delivery] > 0
      <3>1. Len(mongo.deliveries) \in Nat /\ DOMAIN mongo.deliveries = 1 .. Len(mongo.deliveries)
        BY <1>2, LenProperties
      <3>2. doc.delivery # 0 /\ doc.delivery \in 0 .. Len(mongo.deliveries)
        BY <2>3, <2>4 DEF SupplierOf, OrderDoc, Reference
      <3>3. doc.delivery \in DOMAIN mongo.deliveries
        BY <3>1, <3>2
      <3>4. doc.delivery \in DOMAIN deliveries
        <4>1. deliveries \in Seq(User) /\ Len(deliveries) = Len(mongo.deliveries)
          BY <1>1 DEF ScriptOK, DeliveriesOK, Placed
        <4> QED
          BY <3>1, <3>3, <4>1, LenProperties
      <3>5. deliveries[doc.delivery] = UserOf(mongo.deliveries[doc.delivery])
        BY <1>1, <3>4 DEF Followed, Placed
      <3>6. UserOf(mongo.deliveries[doc.delivery]) # memory.placeholder
        BY <2>4, <3>2, <3>5 DEF SupplierOf
      <3>7. mongo.deliveries[doc.delivery] \in Reference(mongo.users)
        BY <1>2, <3>3, ElementOfSeq
      <3>8. mongo.deliveries[doc.delivery] > 0
        BY <1>1, <3>6, <3>7, SomebodyIs DEF Placed, Collections
      <3> QED
        BY <3>2, <3>8
    <2>6. /\ doc.buyer > 0 /\ doc.buyer \in DOMAIN memory.row /\ memory.row[doc.buyer] # None
          /\ u = Ids[doc.buyer + 1]
      <3>1. doc.buyer \in Reference(mongo.users)
        BY <2>3 DEF OrderDoc
      <3> QED
        BY <1>1, <2>1, <2>2, <2>4, <3>1, SomebodyIs DEF Placed, Collections
    <2>7. ~mongo.users[doc.buyer].disabled
      BY <2>2, <2>3, <2>5, <2>6 DEF DebtorsEnabled
    <2> QED
      BY <1>2, <2>6, <2>7
  <1>4. CASE u \in unpaid'
    <2>1. PICK n \in DOMAIN invoices : ~invoices[n].paid /\ u = invoices[n].buyer
      BY <1>1, <1>4
    <2> DEFINE doc == mongo.invoices[n]
    <2>2. /\ n \in DOMAIN mongo.invoices /\ ~doc.paid
          /\ invoices[n].buyer = UserOf(doc.buyer) /\ invoices[n].supplier = UserOf(doc.supplier)
          /\ memory.placeholder \notin {invoices[n].buyer, invoices[n].supplier}
      BY <1>1, <2>1 DEF Followed, ScriptOK, InvoicesOK, Placed
    <2>3. doc.buyer \in Reference(mongo.users) /\ doc.supplier \in Reference(mongo.users)
      <3>1. doc \in InvoiceDoc
        BY <1>2, <2>2, LenProperties, ElementOfSeq
      <3> QED
        BY <3>1 DEF InvoiceDoc
    <2>4. /\ doc.buyer > 0 /\ doc.buyer \in DOMAIN memory.row /\ memory.row[doc.buyer] # None
          /\ u = Ids[doc.buyer + 1] /\ doc.supplier > 0
      BY <1>1, <2>1, <2>2, <2>3, SomebodyIs DEF Placed, Collections
    <2>5. ~mongo.users[doc.buyer].disabled
      BY <2>2, <2>4 DEF DebtorsEnabled
    <2> QED
      BY <1>2, <2>4, <2>5
  <1> QED
    BY <1>3, <1>4

LEMMA OwingNext ==
  ASSUME \A m \in Mongo : DebtorsEnabled(m), Sound, OwingInv, [MigrationNext]_<<vars, script>>
  PROVE  OwingInv'
  <1>1. CASE Migrate
    <2>1. stage # "live"
      BY <1>1, DocsAre DEF Migrate, StartRun, CreatePlaceholders, MigrateUser, MigrateDelivery,
        MigrateInvoice, MigrateOrder, LinkOrders, SettleGroup, Normalise, SkipEmpty, StopRun, GoLive,
        Collections
    <2>2. Followed'
      BY <1>1, <2>1, FollowedNext DEF Sound, MInv, OwingInv
    <2>3. /\ req' = [r \in Request |-> Blank]
      BY <1>1, <2>1 DEF Sound, MInv, Untouched, Migrate, StartRun, CreatePlaceholders, MigrateUser,
        MigrateDelivery, MigrateInvoice, MigrateOrder, LinkOrders, SettleGroup, Normalise, SkipEmpty,
        StopRun, GoLive, idle
    <2>4. \A r \in Request : DebtOK(req[r])'
      BY <2>3, BlankOK DEF DebtOK
    <2>5. CASE GoLive
      <3>1. \A u \in User : u \in uninvoiced' \union unpaid' => ~users[u].disabled
        <4>1. mongo \in Mongo
          BY DEF Sound, MInv, ScriptOK, PlaceOK
        <4> QED
          BY <2>1, <2>5, <4>1, DebtorsAreEnabled DEF Sound, MInv, OwingInv
      <3>2. stage' = "live" /\ users' = users
        BY <2>5 DEF GoLive, tables
      <3> QED
        BY <2>2, <2>4, <3>1, <3>2 DEF OwingInv, DInv, Owes
    <2>6. CASE ~GoLive
      <3>1. uninvoiced' = {} /\ unpaid' = {}
        BY <1>1, <2>1, <2>6 DEF OwingInv, Migrate, StartRun, CreatePlaceholders, MigrateUser,
          MigrateDelivery, MigrateInvoice, MigrateOrder, LinkOrders, SettleGroup, Normalise, SkipEmpty,
          StopRun, idle
      <3> QED
        BY <2>2, <2>4, <3>1 DEF OwingInv, DInv, Owes
    <2> QED
      BY <2>5, <2>6
  <1>2. CASE ~Migrate
    <2>1. UNCHANGED script /\ [Next]_vars /\ (stage = "live" \/ UNCHANGED vars)
      BY <1>2 DEF MigrationNext
    <2>2. DInv'
      BY <2>1, DInvNext DEF Sound, OwingInv
    <2>3. Followed' /\ (stage' # "live" => uninvoiced' = {} /\ unpaid' = {})
      <3>1. CASE stage = "live"
        BY <2>1, <3>1 DEF OwingInv, Followed, script, Placed, Collections
      <3>2. CASE UNCHANGED vars
        <4>1. UNCHANGED <<stage, memory, users, deliveries, orders, invoices, mongo, at, uninvoiced, unpaid>>
          BY <2>1, <3>2 DEF script, vars
        <4>2. \A n : UserOf(n)' = UserOf(n)
          BY <4>1 DEF UserOf
        <4> QED
          BY <4>1, <4>2 DEF OwingInv, Followed
      <3> QED
        BY <2>1, <3>1, <3>2
    <2> QED
      BY <2>2, <2>3 DEF OwingInv
  <1> QED
    BY <1>1, <1>2

\* Once the application runs on migrated tables, a disabled account owes
\* nothing but in a crossing, as on its own tables (NoDisabledDebtors): if
\* nobody disabled in the former database owes somebody who is still there.
\* The script does not look at that itself.
THEOREM NoMigratedDebtors ==
  ASSUME \A m \in Mongo : DebtorsEnabled(m)
  PROVE  MigrationSpec => []DisabledOwesNothing
  <1>1. MigrationInit => OwingInv
    BY OwingInit
  <1>2. Sound /\ OwingInv /\ [MigrationNext]_<<vars, script>> => OwingInv'
    BY OwingNext
  <1>3. OwingInv => DisabledOwesNothing
    BY DEF OwingInv, DInv, DisabledOwesNothing, Rows, Owes
  <1> QED
    BY <1>1, <1>2, <1>3, SoundMigration, PTL DEF MigrationSpec
=============================================================================
