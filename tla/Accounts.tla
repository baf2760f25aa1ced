------------------------------ MODULE Accounts ------------------------------
(***************************************************************************)
(* The rows of users: who gets one, which keypad number it carries, and    *)
(* what admins do to it.                                                   *)
(*                                                                         *)
(*   AdminService.updateUser        an admin changes a role or disables    *)
(*   BootstrapController.store      the first admin                        *)
(*   RegisterController.store       self-registration with a password      *)
(*   InvitationService              create, revoke, accept, expire         *)
(*   OidcController.callback        sign-in through an external provider,  *)
(*                                  which may register the account         *)
(*                                                                         *)
(* A Request is one HTTP request in flight.  Each database statement (or   *)
(* group of statements nothing can come between with an effect) is a step. *)
(* Except for acceptInvite, which is a transaction holding the row lock of *)
(* its invitation, no handler here runs in a transaction: what one         *)
(* statement wrote stays when the next one fails.                          *)
(*                                                                         *)
(* Purchases and invoices appear only as what updateUser asks of them:     *)
(* whether a user has orders not invoiced, and invoices not paid.          *)
(***************************************************************************)
EXTENDS Naturals, FiniteSets, FiniteSetsExt

CONSTANTS
  User,           \* ids of user rows
  Role,           \* values of users.role
  Email,          \* addresses (normalised)
  Approved,       \* the addresses AUTH_REGISTRATION_ALLOWED_DOMAINS admits
  Person,         \* identities at the external provider
  EmailOf,        \* the address the provider reports for each of them
  Invite,         \* ids of user_invitations
  Request,        \* requests that can be in flight together
  None,           \* SQL null
  Placeholder,    \* the reserved keypad number (89999 in the code)
  Start,          \* tables of users the application can be started on
  Policies,       \* the values of AUTH_REGISTRATION_MODE considered
  MaxBegun,       \* bound: requests begun
  MaxLost         \* bound: requests cut off

NoRow == [email |-> None, role |-> "customer", disabled |-> FALSE, key |-> 0]
UserRow == [email : Email \union {None}, role : Role, disabled : BOOLEAN, key : Nat]
NoInvite == [email |-> None, role |-> "customer", accepted |-> None,
             revoked |-> FALSE, expired |-> FALSE, knew |-> {}]

ASSUME AccountsAssumption ==
  /\ {"customer", "admin"} \subseteq Role
  /\ IsFiniteSet(User)
  /\ None \notin User \union Email \union Invite \union Person \union Role
  /\ Invite \intersect {"start", "self"} = {}
  /\ Approved \subseteq Email
  /\ EmailOf \in [Person -> Email]
  /\ Placeholder \in Nat \ {0}
  /\ Start \subseteq [User -> UserRow]
  /\ Policies \subseteq {"open", "invite_only", "domain_auto_approve"}
  /\ MaxBegun \in Nat /\ MaxLost \in Nat

VARIABLES
  policy,      \* AUTH_REGISTRATION_MODE
  users,       \* table users; a row with key 0 does not exist
  uninvoiced,  \* users who bought something that is on no invoice yet
  unpaid,      \* users with an invoice not paid
  invites,     \* table user_invitations
  links,       \* table user_auth_identities: the user of each identity
  req,         \* the requests in flight
  begun, lost, \* counters of the bounds
  origin,      \* history: what each row of users came from
  crossed,     \* history: users disabled while a purchase or invoice crossed
  cut,         \* history: users whose invitation could not be recorded
  signedIn     \* history: <<identity, user>> of the completed sign-ins

tables == <<users, invites, links>>
history == <<origin, crossed, cut, signedIn>>
vars == <<policy, users, uninvoiced, unpaid, invites, links, req, begun, lost,
          origin, crossed, cut, signedIn>>

Blank == [pc |-> "idle", user |-> None, seen |-> None, copy |-> NoRow,
          role |-> None, disable |-> None, todo |-> {}, owed |-> FALSE,
          email |-> None, inv |-> None, person |-> None, knew |-> {}]

Init ==
  /\ policy \in Policies
  /\ users \in Start
  /\ uninvoiced = {} /\ unpaid = {}
  /\ invites = [i \in Invite |-> NoInvite]
  /\ links = [p \in Person |-> None]
  /\ req = [r \in Request |-> Blank]
  /\ begun = 0 /\ lost = 0
  /\ origin = [u \in User |-> IF users[u].key = 0 THEN None ELSE "start"]
  /\ crossed = {} /\ cut = {} /\ signedIn = {}

-----------------------------------------------------------------------------
(* Queries. *)

Rows == {u \in User : users[u].key > 0}
Admins == {u \in Rows : users[u].role = "admin"}
ActiveAdmins == {u \in Admins : ~users[u].disabled}
EmailFree(e) == \A u \in Rows : users[u].email # e
Keys == {users[u].key : u \in Rows}

\* generate_series of getNextAvailableUserKeypadId.
Series == 1 .. (Max((Keys \ {Placeholder}) \union {0}) + 1)

\* Mutant: one more than the largest number.
LargestPlusOne == Max(Keys \union {0}) + 1
\* The lowest number nobody uses; there is none when the series has reached
\* the placeholder.
LowestFree == Min(Series \ Keys)

Issued(i) == invites[i].email # None

Open(i) ==
  /\ Issued(i)
  /\ invites[i].accepted = None /\ ~invites[i].revoked /\ ~invites[i].expired

OpenFor(e) == {i \in Invite : Open(i) /\ invites[i].email = e}

\* Some acceptInvite holds the row lock of invitation i.
Locked(i) ==
  \E r \in Request : req[r].pc \in {"lockedKey", "lockedInsert"} /\ req[r].inv = i

\* RegistrationPolicyService.canSelfRegister.
CanSelfRegister(e) ==
  \/ policy = "open"
  \/ policy = "domain_auto_approve" /\ e \in Approved

-----------------------------------------------------------------------------
(* Requests. *)

Step(r, q) == req' = [req EXCEPT ![r] = q]
Goto(r, where) == req' = [req EXCEPT ![r].pc = where]
End(r) == Step(r, Blank)

Begin(r, q) ==
  /\ req[r].pc = "idle" /\ begun < MaxBegun
  /\ begun' = begun + 1
  /\ Step(r, q)

\* A row of users is inserted; email and keypad_id are unique.
Fits(e, k) == EmailFree(e) /\ k \notin Keys

InsertUser(u, row, from) ==
  /\ u \notin Rows
  /\ users' = [users EXCEPT ![u] = row]
  /\ origin' = [origin EXCEPT ![u] = from]

-----------------------------------------------------------------------------
(* AdminService.updateUser.  The page sends a role or a disabled flag; the *)
(* route lets only active admins in.                                       *)

Wishes == {[role |-> x, disable |-> None] : x \in Role}
            \union {[role |-> None, disable |-> b] : b \in BOOLEAN}

\* Mutant: only a demotion is looked at.
LosesAdminByRole(row, w) ==
  row.role = "admin" /\ ~row.disabled /\ w.role \notin {None, "admin"}
\* An active admin who will not be one.
LosesAdmin(row, w) ==
  /\ row.role = "admin" /\ ~row.disabled
  /\ w.role \notin {None, "admin"} \/ w.disable = TRUE

AfterAdmins(w) == IF w.disable = TRUE THEN "checkDebts" ELSE "saveUser"

UpdateLoad(r, u, w) ==
  /\ ActiveAdmins # {} /\ u \in Rows
  /\ Begin(r, [Blank EXCEPT
       !.pc = IF LosesAdmin(users[u], w) THEN "findAdmin" ELSE AfterAdmins(w),
       !.user = u, !.copy = users[u], !.role = w.role, !.disable = w.disable,
       !.todo = {"uninvoiced", "unpaid"}])
  /\ UNCHANGED <<policy, tables, uninvoiced, unpaid, lost, history>>

\* The query for another active admin; without one the update is refused.
FindAdmin(r) ==
  /\ req[r].pc = "findAdmin"
  /\ LET others == ActiveAdmins \ {req[r].user} IN
       IF others = {} THEN End(r)
       ELSE \E a \in others :
              Step(r, [req[r] EXCEPT !.pc = AfterAdmins(req[r]), !.seen = a])
  /\ UNCHANGED <<policy, tables, uninvoiced, unpaid, begun, lost, history>>

\* Mutant: an order that is on no invoice yet is overlooked.
UnpaidOnly(q) == unpaid
Debtors(q) == IF q = "uninvoiced" THEN uninvoiced ELSE unpaid

\* getUninvoicedBuyerIds and getUnpaidBuyerIds, run side by side; the update
\* is refused when either names the user.
CheckDebt(r, q) ==
  /\ req[r].pc = "checkDebts" /\ q \in req[r].todo
  /\ LET left == req[r].todo \ {q}
         owed == req[r].owed \/ req[r].user \in Debtors(q)
     IN IF left = {} /\ owed THEN End(r)
        ELSE Step(r, [req[r] EXCEPT !.todo = left, !.owed = owed,
                        !.pc = IF left = {} THEN "saveUser" ELSE "checkDebts"])
  /\ UNCHANGED <<policy, tables, uninvoiced, unpaid, begun, lost, history>>

\* save() writes the columns that differ from the row as it was loaded.
Changed(was, wish, now) == IF wish \in {None, was} THEN now ELSE wish

\* A purchase of u is in flight.
Buying(u) == \E r \in Request : req[r].pc = "buy" /\ req[r].user = u

SaveUser(r) ==
  LET u == req[r].user IN
  /\ req[r].pc = "saveUser"
  /\ users' = [users EXCEPT
       ![u].role = Changed(req[r].copy.role, req[r].role, @),
       ![u].disabled = Changed(req[r].copy.disabled, req[r].disable, @)]
  /\ crossed' = IF req[r].disable = TRUE /\ Buying(u) THEN crossed \union {u} ELSE crossed
  /\ End(r)
  /\ UNCHANGED <<policy, invites, links, uninvoiced, unpaid, begun, lost,
                 origin, cut, signedIn>>

-----------------------------------------------------------------------------
(* What happens to debts meanwhile. *)

\* Only an enabled account gets past silent_auth and the kiosk's look-up.
MayBuy(u) == u \in Rows /\ ~users[u].disabled

BuyBegin(r, u) ==
  /\ MayBuy(u)
  /\ Begin(r, [Blank EXCEPT !.pc = "buy", !.user = u])
  /\ UNCHANGED <<policy, tables, uninvoiced, unpaid, lost, history>>

\* An update of u that is to disable it has begun to look for debts.
Disabling(u, where) ==
  \E r \in Request : req[r].user = u /\ req[r].disable = TRUE /\ req[r].pc \in where

BuyCommit(r) ==
  LET u == req[r].user IN
  /\ req[r].pc = "buy"
  /\ uninvoiced' = uninvoiced \union {u}
  /\ crossed' = IF Disabling(u, {"checkDebts", "saveUser"})
                  THEN crossed \union {u} ELSE crossed
  /\ End(r)
  /\ UNCHANGED <<policy, tables, unpaid, begun, lost, origin, cut, signedIn>>

\* generateInvoicesForUser bills what u has bought.
Bill(u) ==
  /\ u \in uninvoiced
  /\ uninvoiced' = uninvoiced \ {u}
  /\ unpaid' = unpaid \union {u}
  /\ crossed' = IF Disabling(u, {"checkDebts"}) THEN crossed \union {u} ELSE crossed
  /\ UNCHANGED <<policy, tables, req, begun, lost, origin, cut, signedIn>>

\* The invoices of u are paid, or what u bought is cancelled.
Settle(u) ==
  /\ u \in uninvoiced \union unpaid
  /\ \/ u \in unpaid /\ unpaid' = unpaid \ {u} /\ UNCHANGED uninvoiced
     \/ u \in uninvoiced /\ uninvoiced' = uninvoiced \ {u} /\ UNCHANGED unpaid
  /\ UNCHANGED <<policy, tables, req, begun, lost, history>>

-----------------------------------------------------------------------------
(* Bootstrap and self-registration. *)

Account(e, role) == [email |-> e, role |-> role, disabled |-> FALSE, key |-> 0]

BootstrapBegin(r, e) ==
  /\ Admins = {}
  /\ Begin(r, [Blank EXCEPT !.pc = "key", !.copy = Account(e, "admin")])
  /\ UNCHANGED <<policy, tables, uninvoiced, unpaid, lost, history>>

RegisterBegin(r, e) ==
  /\ Admins # {} /\ CanSelfRegister(e) /\ EmailFree(e)
  /\ Begin(r, [Blank EXCEPT !.pc = "key", !.copy = Account(e, "customer")])
  /\ UNCHANGED <<policy, tables, uninvoiced, unpaid, lost, history>>

\* getNextAvailableUserKeypadId throws when the series is exhausted.
ReadKey(r) ==
  /\ req[r].pc = "key"
  /\ IF Series \subseteq Keys THEN End(r)
     ELSE Step(r, [req[r] EXCEPT !.pc = "insert", !.copy.key = LowestFree])
  /\ UNCHANGED <<policy, tables, uninvoiced, unpaid, begun, lost, history>>

\* Where a request goes on after its row is in.
AfterInsert(q) == IF q.person = None THEN "idle"
                  ELSE IF q.inv = None THEN "link" ELSE "findInvite"

Insert(r, u) ==
  /\ req[r].pc = "insert" /\ Fits(req[r].copy.email, req[r].copy.key)
  /\ InsertUser(u, req[r].copy, IF req[r].inv = None THEN "self" ELSE req[r].inv)
  /\ IF req[r].person = None THEN End(r)
     ELSE Step(r, [req[r] EXCEPT !.pc = AfterInsert(req[r]), !.user = u])
  /\ UNCHANGED <<policy, invites, links, uninvoiced, unpaid, begun, lost,
                 crossed, cut, signedIn>>

\* The unique constraint on email or keypad_id turns the row away.
InsertRejected(r) ==
  /\ req[r].pc \in {"insert", "lockedInsert"}
  /\ ~Fits(req[r].copy.email, req[r].copy.key)
  /\ End(r)
  /\ UNCHANGED <<policy, tables, uninvoiced, unpaid, begun, lost, history>>

-----------------------------------------------------------------------------
(* InvitationService. *)

CreateInviteBegin(r, e, role) ==
  /\ ActiveAdmins # {} /\ EmailFree(e)
  /\ Begin(r, [Blank EXCEPT !.pc = "revokeOld", !.email = e, !.role = role])
  /\ UNCHANGED <<policy, tables, uninvoiced, unpaid, lost, history>>

\* The UPDATE that revokes what is open for the address.
Supersede(e) == [i \in Invite |-> IF i \in OpenFor(e)
                                    THEN [invites[i] EXCEPT !.revoked = TRUE]
                                    ELSE invites[i]]

\* It waits for an acceptance that has locked one of the rows.
RevokeOld(r) ==
  LET e == req[r].email IN
  /\ req[r].pc = "revokeOld"
  /\ \A i \in OpenFor(e) : ~Locked(i)
  /\ invites' = Supersede(e)
  /\ Step(r, [req[r] EXCEPT !.pc = "insertInvite",
                !.knew = {i \in Invite : invites[i].email = e}])
  /\ UNCHANGED <<policy, users, links, uninvoiced, unpaid, begun, lost, history>>

InsertInvite(r, i) ==
  /\ req[r].pc = "insertInvite" /\ ~Issued(i)
  /\ invites' = [invites EXCEPT ![i] = [NoInvite EXCEPT
       !.email = req[r].email, !.role = req[r].role, !.knew = req[r].knew]]
  /\ End(r)
  /\ UNCHANGED <<policy, users, links, uninvoiced, unpaid, begun, lost, history>>

\* revokeInvite loads the row; an expired one may be revoked, too.
RevokeBegin(r, i) ==
  /\ ActiveAdmins # {} /\ Issued(i)
  /\ ~invites[i].revoked /\ invites[i].accepted = None
  /\ Begin(r, [Blank EXCEPT !.pc = "revoke", !.inv = i])
  /\ UNCHANGED <<policy, tables, uninvoiced, unpaid, lost, history>>

\* Its save waits for a transaction that holds the row.
RevokeSave(r) ==
  /\ req[r].pc = "revoke" /\ ~Locked(req[r].inv)
  /\ invites' = [invites EXCEPT ![req[r].inv].revoked = TRUE]
  /\ End(r)
  /\ UNCHANGED <<policy, users, links, uninvoiced, unpaid, begun, lost, history>>

Expire(i) ==
  /\ Open(i)
  /\ invites' = [invites EXCEPT ![i].expired = TRUE]
  /\ UNCHANGED <<policy, users, links, req, uninvoiced, unpaid, begun, lost, history>>

\* acceptInvite locks the row and checks it.
AcceptLock(r, i) ==
  /\ Open(i) /\ ~Locked(i) /\ EmailFree(invites[i].email)
  /\ Begin(r, [Blank EXCEPT !.pc = "lockedKey", !.inv = i,
                 !.copy = Account(invites[i].email, invites[i].role)])
  /\ UNCHANGED <<policy, tables, uninvoiced, unpaid, lost, history>>

LockedKey(r) ==
  /\ req[r].pc = "lockedKey"
  /\ IF Series \subseteq Keys THEN End(r)
     ELSE Step(r, [req[r] EXCEPT !.pc = "lockedInsert", !.copy.key = LowestFree])
  /\ UNCHANGED <<policy, tables, uninvoiced, unpaid, begun, lost, history>>

\* The account and the acceptance commit together.
LockedInsert(r, u) ==
  /\ req[r].pc = "lockedInsert" /\ Fits(req[r].copy.email, req[r].copy.key)
  /\ InsertUser(u, req[r].copy, req[r].inv)
  /\ invites' = [invites EXCEPT ![req[r].inv].accepted = u]
  /\ End(r)
  /\ UNCHANGED <<policy, links, uninvoiced, unpaid, begun, lost,
                 crossed, cut, signedIn>>

-----------------------------------------------------------------------------
(* OidcController.callback: a sign-in, with the intents the session held.  *)

Owner(e) == {u \in Rows : users[u].email = e}

\* The accounts resolveForLogin finds for identity p.
Match(p) ==
  IF links[p] # None THEN {links[p]}
  ELSE {u \in Owner(EmailOf[p]) : \A q \in Person : links[q] # u}

\* By address, but linked to another identity: sign-in denied.
Conflict(p) == links[p] = None /\ Owner(EmailOf[p]) # {} /\ Match(p) = {}

SignInKnown(r, p) ==
  /\ \E u \in Match(p) :
       Begin(r, [Blank EXCEPT !.pc = "link", !.user = u, !.copy = users[u],
                   !.person = p])
  /\ UNCHANGED <<policy, tables, uninvoiced, unpaid, lost, history>>

\* Mutant: the callback takes the invitation of the link without looking whether it is
\* still open.
AdmissionByLink(p, intent, boot) ==
  LET e == EmailOf[p] IN
  IF intent # None THEN {i \in {intent} : invites[i].email = e}
  ELSE IF (boot /\ Admins = {}) \/ CanSelfRegister(e) THEN {None}
  ELSE IF policy = "invite_only" THEN OpenFor(e) ELSE {}
\* Who may register: on an invitation link; the first admin; by the policy;
\* or, by invitation only, when an open invitation waits for the address.
Admission(p, intent, boot) ==
  LET e == EmailOf[p] IN
  IF intent # None THEN {intent} \intersect OpenFor(e)
  ELSE IF (boot /\ Admins = {}) \/ CanSelfRegister(e) THEN {None}
  ELSE IF policy = "invite_only" THEN OpenFor(e) ELSE {}

RoleOf(i, boot) ==
  IF boot /\ Admins = {} THEN "admin"
  ELSE IF i # None THEN invites[i].role
  ELSE IF Admins # {} THEN "customer" ELSE "admin"

SignInNew(r, p, intent, boot) ==
  /\ Match(p) = {} /\ ~Conflict(p)
  /\ \E i \in Admission(p, intent, boot) :
       Begin(r, [Blank EXCEPT !.pc = "key", !.person = p, !.inv = i,
                   !.copy = Account(EmailOf[p], RoleOf(i, boot))])
  /\ UNCHANGED <<policy, tables, uninvoiced, unpaid, lost, history>>

\* acceptInviteForUser looks at the invitation again, without a lock.
FindInvite(r) ==
  /\ req[r].pc = "findInvite"
  /\ Goto(r, IF Open(req[r].inv) THEN "saveInvite" ELSE "link")
  /\ UNCHANGED <<policy, tables, uninvoiced, unpaid, begun, lost, history>>

SaveInvite(r) ==
  LET i == req[r].inv IN
  /\ req[r].pc = "saveInvite" /\ ~Locked(i)
  /\ invites' = [invites EXCEPT ![i].accepted = req[r].user]
  /\ Goto(r, "link")
  /\ UNCHANGED <<policy, users, links, uninvoiced, unpaid, begun, lost, history>>

\* Mutant: two identities of the provider may lead to one account.
CanLinkTwice(p, u) == links[p] \in {None, u}
\* ensureLinkedIdentity: one account per identity, one identity per account.
CanLink(p, u) ==
  /\ links[p] \in {None, u}
  /\ \A q \in Person : links[q] = u => q = p

\* A signed-in user adds an identity of the provider to the account.
LinkIntent(r, p, u) ==
  /\ u \in Rows /\ ~users[u].disabled
  /\ Begin(r, [Blank EXCEPT !.pc = "linkOnly", !.user = u, !.person = p])
  /\ UNCHANGED <<policy, tables, uninvoiced, unpaid, lost, history>>

Link(r) ==
  LET p == req[r].person
      u == req[r].user IN
  /\ req[r].pc \in {"link", "linkOnly"}
  /\ IF CanLink(p, u) THEN links' = [links EXCEPT ![p] = u] ELSE UNCHANGED links
  /\ IF CanLink(p, u) /\ req[r].pc = "link" THEN Goto(r, "login") ELSE End(r)
  /\ UNCHANGED <<policy, users, invites, uninvoiced, unpaid, begun, lost, history>>

Login(r) ==
  /\ req[r].pc = "login"
  /\ signedIn' = IF req[r].copy.disabled THEN signedIn
                 ELSE signedIn \union {<<req[r].person, req[r].user>>}
  /\ End(r)
  /\ UNCHANGED <<policy, tables, uninvoiced, unpaid, begun, lost,
                 origin, crossed, cut>>

-----------------------------------------------------------------------------
(* Changes from outside. *)

\* A confirmed change of the address (EmailVerificationService): counted
\* with the requests.
MoveEmail(u, e) ==
  /\ begun < MaxBegun
  /\ begun' = begun + 1
  /\ u \in Rows /\ EmailFree(e)
  /\ users' = [users EXCEPT ![u].email = e]
  /\ UNCHANGED <<policy, invites, links, uninvoiced, unpaid, req, lost, history>>

\* A request ends in the middle: a statement fails, or the server stops.
Lose(r) ==
  /\ req[r].pc # "idle" /\ lost < MaxLost
  /\ lost' = lost + 1
  /\ cut' = IF req[r].pc \in {"findInvite", "saveInvite"}
              THEN cut \union {req[r].user} ELSE cut
  /\ End(r)
  /\ UNCHANGED <<policy, tables, uninvoiced, unpaid, begun, origin,
                 crossed, signedIn>>

-----------------------------------------------------------------------------

UpdateUser(r) ==
  \/ \E u \in User, w \in Wishes : UpdateLoad(r, u, w)
  \/ FindAdmin(r)
  \/ \E q \in {"uninvoiced", "unpaid"} : CheckDebt(r, q)
  \/ SaveUser(r)

Debts(r) ==
  \/ \E u \in User : BuyBegin(r, u)
  \/ BuyCommit(r)

Register(r) ==
  \/ \E e \in Email : BootstrapBegin(r, e) \/ RegisterBegin(r, e)
  \/ ReadKey(r)
  \/ \E u \in User : Insert(r, u)
  \/ InsertRejected(r)

Invitations(r) ==
  \/ \E e \in Email, x \in Role : CreateInviteBegin(r, e, x)
  \/ RevokeOld(r)
  \/ \E i \in Invite : InsertInvite(r, i) \/ RevokeBegin(r, i) \/ AcceptLock(r, i)
  \/ RevokeSave(r)
  \/ LockedKey(r)
  \/ \E u \in User : LockedInsert(r, u)

SignIn(r) ==
  \/ \E p \in Person : SignInKnown(r, p) \/ \E u \in User : LinkIntent(r, p, u)
  \/ \E p \in Person, i \in Invite \union {None}, b \in BOOLEAN : SignInNew(r, p, i, b)
  \/ FindInvite(r) \/ SaveInvite(r) \/ Link(r) \/ Login(r)

Environment ==
  \/ \E u \in User : Bill(u) \/ Settle(u)
  \/ \E i \in Invite : Expire(i)
  \/ \E u \in User, e \in Email : MoveEmail(u, e)
  \/ \E r \in Request : Lose(r)

Next ==
  \/ \E r \in Request :
       UpdateUser(r) \/ Debts(r) \/ Register(r) \/ Invitations(r) \/ SignIn(r)
  \/ Environment

Spec == Init /\ [][Next]_vars

-----------------------------------------------------------------------------
(* Properties. *)

PC == {"idle", "findAdmin", "checkDebts", "saveUser", "buy", "key", "insert",
       "revokeOld", "insertInvite", "revoke", "lockedKey", "lockedInsert",
       "findInvite", "saveInvite", "link", "linkOnly", "login"}

\* Every table holds rows of its type, and every request is at one of its
\* statements.
TypeOK ==
  /\ policy \in Policies
  /\ users \in [User -> UserRow]
  /\ uninvoiced \subseteq User /\ unpaid \subseteq User
  /\ invites \in [Invite -> [email : Email \union {None}, role : Role,
                             accepted : User \union {None}, revoked : BOOLEAN,
                             expired : BOOLEAN, knew : SUBSET Invite]]
  /\ links \in [Person -> User \union {None}]
  /\ req \in [Request ->
       [pc : PC, user : User \union {None}, seen : User \union {None},
        copy : UserRow, role : Role \union {None}, disable : BOOLEAN \union {None},
        todo : SUBSET {"uninvoiced", "unpaid"}, owed : BOOLEAN,
        email : Email \union {None}, inv : Invite \union {None},
        person : Person \union {None}, knew : SUBSET Invite]]
  /\ begun \in Nat /\ lost \in Nat
  /\ origin \in [User -> {None, "start", "self"} \union Invite]
  /\ crossed \subseteq User /\ cut \subseteq User
  /\ signedIn \subseteq Person \X User

\* Below the keypad number of an account the application made, every number
\* is in use: two registrations that read the same lowest free number cannot
\* both keep it, and the loser leaves no gap.
NumbersFillUp ==
  \A u \in Rows : origin[u] # "start" => 1 .. users[u].key \subseteq Keys

\* What an update relies on has changed since it was read: the other active
\* admin is none any more, or the row it loaded is no longer what it was.
Stale(r) ==
  \/ req[r].seen # None /\ req[r].seen \notin ActiveAdmins
  \/ req[r].copy.role # users[req[r].user].role
  \/ req[r].copy.disabled # users[req[r].user].disabled

\* The last active admin goes only in a crossing: the update that takes it
\* away was checked against rows that another update has changed meanwhile.
LostInCrossing ==
  ActiveAdmins # {} /\ ActiveAdmins' = {} =>
    \E r \in Request : req[r].pc = "saveUser" /\ req[r]' = Blank /\ Stale(r)
LastAdminLostInCrossing == [][LostInCrossing]_vars

\* A disabled account owes nothing, unless a purchase of it, or an invoice
\* generated between the two queries, crossed the update that disabled it.
DisabledOwesNothing ==
  \A u \in Rows : users[u].disabled /\ u \in uninvoiced \union unpaid => u \in crossed

\* An invitation that brought an account in does not stay open, unless the
\* request that should have recorded the acceptance was cut off.
UsedInviteIsClosed ==
  \A u \in Rows : origin[u] \in Invite =>
    \/ ~Open(origin[u])
    \/ u \in cut
    \/ \E r \in Request : req[r].user = u /\ req[r].pc \in {"findInvite", "saveInvite"}

\* What a newer invitation to the same address has revoked is never open again.
SupersededStaysClosed ==
  \A i, j \in Invite : Issued(j) /\ i \in invites[j].knew => ~Open(i)

\* Somebody has used, replaced or revoked the invitation.
Closed(i) == Issued(i) /\ (invites[i].revoked \/ invites[i].accepted # None)

\* Request r was let in on invitation i and has not inserted its account yet.
Admitted(r, i) ==
  req[r].inv = i /\ req[r].pc \in {"key", "insert", "lockedKey", "lockedInsert"}

\* A closed invitation stays closed and lets nobody in.  Whoever comes in on it all
\* the same had been let in before: a sign-in, whose check and User.create are
\* separate statements; never somebody who accepts the invitation itself.
ClosedLetsNobodyIn ==
  \A i \in Invite : Closed(i) =>
    /\ Closed(i)'
    /\ \A r \in Request : Admitted(r, i)' => Admitted(r, i)
    /\ \A u \in User : origin[u] # i /\ origin'[u] = i =>
         \E r \in Request : Admitted(r, i) /\ ~Admitted(r, i)' /\ req[r].person # None

\* An invitation used, replaced or revoked brings nobody else in but a sign-in it had
\* let in before; and one is closed by being used, unless the sign-in that used it is
\* cut off before it says so, or by a newer one.
InvitesStayClosed ==
  [](UsedInviteIsClosed /\ SupersededStaysClosed) /\ [][ClosedLetsNobodyIn]_vars

\* A person of the external provider always reaches the same account, and
\* nobody else does, whatever sign-ins ran at once and wherever they broke off.
PersonKeepsAccount ==
  \A s, t \in signedIn : s[1] = t[1] <=> s[2] = t[2]

=============================================================================
