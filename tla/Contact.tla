------------------------------ MODULE Contact ------------------------------
(***************************************************************************)
(* The e-mail address, the IBAN and the password of an account, and the    *)
(* mailed links that change them.                                          *)
(*                                                                         *)
(*   ProfileController.update      asks for a new address or IBAN          *)
(*   EmailVerificationService      creates and consumes e-mail tokens      *)
(*   IbanChangeService             creates and consumes IBAN tokens        *)
(*   PasswordResetService          creates and consumes reset tokens       *)
(*                                                                         *)
(* A Request is one HTTP request in flight; every database statement is a  *)
(* step.  A handler works on the row of users as it was when the request   *)
(* began (or when the token was loaded), and save() writes the columns     *)
(* that differ from that reading.  Only resetPassword runs in a            *)
(* transaction; it holds the row lock of its token.                        *)
(*                                                                         *)
(* The three token tables are one table here, its rows told apart by their *)
(* kind.  usedAt is null in the states open and expired.                   *)
(***************************************************************************)
EXTENDS Naturals, FiniteSets

CONSTANTS
  User, Email, Iban, Token, Request,
  None,        \* SQL null
  StartRows,   \* rows of users to begin with
  Trusted,     \* <<user, address>>: identities with an address the provider vouches for
  MaxBegun,    \* bound: requests begun
  MaxLost      \* bound: requests cut off

Row == [email : Email, pendingEmail : Email \union {None}, verified : BOOLEAN,
        iban : Iban \union {None}, pendingIban : Iban \union {None}]
NoRow == [email |-> None, pendingEmail |-> None, verified |-> FALSE,
          iban |-> None, pendingIban |-> None]
NoToken == [kind |-> None, user |-> None, value |-> None, state |-> "absent"]

ASSUME ContactAssumption ==
  /\ None \notin User \union Email \union Iban \union Token \union {"email", "iban", "reset"}
  /\ Email \intersect Iban = {}
  /\ StartRows \subseteq [User -> Row]
  /\ \A s \in StartRows, u \in User : s[u].pendingEmail = None /\ s[u].pendingIban = None
  /\ Trusted \subseteq User \X Email
  /\ MaxBegun \in Nat /\ MaxLost \in Nat

VARIABLES
  users,    \* the contact columns of table users
  tokens,   \* the token tables
  req,      \* requests in flight
  begun, lost,   \* counters of the bounds
  proven,   \* history: <<user, address>> whose link was followed, or vouched for
  resets,   \* history: how often each reset token has set a password
  refused,  \* history: <<user, value>> whose link came to nothing
  met,      \* history: users with two requests in flight together
  cut       \* history: users one of whose requests was cut off, or an update of
            \* whose row was turned away

history == <<proven, resets, refused, met, cut>>
vars == <<users, tokens, req, begun, lost, proven, resets, refused, met, cut>>

Blank == [pc |-> "idle", kind |-> None, user |-> None, tok |-> None,
          copy |-> NoRow, mine |-> NoRow, email |-> None, iban |-> None,
          crossed |-> FALSE]

Init ==
  /\ users \in StartRows
  /\ tokens = [t \in Token |-> NoToken]
  /\ req = [r \in Request |-> Blank]
  /\ begun = 0 /\ lost = 0
  /\ proven = {<<u, users[u].email>> : u \in {v \in User : users[v].verified}} \union Trusted
  /\ resets = [t \in Token |-> 0]
  /\ refused = {} /\ met = {} /\ cut = {}

-----------------------------------------------------------------------------
(* Requests. *)

Put(r, q) == req' = [req EXCEPT ![r] = q]
End(r) == Put(r, Blank)
Goto(r, where) == req' = [req EXCEPT ![r].pc = where]

Others(r, u) == {x \in Request \ {r} : req[x].pc # "idle" /\ req[x].user = u /\ u # None}

\* A request begins with q; the requests of the same user in flight know of
\* each other.
Begin(r, q) ==
  LET crowd == Others(r, q.user) IN
  /\ req[r].pc = "idle" /\ begun < MaxBegun
  /\ begun' = begun + 1
  /\ req' = [x \in Request |->
       IF x = r THEN [q EXCEPT !.crossed = (crowd # {})]
       ELSE IF x \in crowd THEN [req[x] EXCEPT !.crossed = TRUE]
       ELSE req[x]]
  /\ met' = IF crowd = {} THEN met ELSE met \union {q.user}

\* save() writes the columns of mine that differ from was.
Written(was, mine, now) ==
  [c \in DOMAIN now |-> IF mine[c] = was[c] THEN now[c] ELSE mine[c]]

\* users.email is unique.
EmailFree(u, e) == \A v \in User \ {u} : users[v].email # e

Unused(t) == tokens[t].state \in {"open", "expired"}

-----------------------------------------------------------------------------
(* Creating tokens: the old ones are marked used, then a row is inserted.  *)

\* E-mail tokens of the same address, all IBAN tokens of the user.
Superseded(kind, u, value) ==
  {t \in Token : /\ Unused(t) /\ tokens[t].kind = kind /\ tokens[t].user = u
                 /\ kind = "email" => tokens[t].value = value}

Mark(S) == [t \in Token |-> IF t \in S THEN [tokens[t] EXCEPT !.state = "used"]
                            ELSE tokens[t]]

AddToken(t, kind, u, value) ==
  /\ tokens[t].state = "absent"
  /\ tokens' = [tokens EXCEPT ![t] =
       [kind |-> kind, user |-> u, value |-> value, state |-> "open"]]

\* Where a request goes on after its e-mail token is in.
AfterEmail(q) == IF q.kind = "resend" THEN "idle"
                 ELSE IF q.iban \notin {None, q.copy.iban} THEN "markIban"
                 ELSE "saveProfile"

MarkEmail(r) ==
  /\ req[r].pc = "markEmail"
  /\ tokens' = Mark(Superseded("email", req[r].user, req[r].email))
  /\ Goto(r, "addEmail")
  /\ UNCHANGED <<users, begun, lost, history>>

AddEmail(r, t) ==
  /\ req[r].pc = "addEmail"
  /\ AddToken(t, "email", req[r].user, req[r].email)
  /\ IF AfterEmail(req[r]) = "idle" THEN End(r) ELSE Goto(r, AfterEmail(req[r]))
  /\ UNCHANGED <<users, begun, lost, history>>

MarkIban(r) ==
  /\ req[r].pc = "markIban"
  /\ tokens' = Mark(Superseded("iban", req[r].user, req[r].iban))
  /\ Goto(r, "addIban")
  /\ UNCHANGED <<users, begun, lost, history>>

AddIban(r, t) ==
  /\ req[r].pc = "addIban"
  /\ AddToken(t, "iban", req[r].user, req[r].iban)
  /\ IF req[r].kind = "resend" THEN End(r) ELSE Goto(r, "saveProfile")
  /\ UNCHANGED <<users, begun, lost, history>>

-----------------------------------------------------------------------------
(* ProfileController.update: the form carries an address e and an IBAN b.  *)

\* What the form does to the IBAN columns of the row in memory.
WithIban(row, b) ==
  IF b = row.iban THEN [row EXCEPT !.pendingIban = None]
  ELSE IF b = None THEN [row EXCEPT !.iban = None, !.pendingIban = None]
  ELSE [row EXCEPT !.pendingIban = b]

UpdateBegin(r, u, e, b) ==
  LET row == users[u]
      q == [Blank EXCEPT !.kind = "update", !.user = u, !.copy = row,
              !.email = e, !.iban = b, !.mine = WithIban(row, b)]
  IN
  /\ Begin(r, IF e # row.email THEN [q EXCEPT !.pc = "checkEmail"]
              ELSE [q EXCEPT !.pc = AfterEmail(q), !.mine.pendingEmail = None])
  /\ UNCHANGED <<users, tokens, lost, proven, resets, refused, cut>>

\* Mutant: the provider's word is not asked for.
TrustsAll(u, e) == TRUE
\* AuthIdentityService.hasTrustedLinkedEmail.
IsTrusted(u, e) == <<u, e>> \in Trusted

\* The conflict query, and the question whether a link has to be mailed.
CheckEmail(r) ==
  LET q == req[r] IN
  /\ q.pc = "checkEmail"
  /\ IF ~EmailFree(q.user, q.email) THEN End(r)
     ELSE IF IsTrusted(q.user, q.email)
       THEN Put(r, [q EXCEPT !.pc = AfterEmail(q), !.mine = [@ EXCEPT
              !.email = q.email, !.pendingEmail = None, !.verified = TRUE]])
       ELSE Put(r, [q EXCEPT !.pc = "markEmail", !.mine = [@ EXCEPT !.pendingEmail = q.email]])
  /\ UNCHANGED <<users, tokens, begun, lost, history>>

\* The row that user.save() of a request writes; it is turned away when
\* another account has taken the address.
Merged(r) == Written(req[r].copy, req[r].mine, users[req[r].user])
Fits(r) == EmailFree(req[r].user, Merged(r).email)

SaveRow(r, next) ==
  IF Fits(r) THEN users' = [users EXCEPT ![req[r].user] = Merged(r)] /\ next
             ELSE UNCHANGED users /\ End(r)

\* An update that is turned away has cut the old tokens short all the same.
SaveProfile(r) ==
  /\ req[r].pc = "saveProfile"
  /\ SaveRow(r, End(r))
  /\ cut' = IF Fits(r) THEN cut ELSE cut \union {req[r].user}
  /\ UNCHANGED <<tokens, begun, lost, proven, resets, refused, met>>

\* The resend buttons of the profile.
ResendEmail(r, u) ==
  LET row == users[u] IN
  /\ row.pendingEmail # None \/ ~row.verified
  /\ Begin(r, [Blank EXCEPT !.pc = "markEmail", !.kind = "resend", !.user = u,
         !.email = IF row.pendingEmail # None THEN row.pendingEmail ELSE row.email])
  /\ UNCHANGED <<users, tokens, lost, proven, resets, refused, cut>>

ResendIban(r, u) ==
  /\ users[u].pendingIban # None
  /\ Begin(r, [Blank EXCEPT !.pc = "markIban", !.kind = "resend", !.user = u,
         !.iban = users[u].pendingIban])
  /\ UNCHANGED <<users, tokens, lost, proven, resets, refused, cut>>

-----------------------------------------------------------------------------
(* consumeToken of the two verification services.                          *)

VerifyBegin(r, t) ==
  /\ tokens[t].kind \in {"email", "iban"} /\ Unused(t)
  /\ Begin(r, [Blank EXCEPT !.kind = tokens[t].kind, !.user = tokens[t].user, !.tok = t,
       !.pc = IF tokens[t].state = "expired" THEN "spendToken" ELSE "loadOwner"])
  /\ proven' = IF tokens[t].kind = "email"
                 THEN proven \union {<<tokens[t].user, tokens[t].value>>} ELSE proven
  /\ refused' = IF tokens[t].state = "expired"
                  THEN refused \union {<<tokens[t].user, tokens[t].value>>} ELSE refused
  /\ UNCHANGED <<users, tokens, lost, resets, cut>>

\* Mutant: the token is believed, whatever is pending.
AppliesAlways(t, row) == TRUE
\* The token confirms what the account waits for.
Applies(t, row) ==
  tokens[t].value = IF tokens[t].kind = "email" THEN row.pendingEmail ELSE row.pendingIban

\* The token confirms the address the account has.
ConfirmsCurrent(t, row) == tokens[t].kind = "email" /\ tokens[t].value = row.email

\* Mutant: the pending columns are not cleared.
ConfirmedKeepsPending(t, row) ==
  IF tokens[t].kind = "iban" THEN [row EXCEPT !.iban = tokens[t].value]
  ELSE IF Applies(t, row) THEN [row EXCEPT !.email = tokens[t].value, !.verified = TRUE]
  ELSE [row EXCEPT !.verified = TRUE]
Confirmed(t, row) ==
  IF tokens[t].kind = "iban"
    THEN [row EXCEPT !.iban = tokens[t].value, !.pendingIban = None]
  ELSE IF Applies(t, row)
    THEN [row EXCEPT !.email = tokens[t].value, !.pendingEmail = None, !.verified = TRUE]
  ELSE [row EXCEPT !.verified = TRUE]

\* The preload of the user reads the row after the token.
LoadOwner(r) ==
  LET t == req[r].tok
      row == users[req[r].user]
  IN
  /\ req[r].pc = "loadOwner"
  /\ Put(r, [req[r] EXCEPT !.copy = row,
       !.mine = IF Applies(t, row) \/ ConfirmsCurrent(t, row) THEN Confirmed(t, row) ELSE row,
       !.pc = IF Applies(t, row)
                THEN IF tokens[t].kind = "email" THEN "findConflict" ELSE "saveOwner"
              ELSE IF ConfirmsCurrent(t, row) THEN "saveOwner" ELSE "spendToken"])
  /\ UNCHANGED <<users, tokens, begun, lost, history>>

FindConflict(r) ==
  LET taken == ~EmailFree(req[r].user, req[r].mine.email) IN
  /\ req[r].pc = "findConflict"
  /\ Goto(r, IF taken THEN "spendToken" ELSE "saveOwner")
  /\ refused' = IF taken THEN refused \union {<<req[r].user, req[r].mine.email>>} ELSE refused
  /\ UNCHANGED <<users, tokens, begun, lost, proven, resets, met, cut>>

SaveOwner(r) ==
  /\ req[r].pc = "saveOwner"
  /\ SaveRow(r, Goto(r, "spendToken"))
  /\ UNCHANGED <<tokens, begun, lost, history>>

SpendToken(r) ==
  /\ req[r].pc = "spendToken"
  /\ tokens' = [tokens EXCEPT ![req[r].tok].state = "used"]
  /\ End(r)
  /\ UNCHANGED <<users, begun, lost, history>>

-----------------------------------------------------------------------------
(* PasswordResetService.                                                   *)

\* Mutant: the token is read without FOR UPDATE.
NotLocked(t) == FALSE
\* A resetPassword in flight holds the row lock of t.
Locked(t) == \E r \in Request : req[r].pc = "setPassword" /\ req[r].tok = t

ResetBegin(r, e) ==
  /\ \E u \in User : users[u].email = e
  /\ Begin(r, [Blank EXCEPT !.pc = "dropResets", !.kind = "reset", !.email = e])
  /\ UNCHANGED <<users, tokens, lost, proven, resets, refused, cut>>

OpenResets(e) ==
  {t \in Token : tokens[t].kind = "reset" /\ tokens[t].state = "open" /\ tokens[t].value = e}

\* The DELETE waits for the lock of a token being used.
DropResets(r) ==
  LET old == OpenResets(req[r].email) IN
  /\ req[r].pc = "dropResets"
  /\ \A t \in old : ~Locked(t)
  /\ tokens' = [t \in Token |-> IF t \in old THEN [tokens[t] EXCEPT !.state = "deleted"]
                                ELSE tokens[t]]
  /\ Goto(r, "addReset")
  /\ UNCHANGED <<users, begun, lost, history>>

AddReset(r, t) ==
  /\ req[r].pc = "addReset"
  /\ AddToken(t, "reset", None, req[r].email)
  /\ End(r)
  /\ UNCHANGED <<users, begun, lost, history>>

\* The token row is locked and found open.
ResetLock(r, t) ==
  /\ tokens[t].kind = "reset" /\ tokens[t].state = "open" /\ ~Locked(t)
  /\ Begin(r, [Blank EXCEPT !.pc = "setPassword", !.kind = "reset", !.tok = t])
  /\ UNCHANGED <<users, tokens, lost, proven, resets, refused, cut>>

\* The account of the address gets the password and the token is used, or
\* the transaction rolls back because nobody has the address any more.
SetPassword(r) ==
  LET t == req[r].tok
      owner == {u \in User : users[u].email = tokens[t].value}
  IN
  /\ req[r].pc = "setPassword"
  /\ IF owner = {} THEN UNCHANGED <<tokens, resets>>
     ELSE /\ tokens' = [tokens EXCEPT ![t].state = "used"]
          /\ resets' = [resets EXCEPT ![t] = @ + 1]
  /\ End(r)
  /\ UNCHANGED <<users, begun, lost, proven, refused, met, cut>>

-----------------------------------------------------------------------------
(* Changes from outside. *)

\* The time of an open token runs out (not while a consumption is past its
\* check, which looks at the clock once).
Expire(t) ==
  /\ tokens[t].state = "open" /\ ~Locked(t)
  /\ tokens' = [tokens EXCEPT ![t].state = "expired"]
  /\ UNCHANGED <<users, req, begun, lost, history>>

\* A request ends in the middle: a statement fails, or the server stops.
Lose(r) ==
  /\ req[r].pc # "idle" /\ lost < MaxLost
  /\ lost' = lost + 1
  /\ cut' = cut \union ({req[r].user} \ {None})
  /\ End(r)
  /\ UNCHANGED <<users, tokens, begun, proven, resets, refused, met>>

-----------------------------------------------------------------------------

Update(r) ==
  \/ \E u \in User, e \in Email, b \in Iban \union {None} : UpdateBegin(r, u, e, b)
  \/ \E u \in User : ResendEmail(r, u) \/ ResendIban(r, u)
  \/ CheckEmail(r)
  \/ MarkEmail(r)
  \/ MarkIban(r)
  \/ \E t \in Token : AddEmail(r, t) \/ AddIban(r, t)
  \/ SaveProfile(r)

Verify(r) ==
  \/ \E t \in Token : VerifyBegin(r, t)
  \/ LoadOwner(r)
  \/ FindConflict(r)
  \/ SaveOwner(r)
  \/ SpendToken(r)

Reset(r) ==
  \/ \E e \in Email : ResetBegin(r, e)
  \/ DropResets(r)
  \/ \E t \in Token : AddReset(r, t) \/ ResetLock(r, t)
  \/ SetPassword(r)

Next ==
  \/ \E r \in Request : Update(r) \/ Verify(r) \/ Reset(r) \/ Lose(r)
  \/ \E t \in Token : Expire(t)

Spec == Init /\ [][Next]_vars

-----------------------------------------------------------------------------
(* Properties. *)

PC == {"idle", "checkEmail", "markEmail", "addEmail", "markIban", "addIban",
       "saveProfile", "loadOwner", "findConflict", "saveOwner", "spendToken",
       "dropResets", "addReset", "setPassword"}
CopyRow == [email : Email \union {None}, pendingEmail : Email \union {None},
            verified : BOOLEAN, iban : Iban \union {None}, pendingIban : Iban \union {None}]

\* Every table holds rows of its type, and every request is at one of its
\* statements.
TypeOK ==
  /\ users \in [User -> Row]
  /\ tokens \in [Token ->
       [kind : {"email", "iban", "reset", None}, user : User \union {None},
        value : Email \union Iban \union {None},
        state : {"absent", "open", "expired", "used", "deleted"}]]
  /\ req \in [Request ->
       [pc : PC, kind : {"update", "resend", "email", "iban", "reset", None},
        user : User \union {None}, tok : Token \union {None}, copy : CopyRow,
        mine : CopyRow, email : Email \union {None}, iban : Iban \union {None},
        crossed : BOOLEAN]]
  /\ begun \in Nat /\ lost \in Nat
  /\ proven \subseteq User \X Email
  /\ resets \in [Token -> Nat]
  /\ refused \subseteq User \X (Email \union Iban)
  /\ met \subseteq User /\ cut \subseteq User

\* An account counts as verified only for an address whose link somebody
\* followed, or that the provider vouched for - whatever requests crossed.
VerifiedIsProven ==
  \A u \in User : users[u].verified => <<u, users[u].email>> \in proven

\* A new IBAN or address takes effect only when it is pending at that moment
\* (or vouched for), unless another request of the account crossed the
\* confirmation after it had read the row.
ConfirmsWhatIsPending ==
  [][\A u \in User :
       LET was == users[u]
           now == users'[u]
           crossing == \E r \in Request : req[r].user = u /\ req[r].crossed /\ req[r] # req'[r]
       IN /\ now.iban \notin {was.iban, None} => now.iban = was.pendingIban \/ crossing
          /\ now.email # was.email =>
               now.email = was.pendingEmail \/ IsTrusted(u, now.email) \/ crossing]_vars

\* The link of token t confirms value w of user u; or did, until its time was up.
Confirms(t, u, w) ==
  tokens[t].state = "open" /\ tokens[t].user = u /\ tokens[t].value = w
RanOut(t, u, w) ==
  tokens[t].state = "expired" /\ tokens[t].user = u /\ tokens[t].value = w

\* When nothing is in flight for an account, a pending IBAN or address has a link that
\* confirms it when it is followed - unless the latest link was left until its time was
\* up (earlier ones are marked used), it was followed in vain, requests of the account
\* crossed, one was cut off, or an update failed at its last statement.
PendingCanBeConfirmed ==
  \A u \in User \ (met \union cut) :
    (\A r \in Request : req[r].user # u) =>
      \A w \in {users[u].pendingEmail, users[u].pendingIban} \ {None} :
        \/ <<u, w>> \in refused
        \/ \E t \in Token : Confirms(t, u, w) \/ RanOut(t, u, w)

\* A reset token sets a password at most once: the row lock keeps a second
\* use out until the first has committed.
ResetsOnce == \A t \in Token : resets[t] <= 1

=============================================================================
