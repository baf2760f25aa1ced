--------------------------- MODULE ContactProofs ---------------------------
(* Theorems about Contact: for any accounts, addresses, tokens, requests   *)
(* and bounds.                                                             *)
EXTENDS Contact, TLAPS

-----------------------------------------------------------------------------
(* Types.  A statement finds in its request what the statements before it  *)
(* have put there.                                                         *)

\* A request that carries a copy of the row it will save.
Updating == {"checkEmail", "markEmail", "addEmail", "markIban", "addIban", "saveProfile"}
Confirming == {"findConflict", "saveOwner"}
Verifying == {"loadOwner", "findConflict", "saveOwner", "spendToken"}
Resetting == {"dropResets", "addReset", "setPassword"}

Carries(q) == (q.kind = "update" /\ q.pc \in Updating) \/ q.pc \in Confirming

RequestOK(q) ==
  /\ q.pc \in {"checkEmail", "saveProfile"} => q.kind = "update"
  /\ q.pc \in {"markEmail", "addEmail", "markIban", "addIban"} => q.kind \in {"update", "resend"}
  /\ q.pc \in Updating => q.user \in User
  /\ q.pc \in {"checkEmail", "markEmail", "addEmail"} => q.email \in Email
  /\ q.pc \in {"markIban", "addIban"} => q.iban \in Iban
  /\ Carries(q) => q.user \in User /\ q.copy \in Row /\ q.mine \in Row
  /\ q.pc \in Verifying => q.kind \in {"email", "iban"} /\ q.user \in User /\ q.tok \in Token
  /\ q.pc \in {"dropResets", "addReset"} => q.email \in Email
  /\ q.pc \in Resetting => q.user = None
  /\ q.pc = "setPassword" => q.tok \in Token
  /\ q.pc = "idle" => q.user = None

TokenOK(k) ==
  /\ k.state = "absent" => k = NoToken
  /\ k.kind = "email" => k.user \in User /\ k.value \in Email
  /\ k.kind = "iban" => k.user \in User /\ k.value \in Iban
  /\ k.kind = "reset" => k.user = None

TInv ==
  /\ TypeOK
  /\ \A r \in Request : RequestOK(req[r])
  /\ \A t \in Token : TokenOK(tokens[t])

\* A confirmation goes on with the token it has loaded.
Knows(q) ==
  q.pc \in Verifying => tokens[q.tok].kind = q.kind /\ tokens[q.tok].user = q.user
KInv == \A r \in Request : Knows(req[r])

RequestRow ==
  [pc : PC, kind : {"update", "resend", "email", "iban", "reset", None},
   user : User \union {None}, tok : Token \union {None}, copy : CopyRow,
   mine : CopyRow, email : Email \union {None}, iban : Iban \union {None},
   crossed : BOOLEAN]
TokenRow ==
  [kind : {"email", "iban", "reset", None}, user : User \union {None},
   value : Email \union Iban \union {None},
   state : {"absent", "open", "expired", "used", "deleted"}]

\* The rows of the tables and of the requests.
LEMMA Rows ==
  ASSUME TypeOK
  PROVE  /\ req \in [Request -> RequestRow]
         /\ tokens \in [Token -> TokenRow]
         /\ users \in [User -> Row]
  BY DEF TypeOK, RequestRow, TokenRow

LEMMA BlankOK == Blank \in RequestRow /\ RequestOK(Blank)
  BY ContactAssumption
  DEF Blank, NoRow, RequestRow, RequestOK, PC, CopyRow, Updating, Verifying, Resetting,
      Carries, Confirming

\* It is enough that the request at hand gets a row of its type.
LEMMA RequestStep ==
  ASSUME TInv, NEW r \in Request, NEW q \in RequestRow, RequestOK(q),
         req' = [req EXCEPT ![r] = q],
         users' \in [User -> Row], tokens' \in [Token -> TokenRow],
         \A t \in Token : TokenOK(tokens'[t]),
         UNCHANGED begun, lost' \in Nat,
         proven' \subseteq User \X Email, resets' \in [Token -> Nat],
         refused' \subseteq User \X (Email \union Iban),
         met' \subseteq User, cut' \subseteq User
  PROVE  TInv'
  <1>1. req' \in [Request -> RequestRow] /\ \A x \in Request : RequestOK(req'[x])
    BY Rows DEF TInv
  <1> QED
    BY <1>1 DEF TInv, TypeOK, RequestRow, TokenRow

\* The tables and histories that a statement leaves alone.
LEMMA Unchanged ==
  ASSUME TInv
  PROVE  /\ users \in [User -> Row] /\ tokens \in [Token -> TokenRow]
         /\ \A t \in Token : TokenOK(tokens[t])
         /\ begun \in Nat /\ lost \in Nat
         /\ proven \subseteq User \X Email /\ resets \in [Token -> Nat]
         /\ refused \subseteq User \X (Email \union Iban)
         /\ met \subseteq User /\ cut \subseteq User
  BY Rows DEF TInv, TypeOK

LEMMA MarkTyped ==
  ASSUME TInv, NEW S \in SUBSET Token, \A t \in S : tokens[t].state # "absent",
         tokens' = Mark(S)
  PROVE  tokens' \in [Token -> TokenRow] /\ \A t \in Token : TokenOK(tokens'[t])
  <1>1. ASSUME NEW t \in Token
        PROVE  /\ [tokens[t] EXCEPT !.state = "used"] \in TokenRow
               /\ tokens[t] \in TokenRow /\ TokenOK(tokens[t])
               /\ tokens[t].state # "absent" => TokenOK([tokens[t] EXCEPT !.state = "used"])
    BY Rows DEF TInv, TokenRow, TokenOK
  <1> QED
    BY <1>1 DEF Mark

LEMMA AddTokenTyped ==
  ASSUME TInv, NEW t \in Token, NEW kind \in {"email", "iban", "reset"},
         NEW u \in User \union {None}, NEW v \in Email \union Iban,
         kind = "email" => u \in User /\ v \in Email,
         kind = "iban" => u \in User /\ v \in Iban,
         kind = "reset" => u = None,
         AddToken(t, kind, u, v)
  PROVE  tokens' \in [Token -> TokenRow] /\ \A x \in Token : TokenOK(tokens'[x])
  <1> DEFINE k == [kind |-> kind, user |-> u, value |-> v, state |-> "open"]
  <1>1. k \in TokenRow /\ TokenOK(k)
    BY DEF TokenRow, TokenOK
  <1>2. tokens' = [tokens EXCEPT ![t] = k]
    BY DEF AddToken
  <1> QED
    BY <1>1, <1>2, Rows DEF TInv

LEMMA CrossedTyped ==
  ASSUME NEW q \in RequestRow, RequestOK(q), NEW b \in BOOLEAN
  PROVE  /\ [q EXCEPT !.crossed = b] \in RequestRow
         /\ RequestOK([q EXCEPT !.crossed = b])
  <1> DEFINE p == [q EXCEPT !.crossed = b]
  <1>1. /\ p \in RequestRow /\ p.pc = q.pc /\ p.kind = q.kind /\ p.user = q.user
        /\ p.tok = q.tok /\ p.copy = q.copy /\ p.mine = q.mine /\ p.email = q.email
        /\ p.iban = q.iban
    BY DEF RequestRow
  <1> HIDE DEF p
  <1>2. RequestOK(p)
    BY <1>1 DEF RequestOK, Carries
  <1> QED
    BY <1>1, <1>2 DEF p

\* A request that begins finds the tables as they are.
LEMMA BeginTyped ==
  ASSUME TInv, NEW r \in Request, NEW q \in RequestRow, RequestOK(q), Begin(r, q),
         UNCHANGED <<users, tokens, lost, resets, cut>>,
         proven' \subseteq User \X Email,
         refused' \subseteq User \X (Email \union Iban)
  PROVE  TInv'
  <1> DEFINE crowd == Others(r, q.user)
  <1>1. ASSUME NEW x \in Request
        PROVE  req'[x] \in RequestRow /\ RequestOK(req'[x])
    <2>1. req[x] \in RequestRow /\ RequestOK(req[x])
      BY Rows DEF TInv
    <2>2. \/ req'[x] = [q EXCEPT !.crossed = (crowd # {})]
          \/ req'[x] = [req[x] EXCEPT !.crossed = TRUE]
          \/ req'[x] = req[x]
      BY DEF Begin
    <2> QED
      BY <2>1, <2>2, CrossedTyped
  <1>2. req' \in [Request -> RequestRow]
    BY <1>1 DEF Begin
  <1>3. met' \subseteq User
    <2>1. crowd # {} => q.user \in User
      BY DEF Others, RequestRow
    <2> QED
      BY <2>1, Unchanged DEF Begin
  <1>4. begun' \in Nat
    BY Unchanged DEF Begin
  <1> QED
    BY <1>1, <1>2, <1>3, <1>4, Unchanged DEF TInv, TypeOK, RequestRow, TokenRow

LEMMA UpdateBeginTyped ==
  ASSUME TInv, NEW r \in Request, NEW u \in User, NEW e \in Email,
         NEW b \in Iban \union {None}, UpdateBegin(r, u, e, b)
  PROVE  TInv'
  <1> DEFINE row == users[u]
             q == [Blank EXCEPT !.kind = "update", !.user = u, !.copy = row,
                     !.email = e, !.iban = b, !.mine = WithIban(row, b)]
             p == IF e # row.email THEN [q EXCEPT !.pc = "checkEmail"]
                  ELSE [q EXCEPT !.pc = AfterEmail(q), !.mine.pendingEmail = None]
  <1>1. row \in Row
    BY Rows DEF TInv
  <1>2. WithIban(row, b) \in Row
    BY <1>1 DEF WithIban, Row
  <1>3. /\ q \in RequestRow
        /\ q.kind = "update" /\ q.user = u /\ q.copy = row /\ q.mine = WithIban(row, b)
        /\ q.email = e /\ q.iban = b
    <2> DEFINE m == WithIban(row, b)
    <2>1. q = [Blank EXCEPT !.kind = "update", !.user = u, !.copy = row, !.email = e,
                 !.iban = b, !.mine = m]
      OBVIOUS
    <2>2. m \in Row
      BY <1>2
    <2>4. row \in CopyRow /\ m \in CopyRow /\ Blank \in RequestRow
      BY <1>1, <2>2, BlankOK DEF Row, CopyRow
    <2> HIDE DEF q, row, m
    <2>3. /\ q \in RequestRow
          /\ q.kind = "update" /\ q.user = u /\ q.copy = row /\ q.mine = m
          /\ q.email = e /\ q.iban = b
      BY <2>1, <2>2, <2>4 DEF RequestRow
    <2> QED
      BY <2>3 DEF m
  <1>4. Begin(r, p) /\ UNCHANGED <<users, tokens, lost, proven, resets, refused, cut>>
    BY DEF UpdateBegin
  <1> HIDE DEF q
  <1>5. AfterEmail(q) \in {"markIban", "saveProfile"} /\ (AfterEmail(q) = "markIban" => b \in Iban)
    BY <1>3 DEF AfterEmail
  <1>6. /\ p \in RequestRow /\ p.pc \in {"checkEmail", "markIban", "saveProfile"}
        /\ p.pc = "markIban" => b \in Iban
        /\ p.kind = "update" /\ p.user = u /\ p.copy = row /\ p.mine \in Row
        /\ p.email = e /\ p.iban = b
    <2>1. CASE e # row.email
      BY <1>2, <1>3, <2>1 DEF RequestRow, PC
    <2>2. CASE e = row.email
      <3> DEFINE w == AfterEmail(q)
                 m == [q.mine EXCEPT !.pendingEmail = None]
      <3>1. p = [q EXCEPT !.pc = w, !.mine = m]
        BY <2>2
      <3>2. m \in Row /\ m \in CopyRow
        BY <1>2, <1>3 DEF Row, CopyRow
      <3>3. w \in PC
        BY <1>5 DEF PC
      <3> HIDE DEF w, m
      <3> QED
        BY <1>3, <1>5, <3>1, <3>2, <3>3 DEF RequestRow, w
    <2> QED
      BY <2>1, <2>2
  <1> HIDE DEF p
  <1>7. RequestOK(p)
    BY <1>1, <1>6 DEF RequestOK, Carries, Updating, Confirming, Verifying, Resetting
  <1> QED
    BY <1>4, <1>6, <1>7, BeginTyped, Unchanged

LEMMA ResendTyped ==
  ASSUME TInv, NEW r \in Request, NEW u \in User, ResendEmail(r, u) \/ ResendIban(r, u)
  PROVE  TInv'
  <1>1. users[u] \in Row /\ Blank \in RequestRow
    BY Rows, BlankOK DEF TInv
  <1>2. CASE ResendEmail(r, u)
    <2> DEFINE e == IF users[u].pendingEmail # None THEN users[u].pendingEmail ELSE users[u].email
               q == [Blank EXCEPT !.pc = "markEmail", !.kind = "resend", !.user = u, !.email = e]
    <2>1. e \in Email
      BY <1>1 DEF Row
    <2>2. Begin(r, q) /\ UNCHANGED <<users, tokens, lost, proven, resets, refused, cut>>
      BY <1>2 DEF ResendEmail
    <2> HIDE DEF e
    <2>3. q \in RequestRow /\ q.pc = "markEmail" /\ q.kind = "resend" /\ q.user = u /\ q.email = e
      BY <1>1, <2>1 DEF RequestRow, PC
    <2> HIDE DEF q
    <2>4. RequestOK(q)
      BY <2>1, <2>3 DEF RequestOK, Carries, Updating, Confirming, Verifying, Resetting
    <2> QED
      BY <2>2, <2>3, <2>4, BeginTyped, Unchanged
  <1>3. CASE ResendIban(r, u)
    <2> DEFINE b == users[u].pendingIban
               q == [Blank EXCEPT !.pc = "markIban", !.kind = "resend", !.user = u, !.iban = b]
    <2>1. b \in Iban
      BY <1>1, <1>3 DEF Row, ResendIban
    <2>2. Begin(r, q) /\ UNCHANGED <<users, tokens, lost, proven, resets, refused, cut>>
      BY <1>3 DEF ResendIban
    <2> HIDE DEF b
    <2>3. q \in RequestRow /\ q.pc = "markIban" /\ q.kind = "resend" /\ q.user = u /\ q.iban = b
      BY <1>1, <2>1 DEF RequestRow, PC
    <2> HIDE DEF q
    <2>4. RequestOK(q)
      BY <2>1, <2>3 DEF RequestOK, Carries, Updating, Confirming, Verifying, Resetting
    <2> QED
      BY <2>2, <2>3, <2>4, BeginTyped, Unchanged
  <1> QED
    BY <1>2, <1>3

LEMMA VerifyBeginTyped ==
  ASSUME TInv, NEW r \in Request, NEW t \in Token, VerifyBegin(r, t)
  PROVE  TInv'
  <1> DEFINE k == tokens[t].kind
             u == tokens[t].user
             w == IF tokens[t].state = "expired" THEN "spendToken" ELSE "loadOwner"
             q == [Blank EXCEPT !.kind = k, !.user = u, !.tok = t, !.pc = w]
  <1>1. /\ tokens[t] \in TokenRow /\ TokenOK(tokens[t]) /\ k \in {"email", "iban"}
        /\ u \in User /\ tokens[t].value \in Email \union Iban
        /\ k = "email" => tokens[t].value \in Email
    BY Rows DEF TInv, TokenOK, VerifyBegin
  <1>2. Begin(r, q) /\ UNCHANGED <<users, tokens, lost, resets, cut>>
    BY DEF VerifyBegin
  <1>3. proven' \subseteq User \X Email /\ refused' \subseteq User \X (Email \union Iban)
    BY <1>1, Unchanged DEF VerifyBegin
  <1>4. w \in {"spendToken", "loadOwner"} /\ Blank \in RequestRow
    BY BlankOK
  <1> HIDE DEF k, u, w
  <1>5. q \in RequestRow /\ q.pc = w /\ q.kind = k /\ q.user = u /\ q.tok = t
    BY <1>1, <1>4 DEF RequestRow, PC
  <1> HIDE DEF q
  <1>6. RequestOK(q)
    BY <1>1, <1>4, <1>5 DEF RequestOK, Carries, Updating, Confirming, Verifying, Resetting
  <1> QED
    BY <1>2, <1>3, <1>5, <1>6, BeginTyped

LEMMA ResetBeginTyped ==
  ASSUME TInv, NEW r \in Request,
         (\E e \in Email : ResetBegin(r, e)) \/ (\E t \in Token : ResetLock(r, t))
  PROVE  TInv'
  <1>0. Blank \in RequestRow /\ Blank.user = None
    BY BlankOK DEF Blank
  <1>1. CASE \E e \in Email : ResetBegin(r, e)
    <2>1. PICK e \in Email : ResetBegin(r, e)
      BY <1>1
    <2> DEFINE q == [Blank EXCEPT !.pc = "dropResets", !.kind = "reset", !.email = e]
    <2>2. Begin(r, q) /\ UNCHANGED <<users, tokens, lost, proven, resets, refused, cut>>
      BY <2>1 DEF ResetBegin
    <2>3. q \in RequestRow /\ q.pc = "dropResets" /\ q.kind = "reset" /\ q.user = None /\ q.email = e
      BY <1>0 DEF RequestRow, PC
    <2> HIDE DEF q
    <2>4. RequestOK(q)
      BY <2>3 DEF RequestOK, Carries, Updating, Confirming, Verifying, Resetting
    <2> QED
      BY <2>2, <2>3, <2>4, BeginTyped, Unchanged
  <1>2. CASE \E t \in Token : ResetLock(r, t)
    <2>1. PICK t \in Token : ResetLock(r, t)
      BY <1>2
    <2> DEFINE q == [Blank EXCEPT !.pc = "setPassword", !.kind = "reset", !.tok = t]
    <2>2. Begin(r, q) /\ UNCHANGED <<users, tokens, lost, proven, resets, refused, cut>>
      BY <2>1 DEF ResetLock
    <2>3. q \in RequestRow /\ q.pc = "setPassword" /\ q.kind = "reset" /\ q.user = None /\ q.tok = t
      BY <1>0 DEF RequestRow, PC
    <2> HIDE DEF q
    <2>4. RequestOK(q)
      BY <2>3 DEF RequestOK, Carries, Updating, Confirming, Verifying, Resetting
    <2> QED
      BY <2>2, <2>3, <2>4, BeginTyped, Unchanged
  <1> QED
    BY <1>1, <1>2

\* A request that goes on to its next statement.
LEMMA GotoTyped ==
  ASSUME TInv, NEW r \in Request, NEW w \in PC, Goto(r, w),
         \A q \in RequestRow :
           /\ q.pc = w /\ q.kind = req[r].kind /\ q.user = req[r].user /\ q.tok = req[r].tok
           /\ q.copy = req[r].copy /\ q.mine = req[r].mine /\ q.email = req[r].email
           /\ q.iban = req[r].iban
           => RequestOK(q)
  PROVE  \E q \in RequestRow : RequestOK(q) /\ req' = [req EXCEPT ![r] = q]
  <1> DEFINE p == req[r]
             q == [p EXCEPT !.pc = w]
  <1>1. p \in RequestRow
    BY Rows DEF TInv
  <1>2. req' = [req EXCEPT ![r] = q]
    BY DEF Goto
  <1> HIDE DEF p
  <1>3. /\ q \in RequestRow /\ q.pc = w /\ q.kind = p.kind /\ q.user = p.user /\ q.tok = p.tok
        /\ q.copy = p.copy /\ q.mine = p.mine /\ q.email = p.email /\ q.iban = p.iban
    BY <1>1 DEF RequestRow
  <1> HIDE DEF q
  <1>4. RequestOK(q)
    BY <1>3 DEF p
  <1> QED
    BY <1>2, <1>3, <1>4

LEMMA EndTyped ==
  ASSUME NEW r \in Request, End(r)
  PROVE  \E q \in RequestRow : RequestOK(q) /\ req' = [req EXCEPT ![r] = q]
  BY BlankOK DEF End, Put

\* The statements around tokens.
LEMMA TokenStepTyped ==
  ASSUME TInv, NEW r \in Request,
         MarkEmail(r) \/ MarkIban(r) \/ \E t \in Token : AddEmail(r, t) \/ AddIban(r, t)
  PROVE  TInv'
  <1>1. req[r] \in RequestRow /\ RequestOK(req[r]) /\ UNCHANGED <<users, begun, lost, history>>
    BY Rows DEF TInv, MarkEmail, MarkIban, AddEmail, AddIban
  <1>2. tokens' \in [Token -> TokenRow] /\ \A t \in Token : TokenOK(tokens'[t])
    <2>1. CASE MarkEmail(r) \/ MarkIban(r)
      <3>1. \A k, u, v : \A t \in Superseded(k, u, v) : t \in Token /\ tokens[t].state # "absent"
        BY DEF Superseded, Unused
      <3> QED
        BY <2>1, <3>1, MarkTyped DEF MarkEmail, MarkIban
    <2>2. CASE \E t \in Token : AddEmail(r, t)
      <3>1. req[r].user \in User /\ req[r].email \in Email
        BY <1>1, <2>2 DEF AddEmail, RequestOK, Updating
      <3> QED
        BY <2>2, <3>1, AddTokenTyped DEF AddEmail
    <2>3. CASE \E t \in Token : AddIban(r, t)
      <3>1. req[r].user \in User /\ req[r].iban \in Iban
        BY <1>1, <2>3 DEF AddIban, RequestOK, Updating
      <3> QED
        BY <2>3, <3>1, AddTokenTyped DEF AddIban
    <2> QED
      BY <2>1, <2>2, <2>3
  <1>3. \E q \in RequestRow : RequestOK(q) /\ req' = [req EXCEPT ![r] = q]
    <2>1. CASE MarkEmail(r)
      <3>1. Goto(r, "addEmail") /\ req[r].pc = "markEmail" /\ "addEmail" \in PC
        BY <2>1 DEF MarkEmail, PC
      <3>2. \A q \in RequestRow :
           /\ q.pc = "addEmail" /\ q.kind = req[r].kind /\ q.user = req[r].user /\ q.tok = req[r].tok
           /\ q.copy = req[r].copy /\ q.mine = req[r].mine /\ q.email = req[r].email
           /\ q.iban = req[r].iban
           => RequestOK(q)
        BY <1>1, <3>1 DEF RequestOK, Carries, Updating, Confirming, Verifying, Resetting
      <3> QED
        BY <3>1, <3>2, GotoTyped
    <2>2. CASE MarkIban(r)
      <3>1. Goto(r, "addIban") /\ req[r].pc = "markIban" /\ "addIban" \in PC
        BY <2>2 DEF MarkIban, PC
      <3>2. \A q \in RequestRow :
           /\ q.pc = "addIban" /\ q.kind = req[r].kind /\ q.user = req[r].user /\ q.tok = req[r].tok
           /\ q.copy = req[r].copy /\ q.mine = req[r].mine /\ q.email = req[r].email
           /\ q.iban = req[r].iban
           => RequestOK(q)
        BY <1>1, <3>1 DEF RequestOK, Carries, Updating, Confirming, Verifying, Resetting
      <3> QED
        BY <3>1, <3>2, GotoTyped
    <2>3. CASE \E t \in Token : AddEmail(r, t)
      <3>1. CASE AfterEmail(req[r]) = "idle"
        BY <2>3, <3>1, EndTyped DEF AddEmail
      <3>2. CASE AfterEmail(req[r]) # "idle"
        <4> DEFINE w == AfterEmail(req[r])
        <4>1. /\ w \in {"markIban", "saveProfile"} /\ req[r].kind # "resend"
              /\ w = "markIban" => req[r].iban \in Iban
          BY <1>1, <3>2 DEF AfterEmail, RequestRow
        <4>2. Goto(r, w) /\ req[r].pc = "addEmail" /\ w \in PC
          BY <2>3, <3>2, <4>1 DEF AddEmail, PC
        <4> HIDE DEF w
        <4>3. \A q \in RequestRow :
           /\ q.pc = w /\ q.kind = req[r].kind /\ q.user = req[r].user /\ q.tok = req[r].tok
           /\ q.copy = req[r].copy /\ q.mine = req[r].mine /\ q.email = req[r].email
           /\ q.iban = req[r].iban
           => RequestOK(q)
          BY <1>1, <4>1, <4>2 DEF RequestOK, Carries, Updating, Confirming, Verifying, Resetting
        <4> QED
          BY <4>2, <4>3, GotoTyped
      <3> QED
        BY <3>1, <3>2
    <2>4. CASE \E t \in Token : AddIban(r, t)
      <3>1. CASE req[r].kind = "resend"
        BY <2>4, <3>1, EndTyped DEF AddIban
      <3>2. CASE req[r].kind # "resend"
        <4>1. Goto(r, "saveProfile") /\ req[r].pc = "addIban" /\ "saveProfile" \in PC
          BY <2>4, <3>2 DEF AddIban, PC
        <4>2. \A q \in RequestRow :
           /\ q.pc = "saveProfile" /\ q.kind = req[r].kind /\ q.user = req[r].user /\ q.tok = req[r].tok
           /\ q.copy = req[r].copy /\ q.mine = req[r].mine /\ q.email = req[r].email
           /\ q.iban = req[r].iban
           => RequestOK(q)
          BY <1>1, <3>2, <4>1 DEF RequestOK, Carries, Updating, Confirming, Verifying, Resetting
        <4> QED
          BY <4>1, <4>2, GotoTyped
      <3> QED
        BY <3>1, <3>2
    <2> QED
      BY <2>1, <2>2, <2>3, <2>4
  <1> QED
    BY <1>1, <1>2, <1>3, RequestStep, Unchanged DEF history

LEMMA CheckEmailTyped ==
  ASSUME TInv, NEW r \in Request, CheckEmail(r)
  PROVE  TInv'
  <1> DEFINE p == req[r]
  <1>1. /\ p \in RequestRow /\ RequestOK(p) /\ p.pc = "checkEmail"
        /\ UNCHANGED <<users, tokens, begun, lost, history>>
    BY Rows DEF TInv, CheckEmail
  <1>2. /\ p.kind = "update" /\ p.user \in User /\ p.email \in Email /\ p.copy \in Row /\ p.mine \in Row
        /\ p.iban \in Iban \union {None}
    BY <1>1 DEF RequestOK, Carries, Updating, RequestRow
  <1>3. \E q \in RequestRow : RequestOK(q) /\ req' = [req EXCEPT ![r] = q]
    <2> DEFINE w == AfterEmail(p)
               m == [p.mine EXCEPT !.email = p.email, !.pendingEmail = None, !.verified = TRUE]
               n == [p.mine EXCEPT !.pendingEmail = p.email]
    <2>1. w \in {"markIban", "saveProfile"} /\ (w = "markIban" => p.iban \in Iban)
      BY <1>2 DEF AfterEmail
    <2>2. \/ End(r)
          \/ req' = [req EXCEPT ![r] = [p EXCEPT !.pc = w, !.mine = m]]
          \/ req' = [req EXCEPT ![r] = [p EXCEPT !.pc = "markEmail", !.mine = n]]
      BY DEF CheckEmail, Put
    <2>3. m \in Row /\ n \in Row /\ m \in CopyRow /\ n \in CopyRow
      BY <1>2 DEF Row, CopyRow
    <2> HIDE DEF w, m, n, p
    <2>4. ASSUME NEW v \in {"markIban", "saveProfile", "markEmail"}, NEW x \in Row, x \in CopyRow,
                 v = "markIban" => p.iban \in Iban
          PROVE  [p EXCEPT !.pc = v, !.mine = x] \in RequestRow
                 /\ RequestOK([p EXCEPT !.pc = v, !.mine = x])
      <3> DEFINE q == [p EXCEPT !.pc = v, !.mine = x]
      <3>1. /\ q \in RequestRow /\ q.pc = v /\ q.kind = p.kind /\ q.user = p.user
            /\ q.copy = p.copy /\ q.mine = x /\ q.email = p.email /\ q.iban = p.iban
        BY <1>1, <2>4 DEF RequestRow, PC
      <3> HIDE DEF q
      <3>2. RequestOK(q)
        BY <1>2, <2>4, <3>1 DEF RequestOK, Carries, Updating, Confirming, Verifying, Resetting
      <3> QED
        BY <3>1, <3>2 DEF q
    <2> QED
      BY <2>1, <2>2, <2>3, <2>4, EndTyped
  <1> QED
    BY <1>1, <1>3, RequestStep, Unchanged DEF history

\* save() writes a row of the table, whatever others wrote meanwhile.
LEMMA WrittenTyped ==
  ASSUME NEW was \in Row, NEW mine \in Row, NEW now \in Row
  PROVE  /\ Written(was, mine, now) \in Row
         /\ Written(was, mine, now).email =
              IF mine.email = was.email THEN now.email ELSE mine.email
         /\ Written(was, mine, now).verified =
              IF mine.verified = was.verified THEN now.verified ELSE mine.verified
         /\ Written(was, mine, was) = mine
  BY DEF Row, Written

\* A save that is turned away ends the request and writes nothing.
LEMMA SaveRowCases ==
  ASSUME TInv, NEW r \in Request, Carries(req[r]), NEW next, SaveRow(r, next)
  PROVE  LET u == req[r].user
             row == Written(req[r].copy, req[r].mine, users[u])
         IN \/ users' = [users EXCEPT ![u] = row] /\ next
            \/ users' = users /\ End(r)
  BY DEF SaveRow, Merged

LEMMA SaveTyped ==
  ASSUME TInv, NEW r \in Request, SaveProfile(r) \/ SaveOwner(r)
  PROVE  TInv'
  <1> DEFINE p == req[r]
             u == p.user
             row == Written(p.copy, p.mine, users[u])
  <1>1. /\ p \in RequestRow /\ RequestOK(p) /\ Carries(p)
        /\ UNCHANGED <<tokens, begun, lost, proven, resets, refused, met>>
        /\ cut' \subseteq cut \union {u}
    BY Rows DEF TInv, SaveProfile, SaveOwner, RequestOK, Carries, Updating, Confirming, history
  <1>2. u \in User /\ p.copy \in Row /\ p.mine \in Row /\ users \in [User -> Row]
    BY <1>1, Unchanged DEF RequestOK
  <1>3. row \in Row
    BY <1>2, WrittenTyped
  <1>4. users' \in [User -> Row]
    BY <1>2, <1>3 DEF SaveProfile, SaveOwner, SaveRow, Merged
  <1>5. \E q \in RequestRow : RequestOK(q) /\ req' = [req EXCEPT ![r] = q]
    <2>1. CASE End(r)
      BY <2>1, EndTyped
    <2>2. CASE ~End(r)
      <3>1. Goto(r, "spendToken") /\ p.pc = "saveOwner" /\ "spendToken" \in PC
        BY <2>2 DEF SaveProfile, SaveOwner, SaveRow, PC
      <3>2. \A q \in RequestRow :
           /\ q.pc = "spendToken" /\ q.kind = req[r].kind /\ q.user = req[r].user /\ q.tok = req[r].tok
           /\ q.copy = req[r].copy /\ q.mine = req[r].mine /\ q.email = req[r].email
           /\ q.iban = req[r].iban
           => RequestOK(q)
        BY <1>1, <3>1 DEF RequestOK, Carries, Updating, Confirming, Verifying, Resetting
      <3> QED
        BY <3>1, <3>2, GotoTyped
    <2> QED
      BY <2>1, <2>2
  <1>6. cut' \subseteq User
    BY <1>1, <1>2, Unchanged
  <1> QED
    BY <1>1, <1>4, <1>5, <1>6, RequestStep, Unchanged

\* What loadOwner puts in its request.
LEMMA LoadOwnerRow ==
  ASSUME TInv, KInv, NEW r \in Request, LoadOwner(r)
  PROVE  LET t == req[r].tok
             u == req[r].user
             row == users[u]
         IN /\ t \in Token /\ u \in User /\ row \in Row /\ req[r].kind \in {"email", "iban"}
            /\ \E q \in RequestRow :
                 /\ req' = [req EXCEPT ![r] = q] /\ RequestOK(q)
                 /\ q.kind = req[r].kind /\ q.user = u /\ q.tok = t /\ q.copy = row
                 /\ q.crossed = req[r].crossed
                 /\ q.mine = IF Applies(t, row) \/ ConfirmsCurrent(t, row) THEN Confirmed(t, row) ELSE row
                 /\ q.pc \in {"findConflict", "saveOwner", "spendToken"}
                 /\ q.pc = "saveOwner" => tokens[t].kind # "email" \/ ~Applies(t, row)
                 /\ q.pc = "saveOwner" => Applies(t, row) \/ ConfirmsCurrent(t, row)
                 /\ q.pc = "findConflict" => tokens[t].kind = "email" /\ Applies(t, row)
                 /\ q.pc = "spendToken" => ~Applies(t, row)
  <1> DEFINE p == req[r]
             t == p.tok
             row == users[p.user]
             m == IF Applies(t, row) \/ ConfirmsCurrent(t, row) THEN Confirmed(t, row) ELSE row
             w == IF Applies(t, row)
                    THEN IF tokens[t].kind = "email" THEN "findConflict" ELSE "saveOwner"
                  ELSE IF ConfirmsCurrent(t, row) THEN "saveOwner" ELSE "spendToken"
             q == [p EXCEPT !.copy = row, !.mine = m, !.pc = w]
  <1>1. p \in RequestRow /\ RequestOK(p) /\ p.pc = "loadOwner" /\ req' = [req EXCEPT ![r] = q]
    BY Rows DEF TInv, LoadOwner, Put
  <1>2. t \in Token /\ p.user \in User /\ row \in Row /\ p.kind \in {"email", "iban"}
    BY <1>1, Rows DEF RequestOK, Verifying, TInv
  <1>3. m \in Row
    <2>1. TokenOK(tokens[t]) /\ tokens[t] \in TokenRow
      BY <1>2, Rows DEF TInv
    <2>2. tokens[t].kind \in {"email", "iban"}
      BY <1>1, <1>2 DEF KInv, Knows, Verifying
    <2> QED
      BY <1>2, <2>1, <2>2 DEF Confirmed, TokenOK, Row, Applies, ConfirmsCurrent
  <1>4. w \in {"findConflict", "saveOwner", "spendToken"} /\ row \in CopyRow /\ m \in CopyRow
    BY <1>2, <1>3 DEF Row, CopyRow
  <1>5. /\ w = "saveOwner" => tokens[t].kind # "email" \/ ~Applies(t, row)
        /\ w = "saveOwner" => Applies(t, row) \/ ConfirmsCurrent(t, row)
        /\ w = "findConflict" => tokens[t].kind = "email" /\ Applies(t, row)
        /\ w = "spendToken" => ~Applies(t, row)
    OBVIOUS
  <1> HIDE DEF row, m, w, p
  <1>6. /\ q \in RequestRow /\ q.pc = w /\ q.kind = p.kind /\ q.user = p.user /\ q.tok = p.tok
        /\ q.copy = row /\ q.mine = m /\ q.crossed = p.crossed
    BY <1>1, <1>4 DEF RequestRow, PC
  <1> HIDE DEF q
  <1>7. RequestOK(q)
    BY <1>2, <1>3, <1>4, <1>6 DEF RequestOK, Carries, Updating, Confirming, Verifying, Resetting
  <1> QED
    BY <1>1, <1>2, <1>4, <1>5, <1>6, <1>7 DEF row, m, p

LEMMA VerifyStepTyped ==
  ASSUME TInv, KInv, NEW r \in Request, LoadOwner(r) \/ FindConflict(r) \/ SpendToken(r)
  PROVE  TInv'
  <1> DEFINE p == req[r]
  <1>1. p \in RequestRow /\ RequestOK(p)
    BY Rows DEF TInv
  <1>2. CASE LoadOwner(r)
    <2>1. \E q \in RequestRow : RequestOK(q) /\ req' = [req EXCEPT ![r] = q]
      BY <1>2, LoadOwnerRow
    <2>2. UNCHANGED <<users, tokens, begun, lost, history>>
      BY <1>2 DEF LoadOwner
    <2> QED
      BY <2>1, <2>2, RequestStep, Unchanged DEF history
  <1>3. CASE FindConflict(r)
    <2>1. /\ p.pc = "findConflict" /\ p.user \in User /\ p.mine.email \in Email
          /\ UNCHANGED <<users, tokens, begun, lost, proven, resets, met, cut>>
      BY <1>1, <1>3 DEF FindConflict, RequestOK, Carries, Confirming, Row
    <2>2. refused' \subseteq User \X (Email \union Iban)
      BY <1>3, <2>1, Unchanged DEF FindConflict
    <2>3. ASSUME NEW w \in {"spendToken", "saveOwner"}, Goto(r, w)
          PROVE  \E q \in RequestRow : RequestOK(q) /\ req' = [req EXCEPT ![r] = q]
      <3>1. w \in PC
        BY DEF PC
      <3>2. \A q \in RequestRow :
           /\ q.pc = w /\ q.kind = req[r].kind /\ q.user = req[r].user /\ q.tok = req[r].tok
           /\ q.copy = req[r].copy /\ q.mine = req[r].mine /\ q.email = req[r].email
           /\ q.iban = req[r].iban
           => RequestOK(q)
        BY <1>1, <2>1 DEF RequestOK, Carries, Updating, Confirming, Verifying, Resetting
      <3> QED
        BY <2>3, <3>1, <3>2, GotoTyped
    <2>4. \E q \in RequestRow : RequestOK(q) /\ req' = [req EXCEPT ![r] = q]
      BY <1>3, <2>3 DEF FindConflict
    <2> QED
      BY <2>1, <2>2, <2>4, RequestStep, Unchanged
  <1>4. CASE SpendToken(r)
    <2>1. \E q \in RequestRow : RequestOK(q) /\ req' = [req EXCEPT ![r] = q]
      BY <1>4, EndTyped DEF SpendToken
    <2>2. UNCHANGED <<users, begun, lost, history>>
      BY <1>4 DEF SpendToken
    <2>3. tokens' \in [Token -> TokenRow]
      BY <1>4, Rows DEF TInv, SpendToken, TokenRow
    <2>4. \A t \in Token : TokenOK(tokens'[t])
      <3>1. ASSUME NEW k \in TokenRow, TokenOK(k) PROVE TokenOK([k EXCEPT !.state = "used"])
        BY <3>1 DEF TokenOK, TokenRow
      <3> QED
        BY <1>4, <3>1, Rows DEF TInv, SpendToken
    <2> QED
      BY <2>1, <2>2, <2>3, <2>4, RequestStep, Unchanged DEF history
  <1> QED
    BY <1>2, <1>3, <1>4

LEMMA ResetStepTyped ==
  ASSUME TInv, NEW r \in Request,
         DropResets(r) \/ SetPassword(r) \/ \E t \in Token : AddReset(r, t)
  PROVE  TInv'
  <1>1. req[r] \in RequestRow /\ RequestOK(req[r])
    BY Rows DEF TInv
  <1>2. CASE DropResets(r)
    <2> DEFINE old == OpenResets(req[r].email)
    <2>1. /\ req[r].pc = "dropResets" /\ Goto(r, "addReset") /\ "addReset" \in PC
          /\ tokens' = [t \in Token |-> IF t \in old THEN [tokens[t] EXCEPT !.state = "deleted"]
                                        ELSE tokens[t]]
          /\ UNCHANGED <<users, begun, lost, history>>
      BY <1>2 DEF DropResets, PC
    <2>2. \A q \in RequestRow :
           /\ q.pc = "addReset" /\ q.kind = req[r].kind /\ q.user = req[r].user /\ q.tok = req[r].tok
           /\ q.copy = req[r].copy /\ q.mine = req[r].mine /\ q.email = req[r].email
           /\ q.iban = req[r].iban
           => RequestOK(q)
      BY <1>1, <2>1 DEF RequestOK, Carries, Updating, Confirming, Verifying, Resetting
    <2>3. \E q \in RequestRow : RequestOK(q) /\ req' = [req EXCEPT ![r] = q]
      BY <2>1, <2>2, GotoTyped
    <2>4. \A t \in old : tokens[t].kind = "reset" /\ tokens[t].state = "open"
      BY DEF OpenResets
    <2> HIDE DEF old
    <2>5. tokens' \in [Token -> TokenRow] /\ \A t \in Token : TokenOK(tokens'[t])
      <3>1. ASSUME NEW k \in TokenRow, TokenOK(k)
            PROVE  /\ [k EXCEPT !.state = "deleted"] \in TokenRow
                   /\ TokenOK([k EXCEPT !.state = "deleted"])
        BY <3>1 DEF TokenOK, TokenRow
      <3> QED
        BY <2>1, <3>1, Rows DEF TInv
    <2> QED
      BY <2>1, <2>3, <2>5, RequestStep, Unchanged DEF history
  <1>3. CASE SetPassword(r)
    <2>1. req[r].tok \in Token /\ End(r) /\ UNCHANGED <<users, begun, lost, proven, refused, met, cut>>
      BY <1>1, <1>3 DEF SetPassword, RequestOK
    <2>2. \E q \in RequestRow : RequestOK(q) /\ req' = [req EXCEPT ![r] = q]
      BY <2>1, EndTyped
    <2>3. tokens' \in [Token -> TokenRow] /\ \A t \in Token : TokenOK(tokens'[t])
      <3>1. ASSUME NEW k \in TokenRow, TokenOK(k)
            PROVE  /\ [k EXCEPT !.state = "used"] \in TokenRow
                   /\ TokenOK([k EXCEPT !.state = "used"])
        BY <3>1 DEF TokenOK, TokenRow
      <3> QED
        BY <1>3, <2>1, <3>1, Unchanged DEF SetPassword
    <2>4. resets' \in [Token -> Nat]
      BY <1>3, <2>1, Unchanged DEF SetPassword
    <2> QED
      BY <2>1, <2>2, <2>3, <2>4, RequestStep, Unchanged
  <1>4. CASE \E t \in Token : AddReset(r, t)
    <2>1. PICK t \in Token : AddReset(r, t)
      BY <1>4
    <2>2. req[r].email \in Email /\ End(r) /\ UNCHANGED <<users, begun, lost, history>>
      BY <1>1, <2>1 DEF AddReset, RequestOK
    <2>3. tokens' \in [Token -> TokenRow] /\ \A x \in Token : TokenOK(tokens'[x])
      BY <2>1, <2>2, AddTokenTyped DEF AddReset
    <2> QED
      BY <2>2, <2>3, EndTyped, RequestStep, Unchanged DEF history
  <1> QED
    BY <1>2, <1>3, <1>4

LEMMA OutsideTyped ==
  ASSUME TInv, (\E t \in Token : Expire(t)) \/ (\E r \in Request : Lose(r))
  PROVE  TInv'
  <1>1. CASE \E t \in Token : Expire(t)
    <2>1. PICK t \in Token : Expire(t)
      BY <1>1
    <2>2. tokens' = [tokens EXCEPT ![t].state = "expired"] /\ tokens[t].state = "open"
          /\ UNCHANGED <<users, req, begun, lost, proven, resets, refused, met, cut>>
      BY <2>1 DEF Expire, history
    <2>3. tokens' \in [Token -> TokenRow] /\ \A x \in Token : TokenOK(tokens'[x])
      <3>1. ASSUME NEW k \in TokenRow, TokenOK(k)
            PROVE  /\ [k EXCEPT !.state = "expired"] \in TokenRow
                   /\ TokenOK([k EXCEPT !.state = "expired"])
        BY <3>1 DEF TokenOK, TokenRow
      <3> QED
        BY <2>2, <3>1, Unchanged
    <2> QED
      BY <2>2, <2>3 DEF TInv, TypeOK, TokenRow
  <1>2. CASE \E r \in Request : Lose(r)
    <2>1. PICK r \in Request : Lose(r)
      BY <1>2
    <2>2. cut' \subseteq User
      <3>1. req[r] \in RequestRow
        BY Rows DEF TInv
      <3>2. req[r].user \in User \union {None}
        BY <3>1 DEF RequestRow
      <3> QED
        BY <2>1, <3>2, Unchanged DEF Lose
    <2> QED
      BY <2>1, <2>2, EndTyped, RequestStep, Unchanged DEF Lose
  <1> QED
    BY <1>1, <1>2

-----------------------------------------------------------------------------
(* What a step changes, and what it leaves alone.                          *)

\* A token row keeps what it was created with.
Kept == \A t \in Token : tokens[t].kind # None =>
          /\ tokens'[t].kind = tokens[t].kind /\ tokens'[t].user = tokens[t].user
          /\ tokens'[t].value = tokens[t].value

LEMMA TokensKept ==
  ASSUME TInv, [Next]_vars
  PROVE  Kept
  <1>1. tokens \in [Token -> TokenRow]
    BY Rows DEF TInv
  <1>2. ASSUME NEW k \in TokenRow, NEW s
        PROVE  /\ [k EXCEPT !.state = s].kind = k.kind /\ [k EXCEPT !.state = s].user = k.user
               /\ [k EXCEPT !.state = s].value = k.value
    BY DEF TokenRow
  <1>3. ASSUME NEW S, tokens' = Mark(S) PROVE Kept
    BY <1>1, <1>2, <1>3 DEF Mark, Kept
  <1>4. ASSUME NEW t \in Token, NEW kind, NEW u, NEW v, AddToken(t, kind, u, v) PROVE Kept
    <2>1. tokens[t].kind = None
      BY <1>4 DEF AddToken, TInv, TokenOK, NoToken
    <2> QED
      BY <1>1, <1>4, <2>1 DEF AddToken, Kept
  <1>5. ASSUME UNCHANGED tokens PROVE Kept
    BY <1>5 DEF Kept
  <1>6. ASSUME NEW t \in Token, NEW s, tokens' = [tokens EXCEPT ![t].state = s] PROVE Kept
    BY <1>1, <1>2, <1>6 DEF Kept
  <1>7. ASSUME NEW r \in Request, SpendToken(r) PROVE Kept
    <2>1. req[r].tok \in Token
      BY <1>7 DEF SpendToken, TInv, RequestOK, Verifying
    <2> QED
      BY <1>6, <1>7, <2>1 DEF SpendToken
  <1>8. ASSUME NEW r \in Request, DropResets(r) PROVE Kept
    BY <1>1, <1>2, <1>8 DEF DropResets, Kept
  <1>9. ASSUME NEW r \in Request, SetPassword(r) PROVE Kept
    <2>1. req[r].tok \in Token
      BY <1>9 DEF SetPassword, TInv, RequestOK
    <2> QED
      BY <1>5, <1>6, <1>9, <2>1 DEF SetPassword
  <1>10. ASSUME NEW r \in Request, Update(r) PROVE Kept
    BY <1>3, <1>4, <1>5, <1>10
    DEF Update, UpdateBegin, ResendEmail, ResendIban, CheckEmail, MarkEmail, MarkIban,
        AddEmail, AddIban, SaveProfile
  <1>11. ASSUME NEW r \in Request, Verify(r) PROVE Kept
    BY <1>5, <1>7, <1>11 DEF Verify, VerifyBegin, LoadOwner, FindConflict, SaveOwner
  <1>12. ASSUME NEW r \in Request, Reset(r) PROVE Kept
    BY <1>4, <1>5, <1>8, <1>9, <1>12 DEF Reset, ResetBegin, AddReset, ResetLock
  <1> QED
    BY <1>5, <1>6, <1>10, <1>11, <1>12 DEF Next, Lose, Expire, vars

\* A step of another request leaves x alone, but may tell it of a crossing.
Untouched(x) ==
  /\ req'[x].pc = req[x].pc /\ req'[x].kind = req[x].kind /\ req'[x].user = req[x].user
  /\ req'[x].tok = req[x].tok /\ req'[x].copy = req[x].copy /\ req'[x].mine = req[x].mine
  /\ req'[x].email = req[x].email /\ req'[x].iban = req[x].iban
  /\ req[x].crossed => req'[x].crossed
  /\ req'[x].crossed => req[x].crossed \/ req[x].user \in met'

LEMMA OthersUntouched ==
  ASSUME TInv, NEW r \in Request, Update(r) \/ Verify(r) \/ Reset(r) \/ Lose(r),
         NEW x \in Request, x # r
  PROVE  Untouched(x)
  <1>1. req \in [Request -> RequestRow]
    BY Rows DEF TInv
  <1>2. ASSUME NEW q, Begin(r, q) PROVE Untouched(x)
    <2>1. \/ req'[x] = [req[x] EXCEPT !.crossed = TRUE] /\ req[x].user \in met'
          \/ req'[x] = req[x]
      BY <1>2 DEF Begin, Others
    <2> QED
      BY <1>1, <2>1 DEF Untouched, RequestRow
  <1>3. ASSUME req'[x] = req[x] PROVE Untouched(x)
    BY <1>3 DEF Untouched
  <1>4. ASSUME NEW q, Put(r, q) PROVE req'[x] = req[x]
    BY <1>1, <1>4 DEF Put
  <1>5. ASSUME NEW w, Goto(r, w) PROVE req'[x] = req[x]
    BY <1>1, <1>5 DEF Goto
  <1>6. ASSUME Update(r) PROVE Untouched(x)
    BY <1>2, <1>3, <1>4, <1>5, <1>6
    DEF Update, UpdateBegin, ResendEmail, ResendIban, CheckEmail, MarkEmail, MarkIban,
        AddEmail, AddIban, SaveProfile, SaveRow, End
  <1>7. ASSUME Verify(r) PROVE Untouched(x)
    BY <1>2, <1>3, <1>4, <1>5, <1>7
    DEF Verify, VerifyBegin, LoadOwner, FindConflict, SaveOwner, SaveRow, SpendToken, End
  <1>8. ASSUME Reset(r) PROVE Untouched(x)
    BY <1>2, <1>3, <1>4, <1>5, <1>8
    DEF Reset, ResetBegin, DropResets, AddReset, ResetLock, SetPassword, End
  <1> QED
    BY <1>3, <1>4, <1>6, <1>7, <1>8 DEF Lose, End

\* r goes on with the rows it has.
GoesOn(r) ==
  /\ req'[r].kind = req[r].kind /\ req'[r].user = req[r].user /\ req'[r].tok = req[r].tok
  /\ req'[r].copy = req[r].copy /\ req'[r].mine = req[r].mine
  /\ req'[r].email = req[r].email /\ req'[r].iban = req[r].iban
  /\ req'[r].crossed = req[r].crossed
  /\ Carries(req'[r]) => Carries(req[r])
  /\ req'[r].pc \in Verifying => req[r].pc \in Verifying
  /\ req'[r].pc # "setPassword" /\ req[r].pc # "idle"

\* r has no rows in hand, and no token to confirm.
Light(q) == ~Carries(q) /\ q.pc \notin Verifying
Ended(r) == req'[r] = Blank
LEMMA BlankLight == Light(Blank) /\ Blank.user = None /\ Blank.pc = "idle"
  BY DEF Light, Blank, Carries, Verifying, Updating, Confirming

LEMMA GotoGoesOn ==
  ASSUME TInv, NEW r \in Request, NEW w \in PC \ {"setPassword"}, Goto(r, w),
         req[r].pc # "idle",
         (req[r].kind = "update" /\ w \in Updating) \/ w \in Confirming => Carries(req[r]),
         w \in Verifying => req[r].pc \in Verifying
  PROVE  GoesOn(r) /\ req'[r].pc = w
  <1>1. req \in [Request -> RequestRow]
    BY Rows DEF TInv
  <1>2. /\ req'[r].kind = req[r].kind /\ req'[r].user = req[r].user /\ req'[r].tok = req[r].tok
        /\ req'[r].copy = req[r].copy /\ req'[r].mine = req[r].mine
        /\ req'[r].email = req[r].email /\ req'[r].iban = req[r].iban
        /\ req'[r].crossed = req[r].crossed /\ req'[r].pc = w
    BY <1>1 DEF Goto, RequestRow
  <1> QED
    BY <1>2 DEF GoesOn, Carries

\* Most statements either go on with the rows they have, or end.
LEMMA StatementGoesOn ==
  ASSUME TInv, NEW r \in Request,
         \/ MarkEmail(r) \/ MarkIban(r) \/ SaveProfile(r)
         \/ \E t \in Token : AddEmail(r, t) \/ AddIban(r, t)
         \/ FindConflict(r) \/ SaveOwner(r) \/ SpendToken(r)
         \/ DropResets(r) \/ SetPassword(r) \/ Lose(r)
         \/ \E t \in Token : AddReset(r, t)
  PROVE  GoesOn(r) \/ Ended(r)
  <1>1. req \in [Request -> RequestRow] /\ RequestOK(req[r])
    BY Rows DEF TInv
  <1>2. End(r) => Ended(r)
    BY <1>1 DEF End, Put, Ended
  <1>3. CASE MarkEmail(r)
    BY <1>3, GotoGoesOn DEF MarkEmail, PC, Updating, Verifying, Confirming, Carries
  <1>4. CASE MarkIban(r)
    BY <1>4, GotoGoesOn DEF MarkIban, PC, Updating, Verifying, Confirming, Carries
  <1>5. CASE \E t \in Token : AddEmail(r, t)
    <2>1. AfterEmail(req[r]) \in {"idle", "markIban", "saveProfile"} /\ req[r].pc = "addEmail"
      BY <1>5 DEF AfterEmail, AddEmail
    <2> QED
      BY <1>2, <1>5, <2>1, GotoGoesOn DEF AddEmail, PC, Updating, Verifying, Confirming, Carries
  <1>6. CASE \E t \in Token : AddIban(r, t)
    BY <1>2, <1>6, GotoGoesOn DEF AddIban, PC, Updating, Verifying, Confirming, Carries
  <1>7. CASE FindConflict(r)
    BY <1>7, GotoGoesOn DEF FindConflict, PC, Updating, Verifying, Confirming, Carries
  <1>8. CASE SaveOwner(r)
    BY <1>2, <1>8, GotoGoesOn DEF SaveOwner, SaveRow, PC, Updating, Verifying, Confirming, Carries
  <1>9. CASE DropResets(r)
    BY <1>9, GotoGoesOn DEF DropResets, PC, Updating, Verifying, Confirming, Carries
  <1> QED
    BY <1>2, <1>3, <1>4, <1>5, <1>6, <1>7, <1>8, <1>9
    DEF SaveProfile, SaveRow, SpendToken, SetPassword, Lose, AddReset

\* A request of u that finds others of u in flight has met them.
Meets(r, u) == met \subseteq met' /\ (Others(r, u) # {} => u \in met')

\* What a request has in hand when it has begun.
LEMMA BegunWith ==
  ASSUME TInv, NEW r \in Request, NEW q \in RequestRow, Begin(r, q)
  PROVE  /\ req'[r].pc = q.pc /\ req'[r].kind = q.kind /\ req'[r].user = q.user
         /\ req'[r].tok = q.tok /\ req'[r].copy = q.copy /\ req'[r].mine = q.mine
         /\ req'[r].crossed = (Others(r, q.user) # {})
         /\ req'[r].email = q.email /\ req'[r].iban = q.iban
         /\ \A x \in Others(r, q.user) : req'[x].crossed
         /\ req[r].pc = "idle" /\ Meets(r, q.user)
  <1>1. req'[r] = [q EXCEPT !.crossed = (Others(r, q.user) # {})]
    BY DEF Begin
  <1>2. \A x \in Others(r, q.user) : x \in Request /\ req'[x] = [req[x] EXCEPT !.crossed = TRUE]
    BY DEF Begin, Others
  <1>3. \A x \in Request : req[x] \in RequestRow
    BY Rows DEF TInv
  <1> QED
    BY <1>1, <1>2, <1>3 DEF Begin, RequestRow, Meets

\* What an update has in hand; the IBAN it asks for, if it is a new one.
Asked(q) == IF q.iban \in {None, q.copy.iban} THEN None ELSE q.iban

UpdateFacts(r, u) ==
  /\ req'[r].kind = "update" /\ req'[r].user = u /\ req'[r].copy = users[u]
  /\ req'[r].mine \in Row /\ req'[r].mine.email = users[u].email
  /\ req'[r].mine.verified = users[u].verified
  /\ req'[r].mine.iban \in {users[u].iban, None}
  /\ req'[r].mine.pendingIban = Asked(req'[r])
  /\ req'[r].pc \in Updating
  /\ \/ req'[r].pc = "checkEmail"
     \/ /\ req'[r].mine.pendingEmail = None
        /\ req'[r].pc = IF Asked(req'[r]) = None THEN "saveProfile" ELSE "markIban"

LEMMA UpdateBegun ==
  ASSUME TInv, NEW r \in Request, NEW u \in User, NEW e \in Email,
         NEW b \in Iban \union {None}, UpdateBegin(r, u, e, b)
  PROVE  /\ UpdateFacts(r, u)
         /\ req'[r].crossed = (Others(r, u) # {}) /\ \A x \in Others(r, u) : req'[x].crossed
         /\ UNCHANGED <<users, tokens, lost, proven, resets, refused, cut>> /\ req[r].pc = "idle"
         /\ Meets(r, u)
  <1> DEFINE row == users[u]
             m == WithIban(row, b)
             q == [Blank EXCEPT !.kind = "update", !.user = u, !.copy = row,
                     !.email = e, !.iban = b, !.mine = m]
             p == IF e # row.email THEN [q EXCEPT !.pc = "checkEmail"]
                  ELSE [q EXCEPT !.pc = AfterEmail(q), !.mine.pendingEmail = None]
  <1>1. row \in Row /\ Blank \in RequestRow
    BY Rows, BlankOK DEF TInv
  <1>2. /\ m \in Row /\ m.email = row.email /\ m.verified = row.verified
        /\ m.iban \in {row.iban, None}
        /\ m.pendingIban = IF b \in {None, row.iban} THEN None ELSE b
    BY <1>1 DEF WithIban, Row
  <1>3. Begin(r, p) /\ UNCHANGED <<users, tokens, lost, proven, resets, refused, cut>>
    BY DEF UpdateBegin
  <1>4. row \in CopyRow /\ m \in CopyRow
    BY <1>1, <1>2 DEF Row, CopyRow
  <1> HIDE DEF m
  <1>5. /\ q \in RequestRow /\ q.kind = "update" /\ q.user = u /\ q.copy = row /\ q.mine = m
        /\ q.iban = b
    BY <1>1, <1>4 DEF RequestRow
  <1> HIDE DEF q
  <1>6. /\ AfterEmail(q) \in Updating /\ AfterEmail(q) \in PC
        /\ AfterEmail(q) = IF b \in {None, row.iban} THEN "saveProfile" ELSE "markIban"
    BY <1>5 DEF AfterEmail, Updating, PC
  <1>7. /\ p \in RequestRow /\ p.pc \in Updating /\ p.kind = "update" /\ p.user = u /\ p.copy = row
        /\ p.mine \in Row /\ p.mine.email = m.email /\ p.mine.verified = m.verified
        /\ p.mine.iban = m.iban /\ p.mine.pendingIban = m.pendingIban /\ p.iban = b
        /\ p.pc = "checkEmail" \/ (p.mine.pendingEmail = None /\ p.pc = AfterEmail(q))
    <2>1. CASE e # row.email
      BY <1>2, <1>5, <2>1 DEF RequestRow, PC, Updating
    <2>2. CASE e = row.email
      <3> DEFINE w == AfterEmail(q)
                 n == [q.mine EXCEPT !.pendingEmail = None]
      <3>1. p = [q EXCEPT !.pc = w, !.mine = n]
        BY <2>2
      <3>2. /\ n \in Row /\ n \in CopyRow /\ n.email = m.email /\ n.verified = m.verified
            /\ n.iban = m.iban /\ n.pendingIban = m.pendingIban /\ n.pendingEmail = None
        BY <1>2, <1>5 DEF Row, CopyRow
      <3> HIDE DEF w, n
      <3> QED
        BY <1>5, <1>6, <3>1, <3>2 DEF RequestRow, w
    <2> QED
      BY <2>1, <2>2
  <1> HIDE DEF p
  <1>8. /\ req'[r].pc = p.pc /\ req'[r].kind = p.kind /\ req'[r].user = p.user
        /\ req'[r].copy = p.copy /\ req'[r].mine = p.mine /\ req'[r].iban = p.iban
    BY <1>3, <1>7, BegunWith
  <1>9. Asked(req'[r]) = (IF b \in {None, row.iban} THEN None ELSE b)
    BY <1>7, <1>8 DEF Asked
  <1>10. UpdateFacts(r, u)
    BY <1>2, <1>6, <1>7, <1>8, <1>9 DEF UpdateFacts
  <1> QED
    BY <1>3, <1>7, <1>10, BegunWith

LEMMA VerifyBegun ==
  ASSUME TInv, NEW r \in Request, NEW t \in Token, VerifyBegin(r, t)
  PROVE  /\ req'[r].kind = tokens[t].kind /\ req'[r].user = tokens[t].user /\ req'[r].tok = t
         /\ req'[r].pc \in {"spendToken", "loadOwner"} /\ req[r].pc = "idle"
         /\ tokens[t].user \in User
         /\ req'[r].crossed = (Others(r, tokens[t].user) # {})
         /\ \A x \in Others(r, tokens[t].user) : req'[x].crossed
         /\ tokens[t].kind = "email" => <<tokens[t].user, tokens[t].value>> \in proven'
         /\ proven \subseteq proven' /\ UNCHANGED <<users, tokens, lost, resets, cut>>
         /\ Meets(r, tokens[t].user) /\ refused \subseteq refused'
         /\ req'[r].pc = "spendToken" => <<tokens[t].user, tokens[t].value>> \in refused'
  <1> DEFINE k == tokens[t].kind
             u == tokens[t].user
             w == IF tokens[t].state = "expired" THEN "spendToken" ELSE "loadOwner"
             q == [Blank EXCEPT !.kind = k, !.user = u, !.tok = t, !.pc = w]
  <1>1. tokens[t] \in TokenRow /\ TokenOK(tokens[t]) /\ k \in {"email", "iban"} /\ u \in User
    BY Rows DEF TInv, TokenOK, VerifyBegin
  <1>2. Begin(r, q)
    BY DEF VerifyBegin
  <1>3. w \in {"spendToken", "loadOwner"} /\ Blank \in RequestRow
    BY BlankOK
  <1>4. /\ k = "email" => <<u, tokens[t].value>> \in proven'
        /\ proven \subseteq proven' /\ UNCHANGED <<users, tokens, lost, resets, cut>>
        /\ refused \subseteq refused' /\ (w = "spendToken" => <<u, tokens[t].value>> \in refused')
    BY DEF VerifyBegin
  <1> HIDE DEF k, u, w
  <1>5. q \in RequestRow /\ q.pc = w /\ q.kind = k /\ q.user = u /\ q.tok = t
    BY <1>1, <1>3 DEF RequestRow, PC
  <1> HIDE DEF q
  <1> QED
    BY <1>1, <1>2, <1>3, <1>4, <1>5, BegunWith DEF k, u

\* The other requests begin without rows in hand.
LEMMA LightBegun ==
  ASSUME TInv, NEW r \in Request,
         \/ \E u \in User : ResendEmail(r, u) \/ ResendIban(r, u)
         \/ \E e \in Email : ResetBegin(r, e)
         \/ \E t \in Token : ResetLock(r, t)
  PROVE  /\ Light(req'[r]) /\ req'[r].user \in User \union {None} /\ req[r].pc = "idle"
         /\ req'[r].crossed = (Others(r, req'[r].user) # {})
         /\ \A x \in Others(r, req'[r].user) : req'[x].crossed
         /\ UNCHANGED <<users, tokens, lost, proven, resets, refused, cut>>
         /\ req'[r].pc = "setPassword" =>
              \E t \in Token : ResetLock(r, t) /\ req'[r].tok = t
         /\ Meets(r, req'[r].user) /\ req'[r].kind \in {"resend", "reset"}
         /\ req'[r].user \in User =>
              \/ req'[r].pc = "markEmail"
              \/ req'[r].pc = "markIban" /\ req'[r].iban = users[req'[r].user].pendingIban
  <1>1. Blank \in RequestRow /\ \A u \in User : users[u] \in Row
    BY Rows, BlankOK DEF TInv
  <1>2. ASSUME NEW q \in RequestRow, Begin(r, q), Light(q)
        PROVE  /\ Light(req'[r]) /\ req'[r].user = q.user /\ req'[r].user \in User \union {None}
               /\ req'[r].crossed = (Others(r, req'[r].user) # {})
               /\ \A x \in Others(r, req'[r].user) : req'[x].crossed
               /\ req[r].pc = "idle" /\ req'[r].pc = q.pc /\ req'[r].tok = q.tok
               /\ req'[r].kind = q.kind /\ req'[r].iban = q.iban /\ Meets(r, req'[r].user)
    <2>1. q.user \in User \union {None}
      BY DEF RequestRow
    <2> QED
      BY <1>2, <2>1, BegunWith DEF Light, Carries
  <1>3. CASE \E u \in User : ResendEmail(r, u)
    <2>1. PICK u \in User : ResendEmail(r, u)
      BY <1>3
    <2> DEFINE e == IF users[u].pendingEmail # None THEN users[u].pendingEmail ELSE users[u].email
               q == [Blank EXCEPT !.pc = "markEmail", !.kind = "resend", !.user = u, !.email = e]
    <2>2. e \in Email
      BY <1>1 DEF Row
    <2>3. Begin(r, q) /\ UNCHANGED <<users, tokens, lost, proven, resets, refused, cut>>
      BY <2>1 DEF ResendEmail
    <2> HIDE DEF e
    <2>4. q \in RequestRow /\ q.pc = "markEmail" /\ q.kind = "resend"
      BY <1>1, <2>2 DEF RequestRow, PC
    <2> HIDE DEF q
    <2> QED
      BY <1>2, <2>3, <2>4 DEF Light, Carries, Confirming, Verifying
  <1>4. CASE \E u \in User : ResendIban(r, u)
    <2>1. PICK u \in User : ResendIban(r, u)
      BY <1>4
    <2> DEFINE b == users[u].pendingIban
               q == [Blank EXCEPT !.pc = "markIban", !.kind = "resend", !.user = u, !.iban = b]
    <2>2. b \in Iban \union {None}
      BY <1>1 DEF Row
    <2>3. Begin(r, q) /\ UNCHANGED <<users, tokens, lost, proven, resets, refused, cut>>
      BY <2>1 DEF ResendIban
    <2> HIDE DEF b
    <2>4. /\ q \in RequestRow /\ q.pc = "markIban" /\ q.kind = "resend"
          /\ q.user = u /\ q.iban = b
      BY <1>1, <2>2 DEF RequestRow, PC
    <2> HIDE DEF q
    <2> QED
      BY <1>2, <2>3, <2>4 DEF Light, Carries, Confirming, Verifying, b
  <1>5. CASE \E e \in Email : ResetBegin(r, e)
    <2>1. PICK e \in Email : ResetBegin(r, e)
      BY <1>5
    <2> DEFINE q == [Blank EXCEPT !.pc = "dropResets", !.kind = "reset", !.email = e]
    <2>2. Begin(r, q) /\ UNCHANGED <<users, tokens, lost, proven, resets, refused, cut>>
      BY <2>1 DEF ResetBegin
    <2>3. q \in RequestRow /\ q.pc = "dropResets" /\ q.kind = "reset" /\ q.user = None
      BY <1>1 DEF RequestRow, PC, Blank
    <2> HIDE DEF q
    <2> QED
      BY <1>2, <2>2, <2>3, ContactAssumption DEF Light, Carries, Confirming, Verifying
  <1>6. CASE \E t \in Token : ResetLock(r, t)
    <2>1. PICK t \in Token : ResetLock(r, t)
      BY <1>6
    <2> DEFINE q == [Blank EXCEPT !.pc = "setPassword", !.kind = "reset", !.tok = t]
    <2>2. Begin(r, q) /\ UNCHANGED <<users, tokens, lost, proven, resets, refused, cut>>
      BY <2>1 DEF ResetLock
    <2>3. /\ q \in RequestRow /\ q.pc = "setPassword" /\ q.kind = "reset" /\ q.tok = t
          /\ q.user = None
      BY <1>1 DEF RequestRow, PC, Blank
    <2> HIDE DEF q
    <2> QED
      BY <1>2, <2>1, <2>2, <2>3, ContactAssumption DEF Light, Carries, Confirming, Verifying
  <1> QED
    BY <1>3, <1>4, <1>5, <1>6

\* After the conflict query the row in hand differs as the provider's word,
\* or the wait for a link, has it.
LEMMA EmailChecked ==
  ASSUME TInv, NEW r \in Request, CheckEmail(r)
  PROVE  \/ Ended(r)
         \/ /\ req'[r].kind = "update" /\ req'[r].user = req[r].user
            /\ req'[r].copy = req[r].copy /\ req'[r].crossed = req[r].crossed
            /\ req'[r].mine \in Row /\ req'[r].mine.iban = req[r].mine.iban
            /\ req'[r].pc \in Updating /\ req'[r].iban = req[r].iban
            /\ req'[r].mine.pendingIban = req[r].mine.pendingIban
            /\ \/ req'[r].pc = "markEmail" /\ req'[r].mine.pendingEmail = req'[r].email
               \/ req'[r].pc = AfterEmail(req[r]) /\ req'[r].mine.pendingEmail = None
            /\ \/ /\ req'[r].mine.email = req[r].mine.email
                  /\ req'[r].mine.verified = req[r].mine.verified
               \/ IsTrusted(req[r].user, req'[r].mine.email)
  <1> DEFINE p == req[r]
             w == AfterEmail(p)
             m == [p.mine EXCEPT !.email = p.email, !.pendingEmail = None, !.verified = TRUE]
             n == [p.mine EXCEPT !.pendingEmail = p.email]
  <1>1. req \in [Request -> RequestRow] /\ p \in RequestRow /\ RequestOK(p) /\ p.pc = "checkEmail"
    BY Rows DEF TInv, CheckEmail
  <1>2. p.kind = "update" /\ p.email \in Email /\ p.mine \in Row
    BY <1>1 DEF RequestOK, Carries, Updating
  <1>3. \/ req'[r] = Blank
        \/ req'[r] = [p EXCEPT !.pc = w, !.mine = m] /\ IsTrusted(p.user, p.email)
        \/ req'[r] = [p EXCEPT !.pc = "markEmail", !.mine = n]
    BY <1>1 DEF CheckEmail, Put, End
  <1>4. /\ m \in Row /\ m.email = p.email /\ m.iban = p.mine.iban
        /\ n \in Row /\ n.email = p.mine.email /\ n.iban = p.mine.iban
        /\ n.verified = p.mine.verified
        /\ m.pendingEmail = None /\ m.pendingIban = p.mine.pendingIban
        /\ n.pendingEmail = p.email /\ n.pendingIban = p.mine.pendingIban
    BY <1>2 DEF Row
  <1>5. w \in {"markIban", "saveProfile"}
    BY <1>2 DEF AfterEmail
  <1> HIDE DEF m, n, w, p
  <1>6. ASSUME NEW v, NEW y, req'[r] = [p EXCEPT !.pc = v, !.mine = y]
        PROVE  /\ req'[r].pc = v /\ req'[r].mine = y /\ req'[r].kind = p.kind
               /\ req'[r].user = p.user /\ req'[r].copy = p.copy /\ req'[r].crossed = p.crossed
               /\ req'[r].email = p.email /\ req'[r].iban = p.iban
    BY <1>1, <1>6 DEF RequestRow
  <1>7. CASE req'[r] = [p EXCEPT !.pc = w, !.mine = m] /\ IsTrusted(p.user, p.email)
    <2>1. /\ req'[r].pc = w /\ req'[r].mine = m /\ req'[r].kind = p.kind
          /\ req'[r].user = p.user /\ req'[r].copy = p.copy /\ req'[r].crossed = p.crossed
          /\ req'[r].iban = p.iban
      BY <1>6, <1>7
    <2> QED
      BY <1>2, <1>4, <1>5, <1>7, <2>1 DEF Updating, p, w
  <1>8. CASE req'[r] = [p EXCEPT !.pc = "markEmail", !.mine = n]
    <2>1. /\ req'[r].pc = "markEmail" /\ req'[r].mine = n /\ req'[r].kind = p.kind
          /\ req'[r].user = p.user /\ req'[r].copy = p.copy /\ req'[r].crossed = p.crossed
          /\ req'[r].email = p.email /\ req'[r].iban = p.iban
      BY <1>6, <1>8
    <2> QED
      BY <1>2, <1>4, <2>1 DEF Updating, p
  <1> QED
    BY <1>3, <1>7, <1>8 DEF Ended

-----------------------------------------------------------------------------
(* Type correctness. *)

RequestActs(r) == Update(r) \/ Verify(r) \/ Reset(r) \/ Lose(r)

\* The statements that neither begin a request nor fill its rows.
Plain(r) ==
  \/ MarkEmail(r) \/ MarkIban(r) \/ SaveProfile(r)
  \/ \E t \in Token : AddEmail(r, t) \/ AddIban(r, t)
  \/ FindConflict(r) \/ SaveOwner(r) \/ SpendToken(r)
  \/ DropResets(r) \/ SetPassword(r) \/ Lose(r)
  \/ \E t \in Token : AddReset(r, t)

LightBegin(r) ==
  \/ \E u \in User : ResendEmail(r, u) \/ ResendIban(r, u)
  \/ \E e \in Email : ResetBegin(r, e)
  \/ \E t \in Token : ResetLock(r, t)

LEMMA Acts ==
  ASSUME NEW r \in Request, RequestActs(r)
  PROVE  \/ Plain(r) \/ LightBegin(r) \/ CheckEmail(r) \/ LoadOwner(r)
         \/ \E u \in User, e \in Email, b \in Iban \union {None} : UpdateBegin(r, u, e, b)
         \/ \E t \in Token : VerifyBegin(r, t)
  BY DEF RequestActs, Update, Verify, Reset, Plain, LightBegin

LEMMA TInvNext ==
  ASSUME TInv, KInv, [Next]_vars
  PROVE  TInv'
  <1>1. ASSUME NEW r \in Request, RequestActs(r) PROVE TInv'
    BY <1>1, UpdateBeginTyped, ResendTyped, VerifyBeginTyped, ResetBeginTyped, TokenStepTyped,
       CheckEmailTyped, SaveTyped, VerifyStepTyped, ResetStepTyped, OutsideTyped
    DEF RequestActs, Update, Verify, Reset
  <1>2. CASE UNCHANGED vars
    BY <1>2 DEF vars, TInv, TypeOK
  <1> QED
    BY <1>1, <1>2, OutsideTyped DEF Next, RequestActs

LEMMA KInvNext ==
  ASSUME TInv, KInv, [Next]_vars
  PROVE  KInv'
  <1>0. Kept
    BY TokensKept
  <1>1. ASSUME NEW x \in Request, req'[x].pc \in Verifying => req[x].pc \in Verifying,
               req'[x].kind = req[x].kind, req'[x].user = req[x].user, req'[x].tok = req[x].tok
        PROVE  Knows(req[x])'
    <2>1. req[x].pc \in Verifying => req[x].kind # None /\ req[x].tok \in Token
      BY ContactAssumption DEF TInv, RequestOK
    <2> QED
      BY <1>0, <1>1, <2>1 DEF KInv, Knows, Kept
  <1>2. ASSUME NEW r \in Request, RequestActs(r) PROVE KInv'
    <2>1. ASSUME NEW x \in Request, x # r PROVE Knows(req[x])'
      BY <1>1, <1>2, <2>1, OthersUntouched DEF RequestActs, Untouched
    <2>2. Knows(req[r])'
      <3>1. CASE Plain(r)
        <4>1. CASE GoesOn(r)
          BY <1>1, <4>1 DEF GoesOn
        <4>2. CASE Ended(r)
          BY <4>2, BlankLight DEF Ended, Knows, Light
        <4> QED
          BY <3>1, <4>1, <4>2, StatementGoesOn DEF Plain
      <3>2. CASE LightBegin(r)
        BY <3>2, LightBegun DEF LightBegin, Light, Knows
      <3>3. CASE CheckEmail(r)
        BY <3>3, EmailChecked, BlankLight DEF Ended, Knows, Light, Updating, Verifying
      <3>4. CASE LoadOwner(r)
        <4>1. req[r].pc \in Verifying
          BY <3>4 DEF LoadOwner, Verifying
        <4> QED
          BY <1>1, <3>4, <4>1, LoadOwnerRow DEF TInv, TypeOK
      <3>5. CASE \E u \in User, e \in Email, b \in Iban \union {None} : UpdateBegin(r, u, e, b)
        BY <3>5, UpdateBegun DEF UpdateFacts, Updating, Verifying, Knows
      <3>6. CASE \E t \in Token : VerifyBegin(r, t)
        <4>1. PICK t \in Token : VerifyBegin(r, t)
          BY <3>6
        <4>2. /\ req'[r].kind = tokens[t].kind /\ req'[r].user = tokens[t].user
              /\ req'[r].tok = t /\ tokens' = tokens
          BY <4>1, VerifyBegun
        <4> QED
          BY <4>2 DEF Knows
      <3> QED
        BY <1>2, <3>1, <3>2, <3>3, <3>4, <3>5, <3>6, Acts
    <2> QED
      BY <2>1, <2>2 DEF KInv
  <1>3. CASE UNCHANGED req
    BY <1>1, <1>3 DEF KInv
  <1> QED
    BY <1>2, <1>3 DEF Next, Expire, vars, RequestActs

LEMMA InitTyped == Init => TInv /\ KInv
  <1> SUFFICES ASSUME Init PROVE TInv /\ KInv
    OBVIOUS
  <1>1. users \in [User -> Row]
    BY ContactAssumption DEF Init
  <1>2. req \in [Request -> RequestRow] /\ \A r \in Request : RequestOK(req[r])
    BY BlankOK DEF Init
  <1>3. tokens \in [Token -> TokenRow] /\ \A t \in Token : TokenOK(tokens[t])
    <2>1. NoToken \in TokenRow /\ TokenOK(NoToken)
      BY ContactAssumption DEF NoToken, TokenRow, TokenOK
    <2> QED
      BY <2>1 DEF Init
  <1>4. proven \subseteq User \X Email
    <2>1. \A u \in User : users[u].email \in Email
      BY <1>1 DEF Row
    <2> QED
      BY <2>1, ContactAssumption DEF Init
  <1>5. KInv
    BY BlankLight DEF Init, KInv, Knows, Light
  <1> QED
    BY <1>1, <1>2, <1>3, <1>4, <1>5 DEF Init, TInv, TypeOK, RequestRow, TokenRow

LEMMA TypedInv == Spec => [](TInv /\ KInv)
  <1>1. TInv /\ KInv /\ [Next]_vars => TInv' /\ KInv'
    BY TInvNext, KInvNext
  <1> QED
    BY <1>1, InitTyped, PTL DEF Spec

\* Every table holds rows of its type whatever requests cross: in
\* particular no statement saves a value of the wrong column.
THEOREM ContactTyped == Spec => []TypeOK
  <1>1. TInv => TypeOK
    BY DEF TInv
  <1> QED
    BY <1>1, TypedInv, PTL

-----------------------------------------------------------------------------
(* Verified addresses.                                                     *)

ProvenRequest(q) ==
  /\ q.pc \in Verifying /\ q.kind = "email" => <<q.user, tokens[q.tok].value>> \in proven
  /\ Carries(q) =>
       /\ q.mine.email # q.copy.email => <<q.user, q.mine.email>> \in proven
       /\ q.mine.verified /\ ~q.copy.verified => <<q.user, q.mine.email>> \in proven
       /\ users[q.user].email = q.copy.email \/ <<q.user, users[q.user].email>> \in proven

PInv ==
  /\ Trusted \subseteq proven /\ VerifiedIsProven
  /\ \A r \in Request : ProvenRequest(req[r])

\* What was proven of a request stays so when its rows do.
LEMMA ProvenStays ==
  ASSUME TInv, KInv, NEW x \in Request, ProvenRequest(req[x]), Kept,
         proven \subseteq proven', users' = users,
         req'[x].kind = req[x].kind, req'[x].user = req[x].user, req'[x].tok = req[x].tok,
         req'[x].copy = req[x].copy, req'[x].mine = req[x].mine,
         Carries(req'[x]) => Carries(req[x]),
         req'[x].pc \in Verifying => req[x].pc \in Verifying
  PROVE  ProvenRequest(req[x])'
  <1>1. req[x].pc \in Verifying => req[x].tok \in Token /\ tokens[req[x].tok].kind # None
    BY ContactAssumption DEF TInv, RequestOK, KInv, Knows
  <1>2. req[x].pc \in Verifying => tokens'[req[x].tok].value = tokens[req[x].tok].value
    BY <1>1 DEF Kept
  <1>3. req'[x].pc \in Verifying /\ req'[x].kind = "email" =>
          <<req'[x].user, tokens'[req'[x].tok].value>> \in proven'
    BY <1>2 DEF ProvenRequest
  <1> QED
    BY <1>3 DEF ProvenRequest, Carries

\* Saving a row of which everything new is proven keeps every account so.
LEMMA SaveProven ==
  ASSUME TInv, KInv, PInv, NEW r \in Request, Carries(req[r]), proven' = proven, tokens' = tokens,
         LET u == req[r].user
         IN users' = [users EXCEPT ![u] = Written(req[r].copy, req[r].mine, users[u])],
         GoesOn(r) \/ Ended(r), \A x \in Request \ {r} : Untouched(x)
  PROVE  PInv'
  <1> DEFINE p == req[r]
             u == p.user
             row == Written(p.copy, p.mine, users[u])
  <1>1. u \in User /\ p.copy \in Row /\ p.mine \in Row /\ users \in [User -> Row]
    BY Rows DEF TInv, RequestOK
  <1>2. /\ row.email = IF p.mine.email = p.copy.email THEN users[u].email ELSE p.mine.email
        /\ row.verified = IF p.mine.verified = p.copy.verified THEN users[u].verified
                          ELSE p.mine.verified
        /\ row \in Row
    BY <1>1, WrittenTyped
  <1>3. /\ p.mine.email # p.copy.email => <<u, p.mine.email>> \in proven
        /\ p.mine.verified /\ ~p.copy.verified => <<u, p.mine.email>> \in proven
        /\ users[u].email = p.copy.email \/ <<u, users[u].email>> \in proven
        /\ users[u].verified => <<u, users[u].email>> \in proven
    BY <1>1 DEF PInv, ProvenRequest, VerifiedIsProven
  <1>4. users' = [users EXCEPT ![u] = row]
    OBVIOUS
  <1>5. row.email = users[u].email \/ <<u, row.email>> \in proven
    BY <1>2, <1>3
  <1>6. row.verified => <<u, row.email>> \in proven
    BY <1>1, <1>2, <1>3 DEF Row
  <1> HIDE DEF row, u, p
  <1>7. \A v \in User : users'[v].email = users[v].email \/ <<v, users'[v].email>> \in proven
    BY <1>1, <1>4, <1>5
  <1>8. VerifiedIsProven'
    BY <1>1, <1>4, <1>6 DEF PInv, VerifiedIsProven
  <1>9. ASSUME NEW x \in Request,
               req'[x].kind = req[x].kind, req'[x].user = req[x].user, req'[x].tok = req[x].tok,
               req'[x].copy = req[x].copy, req'[x].mine = req[x].mine,
               Carries(req'[x]) => Carries(req[x]),
               req'[x].pc \in Verifying => req[x].pc \in Verifying
        PROVE  ProvenRequest(req[x])'
    <2>1. Carries(req[x]) => req[x].user \in User
      BY DEF TInv, RequestOK
    <2>2. ProvenRequest(req[x])
      BY DEF PInv
    <2>3. req[x].pc \in Verifying /\ req[x].kind = "email" =>
            <<req[x].user, tokens[req[x].tok].value>> \in proven
      BY <2>2 DEF ProvenRequest
    <2>4. Carries(req'[x]) =>
            /\ req[x].mine.email # req[x].copy.email => <<req[x].user, req[x].mine.email>> \in proven
            /\ req[x].mine.verified /\ ~req[x].copy.verified =>
                 <<req[x].user, req[x].mine.email>> \in proven
      BY <1>9, <2>2 DEF ProvenRequest
    <2>5. Carries(req'[x]) =>
            \/ users'[req[x].user].email = req[x].copy.email
            \/ <<req[x].user, users'[req[x].user].email>> \in proven
      <3>1. Carries(req[x]) =>
              \/ users[req[x].user].email = req[x].copy.email
              \/ <<req[x].user, users[req[x].user].email>> \in proven
        BY <2>2 DEF ProvenRequest
      <3> QED
        BY <1>7, <1>9, <2>1, <3>1
    <2> QED
      BY <1>9, <2>3, <2>4, <2>5 DEF ProvenRequest
  <1>10. ASSUME NEW x \in Request PROVE ProvenRequest(req[x])'
    <2>1. CASE x # r
      BY <1>9, <2>1 DEF Untouched, Carries
    <2>2. CASE x = r /\ GoesOn(r)
      BY <1>9, <2>2 DEF GoesOn
    <2>3. CASE x = r /\ Ended(r)
      BY <2>3, BlankLight DEF Ended, Light, ProvenRequest
    <2> QED
      BY <2>1, <2>2, <2>3
  <1> QED
    BY <1>8, <1>10 DEF PInv

\* The statements that save no row.
LEMMA ProvenFrame ==
  ASSUME TInv, KInv, PInv, NEW r \in Request, \A x \in Request \ {r} : Untouched(x),
         Kept, proven \subseteq proven', users' = users, ProvenRequest(req[r])'
  PROVE  PInv'
  <1>1. ASSUME NEW x \in Request \ {r} PROVE ProvenRequest(req[x])'
    BY ProvenStays DEF PInv, Untouched, Carries
  <1>2. \A x \in Request : ProvenRequest(req[x])'
    BY <1>1
  <1> QED
    BY <1>2 DEF PInv, VerifiedIsProven

LEMMA PlainProven ==
  ASSUME TInv, KInv, PInv, Kept, NEW r \in Request, Plain(r), \A x \in Request \ {r} : Untouched(x)
  PROVE  PInv'
  <1>1. GoesOn(r) \/ Ended(r)
    BY StatementGoesOn DEF Plain
  <1>2. CASE proven' = proven /\ users' = users
    <2>1. ProvenRequest(req[r])'
      <3>1. CASE GoesOn(r)
        BY <1>2, <3>1, ProvenStays DEF GoesOn, PInv
      <3>2. CASE Ended(r)
        BY <3>2, BlankLight DEF Ended, Light, ProvenRequest
      <3> QED
        BY <1>1, <3>1, <3>2
    <2> QED
      BY <1>2, <2>1, ProvenFrame
  <1>3. CASE (SaveProfile(r) \/ SaveOwner(r)) /\ users' # users
    <2>1. Carries(req[r])
      BY <1>3 DEF SaveProfile, SaveOwner, TInv, RequestOK, Carries, Updating, Confirming
    <2>2. /\ proven' = proven /\ tokens' = tokens
          /\ LET u == req[r].user
             IN users' = [users EXCEPT ![u] = Written(req[r].copy, req[r].mine, users[u])]
      BY <1>3 DEF SaveProfile, SaveOwner, SaveRow, Merged, history
    <2> QED
      BY <1>1, <2>1, <2>2, SaveProven
  <1>4. (SaveProfile(r) \/ SaveOwner(r)) \/ (proven' = proven /\ users' = users)
    BY DEF Plain, MarkEmail, MarkIban, AddEmail, AddIban, FindConflict, SpendToken, DropResets,
           SetPassword, Lose, AddReset, history
  <1>5. proven' = proven
    BY DEF Plain, MarkEmail, MarkIban, AddEmail, AddIban, FindConflict, SpendToken, DropResets,
           SetPassword, Lose, AddReset, SaveProfile, SaveOwner, history
  <1> QED
    BY <1>2, <1>3, <1>4, <1>5

\* What loadOwner is about to save is what the followed link proves.
LEMMA LoadOwnerProven ==
  ASSUME TInv, KInv, PInv, NEW r \in Request, LoadOwner(r)
  PROVE  ProvenRequest(req[r])'
  <1> DEFINE t == req[r].tok
             u == req[r].user
             row == users[u]
  <1>1. PICK q \in RequestRow :
          /\ req' = [req EXCEPT ![r] = q]
          /\ q.kind = req[r].kind /\ q.user = u /\ q.tok = t /\ q.copy = row
          /\ q.mine = IF Applies(t, row) \/ ConfirmsCurrent(t, row) THEN Confirmed(t, row) ELSE row
    BY LoadOwnerRow
  <1>2. /\ UNCHANGED <<users, tokens, proven>> /\ req[r].pc \in Verifying /\ req'[r] = q
        /\ row \in Row /\ tokens[t].kind = req[r].kind /\ req[r].kind \in {"email", "iban"}
    BY <1>1, LoadOwnerRow, Rows DEF LoadOwner, history, KInv, Knows, Verifying, TInv
  <1>3. req[r].kind = "email" => <<u, tokens[t].value>> \in proven
    BY <1>2 DEF PInv, ProvenRequest
  <1>4. CASE req[r].kind = "email"
    <2>1. /\ q.mine.email = row.email \/ q.mine.email = tokens[t].value
          /\ q.mine.verified /\ ~row.verified => q.mine.email = tokens[t].value
      BY <1>1, <1>2, <1>4 DEF Confirmed, Applies, ConfirmsCurrent, Row
    <2> HIDE DEF t, u, row
    <2> QED
      BY <1>1, <1>2, <1>3, <1>4, <2>1 DEF ProvenRequest, row, u, t
  <1>5. CASE req[r].kind = "iban"
    <2>1. q.mine.email = row.email /\ q.mine.verified = row.verified
      BY <1>1, <1>2, <1>5 DEF Confirmed, Applies, ConfirmsCurrent, Row
    <2> QED
      BY <1>1, <1>2, <1>5, <2>1 DEF ProvenRequest
  <1> QED
    BY <1>2, <1>4, <1>5

LEMMA CheckEmailProven ==
  ASSUME TInv, KInv, PInv, NEW r \in Request, CheckEmail(r)
  PROVE  ProvenRequest(req[r])'
  <1>1. CASE Ended(r)
    BY <1>1, BlankLight DEF Ended, Light, ProvenRequest
  <1>2. CASE ~Ended(r)
    <2>1. /\ req'[r].user = req[r].user /\ req'[r].copy = req[r].copy /\ req'[r].pc \in Updating
          /\ \/ /\ req'[r].mine.email = req[r].mine.email
                /\ req'[r].mine.verified = req[r].mine.verified
             \/ IsTrusted(req[r].user, req'[r].mine.email)
      BY <1>2, EmailChecked
    <2>2. Carries(req[r]) /\ UNCHANGED <<users, tokens, proven>>
      BY DEF CheckEmail, history, TInv, RequestOK, Carries, Updating
    <2>3. /\ req[r].mine.email # req[r].copy.email => <<req[r].user, req[r].mine.email>> \in proven
          /\ req[r].mine.verified /\ ~req[r].copy.verified =>
               <<req[r].user, req[r].mine.email>> \in proven
          /\ \/ users[req[r].user].email = req[r].copy.email
             \/ <<req[r].user, users[req[r].user].email>> \in proven
      BY <2>2 DEF PInv, ProvenRequest
    <2>4. IsTrusted(req[r].user, req'[r].mine.email) => <<req[r].user, req'[r].mine.email>> \in proven
      BY DEF IsTrusted, PInv
    <2>5. req'[r].pc \notin Verifying
      BY <2>1 DEF Updating, Verifying
    <2> QED
      BY <2>1, <2>2, <2>3, <2>4, <2>5 DEF ProvenRequest
  <1> QED
    BY <1>1, <1>2

LEMMA PInvNext ==
  ASSUME TInv, KInv, PInv, [Next]_vars
  PROVE  PInv'
  <1>0. Kept
    BY TokensKept
  <1>1. ASSUME NEW r \in Request, RequestActs(r) PROVE PInv'
    <2>1. \A x \in Request \ {r} : Untouched(x)
      BY <1>1, OthersUntouched DEF RequestActs
    <2>2. CASE Plain(r)
      BY <1>0, <2>1, <2>2, PlainProven
    <2>3. CASE LightBegin(r)
      <3>1. ProvenRequest(req[r])' /\ UNCHANGED <<users, proven>>
        BY <2>3, LightBegun DEF LightBegin, Light, ProvenRequest
      <3> QED
        BY <1>0, <2>1, <3>1, ProvenFrame
    <2>4. CASE CheckEmail(r)
      <3>1. UNCHANGED <<users, proven>>
        BY <2>4 DEF CheckEmail, history
      <3> QED
        BY <1>0, <2>1, <2>4, <3>1, CheckEmailProven, ProvenFrame
    <2>5. CASE LoadOwner(r)
      <3>1. UNCHANGED <<users, proven>>
        BY <2>5 DEF LoadOwner, history
      <3> QED
        BY <1>0, <2>1, <2>5, <3>1, LoadOwnerProven, ProvenFrame
    <2>6. CASE \E u \in User, e \in Email, b \in Iban \union {None} : UpdateBegin(r, u, e, b)
      <3>1. PICK u \in User : UpdateFacts(r, u) /\ UNCHANGED <<users, proven>>
        BY <2>6, UpdateBegun
      <3>2. users[u] \in Row
        BY Rows DEF TInv
      <3>3. ProvenRequest(req[r])'
        BY <3>1, <3>2 DEF UpdateFacts, ProvenRequest, Updating, Verifying, Row
      <3> QED
        BY <1>0, <2>1, <3>1, <3>3, ProvenFrame
    <2>7. CASE \E t \in Token : VerifyBegin(r, t)
      <3>1. PICK t \in Token : VerifyBegin(r, t)
        BY <2>7
      <3>2. /\ req'[r].kind = tokens[t].kind /\ req'[r].user = tokens[t].user /\ req'[r].tok = t
            /\ req'[r].pc \in {"spendToken", "loadOwner"}
            /\ tokens[t].kind = "email" => <<tokens[t].user, tokens[t].value>> \in proven'
            /\ proven \subseteq proven' /\ UNCHANGED <<users, tokens>>
        BY <3>1, VerifyBegun
      <3>3. ~Carries(req'[r])
        BY <3>2 DEF Carries, Updating, Confirming
      <3>4. ProvenRequest(req[r])'
        BY <3>2, <3>3 DEF ProvenRequest
      <3> QED
        BY <1>0, <2>1, <3>2, <3>4, ProvenFrame
    <2> QED
      BY <1>1, <2>2, <2>3, <2>4, <2>5, <2>6, <2>7, Acts
  <1>2. CASE UNCHANGED <<users, req, proven>>
    <2>1. ASSUME NEW x \in Request PROVE ProvenRequest(req[x])'
      BY <1>0, <1>2, ProvenStays DEF PInv
    <2> QED
      BY <1>2, <2>1 DEF PInv, VerifiedIsProven
  <1> QED
    BY <1>1, <1>2 DEF Next, Expire, vars, history, RequestActs

\* An account counts as verified only for an address whose link was followed
\* or that the provider vouched for: columns saved from different readings
\* of the row never add up to a verified address nobody has proven.
THEOREM VerifiedMeansProven == Spec => []VerifiedIsProven
  <1>1. Init => PInv
    <2> SUFFICES ASSUME Init PROVE PInv
      OBVIOUS
    <2>1. \A r \in Request : ProvenRequest(req[r])
      BY BlankLight DEF Init, Light, ProvenRequest
    <2> QED
      BY <2>1 DEF Init, PInv, VerifiedIsProven
  <1>2. PInv => VerifiedIsProven
    BY DEF PInv
  <1>3. TInv /\ KInv /\ PInv /\ [Next]_vars => PInv'
    BY PInvNext
  <1> QED
    BY <1>1, <1>2, <1>3, TypedInv, PTL DEF Spec

-----------------------------------------------------------------------------
(* Password resets.                                                        *)

Resets(r) == req[r].pc = "setPassword"

\* A reset in flight has its token locked and open; a token that has set a
\* password is used.
SInv ==
  /\ \A t \in Token :
       resets[t] = 0 \/ (resets[t] = 1 /\ tokens[t].state = "used" /\ tokens[t].kind = "reset")
  /\ \A r \in Request : Resets(r) =>
       tokens[req[r].tok].state = "open" /\ tokens[req[r].tok].kind = "reset"
  /\ \A r, x \in Request : r # x /\ Resets(r) /\ Resets(x) => req[r].tok # req[x].tok

\* Nobody but its own reset changes a reset token that is locked, and nobody
\* one that is used.
HeldFirm == \A t \in Token :
  tokens[t].kind = "reset" /\ (tokens[t].state = "used" \/ (tokens[t].state = "open" /\ Locked(t)))
    => tokens'[t] = tokens[t]

LEMMA ResetTokensHeld ==
  ASSUME TInv, KInv, [Next]_vars, \A r \in Request : ~SetPassword(r)
  PROVE  HeldFirm
  <1>1. tokens \in [Token -> TokenRow]
    BY Rows DEF TInv
  <1>2. ASSUME UNCHANGED tokens PROVE HeldFirm
    BY <1>2 DEF HeldFirm
  <1>3. ASSUME NEW S, tokens' = Mark(S), \A t \in S : tokens[t].kind # "reset" PROVE HeldFirm
    BY <1>1, <1>3 DEF Mark, HeldFirm
  <1>4. ASSUME NEW t \in Token, NEW k, NEW u, NEW v, AddToken(t, k, u, v) PROVE HeldFirm
    BY <1>1, <1>4 DEF AddToken, HeldFirm
  <1>5. ASSUME NEW r \in Request, MarkEmail(r) \/ MarkIban(r) PROVE HeldFirm
    <2>1. ASSUME NEW u, NEW v
          PROVE  /\ \A t \in Superseded("email", u, v) : tokens[t].kind # "reset"
                 /\ \A t \in Superseded("iban", u, v) : tokens[t].kind # "reset"
      BY DEF Superseded
    <2> QED
      BY <1>3, <1>5, <2>1 DEF MarkEmail, MarkIban
  <1>6. ASSUME NEW r \in Request, SpendToken(r) PROVE HeldFirm
    <2>1. req[r].tok \in Token /\ tokens[req[r].tok].kind # "reset"
      BY <1>6 DEF SpendToken, TInv, RequestOK, Verifying, KInv, Knows
    <2> QED
      BY <1>1, <1>6, <2>1 DEF SpendToken, HeldFirm
  <1>7. ASSUME NEW r \in Request, DropResets(r) PROVE HeldFirm
    BY <1>1, <1>7 DEF DropResets, HeldFirm, OpenResets
  <1>8. ASSUME NEW t \in Token, Expire(t) PROVE HeldFirm
    BY <1>1, <1>8 DEF Expire, HeldFirm
  <1>9. ASSUME NEW r \in Request, RequestActs(r) PROVE HeldFirm
    BY <1>2, <1>4, <1>5, <1>6, <1>7, <1>9
    DEF RequestActs, Update, Verify, Reset, Lose, UpdateBegin, ResendEmail, ResendIban,
        CheckEmail, AddEmail, AddIban, SaveProfile, VerifyBegin, LoadOwner, FindConflict,
        SaveOwner, ResetBegin, AddReset, ResetLock
  <1> QED
    BY <1>2, <1>8, <1>9 DEF Next, RequestActs, vars

\* A reset begins only by locking its token.
LEMMA ResetsBegin ==
  ASSUME TInv, KInv, NEW r \in Request, RequestActs(r), Resets(r)'
  PROVE  \E t \in Token : ResetLock(r, t) /\ req'[r].tok = t
  <1>1. CASE LightBegin(r)
    BY <1>1, LightBegun DEF LightBegin, Resets
  <1>2. CASE Plain(r)
    BY <1>2, StatementGoesOn, BlankLight DEF Plain, GoesOn, Ended, Resets
  <1>3. CASE CheckEmail(r)
    BY <1>3, EmailChecked, BlankLight DEF Ended, Resets, Updating
  <1>4. CASE LoadOwner(r)
    <2>1. \E q \in RequestRow : req' = [req EXCEPT ![r] = q] /\ q.pc # "setPassword"
      BY <1>4, LoadOwnerRow
    <2> QED
      BY <2>1, Rows DEF Resets, TInv
  <1>5. CASE \E u \in User, e \in Email, b \in Iban \union {None} : UpdateBegin(r, u, e, b)
    BY <1>5, UpdateBegun DEF UpdateFacts, Updating, Resets
  <1>6. CASE \E t \in Token : VerifyBegin(r, t)
    BY <1>6, VerifyBegun DEF Resets
  <1> QED
    BY <1>1, <1>2, <1>3, <1>4, <1>5, <1>6, Acts

LEMMA SetPasswordInv ==
  ASSUME TInv, SInv, NEW r \in Request, SetPassword(r), \A x \in Request \ {r} : Untouched(x)
  PROVE  SInv'
  <1> DEFINE t == req[r].tok
  <1>1. /\ t \in Token /\ Resets(r) /\ tokens[t].state = "open" /\ tokens[t].kind = "reset"
        /\ tokens \in [Token -> TokenRow] /\ resets \in [Token -> Nat]
    BY Unchanged DEF SetPassword, SInv, Resets, TInv, RequestOK
  <1>2. resets[t] = 0
    BY <1>1 DEF SInv
  <1>3. req'[r] = Blank
    BY Rows DEF SetPassword, End, Put, TInv
  <1>4. \A x \in Request : Resets(x)' => x # r /\ Resets(x) /\ req'[x].tok = req[x].tok
    BY <1>3, BlankLight DEF Resets, Untouched
  <1>5. \/ UNCHANGED <<tokens, resets>>
        \/ /\ tokens' = [tokens EXCEPT ![t].state = "used"]
           /\ resets' = [resets EXCEPT ![t] = 1]
    BY <1>1, <1>2 DEF SetPassword
  <1>6. \A x \in Request : Resets(x)' => req[x].tok # t
    BY <1>1, <1>4 DEF SInv
  <1> HIDE DEF t
  <1>7. \A y \in Token :
          \/ resets'[y] = 0
          \/ (resets'[y] = 1 /\ tokens'[y].state = "used" /\ tokens'[y].kind = "reset")
    BY <1>1, <1>5 DEF SInv, TokenRow
  <1>8. \A x \in Request : Resets(x)' =>
          tokens'[req'[x].tok].state = "open" /\ tokens'[req'[x].tok].kind = "reset"
    <2> SUFFICES ASSUME NEW x \in Request, Resets(x)'
                 PROVE  tokens'[req'[x].tok].state = "open" /\ tokens'[req'[x].tok].kind = "reset"
      OBVIOUS
    <2>1. Resets(x) /\ req'[x].tok = req[x].tok /\ req[x].tok # t
      BY <1>4, <1>6
    <2>2. req[x].tok \in Token
      BY <2>1 DEF TInv, RequestOK, Resets
    <2>3. tokens'[req[x].tok] = tokens[req[x].tok]
      BY <1>1, <1>5, <2>1, <2>2
    <2> QED
      BY <2>1, <2>3 DEF SInv
  <1>9. ASSUME NEW x \in Request, NEW y \in Request, x # y, Resets(x)', Resets(y)'
        PROVE  req'[x].tok # req'[y].tok
    BY <1>4, <1>9 DEF SInv
  <1> QED
    BY <1>7, <1>8, <1>9 DEF SInv

\* The other steps keep the locks and what has been set.
LEMMA ResetKept ==
  ASSUME TInv, SInv, HeldFirm, resets' = resets,
         \A x \in Request : Resets(x)' =>
           \/ (Resets(x) /\ req'[x].tok = req[x].tok)
           \/ \E t \in Token : ResetLock(x, t) /\ req'[x].tok = t /\ tokens' = tokens
                               /\ \A y \in Request \ {x} : Untouched(y)
  PROVE  SInv'
  <1>1. \A x \in Request : Resets(x) => req[x].tok \in Token /\ Locked(req[x].tok)
    BY DEF TInv, RequestOK, Locked, Resets
  <1>2. \A x \in Request : Resets(x) => tokens'[req[x].tok] = tokens[req[x].tok]
    BY <1>1 DEF HeldFirm, SInv
  <1>3. \A t \in Token :
          resets'[t] = 0 \/ (resets'[t] = 1 /\ tokens'[t].state = "used" /\ tokens'[t].kind = "reset")
    BY DEF SInv, HeldFirm
  <1>4. \A x \in Request : Resets(x)' =>
          tokens'[req'[x].tok].state = "open" /\ tokens'[req'[x].tok].kind = "reset"
    <2> SUFFICES ASSUME NEW x \in Request, Resets(x)'
                 PROVE  tokens'[req'[x].tok].state = "open" /\ tokens'[req'[x].tok].kind = "reset"
      OBVIOUS
    <2>1. CASE Resets(x) /\ req'[x].tok = req[x].tok
      BY <1>2, <2>1 DEF SInv
    <2>2. ASSUME NEW t \in Token, ResetLock(x, t), req'[x].tok = t, tokens' = tokens
          PROVE  tokens'[req'[x].tok].state = "open" /\ tokens'[req'[x].tok].kind = "reset"
      BY <2>2 DEF ResetLock
    <2> QED
      BY <2>1, <2>2
  <1>5. ASSUME NEW x \in Request, NEW y \in Request, x # y, Resets(x)', Resets(y)'
        PROVE  req'[x].tok # req'[y].tok
    <2>1. ASSUME NEW a \in Request, NEW b \in Request, a # b, Resets(b)',
                 \E t \in Token : ResetLock(a, t) /\ req'[a].tok = t /\ tokens' = tokens
                                  /\ \A z \in Request \ {a} : Untouched(z)
          PROVE  req'[a].tok # req'[b].tok
      <3>1. PICK t \in Token : ResetLock(a, t) /\ req'[a].tok = t /\ Untouched(b)
        BY <2>1
      <3>2. Resets(b) /\ req'[b].tok = req[b].tok
        BY <2>1, <3>1 DEF Untouched, Resets
      <3>3. req[b].tok # t
        BY <3>1, <3>2 DEF ResetLock, Locked, Resets
      <3> QED
        BY <3>1, <3>2, <3>3
    <2>2. CASE Resets(x) /\ req'[x].tok = req[x].tok /\ Resets(y) /\ req'[y].tok = req[y].tok
      BY <1>5, <2>2 DEF SInv
    <2> QED
      BY <1>5, <2>1, <2>2
  <1> QED
    BY <1>3, <1>4, <1>5 DEF SInv

LEMMA SInvNext ==
  ASSUME TInv, KInv, SInv, [Next]_vars
  PROVE  SInv'
  <1>1. ASSUME NEW r \in Request, RequestActs(r), NEW x \in Request, x # r PROVE Untouched(x)
    BY <1>1, OthersUntouched DEF RequestActs
  <1>2. CASE \E r \in Request : SetPassword(r)
    BY <1>1, <1>2, SetPasswordInv DEF RequestActs, Reset
  <1>3. CASE \A r \in Request : ~SetPassword(r)
    <2>1. HeldFirm
      BY <1>3, ResetTokensHeld
    <2>2. resets' = resets
      BY <1>3 DEF Next, Update, Verify, Reset, Lose, Expire, UpdateBegin, ResendEmail, ResendIban,
        CheckEmail, MarkEmail, MarkIban, AddEmail, AddIban, SaveProfile, VerifyBegin, LoadOwner,
        FindConflict, SaveOwner, SpendToken, ResetBegin, DropResets, AddReset, ResetLock, vars, history
    <2>3. ASSUME NEW r \in Request, RequestActs(r) PROVE SInv'
      <3>1. \A x \in Request \ {r} : Untouched(x)
        BY <1>1, <2>3
      <3>2. ASSUME NEW x \in Request, Resets(x)'
            PROVE  \/ (Resets(x) /\ req'[x].tok = req[x].tok)
                   \/ \E t \in Token : ResetLock(x, t) /\ req'[x].tok = t /\ tokens' = tokens
                               /\ \A y \in Request \ {x} : Untouched(y)
        <4>1. CASE x # r
          BY <3>1, <3>2, <4>1 DEF Untouched, Resets
        <4>2. CASE x = r
          BY <2>3, <3>1, <3>2, <4>2, ResetsBegin DEF ResetLock
        <4> QED
          BY <4>1, <4>2
      <3> QED
        BY <2>1, <2>2, <3>2, ResetKept
    <2>4. CASE UNCHANGED req
      BY <2>1, <2>2, <2>4, ResetKept DEF Resets
    <2> QED
      BY <2>3, <2>4 DEF Next, Expire, RequestActs, vars
  <1> QED
    BY <1>2, <1>3

LEMMA ResetsInv == Spec => []SInv
  <1>1. Init => SInv
    <2> SUFFICES ASSUME Init PROVE SInv
      OBVIOUS
    <2>1. \A r \in Request : ~Resets(r)
      BY BlankLight DEF Init, Resets
    <2>2. \A t \in Token : resets[t] = 0
      BY DEF Init
    <2> QED
      BY <2>1, <2>2 DEF SInv
  <1>2. TInv /\ KInv /\ SInv /\ [Next]_vars => SInv'
    BY SInvNext
  <1> QED
    BY <1>1, <1>2, TypedInv, PTL DEF Spec

\* A mailed reset link sets a password at most once, however many requests
\* present it together: the row lock and the check of used_at are enough.
THEOREM ResetLinksWorkOnce == Spec => []ResetsOnce
  <1>1. SInv => ResetsOnce
    BY DEF SInv, ResetsOnce
  <1> QED
    BY <1>1, ResetsInv, PTL

-----------------------------------------------------------------------------
(* Crossings.                                                              *)

\* The three ways a request of r can go through a step.
Continues(r) ==
  /\ req'[r].user = req[r].user /\ req'[r].crossed = req[r].crossed /\ req[r].pc # "idle"
Begins(r) ==
  LET u == req'[r].user IN
  /\ u \in User \union {None} /\ req[r].pc = "idle"
  /\ req'[r].crossed = (Others(r, u) # {}) /\ (\A x \in Others(r, u) : req'[x].crossed)
  /\ Meets(r, u) /\ UNCHANGED <<users, tokens, cut>>

LEMMA Courses ==
  ASSUME TInv, KInv, NEW r \in Request, RequestActs(r)
  PROVE  (Continues(r) \/ Ended(r) \/ Begins(r)) /\ met \subseteq met'
  <1>1. CASE Plain(r)
    <2>1. GoesOn(r) \/ Ended(r)
      BY <1>1, StatementGoesOn DEF Plain
    <2>2. met' = met
      BY <1>1 DEF Plain, MarkEmail, MarkIban, AddEmail, AddIban, FindConflict, SpendToken,
           DropResets, SetPassword, Lose, AddReset, SaveProfile, SaveOwner, history
    <2> QED
      BY <2>1, <2>2 DEF GoesOn, Continues
  <1>2. CASE LightBegin(r)
    BY <1>2, LightBegun DEF LightBegin, Begins, Meets
  <1>3. CASE CheckEmail(r)
    BY <1>3, EmailChecked DEF Continues, CheckEmail, history
  <1>4. CASE LoadOwner(r)
    <2>1. PICK q \in RequestRow :
            req' = [req EXCEPT ![r] = q] /\ q.user = req[r].user /\ q.crossed = req[r].crossed
      BY <1>4, LoadOwnerRow
    <2>2. req'[r] = q
      BY <2>1, Rows DEF TInv
    <2> QED
      BY <1>4, <2>1, <2>2 DEF LoadOwner, Continues, history
  <1>5. CASE \E u \in User, e \in Email, b \in Iban \union {None} : UpdateBegin(r, u, e, b)
    BY <1>5, UpdateBegun DEF UpdateFacts, Begins, Meets
  <1>6. CASE \E t \in Token : VerifyBegin(r, t)
    <2>1. PICK t \in Token : VerifyBegin(r, t)
      BY <1>6
    <2>2. PICK u \in User : u = tokens[t].user
      BY <2>1, VerifyBegun
    <2>3. req'[r].user = u /\ req[r].pc = "idle" /\ Meets(r, u)
      BY <2>1, <2>2, VerifyBegun
    <2>4. req'[r].crossed = (Others(r, u) # {})
      <3>1. req'[r].crossed = (Others(r, tokens[t].user) # {})
        BY <2>1, VerifyBegun
      <3> QED
        BY <2>2, <3>1, Zenon
    <2>5. \A x \in Others(r, u) : req'[x].crossed
      BY <2>1, <2>2, VerifyBegun
    <2>6. UNCHANGED <<users, tokens, cut>> /\ met \subseteq met'
      BY <2>1, <2>3 DEF VerifyBegin, Meets
    <2> QED
      BY <2>3, <2>4, <2>5, <2>6 DEF Begins
  <1> QED
    BY <1>1, <1>2, <1>3, <1>4, <1>5, <1>6, Acts

\* Two requests of a user in flight know of each other, and history does.
Single ==
  /\ \A r \in Request : req[r].crossed => req[r].user \in met
  /\ \A r, x \in Request :
       r # x /\ req[r].user = req[x].user /\ req[r].user \in User => req[r].crossed /\ req[x].crossed

LEMMA SingleNext ==
  ASSUME TInv, KInv, Single, [Next]_vars
  PROVE  Single'
  <1>1. ASSUME NEW r \in Request, RequestActs(r) PROVE Single'
    <2>1. \A x \in Request \ {r} : Untouched(x)
      BY <1>1, OthersUntouched DEF RequestActs
    <2>2. (Continues(r) \/ Ended(r) \/ Begins(r)) /\ met \subseteq met'
      BY <1>1, Courses
    <2>3. \A x \in Request : req[x].user \in User => req[x].pc # "idle"
      BY ContactAssumption DEF TInv, RequestOK
    <2>4. ASSUME NEW x \in Request \ {r}, req'[x].crossed PROVE req'[x].user \in met'
      BY <2>1, <2>2, <2>4 DEF Untouched, Single
    <2>5. ASSUME req'[r].crossed PROVE req'[r].user \in met'
      <3>1. CASE Continues(r)
        BY <2>2, <2>5, <3>1 DEF Continues, Single
      <3>2. CASE Ended(r)
        BY <2>5, <3>2 DEF Ended, Blank
      <3>3. CASE Begins(r)
        BY <2>5, <3>3 DEF Begins, Meets
      <3> QED
        BY <2>2, <3>1, <3>2, <3>3
    <2>6. ASSUME NEW x \in Request \ {r}, NEW y \in Request \ {r}, x # y,
                 req'[x].user = req'[y].user, req'[x].user \in User
          PROVE  req'[x].crossed /\ req'[y].crossed
      BY <2>1, <2>6 DEF Untouched, Single
    <2>7. ASSUME NEW x \in Request \ {r}, req'[x].user = req'[r].user, req'[x].user \in User
          PROVE  req'[x].crossed /\ req'[r].crossed
      <3>1. req'[x].user = req[x].user /\ (req[x].crossed => req'[x].crossed)
        BY <2>1 DEF Untouched
      <3>2. CASE Continues(r)
        BY <2>7, <3>1, <3>2 DEF Continues, Single
      <3>3. CASE Ended(r)
        BY <2>7, <3>3, BlankLight, ContactAssumption DEF Ended
      <3>4. CASE Begins(r)
        <4>1. x \in Others(r, req'[r].user)
          BY <2>3, <2>7, <3>1, ContactAssumption DEF Others
        <4> QED
          BY <3>4, <4>1 DEF Begins
      <3> QED
        BY <2>2, <3>2, <3>3, <3>4
    <2>8. \A x \in Request : req'[x].crossed => req'[x].user \in met'
      BY <2>4, <2>5
    <2>9. \A x, y \in Request :
            x # y /\ req'[x].user = req'[y].user /\ req'[x].user \in User
              => req'[x].crossed /\ req'[y].crossed
      BY <2>6, <2>7
    <2> QED
      BY <2>8, <2>9 DEF Single
  <1>2. CASE UNCHANGED <<req, met>>
    BY <1>2 DEF Single
  <1> QED
    BY <1>1, <1>2 DEF Next, RequestActs, Expire, vars, history

\* Only a save changes a row, its own, and then the request has no copy.
LEMMA OwnRowOnly ==
  ASSUME TInv, NEW r \in Request, RequestActs(r)
  PROVE  /\ \A v \in User : v # req[r].user => users'[v] = users[v]
         /\ users' = users \/ ~Carries(req'[r])
  <1>1. CASE SaveProfile(r) \/ SaveOwner(r)
    <2>1. /\ users \in [User -> Row] /\ req \in [Request -> RequestRow]
          /\ req[r].kind \in {"update", "email", "iban"}
          /\ req[r].pc = "saveOwner" => req[r].kind # "update"
      BY <1>1, Rows DEF TInv, SaveProfile, SaveOwner, RequestOK, Verifying
    <2>2. \/ users' = users
          \/ users' = [users EXCEPT ![req[r].user] = Merged(r)]
             /\ (End(r) \/ (Goto(r, "spendToken") /\ req[r].pc = "saveOwner"))
      BY <1>1 DEF SaveProfile, SaveOwner, SaveRow
    <2>3. End(r) => req'[r] = Blank
      BY <2>1 DEF End, Put
    <2>4. Goto(r, "spendToken") => req'[r].pc = "spendToken"
      BY <2>1 DEF Goto, RequestRow
    <2> QED
      BY <2>1, <2>2, <2>3, <2>4, BlankLight DEF Light, Carries, Updating, Confirming
  <1>2. CASE ~(SaveProfile(r) \/ SaveOwner(r))
    <2>1. users' = users
      BY <1>2 DEF RequestActs, Update, Verify, Reset, Lose, UpdateBegin, ResendEmail, ResendIban,
        CheckEmail, MarkEmail, MarkIban, AddEmail, AddIban, VerifyBegin, LoadOwner, FindConflict,
        SpendToken, ResetBegin, DropResets, AddReset, ResetLock, SetPassword
    <2> QED
      BY <2>1
  <1> QED
    BY <1>1, <1>2

\* A request that nobody crossed has the row as it is, and changes of it what
\* it may.
Fresh(q) == Carries(q) /\ ~q.crossed => users[q.user] = q.copy
Changes(q) ==
  /\ q.kind = "update" /\ q.pc \in Updating =>
       /\ q.mine.iban \in {q.copy.iban, None}
       /\ q.mine.email = q.copy.email \/ IsTrusted(q.user, q.mine.email)
  /\ q.pc \in Confirming =>
       /\ q.mine.iban \in {q.copy.iban, q.copy.pendingIban}
       /\ q.mine.email \in {q.copy.email, q.copy.pendingEmail}
CInv == Single /\ \A r \in Request : Fresh(req[r]) /\ Changes(req[r])

LEMMA FreshNext ==
  ASSUME TInv, KInv, CInv, NEW r \in Request, RequestActs(r), NEW x \in Request,
         req'[x].user = req[x].user, req'[x].copy = req[x].copy,
         req[x].crossed => req'[x].crossed,
         Carries(req'[x]) => Carries(req[x])
  PROVE  Fresh(req[x])'
  <1> SUFFICES ASSUME Carries(req'[x]), ~req'[x].crossed
               PROVE  users'[req'[x].user] = req'[x].copy
    BY DEF Fresh
  <1>1. users[req[x].user] = req[x].copy /\ req[x].user \in User
    BY DEF CInv, Fresh, TInv, RequestOK
  <1>2. CASE x = r
    BY <1>1, <1>2, OwnRowOnly
  <1>3. CASE x # r
    <2>1. req[x].user # req[r].user
      BY <1>1, <1>3 DEF CInv, Single
    <2> QED
      BY <1>1, <2>1, OwnRowOnly
  <1> QED
    BY <1>2, <1>3

LEMMA LoadOwnerChanges ==
  ASSUME TInv, KInv, NEW r \in Request, LoadOwner(r)
  PROVE  Fresh(req[r])' /\ Changes(req[r])'
  <1> DEFINE t == req[r].tok
             u == req[r].user
             row == users[u]
  <1>1. PICK q \in RequestRow :
          /\ req' = [req EXCEPT ![r] = q]
          /\ q.kind = req[r].kind /\ q.user = u /\ q.tok = t /\ q.copy = row
          /\ q.mine = IF Applies(t, row) \/ ConfirmsCurrent(t, row) THEN Confirmed(t, row) ELSE row
          /\ q.pc \in {"findConflict", "saveOwner", "spendToken"}
    BY LoadOwnerRow
  <1>2. /\ UNCHANGED <<users, tokens>> /\ req'[r] = q /\ row \in Row
        /\ tokens[t].kind \in {"email", "iban"}
    BY <1>1, LoadOwnerRow, Rows DEF LoadOwner, KInv, Knows, Verifying, TInv
  <1>3. q.mine.iban \in {row.iban, row.pendingIban} /\ q.mine.email \in {row.email, row.pendingEmail}
    BY <1>1, <1>2 DEF Confirmed, Applies, ConfirmsCurrent, Row
  <1> HIDE DEF t, u, row
  <1>4. Changes(q)
    BY <1>1, <1>3 DEF Changes, Updating
  <1>5. Fresh(req[r])'
    BY <1>1, <1>2 DEF Fresh, row, u
  <1> QED
    BY <1>2, <1>4, <1>5 DEF Changes, IsTrusted

LEMMA CInvNext ==
  ASSUME TInv, KInv, CInv, [Next]_vars
  PROVE  CInv'
  <1>0. Single'
    BY SingleNext DEF CInv
  <1>1. ASSUME NEW r \in Request, RequestActs(r) PROVE CInv'
    <2>1. \A x \in Request \ {r} : Untouched(x)
      BY <1>1, OthersUntouched DEF RequestActs
    <2>2. ASSUME NEW x \in Request \ {r} PROVE Fresh(req[x])' /\ Changes(req[x])'
      <3>1. Untouched(x) /\ Changes(req[x])
        BY <2>1 DEF CInv
      <3>2. Fresh(req[x])'
        BY <1>1, <3>1, FreshNext DEF Untouched, Carries
      <3>3. Changes(req[x])'
        BY <3>1 DEF Untouched, Changes, IsTrusted
      <3> QED
        BY <3>2, <3>3
    <2>3. Changes(req[r]) /\ RequestOK(req[r])
      BY DEF CInv, TInv
    <2>4. Fresh(req[r])' /\ Changes(req[r])'
      <3>1. CASE Plain(r)
        <4>1. CASE GoesOn(r)
          <5>1. Fresh(req[r])'
            BY <1>1, <4>1, FreshNext DEF GoesOn
          <5>2. /\ req[r].pc \in Verifying => req[r].kind # "update"
                /\ req[r].pc \in Confirming => req[r].pc \in Verifying
                /\ req'[r].pc \in Confirming => req'[r].pc \in Verifying
            BY <2>3 DEF RequestOK, Verifying, Confirming
          <5>3. /\ Carries(req'[r]) => Carries(req[r])
                /\ req'[r].pc \in Verifying => req[r].pc \in Verifying
                /\ req'[r].kind = req[r].kind /\ req'[r].user = req[r].user
                /\ req'[r].copy = req[r].copy /\ req'[r].mine = req[r].mine
            BY <4>1 DEF GoesOn
          <5>4. /\ req'[r].kind = "update" /\ req'[r].pc \in Updating => req[r].pc \in Updating
                /\ req'[r].pc \in Confirming => req[r].pc \in Confirming
            BY <5>2, <5>3 DEF Carries
          <5>5. Changes(req[r])'
            BY <2>3, <5>3, <5>4 DEF Changes, IsTrusted
          <5> QED
            BY <5>1, <5>5
        <4>2. CASE Ended(r)
          BY <4>2, BlankLight DEF Ended, Light, Fresh, Changes, Carries
        <4> QED
          BY <3>1, <4>1, <4>2, StatementGoesOn DEF Plain
      <3>2. CASE LightBegin(r)
        BY <3>2, LightBegun DEF LightBegin, Light, Fresh, Changes, Carries
      <3>3. CASE CheckEmail(r)
        <4>1. CASE Ended(r)
          BY <4>1, BlankLight DEF Ended, Light, Fresh, Changes, Carries
        <4>2. CASE ~Ended(r)
          <5>1. req[r].kind = "update" /\ req[r].pc \in Updating
            BY <2>3, <3>3 DEF CheckEmail, RequestOK, Updating
          <5>2. /\ req'[r].user = req[r].user
                /\ req'[r].copy = req[r].copy /\ req'[r].crossed = req[r].crossed
                /\ req'[r].mine.iban = req[r].mine.iban /\ req'[r].pc \in Updating
                /\ \/ req'[r].mine.email = req[r].mine.email
                   \/ IsTrusted(req[r].user, req'[r].mine.email)
            BY <3>3, <4>2, EmailChecked
          <5>3. Fresh(req[r])'
            BY <1>1, <5>1, <5>2, FreshNext DEF Carries
          <5>4. Changes(req[r])'
            BY <2>3, <5>1, <5>2 DEF Changes, Updating, Confirming, IsTrusted
          <5> QED
            BY <5>3, <5>4
        <4> QED
          BY <4>1, <4>2
      <3>4. CASE LoadOwner(r)
        BY <3>4, LoadOwnerChanges
      <3>5. CASE \E u \in User, e \in Email, b \in Iban \union {None} : UpdateBegin(r, u, e, b)
        <4>1. PICK u \in User : UpdateFacts(r, u) /\ users' = users
          BY <3>5, UpdateBegun
        <4> QED
          BY <4>1 DEF UpdateFacts, Fresh, Changes, Updating, Confirming
      <3>6. CASE \E t \in Token : VerifyBegin(r, t)
        <4>1. req'[r].pc \in {"spendToken", "loadOwner"}
          BY <3>6, VerifyBegun
        <4> QED
          BY <4>1 DEF Fresh, Changes, Carries, Updating, Confirming
      <3> QED
        BY <1>1, <3>1, <3>2, <3>3, <3>4, <3>5, <3>6, Acts
    <2>5. \A x \in Request : Fresh(req[x])' /\ Changes(req[x])'
      BY <2>2, <2>4
    <2> QED
      BY <1>0, <2>5 DEF CInv
  <1>2. CASE UNCHANGED <<req, users>>
    BY <1>0, <1>2 DEF CInv, Fresh, Changes, IsTrusted
  <1> QED
    BY <1>1, <1>2 DEF Next, RequestActs, Expire, vars

LEMMA CrossedInv == Spec => []CInv
  <1>1. Init => CInv
    <2> SUFFICES ASSUME Init PROVE CInv
      OBVIOUS
    <2>1. \A r \in Request : req[r] = Blank
      BY DEF Init
    <2>2. Single
      BY <2>1, ContactAssumption DEF Single, Blank
    <2>3. ASSUME NEW r \in Request PROVE Fresh(req[r]) /\ Changes(req[r])
      BY <2>1, BlankLight DEF Light, Fresh, Changes, Carries
    <2> QED
      BY <2>2, <2>3 DEF CInv
  <1>2. TInv /\ KInv /\ CInv /\ [Next]_vars => CInv'
    BY CInvNext
  <1> QED
    BY <1>1, <1>2, TypedInv, PTL DEF Spec

\* What a save writes into the columns of an account that nobody crossed.
LEMMA SavesWhatIsPending ==
  ASSUME TInv, KInv, CInv, [Next]_vars, NEW u \in User
  PROVE  LET was == users[u]
             now == users'[u]
             crossing == \E r \in Request : req[r].user = u /\ req[r].crossed /\ req[r] # req'[r]
         IN /\ now.iban \notin {was.iban, None} => now.iban = was.pendingIban \/ crossing
            /\ now.email # was.email =>
                 now.email = was.pendingEmail \/ IsTrusted(u, now.email) \/ crossing
  <1>1. CASE users'[u] = users[u]
    BY <1>1
  <1>2. CASE users'[u] # users[u]
    <2>1. PICK r \in Request : RequestActs(r)
      BY <1>2 DEF Next, RequestActs, Expire, vars
    <2>2. req[r].user = u
      BY <1>2, <2>1, OwnRowOnly
    <2>3. SaveProfile(r) \/ SaveOwner(r)
      BY <1>2, <2>1 DEF RequestActs, Update, Verify, Reset, Lose, UpdateBegin, ResendEmail,
        ResendIban, CheckEmail, MarkEmail, MarkIban, AddEmail, AddIban, VerifyBegin, LoadOwner,
        FindConflict, SpendToken, ResetBegin, DropResets, AddReset, ResetLock, SetPassword
    <2>4. /\ req[r] \in RequestRow /\ RequestOK(req[r]) /\ users \in [User -> Row]
          /\ req \in [Request -> RequestRow] /\ Fresh(req[r]) /\ Changes(req[r])
      BY Rows DEF TInv, CInv
    <2>5. Carries(req[r]) /\ req[r].copy \in Row /\ req[r].mine \in Row
      BY <2>3, <2>4 DEF SaveProfile, SaveOwner, RequestOK, Carries, Updating, Confirming
    <2>6. users'[u] = Written(req[r].copy, req[r].mine, users[u])
      BY <1>2, <2>2, <2>3, <2>4 DEF SaveProfile, SaveOwner, SaveRow, Merged
    <2>7. CASE req[r].crossed
      <3>1. End(r) \/ Goto(r, "spendToken")
        BY <2>3 DEF SaveProfile, SaveOwner, SaveRow
      <3>2. req'[r].pc \in {"idle", "spendToken"}
        BY <2>4, <3>1, BlankLight DEF End, Put, Goto, RequestRow
      <3>3. req[r] # req'[r]
        BY <2>3, <3>2 DEF SaveProfile, SaveOwner
      <3> QED
        BY <2>2, <2>7, <3>3
    <2>8. CASE ~req[r].crossed
      <3>1. users[u] = req[r].copy
        BY <2>2, <2>4, <2>5, <2>8 DEF Fresh
      <3>2. users'[u] = req[r].mine
        BY <2>5, <2>6, <3>1, WrittenTyped
      <3> QED
        BY <2>2, <2>4, <2>5, <3>1, <3>2 DEF Changes, Carries
    <2> QED
      BY <2>7, <2>8
  <1> QED
    BY <1>1, <1>2

\* A new IBAN or address takes effect only when it is pending at that moment,
\* or vouched for: a confirmation that nobody crossed saves what it has read,
\* and an old link confirms nothing that has been replaced.
THEOREM ConfirmsOnlyPending == Spec => ConfirmsWhatIsPending
  <1>1. TInv /\ KInv /\ CInv /\ [Next]_vars =>
        [\A u \in User :
           LET was == users[u]
               now == users'[u]
               crossing == \E r \in Request : req[r].user = u /\ req[r].crossed /\ req[r] # req'[r]
           IN /\ now.iban \notin {was.iban, None} => now.iban = was.pendingIban \/ crossing
              /\ now.email # was.email =>
                   now.email = was.pendingEmail \/ IsTrusted(u, now.email) \/ crossing]_vars
    BY SavesWhatIsPending
  <1> QED
    BY <1>1, TypedInv, CrossedInv, PTL DEF Spec, ConfirmsWhatIsPending

-----------------------------------------------------------------------------
(* Pending values.                                                         *)
(*                                                                         *)
(* T stands for a token table and R for the links that came to nothing.    *)

Live(k) == k.state \in {"open", "expired"}

\* A link to w other than t is neither used nor replaced, or one was in vain.
UsableBut(T, R, t, u, w) ==
  \/ <<u, w>> \in R
  \/ \E x \in Token \ {t} : Live(T[x]) /\ T[x].user = u /\ T[x].value = w
Usable(T, R, u, w) == UsableBut(T, R, None, u, w)

Waits(row) == {row.pendingEmail, row.pendingIban} \ {None}
Good(T, R, row, u) == \A w \in Waits(row) : Usable(T, R, u, w)
Backed(T, R, u, w) == w = None \/ Usable(T, R, u, w)

\* What a request in flight of u owes to the values that wait, or that its
\* save will make wait.
OwedUpdate(T, R, q, u) ==
  /\ q.mine.pendingIban = Asked(q)
  /\ q.pc \in {"markEmail", "addEmail"} => q.mine.pendingEmail = q.email
  /\ q.pc \in {"markIban", "addIban", "saveProfile"} => Backed(T, R, u, q.mine.pendingEmail)
  /\ q.pc \in {"markIban", "addIban"} => q.iban = q.mine.pendingIban
  /\ q.pc = "saveProfile" => Backed(T, R, u, q.mine.pendingIban)
OwedResend(T, R, row, q, u) ==
  /\ q.pc = "addEmail" => \A w \in Waits(row) \ {q.email} : Usable(T, R, u, w)
  /\ q.pc = "addIban" => \A w \in Waits(row) \ {q.iban} : Usable(T, R, u, w)
  /\ q.pc \in {"markIban", "addIban"} => q.iban = row.pendingIban
OwedConfirm(T, q) ==
  /\ T[q.tok].value \notin Waits(q.mine) /\ Waits(q.mine) \subseteq Waits(q.copy)
  /\ q.pc = "findConflict" => q.mine.email = T[q.tok].value
Reads(q) ==
  \/ q.pc \in {"checkEmail", "loadOwner"} \union Confirming
  \/ q.kind = "resend" /\ q.pc \in {"markEmail", "markIban"}
Owed(T, R, row, q, u) ==
  /\ q.kind = "update" /\ q.pc \in Updating => OwedUpdate(T, R, q, u)
  /\ q.kind = "resend" => OwedResend(T, R, row, q, u)
  /\ q.pc \in Confirming => OwedConfirm(T, q)
  /\ Reads(q) => Good(T, R, row, u)
  /\ q.pc = "spendToken" => \A w \in Waits(row) : UsableBut(T, R, q.tok, u, w)

HInv == \A u \in User \ (met \union cut) :
  /\ (\A r \in Request : req[r].user # u) => Good(tokens, refused, users[u], u)
  /\ \A r \in Request : req[r].user = u => Owed(tokens, refused, users[u], req[r], u)

\* From T to S the token x stays usable.
Firm(T, S, x) == Live(T[x]) => Live(S[x]) /\ S[x].user = T[x].user /\ S[x].value = T[x].value

LEMMA StillUsable ==
  ASSUME NEW T, NEW S, NEW R, NEW Q, R \subseteq Q, NEW u, NEW w, NEW t, NEW s,
         UsableBut(T, R, t, u, w),
         \A x \in Token \ {t} : T[x].user = u /\ T[x].value = w => x # s /\ Firm(T, S, x)
  PROVE  UsableBut(S, Q, s, u, w)
  BY DEF UsableBut, Firm

LEMMA StillGood ==
  ASSUME NEW T, NEW S, NEW R, NEW Q, R \subseteq Q, NEW u, NEW row,
         \A x \in Token : T[x].user = u => Firm(T, S, x)
  PROVE  /\ \A w : Usable(T, R, u, w) => Usable(S, Q, u, w)
         /\ \A w : Backed(T, R, u, w) => Backed(S, Q, u, w)
         /\ Good(T, R, row, u) => Good(S, Q, row, u)
         /\ \A t, w : UsableBut(T, R, t, u, w) => UsableBut(S, Q, t, u, w)
  <1>1. \A t, w : UsableBut(T, R, t, u, w) => UsableBut(S, Q, t, u, w)
    BY DEF UsableBut, Firm
  <1> QED
    BY <1>1 DEF Usable, Backed, Good

\* What a request owes it owes still when others have acted.
LEMMA StillOwed ==
  ASSUME NEW T, NEW S, NEW R, NEW Q, R \subseteq Q, NEW u, NEW row, NEW q, NEW p,
         \A x \in Token : T[x].user = u => Firm(T, S, x),
         q.pc \in Verifying => S[q.tok].value = T[q.tok].value,
         p.pc = q.pc, p.kind = q.kind, p.tok = q.tok, p.copy = q.copy, p.mine = q.mine,
         p.email = q.email, p.iban = q.iban,
         Owed(T, R, row, q, u)
  PROVE  Owed(S, Q, row, p, u)
  <1>1. /\ \A w : Usable(T, R, u, w) => Usable(S, Q, u, w)
        /\ \A w : Backed(T, R, u, w) => Backed(S, Q, u, w)
        /\ Good(T, R, row, u) => Good(S, Q, row, u)
        /\ \A t, w : UsableBut(T, R, t, u, w) => UsableBut(S, Q, t, u, w)
    BY StillGood
  <1>2. q.pc \in Confirming => q.pc \in Verifying
    BY DEF Confirming, Verifying
  <1>3. q.kind = "update" /\ q.pc \in Updating => OwedUpdate(S, Q, p, u)
    BY <1>1 DEF Owed, OwedUpdate, Asked
  <1>4. q.kind = "resend" => OwedResend(S, Q, row, p, u)
    BY <1>1 DEF Owed, OwedResend
  <1>5. q.pc \in Confirming => OwedConfirm(S, p)
    BY <1>2 DEF Owed, OwedConfirm
  <1>6. Reads(p) => Good(S, Q, row, u)
    BY <1>1 DEF Owed, Reads
  <1>7. q.pc = "spendToken" => \A w \in Waits(row) : UsableBut(S, Q, q.tok, u, w)
    BY <1>1 DEF Owed
  <1> QED
    BY <1>3, <1>4, <1>5, <1>6, <1>7 DEF Owed

\* What the statements do to tokens.
LEMMA MarkFirm ==
  ASSUME TInv, NEW S, tokens' = Mark(S), NEW x \in Token \ S
  PROVE  Firm(tokens, tokens', x)
  BY DEF Mark, Firm

LEMMA AddFirm ==
  ASSUME TInv, NEW t \in Token, NEW kind, NEW u, NEW v, AddToken(t, kind, u, v)
  PROVE  /\ \A x \in Token : Firm(tokens, tokens', x)
         /\ Live(tokens'[t]) /\ tokens'[t].user = u /\ tokens'[t].value = v
         /\ \A R, w : Usable(tokens, R, u, w) \/ w = v => Usable(tokens', R, u, w)
  <1>1. tokens \in [Token -> TokenRow]
    BY Rows DEF TInv
  <1>2. Live(tokens'[t]) /\ tokens'[t].user = u /\ tokens'[t].value = v
    BY <1>1 DEF AddToken, Live
  <1>3. \A x \in Token : Firm(tokens, tokens', x)
    BY <1>1 DEF AddToken, Firm, Live
  <1>4. t # None
    BY ContactAssumption
  <1>5. ASSUME NEW R, NEW w, Usable(tokens, R, u, w) \/ w = v PROVE Usable(tokens', R, u, w)
    <2>1. CASE w = v
      BY <1>2, <1>4, <2>1 DEF Usable, UsableBut
    <2>2. CASE Usable(tokens, R, u, w)
      BY <1>3, <2>2, StillGood
    <2> QED
      BY <1>5, <2>1, <2>2
  <1> QED
    BY <1>2, <1>3, <1>5

LEMMA StateFirm ==
  ASSUME TInv, NEW t \in Token, NEW s, tokens' = [tokens EXCEPT ![t].state = s]
  PROVE  /\ \A x \in Token \ {t} : Firm(tokens, tokens', x)
         /\ s = "expired" => Firm(tokens, tokens', t)
  <1>1. tokens \in [Token -> TokenRow]
    BY Rows DEF TInv
  <1>2. /\ tokens[t] \in TokenRow /\ tokens'[t] = [tokens[t] EXCEPT !.state = s]
        /\ \A x \in Token \ {t} : tokens'[x] = tokens[x]
    BY <1>1
  <1>3. tokens'[t].user = tokens[t].user /\ tokens'[t].value = tokens[t].value /\ tokens'[t].state = s
    BY <1>2 DEF TokenRow
  <1> QED
    BY <1>2, <1>3 DEF Firm, Live

\* A statement cuts only tokens of its own user short.
LEMMA OthersFirm ==
  ASSUME TInv, KInv, SInv, NEW r \in Request, RequestActs(r), NEW u \in User, u # req[r].user,
         NEW x \in Token, tokens[x].user = u
  PROVE  Firm(tokens, tokens', x)
  <1>0. tokens \in [Token -> TokenRow] /\ RequestOK(req[r]) /\ u # None
    BY Rows, ContactAssumption DEF TInv
  <1>1. ASSUME UNCHANGED tokens PROVE Firm(tokens, tokens', x)
    BY <1>1 DEF Firm
  <1>2. CASE MarkEmail(r) \/ MarkIban(r)
    <2>1. PICK kind, v : tokens' = Mark(Superseded(kind, req[r].user, v))
      BY <1>2 DEF MarkEmail, MarkIban
    <2>2. x \notin Superseded(kind, req[r].user, v)
      BY DEF Superseded
    <2> QED
      BY <2>1, <2>2, MarkFirm
  <1>3. CASE \E t \in Token : AddEmail(r, t) \/ AddIban(r, t) \/ AddReset(r, t)
    BY <1>3, AddFirm DEF AddEmail, AddIban, AddReset
  <1>4. CASE SpendToken(r)
    <2>1. req[r].tok \in Token /\ tokens[req[r].tok].user = req[r].user
      BY <1>0, <1>4 DEF SpendToken, KInv, Knows, Verifying, RequestOK
    <2> QED
      BY <1>4, <2>1, StateFirm DEF SpendToken
  <1>5. CASE DropResets(r)
    <2>1. x \notin OpenResets(req[r].email)
      BY <1>0 DEF OpenResets, TInv, TokenOK
    <2> QED
      BY <1>5, <2>1 DEF DropResets, Firm
  <1>6. CASE SetPassword(r)
    <2>1. req[r].tok \in Token /\ tokens[req[r].tok].kind = "reset"
      BY <1>0, <1>6 DEF SetPassword, SInv, Resets, RequestOK
    <2>2. tokens[req[r].tok].user = None
      BY <2>1 DEF TInv, TokenOK
    <2>3. CASE tokens' = [tokens EXCEPT ![req[r].tok].state = "used"]
      BY <1>0, <2>1, <2>2, <2>3, StateFirm
    <2> QED
      BY <1>1, <1>6, <2>3 DEF SetPassword
  <1> QED
    BY <1>1, <1>2, <1>3, <1>4, <1>5, <1>6
    DEF RequestActs, Update, Verify, Reset, Lose, UpdateBegin, ResendEmail, ResendIban, CheckEmail,
      SaveProfile, VerifyBegin, LoadOwner, FindConflict, SaveOwner, ResetBegin, ResetLock

LEMMA HistoryGrows ==
  ASSUME NEW r \in Request, RequestActs(r)
  PROVE  refused \subseteq refused' /\ cut \subseteq cut'
  BY DEF RequestActs, Update, Verify, Reset, Lose, UpdateBegin, ResendEmail, ResendIban, CheckEmail,
      MarkEmail, MarkIban, AddEmail, AddIban, SaveProfile, VerifyBegin, LoadOwner, FindConflict,
      SaveOwner, SpendToken, ResetBegin, DropResets, AddReset, ResetLock, SetPassword, history

\* What the step of its own request leaves an account with.
Repaid(r, u) ==
  IF req'[r].user = u THEN Owed(tokens', refused', users'[u], req'[r], u)
  ELSE Good(tokens', refused', users'[u], u)

SameRows(q, p) ==
  /\ p.kind = q.kind /\ p.user = q.user /\ p.tok = q.tok /\ p.copy = q.copy /\ p.mine = q.mine
  /\ p.email = q.email /\ p.iban = q.iban

LEMMA GotoFields ==
  ASSUME TInv, NEW r \in Request, NEW w, Goto(r, w)
  PROVE  SameRows(req[r], req'[r]) /\ req'[r].pc = w
  <1>1. req \in [Request -> RequestRow]
    BY Rows DEF TInv
  <1> QED
    BY <1>1 DEF Goto, RequestRow, SameRows

LEMMA EndFields ==
  ASSUME TInv, NEW r \in Request, End(r)
  PROVE  req'[r] = Blank /\ req'[r].user = None
  <1>1. req \in [Request -> RequestRow]
    BY Rows DEF TInv
  <1> QED
    BY <1>1, BlankLight DEF End, Put

\* Addresses and IBANs are told apart.
LEMMA Apart ==
  ASSUME TInv, NEW u \in User
  PROVE  /\ users[u] \in Row /\ None \notin User /\ None \notin Email /\ None \notin Iban
         /\ None \notin Token /\ u # None
         /\ \A e \in Email, b \in Iban : e # b
         /\ users[u].pendingEmail \in Email \union {None}
         /\ users[u].pendingIban \in Iban \union {None}
  BY Rows, ContactAssumption DEF TInv, Row

LEMMA MarkEmailRepaid ==
  ASSUME TInv, NEW r \in Request, NEW u \in User, req[r].user = u, MarkEmail(r),
         Owed(tokens, refused, users[u], req[r], u)
  PROVE  Repaid(r, u)
  <1> DEFINE q == req[r]
             p == req'[r]
             S == Superseded("email", u, q.email)
  <1>1. /\ q.pc = "markEmail" /\ p.pc = "addEmail" /\ SameRows(q, p)
        /\ users' = users /\ refused' = refused /\ tokens' = Mark(S)
        /\ q.kind \in {"update", "resend"}
    BY GotoFields DEF MarkEmail, history, TInv, RequestOK
  <1>2. \A x \in Token : tokens[x].value # q.email => Firm(tokens, tokens', x)
    BY <1>1, MarkFirm DEF Superseded
  <1>3. \A w : w # q.email /\ Usable(tokens, refused, u, w) => Usable(tokens', refused, u, w)
    BY <1>2, ContactAssumption DEF Usable, UsableBut, Firm
  <1> HIDE DEF q, p, S
  <1>4. CASE q.kind = "update"
    <2>1. OwedUpdate(tokens, refused, q, u)
      BY <1>1, <1>4 DEF Owed, Updating, q
    <2>2. OwedUpdate(tokens', refused, p, u)
      BY <1>1, <2>1 DEF OwedUpdate, SameRows, Asked
    <2> QED
      BY <1>1, <1>4, <2>2 DEF Repaid, Owed, SameRows, Confirming, Reads, p, q
  <1>5. CASE q.kind = "resend"
    <2>1. Good(tokens, refused, users[u], u)
      BY <1>1, <1>5 DEF Owed, Reads, q
    <2>2. \A w \in Waits(users[u]) \ {q.email} : Usable(tokens', refused, u, w)
      BY <1>3, <2>1 DEF Good
    <2>3. OwedResend(tokens', refused, users[u], p, u)
      BY <1>1, <2>2 DEF OwedResend, SameRows
    <2> QED
      BY <1>1, <1>5, <2>3 DEF Repaid, Owed, SameRows, Confirming, Reads, p, q
  <1> QED
    BY <1>1, <1>4, <1>5

LEMMA AddEmailRepaid ==
  ASSUME TInv, NEW r \in Request, NEW u \in User, req[r].user = u, NEW t \in Token, AddEmail(r, t),
         Owed(tokens, refused, users[u], req[r], u)
  PROVE  Repaid(r, u)
  <1> DEFINE q == req[r]
             p == req'[r]
  <1>1. /\ q.pc = "addEmail" /\ users' = users /\ refused' = refused
        /\ AddToken(t, "email", u, q.email)
        /\ IF AfterEmail(q) = "idle" THEN End(r) ELSE Goto(r, AfterEmail(q))
        /\ q.kind \in {"update", "resend"}
    BY DEF AddEmail, history, TInv, RequestOK
  <1>2. \A w : Usable(tokens, refused, u, w) \/ w = q.email => Usable(tokens', refused, u, w)
    BY <1>1, AddFirm
  <1>3. CASE q.kind = "resend"
    <2>1. p.user # u
      BY <1>1, <1>3, EndFields, ContactAssumption DEF AfterEmail
    <2>2. OwedResend(tokens, refused, users[u], q, u)
      BY <1>3 DEF Owed
    <2>3. Good(tokens', refused, users[u], u)
      BY <1>1, <1>2, <2>2 DEF OwedResend, Good
    <2> QED
      BY <1>1, <2>1, <2>3 DEF Repaid
  <1>4. CASE q.kind = "update"
    <2>1. /\ p.pc = IF Asked(q) = None THEN "saveProfile" ELSE "markIban"
          /\ SameRows(q, p)
      <3>1. AfterEmail(q) = IF Asked(q) = None THEN "saveProfile" ELSE "markIban"
        BY <1>4 DEF AfterEmail, Asked
      <3> QED
        BY <1>1, <3>1, GotoFields
    <2>2. OwedUpdate(tokens, refused, q, u)
      BY <1>1, <1>4 DEF Owed, Updating
    <2> HIDE DEF q, p
    <2>3. Backed(tokens', refused, u, p.mine.pendingEmail)
      BY <1>1, <1>2, <2>1, <2>2 DEF OwedUpdate, SameRows, Backed
    <2>4. Asked(p) = Asked(q) /\ (Asked(q) # None => q.iban = Asked(q))
      BY <2>1 DEF Asked, SameRows
    <2>5. OwedUpdate(tokens', refused, p, u)
      BY <2>1, <2>2, <2>3, <2>4 DEF OwedUpdate, SameRows, Backed
    <2> QED
      BY <1>1, <1>4, <2>1, <2>5 DEF Repaid, Owed, SameRows, Confirming, Reads, p, q
  <1> QED
    BY <1>1, <1>3, <1>4

LEMMA MarkIbanRepaid ==
  ASSUME TInv, NEW r \in Request, NEW u \in User, req[r].user = u, MarkIban(r),
         Owed(tokens, refused, users[u], req[r], u)
  PROVE  Repaid(r, u)
  <1> DEFINE q == req[r]
             p == req'[r]
             S == Superseded("iban", u, q.iban)
  <1>1. /\ q.pc = "markIban" /\ p.pc = "addIban" /\ SameRows(q, p)
        /\ users' = users /\ refused' = refused /\ tokens' = Mark(S)
        /\ q.kind \in {"update", "resend"}
    BY GotoFields DEF MarkIban, history, TInv, RequestOK
  <1>2. \A x \in Token : tokens[x].value \notin Iban => Firm(tokens, tokens', x)
    BY <1>1, MarkFirm DEF Superseded, TInv, TokenOK
  <1>3. \A w \in Email : Usable(tokens, refused, u, w) => Usable(tokens', refused, u, w)
    BY <1>2, ContactAssumption DEF Usable, UsableBut, Firm
  <1>4. CASE q.kind = "update"
    <2>1. OwedUpdate(tokens, refused, q, u)
      BY <1>1, <1>4 DEF Owed, Updating
    <2>2. q.mine.pendingEmail \in Email \union {None}
      BY <1>1, <1>4 DEF TInv, RequestOK, Carries, Updating, Row
    <2> HIDE DEF q, p, S
    <2>3. Backed(tokens', refused, u, q.mine.pendingEmail)
      BY <1>1, <1>3, <2>1, <2>2 DEF OwedUpdate, Backed
    <2>4. OwedUpdate(tokens', refused, p, u)
      BY <1>1, <2>1, <2>3 DEF OwedUpdate, SameRows, Asked
    <2> QED
      BY <1>1, <1>4, <2>4 DEF Repaid, Owed, SameRows, Confirming, Reads, p, q
  <1>5. CASE q.kind = "resend"
    <2>1. Good(tokens, refused, users[u], u) /\ OwedResend(tokens, refused, users[u], q, u)
      BY <1>1, <1>5 DEF Owed, Reads
    <2>2. \A w \in Waits(users[u]) \ {q.iban} : w \in Email
      BY <1>1, <2>1, Apart DEF OwedResend, Waits
    <2> HIDE DEF q, p, S
    <2>3. OwedResend(tokens', refused, users[u], p, u)
      BY <1>1, <1>3, <2>1, <2>2 DEF OwedResend, SameRows, Good
    <2> QED
      BY <1>1, <1>5, <2>3 DEF Repaid, Owed, SameRows, Confirming, Reads, p, q
  <1> QED
    BY <1>1, <1>4, <1>5

LEMMA AddIbanRepaid ==
  ASSUME TInv, NEW r \in Request, NEW u \in User, req[r].user = u, NEW t \in Token, AddIban(r, t),
         Owed(tokens, refused, users[u], req[r], u)
  PROVE  Repaid(r, u)
  <1> DEFINE q == req[r]
             p == req'[r]
  <1>1. /\ q.pc = "addIban" /\ users' = users /\ refused' = refused
        /\ AddToken(t, "iban", u, q.iban)
        /\ IF q.kind = "resend" THEN End(r) ELSE Goto(r, "saveProfile")
        /\ q.kind \in {"update", "resend"}
    BY DEF AddIban, history, TInv, RequestOK
  <1>2. \A w : Usable(tokens, refused, u, w) \/ w = q.iban => Usable(tokens', refused, u, w)
    BY <1>1, AddFirm
  <1>3. CASE q.kind = "resend"
    <2>1. p.user # u
      BY <1>1, <1>3, EndFields, ContactAssumption
    <2>2. OwedResend(tokens, refused, users[u], q, u)
      BY <1>3 DEF Owed
    <2>3. Good(tokens', refused, users[u], u)
      BY <1>1, <1>2, <2>2 DEF OwedResend, Good
    <2> QED
      BY <1>1, <2>1, <2>3 DEF Repaid
  <1>4. CASE q.kind = "update"
    <2>1. p.pc = "saveProfile" /\ SameRows(q, p)
      BY <1>1, <1>4, GotoFields
    <2>2. OwedUpdate(tokens, refused, q, u)
      BY <1>1, <1>4 DEF Owed, Updating
    <2> HIDE DEF q, p
    <2>3. OwedUpdate(tokens', refused, p, u)
      BY <1>1, <1>2, <2>1, <2>2 DEF OwedUpdate, SameRows, Backed, Asked
    <2> QED
      BY <1>1, <1>4, <2>1, <2>3 DEF Repaid, Owed, SameRows, Confirming, Reads, p, q
  <1> QED
    BY <1>1, <1>3, <1>4

LEMMA CheckEmailRepaid ==
  ASSUME TInv, NEW r \in Request, NEW u \in User, req[r].user = u, CheckEmail(r),
         Owed(tokens, refused, users[u], req[r], u)
  PROVE  Repaid(r, u)
  <1> DEFINE q == req[r]
             p == req'[r]
  <1>1. /\ q.pc = "checkEmail" /\ UNCHANGED <<users, tokens, refused>> /\ q.kind = "update"
    BY DEF CheckEmail, history, TInv, RequestOK
  <1>2. Good(tokens, refused, users[u], u) /\ OwedUpdate(tokens, refused, q, u)
    BY <1>1 DEF Owed, Reads, Updating
  <1>3. CASE Ended(r)
    <2>1. p.user # u
      BY <1>3, BlankLight, ContactAssumption DEF Ended
    <2> QED
      BY <1>1, <1>2, <2>1 DEF Repaid
  <1>4. CASE ~Ended(r)
    <2>1. /\ p.kind = "update" /\ p.user = u /\ p.copy = q.copy /\ p.pc \in Updating
          /\ p.iban = q.iban /\ p.mine.pendingIban = q.mine.pendingIban
          /\ \/ p.pc = "markEmail" /\ p.mine.pendingEmail = p.email
             \/ p.pc = AfterEmail(q) /\ p.mine.pendingEmail = None
      BY <1>4, EmailChecked
    <2>2. AfterEmail(q) = IF Asked(q) = None THEN "saveProfile" ELSE "markIban"
      BY <1>1 DEF AfterEmail, Asked
    <2> HIDE DEF q, p
    <2>3. Asked(p) = Asked(q) /\ (Asked(q) # None => q.iban = Asked(q))
      BY <2>1 DEF Asked
    <2>4. OwedUpdate(tokens, refused, p, u)
      BY <1>1, <1>2, <2>1, <2>2, <2>3 DEF OwedUpdate, Backed
    <2>5. p.pc \notin Confirming /\ ~Reads(p) /\ p.pc # "spendToken"
      BY <2>1, <2>2 DEF Reads, Confirming, Updating
    <2> QED
      BY <1>1, <2>1, <2>4, <2>5 DEF Repaid, Owed, p
  <1> QED
    BY <1>3, <1>4

\* A save that goes through writes the row in hand, when nobody crossed it.
LEMMA SavedRow ==
  ASSUME TInv, CInv, NEW r \in Request, req[r].user \in User, req[r].user \notin met, Carries(req[r])
  PROVE  users[req[r].user] = req[r].copy /\ Merged(r) = req[r].mine
  <1>1. ~req[r].crossed /\ Fresh(req[r]) /\ RequestOK(req[r])
    BY DEF CInv, Single, TInv
  <1>2. users[req[r].user] = req[r].copy /\ req[r].copy \in Row /\ req[r].mine \in Row
    BY <1>1 DEF Fresh, RequestOK
  <1> QED
    BY <1>2, WrittenTyped DEF Merged

LEMMA SaveProfileRepaid ==
  ASSUME TInv, CInv, NEW r \in Request, NEW u \in User \ (met \union cut'), req[r].user = u,
         SaveProfile(r), Owed(tokens, refused, users[u], req[r], u)
  PROVE  Repaid(r, u)
  <1> DEFINE q == req[r]
  <1>1. /\ q.pc = "saveProfile" /\ tokens' = tokens /\ refused' = refused /\ q.kind = "update"
        /\ users \in [User -> Row]
    BY Rows DEF SaveProfile, TInv, RequestOK
  <1>2. Carries(q) /\ OwedUpdate(tokens, refused, q, u)
    BY <1>1 DEF Carries, Updating, Owed
  <1>3. Fits(r)
    BY DEF SaveProfile
  <1>4. users' = [users EXCEPT ![u] = Merged(r)] /\ End(r)
    BY <1>3 DEF SaveProfile, SaveRow
  <1>5. users'[u] = q.mine /\ req'[r].user # u
    BY <1>1, <1>2, <1>4, SavedRow, EndFields, ContactAssumption
  <1>6. Good(tokens, refused, q.mine, u)
    BY <1>1, <1>2 DEF OwedUpdate, Good, Waits, Backed
  <1> QED
    BY <1>1, <1>5, <1>6 DEF Repaid

\* A usable link to w is none of a token that stands for something else.
LEMMA UsableWithout ==
  ASSUME TInv, NEW t \in Token, NEW u, NEW w, NEW R, Usable(tokens, R, u, w), tokens[t].value # w
  PROVE  UsableBut(tokens, R, t, u, w)
  BY DEF Usable, UsableBut

LEMMA LoadOwnerRepaid ==
  ASSUME TInv, KInv, NEW r \in Request, NEW u \in User, req[r].user = u, LoadOwner(r),
         Owed(tokens, refused, users[u], req[r], u)
  PROVE  Repaid(r, u)
  <1> DEFINE t == req[r].tok
             row == users[u]
  <1>1. PICK q \in RequestRow :
          /\ req' = [req EXCEPT ![r] = q]
          /\ q.kind = req[r].kind /\ q.user = u /\ q.tok = t /\ q.copy = row
          /\ q.mine = IF Applies(t, row) \/ ConfirmsCurrent(t, row) THEN Confirmed(t, row) ELSE row
          /\ q.pc \in {"findConflict", "saveOwner", "spendToken"}
          /\ q.pc = "saveOwner" => Applies(t, row) \/ ConfirmsCurrent(t, row)
          /\ q.pc = "findConflict" => tokens[t].kind = "email" /\ Applies(t, row)
          /\ q.pc = "spendToken" => ~Applies(t, row)
    BY LoadOwnerRow
  <1>2. /\ UNCHANGED <<users, tokens, refused>> /\ req'[r] = q /\ req[r].pc = "loadOwner"
        /\ t \in Token /\ tokens[t].kind \in {"email", "iban"} /\ q.kind \in {"email", "iban"}
    BY <1>1, LoadOwnerRow, Rows DEF LoadOwner, KInv, Knows, Verifying, TInv, history
  <1>3. /\ tokens[t].kind = "email" => tokens[t].value \in Email
        /\ tokens[t].kind = "iban" => tokens[t].value \in Iban
    BY <1>2 DEF TInv, TokenOK
  <1>4. Good(tokens, refused, row, u)
    BY <1>2 DEF Owed, Reads
  <1>5. ASSUME q.pc \in Confirming PROVE OwedConfirm(tokens, q)
    <2>1. Applies(t, row) \/ ConfirmsCurrent(t, row)
      BY <1>1, <1>5 DEF Confirming
    <2>2. q.mine = Confirmed(t, row)
      BY <1>1, <2>1
    <2>3. CASE tokens[t].kind = "iban"
      <3>1. q.mine.pendingIban = None /\ q.mine.pendingEmail = row.pendingEmail
        BY <2>2, <2>3, Apart DEF Confirmed, Row
      <3> QED
        BY <1>1, <1>3, <2>3, <3>1, Apart DEF OwedConfirm, Waits
    <2>4. CASE tokens[t].kind = "email" /\ Applies(t, row)
      <3>1. /\ q.mine.pendingIban = row.pendingIban /\ q.mine.pendingEmail = None
            /\ q.mine.email = tokens[t].value
        BY <2>2, <2>4, Apart DEF Confirmed, Row
      <3> QED
        BY <1>1, <1>3, <2>4, <3>1, Apart DEF OwedConfirm, Waits
    <2>5. CASE tokens[t].kind = "email" /\ ~Applies(t, row)
      <3>1. /\ q.mine.pendingIban = row.pendingIban /\ q.mine.pendingEmail = row.pendingEmail
            /\ tokens[t].value # row.pendingEmail
        BY <2>2, <2>5, Apart DEF Confirmed, Row, Applies
      <3> QED
        BY <1>1, <1>3, <2>5, <3>1, Apart DEF OwedConfirm, Waits
    <2> QED
      BY <1>2, <2>3, <2>4, <2>5
  <1>6. ASSUME q.pc = "spendToken", NEW w \in Waits(row) PROVE UsableBut(tokens, refused, t, u, w)
    <2>1. tokens[t].value # w
      BY <1>1, <1>2, <1>3, <1>6, Apart DEF Waits, Applies
    <2> QED
      BY <1>2, <1>4, <2>1, UsableWithout DEF Good
  <1>7. Owed(tokens, refused, row, q, u)
    <2>1. q.kind # "update" /\ q.kind # "resend"
      BY <1>2
    <2> QED
      BY <1>1, <1>4, <1>5, <1>6, <2>1 DEF Owed
  <1> QED
    BY <1>1, <1>2, <1>7 DEF Repaid

LEMMA FindConflictRepaid ==
  ASSUME TInv, KInv, NEW r \in Request, NEW u \in User, req[r].user = u, FindConflict(r),
         CInv, u \notin met, Owed(tokens, refused, users[u], req[r], u)
  PROVE  Repaid(r, u)
  <1> DEFINE q == req[r]
             p == req'[r]
             taken == ~EmailFree(u, q.mine.email)
  <1>1. /\ q.pc = "findConflict" /\ UNCHANGED <<users, tokens>>
        /\ q.kind \in {"email", "iban"} /\ q.tok \in Token
        /\ p.pc = (IF taken THEN "spendToken" ELSE "saveOwner") /\ SameRows(q, p)
        /\ refused' = IF taken THEN refused \union {<<u, q.mine.email>>} ELSE refused
    BY GotoFields DEF FindConflict, TInv, RequestOK, Verifying
  <1>2. Good(tokens, refused, users[u], u) /\ OwedConfirm(tokens, q)
    BY <1>1 DEF Owed, Reads, Confirming
  <1> HIDE DEF q, p, taken
  <1>3. CASE taken
    <2>1. ASSUME NEW w \in Waits(users[u]) PROVE UsableBut(tokens, refused', q.tok, u, w)
      <3>1. CASE w = tokens[q.tok].value
        BY <1>1, <1>2, <1>3, <3>1 DEF OwedConfirm, UsableBut
      <3>2. CASE w # tokens[q.tok].value
        <4>1. Usable(tokens, refused', u, w)
          BY <1>1, <1>2 DEF Good, Usable, UsableBut
        <4> QED
          BY <1>1, <3>2, <4>1, UsableWithout
      <3> QED
        BY <3>1, <3>2
    <2> QED
      BY <1>1, <1>3, <2>1 DEF Repaid, Owed, SameRows, Confirming, Reads, Updating, p, q
  <1>4. CASE ~taken
    <2>1. OwedConfirm(tokens, p)
      BY <1>1, <1>2, <1>4 DEF OwedConfirm, SameRows
    <2> QED
      BY <1>1, <1>2, <1>4, <2>1 DEF Repaid, Owed, SameRows, Updating, p, q
  <1> QED
    BY <1>3, <1>4

LEMMA SaveOwnerRepaid ==
  ASSUME TInv, KInv, CInv, NEW r \in Request, NEW u \in User \ met, req[r].user = u, SaveOwner(r),
         Owed(tokens, refused, users[u], req[r], u)
  PROVE  Repaid(r, u)
  <1> DEFINE q == req[r]
             p == req'[r]
  <1>1. /\ q.pc = "saveOwner" /\ UNCHANGED <<tokens, refused>> /\ users \in [User -> Row]
        /\ q.kind \in {"email", "iban"} /\ q.tok \in Token /\ Carries(q)
    BY Rows DEF SaveOwner, TInv, RequestOK, Verifying, Carries, Confirming, history
  <1>2. Good(tokens, refused, users[u], u) /\ OwedConfirm(tokens, q)
    BY <1>1 DEF Owed, Reads, Confirming
  <1>3. users[u] = q.copy /\ Merged(r) = q.mine
    BY <1>1, SavedRow
  <1>4. CASE Fits(r)
    <2>1. users'[u] = q.mine /\ SameRows(q, p) /\ p.pc = "spendToken"
      BY <1>1, <1>3, <1>4, GotoFields DEF SaveOwner, SaveRow
    <2> HIDE DEF q, p
    <2>2. ASSUME NEW w \in Waits(q.mine) PROVE UsableBut(tokens, refused, q.tok, u, w)
      <3>1. Usable(tokens, refused, u, w) /\ w # tokens[q.tok].value
        BY <1>2, <1>3, <2>2 DEF Good, OwedConfirm
      <3> QED
        BY <1>1, <3>1, UsableWithout
    <2> QED
      BY <1>1, <2>1, <2>2 DEF Repaid, Owed, SameRows, Confirming, Reads, Updating, p, q
  <1>5. CASE ~Fits(r)
    <2>1. users' = users /\ p.user # u
      BY <1>5, EndFields, ContactAssumption DEF SaveOwner, SaveRow
    <2> QED
      BY <1>1, <1>2, <2>1 DEF Repaid
  <1> QED
    BY <1>4, <1>5

LEMMA SpendTokenRepaid ==
  ASSUME TInv, NEW r \in Request, NEW u \in User, req[r].user = u, SpendToken(r),
         Owed(tokens, refused, users[u], req[r], u)
  PROVE  Repaid(r, u)
  <1> DEFINE q == req[r]
  <1>1. /\ q.pc = "spendToken" /\ UNCHANGED <<users, refused>> /\ q.tok \in Token
        /\ tokens' = [tokens EXCEPT ![q.tok].state = "used"] /\ req'[r].user # u
    BY EndFields, ContactAssumption DEF SpendToken, history, TInv, RequestOK, Verifying
  <1>2. \A w \in Waits(users[u]) : UsableBut(tokens, refused, q.tok, u, w)
    BY <1>1 DEF Owed
  <1>3. \A x \in Token \ {q.tok} : Firm(tokens, tokens', x)
    BY <1>1, StateFirm
  <1>4. ASSUME NEW w \in Waits(users[u]) PROVE Usable(tokens', refused, u, w)
    <2>1. UsableBut(tokens, refused, q.tok, u, w)
      BY <1>2
    <2> HIDE DEF q
    <2>2. UsableBut(tokens', refused, None, u, w)
      BY <1>3, <2>1, ContactAssumption DEF UsableBut, Firm
    <2> QED
      BY <2>2 DEF Usable
  <1> QED
    BY <1>1, <1>4 DEF Repaid, Good

\* A request that begins finds nothing else in flight.
LEMMA BeginRepaid ==
  ASSUME TInv, KInv, NEW r \in Request, NEW u \in User,
         \/ LightBegin(r) \/ \E t \in Token : VerifyBegin(r, t)
         \/ \E v \in User, e \in Email, b \in Iban \union {None} : UpdateBegin(r, v, e, b),
         req'[r].user = u, Good(tokens, refused, users[u], u)
  PROVE  Repaid(r, u)
  <1> DEFINE p == req'[r]
  <1>0. refused \subseteq refused' /\ UNCHANGED <<users, tokens>>
    BY LightBegun, VerifyBegun DEF LightBegin, UpdateBegin, VerifyBegin
  <1>1. Good(tokens, refused', users[u], u)
    BY <1>0 DEF Good, Usable, UsableBut
  <1>2. CASE LightBegin(r)
    <2>1. /\ p.kind \in {"resend", "reset"}
          /\ p.pc = "markEmail" \/ (p.pc = "markIban" /\ p.iban = users[u].pendingIban)
      BY <1>2, LightBegun DEF LightBegin
    <2> HIDE DEF p
    <2>2. OwedResend(tokens, refused', users[u], p, u)
      BY <2>1 DEF OwedResend
    <2>3. p.pc \notin Confirming /\ p.pc # "spendToken" /\ p.kind # "update"
      BY <2>1 DEF Confirming
    <2>4. Owed(tokens, refused', users[u], p, u)
      BY <1>1, <2>2, <2>3 DEF Owed
    <2> QED
      BY <1>0, <2>4 DEF Repaid, p
  <1>3. CASE \E t \in Token : VerifyBegin(r, t)
    <2>1. PICK t \in Token : VerifyBegin(r, t)
      BY <1>3
    <2>2. /\ p.kind = tokens[t].kind /\ tokens[t].user = u /\ p.tok = t
          /\ p.pc \in {"spendToken", "loadOwner"} /\ tokens[t].kind \in {"email", "iban"}
          /\ p.pc = "spendToken" => <<u, tokens[t].value>> \in refused'
      BY <2>1, VerifyBegun DEF VerifyBegin
    <2> HIDE DEF p
    <2>3. ASSUME p.pc = "spendToken", NEW w \in Waits(users[u])
          PROVE  UsableBut(tokens, refused', t, u, w)
      <3>1. CASE w = tokens[t].value
        BY <2>2, <2>3, <3>1 DEF UsableBut
      <3>2. CASE w # tokens[t].value
        BY <1>1, <3>2, UsableWithout DEF Good
      <3> QED
        BY <3>1, <3>2
    <2>4. p.pc \notin Confirming /\ p.pc \notin Updating
      BY <2>2 DEF Confirming, Updating
    <2>5. Owed(tokens, refused', users[u], p, u)
      BY <1>1, <2>2, <2>3, <2>4 DEF Owed
    <2> QED
      BY <1>0, <2>5 DEF Repaid, p
  <1>4. CASE \E v \in User, e \in Email, b \in Iban \union {None} : UpdateBegin(r, v, e, b)
    <2>1. UpdateFacts(r, u)
      <3>1. PICK v \in User, e \in Email, b \in Iban \union {None} : UpdateBegin(r, v, e, b)
        BY <1>4
      <3>2. UpdateFacts(r, v)
        BY <3>1, UpdateBegun
      <3> QED
        BY <3>2 DEF UpdateFacts
    <2>2. /\ p.kind = "update" /\ p.mine.pendingIban = Asked(p)
          /\ \/ p.pc = "checkEmail"
             \/ p.mine.pendingEmail = None /\ p.pc = IF Asked(p) = None THEN "saveProfile" ELSE "markIban"
      BY <2>1 DEF UpdateFacts
    <2> HIDE DEF p
    <2>3. Asked(p) # None => p.iban = Asked(p)
      BY DEF Asked
    <2>4. OwedUpdate(tokens, refused', p, u)
      BY <2>2, <2>3 DEF OwedUpdate, Backed
    <2>5. p.pc \notin Confirming /\ p.pc # "spendToken"
      BY <2>2 DEF Confirming
    <2>6. Owed(tokens, refused', users[u], p, u)
      BY <1>1, <2>2, <2>4, <2>5 DEF Owed
    <2> QED
      BY <1>0, <2>6 DEF Repaid, p
  <1> QED
    BY <1>2, <1>3, <1>4

LEMMA OwnRepaid ==
  ASSUME TInv, KInv, CInv, NEW r \in Request, RequestActs(r), NEW u \in User,
         u \notin met \union cut', req[r].user = u, Owed(tokens, refused, users[u], req[r], u)
  PROVE  Repaid(r, u)
  <1>1. req[r].pc # "idle" /\ req[r].pc \notin Resetting
    BY ContactAssumption DEF TInv, RequestOK
  <1>2. ~Lose(r)
    BY ContactAssumption DEF Lose
  <1>3. ~LightBegin(r) /\ ~(\E t \in Token : VerifyBegin(r, t))
        /\ ~(\E v \in User, e \in Email, b \in Iban \union {None} : UpdateBegin(r, v, e, b))
    BY <1>1, LightBegun, VerifyBegun, UpdateBegun DEF LightBegin
  <1>4. ~DropResets(r) /\ ~SetPassword(r) /\ \A t \in Token : ~AddReset(r, t)
    BY <1>1 DEF DropResets, SetPassword, AddReset, Resetting
  <1> QED
    BY <1>2, <1>3, <1>4, Acts, MarkEmailRepaid, AddEmailRepaid, MarkIbanRepaid, AddIbanRepaid,
       CheckEmailRepaid, SaveProfileRepaid, LoadOwnerRepaid, FindConflictRepaid, SaveOwnerRepaid,
       SpendTokenRepaid DEF Plain

LEMMA HInvNext ==
  ASSUME TInv, KInv, SInv, CInv, HInv, [Next]_vars
  PROVE  HInv'
  <1>0. Kept
    BY TokensKept
  <1>1. ASSUME refused \subseteq refused', met \subseteq met', cut \subseteq cut',
               UNCHANGED <<users, req>>,
               \A u \in User, x \in Token : tokens[x].user = u => Firm(tokens, tokens', x)
        PROVE  HInv'
    <2> SUFFICES ASSUME NEW u \in User, u \notin met' \union cut'
                 PROVE  /\ (\A r \in Request : req'[r].user # u) =>
                             Good(tokens', refused', users'[u], u)
                        /\ \A r \in Request : req'[r].user = u =>
                             Owed(tokens', refused', users'[u], req'[r], u)
      BY DEF HInv
    <2>1. /\ (\A r \in Request : req[r].user # u) => Good(tokens, refused, users[u], u)
          /\ \A r \in Request : req[r].user = u => Owed(tokens, refused, users[u], req[r], u)
      BY <1>1 DEF HInv
    <2>2. Good(tokens, refused, users[u], u) => Good(tokens', refused', users[u], u)
      BY <1>1, StillGood
    <2>3. ASSUME NEW r \in Request, req'[r].user = u
          PROVE  Owed(tokens', refused', users'[u], req'[r], u)
      <3>1. Owed(tokens, refused, users[u], req[r], u) /\ req'[r] = req[r]
        BY <1>1, <2>1, <2>3
      <3>2. req[r].pc \in Verifying => tokens'[req[r].tok].value = tokens[req[r].tok].value
        BY <1>0, ContactAssumption DEF Kept, KInv, Knows, TInv, RequestOK
      <3>3. Owed(tokens', refused', users[u], req[r], u)
        BY <1>1, <3>1, <3>2, StillOwed
      <3> QED
        BY <1>1, <3>1, <3>3
    <2> QED
      BY <1>1, <2>1, <2>2, <2>3
  <1>2. ASSUME NEW r \in Request, RequestActs(r) PROVE HInv'
    <2> SUFFICES ASSUME NEW u \in User, u \notin met' \union cut'
                 PROVE  /\ (\A x \in Request : req'[x].user # u) =>
                             Good(tokens', refused', users'[u], u)
                        /\ \A x \in Request : req'[x].user = u =>
                             Owed(tokens', refused', users'[u], req'[x], u)
      BY DEF HInv
    <2>1. refused \subseteq refused' /\ cut \subseteq cut' /\ met \subseteq met'
      BY <1>2, HistoryGrows, Courses
    <2>2. u \notin met \union cut
      BY <2>1
    <2>3. /\ (\A x \in Request : req[x].user # u) => Good(tokens, refused, users[u], u)
          /\ \A x \in Request : req[x].user = u => Owed(tokens, refused, users[u], req[x], u)
      BY <2>2 DEF HInv
    <2>4. \A x \in Request \ {r} : Untouched(x)
      BY <1>2, OthersUntouched DEF RequestActs
    <2>5. CASE req[r].user = u
      <3>1. \A x \in Request \ {r} : req[x].user # u
        BY <2>2, <2>5 DEF CInv, Single
      <3>2. \A x \in Request \ {r} : req'[x].user # u
        BY <2>4, <3>1 DEF Untouched
      <3>3. Repaid(r, u)
        BY <1>2, <2>1, <2>2, <2>3, <2>5, OwnRepaid
      <3> QED
        BY <3>2, <3>3 DEF Repaid
    <2>6. CASE req[r].user # u /\ req'[r].user = u
      <3>1. Begins(r)
        BY <1>2, <2>6, Courses, BlankLight, ContactAssumption DEF Continues, Ended
      <3>2. Others(r, u) = {}
        BY <2>6, <3>1 DEF Begins, Meets
      <3>3. \A x \in Request \ {r} : req[x].user # u
        BY <3>2, ContactAssumption DEF Others, TInv, RequestOK
      <3>4. \A x \in Request \ {r} : req'[x].user # u
        BY <2>4, <3>3 DEF Untouched
      <3>5. Good(tokens, refused, users[u], u)
        BY <2>3, <2>6, <3>3
      <3>6. LightBegin(r) \/ (\E t \in Token : VerifyBegin(r, t))
            \/ (\E v \in User, e \in Email, b \in Iban \union {None} : UpdateBegin(r, v, e, b))
        <4>1. req[r].pc = "idle"
          BY <3>1 DEF Begins
        <4>2. ~Plain(r) \/ Ended(r)
          BY <4>1, StatementGoesOn DEF Plain, GoesOn
        <4>3. ~Ended(r)
          BY <2>6, BlankLight, ContactAssumption DEF Ended
        <4> QED
          BY <1>2, <4>1, <4>2, <4>3, Acts DEF CheckEmail, LoadOwner
      <3>7. Repaid(r, u)
        BY <2>6, <3>5, <3>6, BeginRepaid
      <3> QED
        BY <2>6, <3>4, <3>7 DEF Repaid
    <2>7. CASE req[r].user # u /\ req'[r].user # u
      <3>1. users'[u] = users[u]
        BY <1>2, <2>7, OwnRowOnly
      <3>2. \A x \in Token : tokens[x].user = u => Firm(tokens, tokens', x)
        BY <1>2, <2>7, OthersFirm
      <3>3. Good(tokens, refused, users[u], u) => Good(tokens', refused', users[u], u)
        BY <2>1, <3>2, StillGood
      <3>4. ASSUME NEW x \in Request, req'[x].user = u
            PROVE  Owed(tokens', refused', users'[u], req'[x], u)
        <4>1. x # r /\ Untouched(x)
          BY <2>4, <2>7, <3>4
        <4>2. Owed(tokens, refused, users[u], req[x], u)
          BY <2>3, <3>4, <4>1 DEF Untouched
        <4>3. req[x].pc \in Verifying => tokens'[req[x].tok].value = tokens[req[x].tok].value
          BY <1>0, ContactAssumption DEF Kept, KInv, Knows, TInv, RequestOK
        <4>4. Owed(tokens', refused', users[u], req'[x], u)
          BY <2>1, <3>2, <4>1, <4>2, <4>3, StillOwed DEF Untouched
        <4> QED
          BY <3>1, <4>4
      <3>5. (\A x \in Request : req'[x].user # u) => \A x \in Request : req[x].user # u
        BY <2>4, <2>7 DEF Untouched
      <3> QED
        BY <2>3, <3>1, <3>3, <3>4, <3>5
    <2> QED
      BY <2>5, <2>6, <2>7
  <1>3. ASSUME NEW t \in Token, Expire(t) PROVE HInv'
    <2>1. \A x \in Token : Firm(tokens, tokens', x)
      BY <1>3, StateFirm DEF Expire
    <2> QED
      BY <1>1, <1>3, <2>1 DEF Expire, history
  <1>4. CASE UNCHANGED vars
    <2>1. \A x \in Token : Firm(tokens, tokens', x)
      BY <1>4 DEF vars, Firm
    <2> QED
      BY <1>1, <1>4, <2>1 DEF vars
  <1> QED
    BY <1>2, <1>3, <1>4 DEF Next, RequestActs

\* When nothing is in flight for an account, what it waits for has a link
\* that confirms it, unless the latest one was left until its time was up, one
\* was followed in vain, requests of the account crossed, or an update was cut
\* short: superseding old links never leaves the account without its new one.
THEOREM PendingStaysConfirmable == Spec => []PendingCanBeConfirmed
  <1>1. Init => HInv
    <2> SUFFICES ASSUME Init PROVE HInv
      OBVIOUS
    <2>1. \A u \in User : Waits(users[u]) = {}
      BY ContactAssumption DEF Init, Waits
    <2>2. \A u \in User : Good(tokens, refused, users[u], u)
      BY <2>1 DEF Good
    <2>3. \A r \in Request : req[r].user = None
      BY BlankLight DEF Init
    <2> QED
      BY <2>2, <2>3, ContactAssumption DEF HInv
  <1>2. HInv => PendingCanBeConfirmed
    BY DEF HInv, Good, Waits, Usable, UsableBut, Live, Unused, PendingCanBeConfirmed, Confirms, RanOut
  <1>3. TInv /\ KInv /\ SInv /\ CInv /\ HInv /\ [Next]_vars => HInv'
    BY HInvNext
  <1> QED
    BY <1>1, <1>2, <1>3, TypedInv, ResetsInv, CrossedInv, PTL DEF Spec
=============================================================================
