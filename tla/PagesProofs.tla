---------------------------- MODULE PagesProofs ----------------------------
(* Theorems about Pages, that is about Profile and Lists in a browser tab: *)
(* for any preferences, rows and bounds.                                   *)
EXTENDS Pages, SequenceTheorems, FiniteSetTheorems, TLAPS

-----------------------------------------------------------------------------
(* Sequences of requests. *)

LEMMA RemoveAtProperties ==
  ASSUME NEW S, NEW b \in Seq(S), NEW k \in 1 .. Len(b)
  PROVE  /\ RemoveAt(b, k) \in Seq(S)
         /\ Len(RemoveAt(b, k)) = Len(b) - 1
         /\ \A i \in 1 .. Len(b) - 1 :
              RemoveAt(b, k)[i] = IF i < k THEN b[i] ELSE b[i + 1]
  <1> DEFINE a == SubSeq(b, 1, k - 1)
             z == SubSeq(b, k + 1, Len(b))
  <1>1. Len(b) \in Nat /\ \A i \in 1 .. Len(b) : b[i] \in S
    OBVIOUS
  <1>2. /\ a \in Seq(S) /\ Len(a) = k - 1
        /\ \A i \in 1 .. k - 1 : a[i] = b[i]
    BY <1>1
  <1>3. /\ z \in Seq(S)
        /\ Len(z) = IF k + 1 <= Len(b) THEN Len(b) - (k + 1) + 1 ELSE 0
        /\ \A i \in 1 .. Len(b) - (k + 1) + 1 : z[i] = b[k + 1 + i - 1]
    <2>1. k + 1 \in Int /\ Len(b) \in Int /\ \A i \in k + 1 .. Len(b) : b[i] \in S
      BY <1>1
    <2> QED
      BY <2>1, SubSeqProperties
  <1>4. RemoveAt(b, k) = a \o z
    BY DEF RemoveAt
  <1> HIDE DEF a, z
  <1>5. Len(z) = Len(b) - k /\ Len(a) + Len(z) = Len(b) - 1
    BY <1>1, <1>2, <1>3
  <1>6. /\ a \o z \in Seq(S) /\ Len(a \o z) = Len(a) + Len(z)
        /\ \A i \in 1 .. Len(a) + Len(z) :
             (a \o z)[i] = IF i <= Len(a) THEN a[i] ELSE z[i - Len(a)]
    BY <1>2, <1>3, ConcatProperties
  <1>7. ASSUME NEW i \in 1 .. Len(b) - 1
        PROVE  (a \o z)[i] = IF i < k THEN b[i] ELSE b[i + 1]
    <2> DEFINE n == Len(b)
    <2>0. n \in Nat /\ i \in 1 .. n - 1 /\ k \in 1 .. n
      BY <1>1
    <2>1. CASE i < k
      <3>1. i \in 1 .. k - 1 /\ i <= Len(a) /\ i \in 1 .. Len(a) + Len(z)
        BY <1>2, <1>5, <2>1
      <3> QED
        BY <1>2, <1>6, <2>1, <3>1
    <2>2. CASE ~(i < k)
      <3>1. /\ ~(i <= k - 1)
            /\ i - (k - 1) \in 1 .. n - (k + 1) + 1
            /\ k + 1 + (i - (k - 1)) - 1 = i + 1
        <4> HIDE DEF n
        <4> QED
          BY <2>0, <2>2
      <3>2. (a \o z)[i] = z[i - (k - 1)]
        BY <1>2, <1>5, <1>6, <3>1
      <3>3. z[i - (k - 1)] = b[k + 1 + (i - (k - 1)) - 1]
        BY <1>3, <3>1
      <3> QED
        BY <2>2, <3>1, <3>2, <3>3
    <2> QED
      BY <2>1, <2>2
  <1> QED
    BY <1>4, <1>5, <1>6, <1>7

\* What is left of a sequence is what was there, but for the element removed.
LEMMA Removed ==
  ASSUME NEW S, NEW b \in Seq(S), NEW k \in DOMAIN b
  PROVE  /\ RemoveAt(b, k) \in Seq(S) /\ Len(RemoveAt(b, k)) = Len(b) - 1
         /\ \A i \in DOMAIN RemoveAt(b, k) :
              \E j \in DOMAIN b \ {k} :
                RemoveAt(b, k)[i] = b[j] /\ (j = Len(b) => i = Len(b) - 1)
         /\ \A j \in DOMAIN b \ {k} :
              \E i \in DOMAIN RemoveAt(b, k) : RemoveAt(b, k)[i] = b[j]
  <1>1. k \in 1 .. Len(b) /\ DOMAIN b = 1 .. Len(b) /\ Len(b) \in Nat
    BY LenProperties
  <1>2. /\ RemoveAt(b, k) \in Seq(S) /\ Len(RemoveAt(b, k)) = Len(b) - 1
        /\ \A i \in 1 .. Len(b) - 1 :
             RemoveAt(b, k)[i] = IF i < k THEN b[i] ELSE b[i + 1]
    BY <1>1, RemoveAtProperties
  <1>3. DOMAIN RemoveAt(b, k) = 1 .. Len(b) - 1
    BY <1>2, LenProperties
  <1>4. ASSUME NEW i \in 1 .. Len(b) - 1
        PROVE  \E j \in DOMAIN b \ {k} :
                 RemoveAt(b, k)[i] = b[j] /\ (j = Len(b) => i = Len(b) - 1)
    <2> DEFINE n == Len(b)
    <2>0. n \in Nat /\ i \in 1 .. n - 1 /\ k \in 1 .. n /\ DOMAIN b = 1 .. n
      BY <1>1
    <2> HIDE DEF n
    <2>1. CASE i < k
      <3>1. i \in DOMAIN b \ {k} /\ i # n
        BY <2>0, <2>1
      <3> QED
        BY <1>2, <2>1, <3>1 DEF n
    <2>2. CASE ~(i < k)
      <3>1. i + 1 \in DOMAIN b \ {k} /\ (i + 1 = n => i = n - 1)
        BY <2>0, <2>2
      <3> QED
        BY <1>2, <2>2, <3>1 DEF n
    <2> QED
      BY <2>1, <2>2
  <1>5. ASSUME NEW j \in DOMAIN b \ {k}
        PROVE  \E i \in 1 .. Len(b) - 1 : RemoveAt(b, k)[i] = b[j]
    <2>1. CASE j < k
      <3>1. j \in 1 .. Len(b) - 1
        BY <1>1, <2>1
      <3> QED
        BY <1>2, <2>1, <3>1
    <2>2. CASE ~(j < k)
      <3>1. j - 1 \in 1 .. Len(b) - 1 /\ ~(j - 1 < k) /\ (j - 1) + 1 = j
        BY <1>1, <2>2
      <3> QED
        BY <1>2, <3>1
    <2> QED
      BY <2>1, <2>2
  <1> QED
    BY <1>2, <1>3, <1>4, <1>5

-----------------------------------------------------------------------------
(* Requests of the profile. *)

\* A request that can be heard is the last one, and its visit waits for it.
Heard(ps, v) ==
  \A k \in DOMAIN ps : ps[k].live => k = Len(ps) /\ v # None /\ ~v.ready

\* At the provider nothing is waited for.
HeardLast ==
  /\ Heard(profilePosts, profileVisit)
  /\ tab.where = "provider" => profileVisit = None

ProfileTyped == OnProfile!TypeOK /\ HeardLast

\* The preferences that are on their way.
PrefsOf(ps) == {ps[k].form.prefs : k \in OnProfile!Outstanding(ps)}
Writing(p) == IF p.type \in OnProfile!Writes THEN {p.form.prefs} ELSE {}
NoColour(ps) == \A k \in DOMAIN ps : ps[k].type # "color-mode"

LEMMA InPrefsOf ==
  \A ps, v : v \in PrefsOf(ps) <=>
    \E k \in DOMAIN ps : ps[k].type \in OnProfile!Writes /\ v = ps[k].form.prefs
  BY DEF PrefsOf, OnProfile!Outstanding

LEMMA SameRemove == \A s, i : OnProfile!RemoveAt(s, i) = RemoveAt(s, i)
  BY DEF OnProfile!RemoveAt, RemoveAt

LEMMA DeafProfile ==
  ASSUME NEW ps \in Seq(OnProfile!Post)
  PROVE  /\ OnProfile!Deaf(ps) \in Seq(OnProfile!Post)
         /\ Len(OnProfile!Deaf(ps)) = Len(ps)
         /\ \A k \in DOMAIN OnProfile!Deaf(ps) : ~OnProfile!Deaf(ps)[k].live
         /\ PrefsOf(OnProfile!Deaf(ps)) = PrefsOf(ps)
         /\ NoColour(OnProfile!Deaf(ps)) <=> NoColour(ps)
  <1> DEFINE ds == OnProfile!Deaf(ps)
  <1>1. Len(ps) \in Nat /\ DOMAIN ps = 1 .. Len(ps) /\ \A k \in DOMAIN ps : ps[k] \in OnProfile!Post
    OBVIOUS
  <1>2. DOMAIN ds = 1 .. Len(ps) /\ \A k \in DOMAIN ps : ds[k] = [ps[k] EXCEPT !.live = FALSE]
    BY <1>1 DEF OnProfile!Deaf
  <1>3. \A k \in DOMAIN ps : /\ ds[k] \in OnProfile!Post /\ ~ds[k].live
                             /\ ds[k].type = ps[k].type /\ ds[k].form = ps[k].form
    BY <1>1, <1>2 DEF OnProfile!Post
  <1>4. ds = [k \in 1 .. Len(ps) |-> [ps[k] EXCEPT !.live = FALSE]]
    BY <1>1 DEF OnProfile!Deaf
  <1> HIDE DEF ds
  <1>5. ds \in [1 .. Len(ps) -> OnProfile!Post]
    BY <1>1, <1>2, <1>3, <1>4
  <1>6. ds \in Seq(OnProfile!Post) /\ Len(ds) = Len(ps)
    BY <1>1, <1>5
  <1>7. OnProfile!Outstanding(ds) = OnProfile!Outstanding(ps)
    BY <1>1, <1>2, <1>3 DEF OnProfile!Outstanding
  <1>8. PrefsOf(ds) = PrefsOf(ps)
    BY <1>1, <1>3, <1>7 DEF PrefsOf, OnProfile!Outstanding
  <1>9. NoColour(ds) <=> NoColour(ps)
    BY <1>1, <1>2, <1>3 DEF NoColour
  <1> QED
    BY <1>1, <1>2, <1>3, <1>6, <1>8, <1>9 DEF ds

LEMMA AppendedProfile ==
  ASSUME NEW ps \in Seq(OnProfile!Post), NEW p \in OnProfile!Post
  PROVE  /\ Append(ps, p) \in Seq(OnProfile!Post)
         /\ Len(Append(ps, p)) = Len(ps) + 1
         /\ \A k \in DOMAIN Append(ps, p) :
              Append(ps, p)[k] = IF k = Len(ps) + 1 THEN p ELSE ps[k]
         /\ PrefsOf(Append(ps, p)) = PrefsOf(ps) \union Writing(p)
         /\ NoColour(Append(ps, p)) <=> NoColour(ps) /\ p.type # "color-mode"
  <1> DEFINE as == Append(ps, p)
  <1>1. Len(ps) \in Nat /\ DOMAIN ps = 1 .. Len(ps)
    OBVIOUS
  <1>2. /\ as \in Seq(OnProfile!Post) /\ Len(as) = Len(ps) + 1
        /\ DOMAIN as = 1 .. Len(ps) + 1
        /\ \A k \in 1 .. Len(ps) : as[k] = ps[k]
        /\ as[Len(ps) + 1] = p
    OBVIOUS
  <1> HIDE DEF as
  <1>3. DOMAIN as = DOMAIN ps \union {Len(ps) + 1}
    BY <1>1, <1>2
  <1>4. ASSUME NEW v PROVE v \in PrefsOf(as) <=> v \in PrefsOf(ps) \union Writing(p)
    <2> DEFINE Of(q) == q.type \in OnProfile!Writes /\ v = q.form.prefs
    <2>1. v \in PrefsOf(as) <=> \E k \in DOMAIN as : Of(as[k])
      BY DEF PrefsOf, OnProfile!Outstanding
    <2>2. v \in PrefsOf(ps) <=> \E k \in DOMAIN ps : Of(ps[k])
      BY InPrefsOf
    <2>3. v \in Writing(p) <=> Of(p)
      BY DEF Writing
    <2> HIDE DEF Of
    <2>4. (\E k \in DOMAIN as : Of(as[k])) <=> (\E k \in DOMAIN ps : Of(ps[k])) \/ Of(p)
      BY <1>1, <1>2, <1>3
    <2> QED
      BY <2>1, <2>2, <2>3, <2>4
  <1>5. PrefsOf(as) = PrefsOf(ps) \union Writing(p)
    BY <1>4
  <1>6. NoColour(as) <=> NoColour(ps) /\ p.type # "color-mode"
    BY <1>1, <1>2, <1>3 DEF NoColour
  <1> QED
    BY <1>1, <1>2, <1>5, <1>6 DEF as

LEMMA RemovedProfile ==
  ASSUME NEW ps \in Seq(OnProfile!Post), NEW k \in DOMAIN ps
  PROVE  /\ OnProfile!RemoveAt(ps, k) \in Seq(OnProfile!Post)
         /\ Len(OnProfile!RemoveAt(ps, k)) = Len(ps) - 1
         /\ \A i \in DOMAIN OnProfile!RemoveAt(ps, k) :
              \E j \in DOMAIN ps \ {k} :
                /\ OnProfile!RemoveAt(ps, k)[i] = ps[j]
                /\ j = Len(ps) => i = Len(ps) - 1
         /\ PrefsOf(OnProfile!RemoveAt(ps, k)) \subseteq PrefsOf(ps)
         /\ PrefsOf(ps) = PrefsOf(OnProfile!RemoveAt(ps, k)) \union Writing(ps[k])
         /\ NoColour(ps) => NoColour(OnProfile!RemoveAt(ps, k))
  <1> DEFINE rs == OnProfile!RemoveAt(ps, k)
  <1>1. /\ rs \in Seq(OnProfile!Post) /\ Len(rs) = Len(ps) - 1
        /\ \A i \in DOMAIN rs :
             \E j \in DOMAIN ps \ {k} : rs[i] = ps[j] /\ (j = Len(ps) => i = Len(ps) - 1)
        /\ \A j \in DOMAIN ps \ {k} : \E i \in DOMAIN rs : rs[i] = ps[j]
    BY SameRemove, Removed
  <1> HIDE DEF rs
  <1>2. ASSUME NEW v \in PrefsOf(rs) PROVE v \in PrefsOf(ps)
    <2>1. PICK i \in DOMAIN rs : rs[i].type \in OnProfile!Writes /\ v = rs[i].form.prefs
      BY InPrefsOf
    <2>2. PICK j \in DOMAIN ps : rs[i] = ps[j]
      BY <1>1
    <2> QED
      BY <2>1, <2>2, InPrefsOf
  <1>3. ASSUME NEW v PROVE v \in PrefsOf(ps) <=> v \in PrefsOf(rs) \union Writing(ps[k])
    <2>1. ASSUME NEW j \in DOMAIN ps, ps[j].type \in OnProfile!Writes, v = ps[j].form.prefs
          PROVE  v \in PrefsOf(rs) \union Writing(ps[k])
      <3>1. CASE j = k
        BY <2>1, <3>1 DEF Writing
      <3>2. CASE j # k
        BY <1>1, <2>1, <3>2, InPrefsOf
      <3> QED
        BY <3>1, <3>2
    <2>2. v \in Writing(ps[k]) => v \in PrefsOf(ps)
      BY InPrefsOf DEF Writing
    <2> QED
      BY <1>2, <2>1, <2>2, InPrefsOf
  <1>4. NoColour(ps) => NoColour(rs)
    BY <1>1 DEF NoColour
  <1> QED
    BY <1>1, <1>2, <1>3, <1>4 DEF rs

LEMMA HeardAppended ==
  ASSUME NEW ps \in Seq(OnProfile!Post), \A k \in DOMAIN ps : ~ps[k].live,
         NEW type \in OnProfile!Kind, NEW id \in Nat, NEW f \in OnProfile!Form,
         NEW current \in BOOLEAN, NEW qs, NEW v,
         qs = Append(ps, OnProfile!Request(type, id, f, current)),
         v = [type |-> type, id |-> id, ready |-> FALSE, ok |-> FALSE]
  PROVE  qs \in Seq(OnProfile!Post) /\ v \in OnProfile!Visit /\ Heard(qs, v)
  <1> DEFINE p == OnProfile!Request(type, id, f, current)
  <1>1. p \in OnProfile!Post
    BY DEF OnProfile!Request, OnProfile!Post
  <1>2. v \in OnProfile!Visit /\ ~v.ready
    BY DEF OnProfile!Visit
  <1>3. v # None
    BY <1>2, PagesAssumption
  <1>4. /\ qs \in Seq(OnProfile!Post) /\ Len(qs) = Len(ps) + 1
        /\ \A k \in DOMAIN qs : qs[k] = IF k = Len(ps) + 1 THEN p ELSE ps[k]
    BY <1>1, AppendedProfile
  <1>5. DOMAIN qs = 1 .. Len(ps) + 1 /\ DOMAIN ps = 1 .. Len(ps) /\ Len(ps) \in Nat
    BY <1>4, LenProperties
  <1> HIDE DEF p
  <1>6. ASSUME NEW k \in DOMAIN qs, qs[k].live PROVE k = Len(qs)
    <2>1. CASE k = Len(ps) + 1
      BY <1>4, <2>1
    <2>2. CASE k # Len(ps) + 1
      <3>1. k \in DOMAIN ps
        BY <1>5, <2>2
      <3> QED
        BY <1>4, <1>6, <2>2, <3>1
    <2> QED
      BY <2>1, <2>2
  <1> QED
    BY <1>2, <1>3, <1>4, <1>6 DEF Heard

LEMMA HeardRemoved ==
  ASSUME NEW ps \in Seq(OnProfile!Post), NEW k \in DOMAIN ps, NEW v \in OnProfile!Visit \union {None},
         NEW w \in OnProfile!Visit \union {None},
         Heard(ps, v), ps[k].live \/ w = v
  PROVE  /\ OnProfile!RemoveAt(ps, k) \in Seq(OnProfile!Post)
         /\ Heard(OnProfile!RemoveAt(ps, k), w)
  <1> DEFINE rs == OnProfile!RemoveAt(ps, k)
  <1>1. /\ rs \in Seq(OnProfile!Post) /\ Len(rs) = Len(ps) - 1
        /\ \A i \in DOMAIN rs :
             \E j \in DOMAIN ps \ {k} : rs[i] = ps[j] /\ (j = Len(ps) => i = Len(ps) - 1)
    BY RemovedProfile
  <1> HIDE DEF rs
  <1>2. ASSUME NEW i \in DOMAIN rs, rs[i].live
        PROVE  i = Len(rs) /\ w # None /\ ~w.ready
    <2>1. PICK j \in DOMAIN ps \ {k} : rs[i] = ps[j] /\ (j = Len(ps) => i = Len(ps) - 1)
      BY <1>1
    <2>2. j = Len(ps) /\ v # None /\ ~v.ready
      BY <1>2, <2>1 DEF Heard
    <2>3. ~ps[k].live
      BY <2>1, <2>2 DEF Heard
    <2> QED
      BY <1>1, <2>1, <2>2, <2>3
  <1> QED
    BY <1>1, <1>2 DEF Heard, rs

\* What a step that sends does, and one that answers.
LEMMA SentProfile ==
  ASSUME ProfileTyped, NEW type \in OnProfile!Kind, NEW id \in Nat, NEW t,
         t.form \in OnProfile!Form, t.current \in BOOLEAN, OnProfile!Sent(type, id, t)
  PROVE  /\ profilePosts' \in Seq(OnProfile!Post) /\ profileVisit' \in OnProfile!Visit
         /\ Heard(profilePosts, profileVisit)' /\ hist' \in OnProfile!History
  <1>1. /\ OnProfile!Deaf(profilePosts) \in Seq(OnProfile!Post)
        /\ \A k \in DOMAIN OnProfile!Deaf(profilePosts) : ~OnProfile!Deaf(profilePosts)[k].live
    BY DeafProfile DEF ProfileTyped, OnProfile!TypeOK
  <1>2. /\ profilePosts' = Append(OnProfile!Deaf(profilePosts),
                                  OnProfile!Request(type, id, t.form, t.current))
        /\ profileVisit' = [type |-> type, id |-> id, ready |-> FALSE, ok |-> FALSE]
    BY DEF OnProfile!Sent
  <1>3. hist' \in OnProfile!History
    BY DEF OnProfile!Sent, OnProfile!Crossing, ProfileTyped, OnProfile!TypeOK, OnProfile!History
  <1> QED
    BY <1>1, <1>2, <1>3, HeardAppended DEF Heard

LEMMA AnsweredProfile ==
  ASSUME ProfileTyped, NEW k \in DOMAIN profilePosts, NEW ok \in BOOLEAN, OnProfile!Answer(k, ok)
  PROVE  /\ profilePosts' \in Seq(OnProfile!Post)
         /\ profileVisit' \in OnProfile!Visit \union {None}
         /\ Heard(profilePosts, profileVisit)'
         /\ profileVisit = None => profileVisit' = None
  <1>1. profilePosts \in Seq(OnProfile!Post) /\ profileVisit \in OnProfile!Visit \union {None}
    BY DEF ProfileTyped, OnProfile!TypeOK
  <1>2. Heard(profilePosts, profileVisit)
    BY DEF ProfileTyped, HeardLast, Heard
  <1>3. profilePosts[k].live => profileVisit # None /\ profileVisit \in OnProfile!Visit
    BY <1>1, <1>2 DEF Heard
  <1>4. /\ profileVisit' \in OnProfile!Visit \union {None}
        /\ profilePosts[k].live \/ profileVisit' = profileVisit
    BY <1>1, <1>3 DEF OnProfile!Answer, OnProfile!Visit
  <1>5. profilePosts' = OnProfile!RemoveAt(profilePosts, k)
    BY DEF OnProfile!Answer
  <1>6. /\ OnProfile!RemoveAt(profilePosts, k) \in Seq(OnProfile!Post)
        /\ Heard(OnProfile!RemoveAt(profilePosts, k), profileVisit')
    BY <1>1, <1>2, <1>4, HeardRemoved
  <1> QED
    BY <1>3, <1>4, <1>5, <1>6 DEF Heard, OnProfile!Answer

-----------------------------------------------------------------------------
(* Every step keeps the types. *)

LEMMA ProfileTypedInit ==
  ASSUME OnProfile!Init
  PROVE  ProfileTyped
  <1>1. row \in OnProfile!Form /\ row.contact \in OnProfile!Contact
    BY DEF OnProfile!Init, OnProfile!Form, OnProfile!Contact
  <1>2. session \in OnProfile!Session
    <2>1. [action |-> [type |-> "password-change", id |-> 0], form |-> row] \in OnProfile!Draft
      BY <1>1 DEF OnProfile!Draft, OnProfile!Action, OnProfile!Sensitive
    <2>2. \E old \in OnProfile!Draft \union {None} :
            session = [marked |-> FALSE, grant |-> FALSE, linkGrant |-> FALSE, intent |-> None,
                       draft |-> old, acting |-> FALSE]
      BY <2>1 DEF OnProfile!Init
    <2> QED
      BY <2>2 DEF OnProfile!Session
  <1>3. tab \in OnProfile!Tab /\ tab.where = "profile"
    BY <1>1 DEF OnProfile!Init, OnProfile!Tab
  <1>4. hist \in OnProfile!History /\ count \in [moves : Nat, others : Nat]
    BY DEF OnProfile!Init, OnProfile!History
  <1>5. profilePosts \in Seq(OnProfile!Post) /\ Heard(profilePosts, profileVisit)
    BY DEF OnProfile!Init, Heard
  <1> QED
    BY <1>1, <1>2, <1>3, <1>4, <1>5 DEF OnProfile!Init, ProfileTyped, OnProfile!TypeOK, HeardLast

\* The server handles the k-th request.
Handled(k) ==
  \/ OnProfile!updatePreferences(k) \/ OnProfile!storeColorMode(k) \/ OnProfile!update(k)
  \/ OnProfile!changeAuthenticated(k) \/ OnProfile!startOidcLink(k)
  \/ OnProfile!checkPassword(k)

\* A step-up leaves a session, and what rests on it a history.
LEMMA EnsuredTyped ==
  ASSUME OnProfile!TypeOK, NEW current \in BOOLEAN
  PROVE  /\ \A e \in OnProfile!Ensured(current) :
              e.s \in OnProfile!Session /\ e.proof \in BOOLEAN
  <1>1. /\ session \in OnProfile!Session /\ OnProfile!GrantPulled(session) \in OnProfile!Session
        /\ [session EXCEPT !.marked = TRUE] \in OnProfile!Session
    BY DEF OnProfile!TypeOK, OnProfile!GrantPulled, OnProfile!Session
  <1>2. ASSUME NEW e \in OnProfile!Ensured(current)
        PROVE  e \in {[s |-> session, proof |-> FALSE],
                      [s |-> OnProfile!GrantPulled(session), proof |-> FALSE],
                      [s |-> [session EXCEPT !.marked = TRUE], proof |-> TRUE]}
    <2>1. CASE session.acting
      BY <2>1 DEF OnProfile!Ensured
    <2>2. CASE ~session.acting /\ OnProfile!Recent
      BY <2>2 DEF OnProfile!Ensured
    <2>3. CASE ~session.acting /\ ~OnProfile!Recent /\ session.grant
      BY <2>3 DEF OnProfile!Ensured
    <2>4. CASE ~session.acting /\ ~OnProfile!Recent /\ ~session.grant
      BY <2>4 DEF OnProfile!Ensured
    <2> QED
      BY <2>1, <2>2, <2>3, <2>4
  <1> DEFINE Fine(e) == e.s \in OnProfile!Session /\ e.proof \in BOOLEAN
  <1>3. /\ Fine([s |-> session, proof |-> FALSE])
        /\ Fine([s |-> OnProfile!GrantPulled(session), proof |-> FALSE])
        /\ Fine([s |-> [session EXCEPT !.marked = TRUE], proof |-> TRUE])
    BY <1>1
  <1> HIDE DEF Fine
  <1>4. \A e \in OnProfile!Ensured(current) : Fine(e)
    BY <1>2, <1>3
  <1> QED
    BY <1>4 DEF Fine

LEMMA CreditTyped ==
  ASSUME hist \in OnProfile!History
  PROVE  hist.credit + 1 \in Nat /\ [hist EXCEPT !.credit = @ + 1] \in OnProfile!History
  <1>1. hist.credit + 1 \in Nat
    BY DEF OnProfile!History
  <1> DEFINE c == hist.credit + 1
  <1> HIDE DEF c
  <1>2. [hist EXCEPT !.credit = c] \in OnProfile!History
    BY <1>1 DEF OnProfile!History, c
  <1> QED
    BY <1>1, <1>2 DEF c

LEMMA AppliedTyped ==
  ASSUME OnProfile!TypeOK, NEW e, e.s \in OnProfile!Session, e.proof \in BOOLEAN
  PROVE  OnProfile!Applied(e) \in OnProfile!History
  <1>1. OnProfile!Spent(e.s) \in Nat /\ hist.credit \in Nat
    BY DEF OnProfile!TypeOK, OnProfile!Spent, OnProfile!History
  <1>2. hist.unproven \/ (hist.credit = 0 /\ ~e.proof) \/ session.acting \in BOOLEAN
    BY DEF OnProfile!TypeOK, OnProfile!History, OnProfile!Session
  <1>3. (IF e.proof THEN IF setup.ttl THEN hist.credit + 1 ELSE hist.credit
                    ELSE OnProfile!Spent(e.s)) \in Nat
    BY <1>1
  <1> QED
    BY <1>2, <1>3 DEF OnProfile!TypeOK, OnProfile!Applied, OnProfile!History

LEMMA HandledTyped ==
  ASSUME ProfileTyped, NEW k \in DOMAIN profilePosts, Handled(k)
  PROVE  ProfileTyped'
  <1>0. /\ setup \in OnProfile!Setup /\ row \in OnProfile!Form /\ session \in OnProfile!Session
        /\ tab \in OnProfile!Tab /\ profilePosts \in Seq(OnProfile!Post)
        /\ count \in [moves : Nat, others : Nat]
        /\ hist \in OnProfile!History /\ OnProfile!TypeOK
        /\ tab.where = "provider" => profileVisit = None
    BY DEF ProfileTyped, OnProfile!TypeOK, HeardLast
  <1> DEFINE p == profilePosts[k]
  <1>1. p \in OnProfile!Post /\ p.form \in OnProfile!Form /\ p.current \in BOOLEAN
    <2>1. p \in OnProfile!Post
      BY <1>0
    <2> QED
      BY <2>1 DEF OnProfile!Post
  <1>2. \E ok \in BOOLEAN : OnProfile!Answer(k, ok)
    BY DEF Handled, OnProfile!updatePreferences, OnProfile!storeColorMode, OnProfile!update,
           OnProfile!changeAuthenticated, OnProfile!startOidcLink, OnProfile!checkPassword
  <1>3. /\ profilePosts' \in Seq(OnProfile!Post) /\ profileVisit' \in OnProfile!Visit \union {None}
        /\ Heard(profilePosts, profileVisit)'
        /\ profileVisit = None => profileVisit' = None
    BY <1>2, AnsweredProfile
  <1>4. UNCHANGED <<setup, tab, count>>
    BY DEF Handled, OnProfile!updatePreferences, OnProfile!storeColorMode, OnProfile!update,
           OnProfile!changeAuthenticated, OnProfile!startOidcLink, OnProfile!checkPassword
  <1>5. row' \in OnProfile!Form /\ session' \in OnProfile!Session /\ hist' \in OnProfile!History
    <2> HIDE DEF p
    <2>1. CASE OnProfile!updatePreferences(k)
      BY <1>0, <1>1, <2>1
      DEF OnProfile!updatePreferences, OnProfile!Form, OnProfile!History, OnProfile!Session, p
    <2>2. CASE OnProfile!storeColorMode(k)
      <3>1. PICK mode \in BOOLEAN :
              row' = IF session.acting THEN row ELSE [row EXCEPT !.prefs["colorMode"] = mode]
        BY <2>2 DEF OnProfile!storeColorMode
      <3>2. [row EXCEPT !.prefs["colorMode"] = mode] \in OnProfile!Form
        BY <1>0 DEF OnProfile!Form
      <3> QED
        BY <1>0, <2>2, <3>1, <3>2 DEF OnProfile!storeColorMode
    <2>3. CASE OnProfile!update(k)
      <3>1. CASE session.acting
        BY <1>0, <2>3, <3>1 DEF OnProfile!update, OnProfile!History
      <3>2. CASE ~session.acting /\ p.form.contact = row.contact
        BY <1>0, <1>1, <2>3, <3>2 DEF OnProfile!update, p
      <3>3. CASE ~session.acting /\ p.form.contact # row.contact
        <4>1. \/ \E e \in OnProfile!Ensured(p.current), c \in OnProfile!Contact :
                   /\ session' = e.s /\ hist' = OnProfile!Applied(e)
                   /\ row' = [prefs |-> p.form.prefs, contact |-> c]
              \/ hist' = [hist EXCEPT !.mixed = TRUE] /\ UNCHANGED <<row, session>>
          BY <2>3, <3>3 DEF OnProfile!update, p
        <4>2. ASSUME NEW c \in OnProfile!Contact
              PROVE  [prefs |-> p.form.prefs, contact |-> c] \in OnProfile!Form
          BY <1>1 DEF OnProfile!Form
        <4>3. [hist EXCEPT !.mixed = TRUE] \in OnProfile!History
          BY <1>0 DEF OnProfile!History
        <4> QED
          BY <1>0, <1>1, <4>1, <4>2, <4>3, EnsuredTyped, AppliedTyped
      <3> QED
        BY <3>1, <3>2, <3>3
    <2>4. CASE OnProfile!changeAuthenticated(k)
      <3>1. OnProfile!GrantPulled(session) \in OnProfile!Session
        BY <1>0 DEF OnProfile!GrantPulled, OnProfile!Session
      <3>2. OnProfile!Applied([s |-> OnProfile!GrantPulled(session), proof |-> FALSE])
              \in OnProfile!History
        BY <1>0, <3>1, AppliedTyped
      <3> QED
        BY <1>0, <2>4, <3>1, <3>2 DEF OnProfile!changeAuthenticated
    <2>5. CASE OnProfile!startOidcLink(k)
      <3>1. \/ \E e \in OnProfile!Ensured(p.current) :
                 session' = [e.s EXCEPT !.linkGrant = TRUE] /\ hist' = OnProfile!Applied(e)
            \/ UNCHANGED <<session, hist>>
        BY <2>5 DEF OnProfile!startOidcLink, p
      <3>2. \A s \in OnProfile!Session : [s EXCEPT !.linkGrant = TRUE] \in OnProfile!Session
        BY DEF OnProfile!Session
      <3> QED
        BY <1>0, <1>1, <2>5, <3>1, <3>2, EnsuredTyped, AppliedTyped DEF OnProfile!startOidcLink
    <2>6. CASE OnProfile!checkPassword(k)
      <3>1. [hist EXCEPT !.credit = @ + 1] \in OnProfile!History
        BY <1>0, CreditTyped
      <3>2. [session EXCEPT !.marked = TRUE, !.grant = TRUE] \in OnProfile!Session
        BY <1>0 DEF OnProfile!Session
      <3> QED
        BY <1>0, <2>6, <3>1, <3>2 DEF OnProfile!checkPassword
    <2> QED
      BY <2>1, <2>2, <2>3, <2>4, <2>5, <2>6 DEF Handled
  <1> QED
    <2>1. OnProfile!TypeOK'
      BY <1>0, <1>3, <1>4, <1>5 DEF OnProfile!TypeOK
    <2>2. HeardLast'
      BY <1>0, <1>3, <1>4 DEF HeardLast
    <2> QED
      BY <2>1, <2>2 DEF ProfileTyped

LEMMA ProfileTypedStep ==
  ASSUME ProfileTyped, OnProfile!Next
  PROVE  ProfileTyped'
  <1>0. /\ setup \in OnProfile!Setup /\ row \in OnProfile!Form /\ session \in OnProfile!Session
        /\ tab \in OnProfile!Tab /\ profileVisit \in OnProfile!Visit \union {None}
        /\ profilePosts \in Seq(OnProfile!Post) /\ count \in [moves : Nat, others : Nat]
        /\ hist \in OnProfile!History /\ Heard(profilePosts, profileVisit)
        /\ tab.where = "provider" => profileVisit = None
    BY DEF ProfileTyped, OnProfile!TypeOK, HeardLast
  <1> SUFFICES
        /\ setup' \in OnProfile!Setup /\ row' \in OnProfile!Form /\ session' \in OnProfile!Session
        /\ tab' \in OnProfile!Tab /\ profileVisit' \in OnProfile!Visit \union {None}
        /\ profilePosts' \in Seq(OnProfile!Post) /\ count' \in [moves : Nat, others : Nat]
        /\ hist' \in OnProfile!History /\ Heard(profilePosts, profileVisit)'
        /\ tab'.where = "provider" => profileVisit' = None
    BY DEF ProfileTyped, OnProfile!TypeOK, HeardLast
  <1> DEFINE heard == /\ profilePosts' \in Seq(OnProfile!Post)
                      /\ profileVisit' \in OnProfile!Visit \union {None}
                      /\ Heard(profilePosts, profileVisit)'
             counted == count' \in [moves : Nat, others : Nat]
  <1>1. UNCHANGED <<profileVisit, profilePosts>> => heard
    BY <1>0 DEF Heard
  <1>2. profilePosts' = OnProfile!Deaf(profilePosts) /\ profileVisit' = None => heard
    BY <1>0, DeafProfile DEF Heard
  <1>3. OnProfile!Move \/ OnProfile!Other \/ UNCHANGED count => counted
    BY <1>0 DEF OnProfile!Move, OnProfile!Other
  <1>4. tab.form \in OnProfile!Form /\ row.contact \in OnProfile!Contact
    BY <1>0 DEF OnProfile!Tab, OnProfile!Form
  <1>5. OnProfile!Fresh \in OnProfile!Tab /\ OnProfile!Fresh.where = "profile"
    BY <1>0, <1>4 DEF OnProfile!Fresh, OnProfile!Tab, OnProfile!Setup, OnProfile!Session, OnProfile!Form
  <1>6. OnProfile!Mixed \in BOOLEAN
    BY <1>0 DEF OnProfile!Mixed, OnProfile!Session, OnProfile!Tab
  <1> HIDE DEF heard, counted
  <1>10. CASE \E p \in Pref : OnProfile!ChangePref(p)
    <2>1. PICK p \in Pref : OnProfile!ChangePref(p)
      BY <1>10
    <2>2. [tab.form EXCEPT !.prefs[p] = ~@] \in OnProfile!Form
      BY <1>4 DEF OnProfile!Form
    <2>3. tab' \in OnProfile!Tab /\ tab'.where = tab.where
      <3>1. (tab.timer \/ p \in OnProfile!Watched) \in BOOLEAN
        BY <1>0 DEF OnProfile!Tab
      <3>2. tab' = [[tab EXCEPT !.form = [tab.form EXCEPT !.prefs[p] = ~@]]
                       EXCEPT !.timer = tab.timer \/ p \in OnProfile!Watched]
        BY <1>0, <2>1 DEF OnProfile!ChangePref, OnProfile!Tab
      <3> QED
        BY <1>0, <2>2, <3>1, <3>2 DEF OnProfile!Tab
    <2> QED
      BY <1>0, <1>1, <1>3, <2>1, <2>3 DEF OnProfile!ChangePref, OnProfile!Touch, OnProfile!server, heard, counted
  <1>11. CASE OnProfile!SavePreferences
    <2>1. heard /\ hist' \in OnProfile!History
      BY <1>0, <1>11, SentProfile DEF OnProfile!SavePreferences, OnProfile!Kind, OnProfile!Tab, heard
    <2> QED
      BY <1>0, <1>3, <1>11, <2>1 DEF OnProfile!SavePreferences, OnProfile!Tab, OnProfile!server, heard, counted
  <1>12. CASE OnProfile!toggleColorMode
    <2>1. heard /\ hist' \in OnProfile!History
      BY <1>0, <1>12, SentProfile DEF OnProfile!toggleColorMode, OnProfile!Kind, OnProfile!Tab, heard
    <2> QED
      BY <1>0, <1>3, <1>12, <2>1
      DEF OnProfile!toggleColorMode, OnProfile!Touch, OnProfile!Here, OnProfile!server, heard, counted
  <1>13. CASE OnProfile!EditContact
    <2>1. \A c : (CHOOSE x \in OnProfile!Contact : x # c) \in OnProfile!Contact
      BY DEF OnProfile!Contact
    <2>2. tab' \in OnProfile!Tab /\ tab'.where = tab.where
      <3>1. [tab.form EXCEPT !.contact = CHOOSE x \in OnProfile!Contact : x # @] \in OnProfile!Form
        BY <1>4, <2>1 DEF OnProfile!Form
      <3>2. tab' = [tab EXCEPT !.form =
                      [tab.form EXCEPT !.contact = CHOOSE x \in OnProfile!Contact : x # @]]
        BY <1>0, <1>13 DEF OnProfile!EditContact, OnProfile!Tab
      <3> QED
        BY <1>0, <3>1, <3>2 DEF OnProfile!Tab
    <2> QED
      BY <1>0, <1>1, <1>3, <1>13, <2>2
      DEF OnProfile!EditContact, OnProfile!Touch, OnProfile!server, heard, counted
  <1>14. CASE \E type \in OnProfile!Sensitive : OnProfile!Ask(type)
    <2>1. PICK type \in OnProfile!Sensitive : OnProfile!Ask(type)
      BY <1>14
    <2> DEFINE id == hist.asks + 1
    <2>2. id \in Nat /\ type \in OnProfile!Kind
      BY <1>0 DEF OnProfile!History, OnProfile!Kind
    <2>3. CASE ~OnProfile!NeedsStepup(type) \/ tab.belief
      <3>1. /\ profileVisit' = [type |-> type, id |-> id, ready |-> FALSE, ok |-> FALSE]
            /\ profilePosts' = Append(OnProfile!Deaf(profilePosts),
                                      OnProfile!Request(type, id, tab.form, tab.current))
            /\ tab' = tab
            /\ hist' = [hist EXCEPT !.asks = id, !.asked = id, !.late = @ \/ tab.leaving,
                                    !.mixed = @ \/ OnProfile!Crossing(type, tab.form)]
        BY <2>1, <2>3 DEF OnProfile!Ask
      <3>2. heard
        BY <1>0, <1>4, <2>2, <3>1, DeafProfile, HeardAppended DEF OnProfile!Tab, Heard, heard
      <3>3. hist' \in OnProfile!History
        BY <1>0, <2>2, <3>1 DEF OnProfile!History, OnProfile!Crossing, OnProfile!Tab
      <3> QED
        BY <1>0, <1>3, <2>1, <3>1, <3>2, <3>3
        DEF OnProfile!Ask, OnProfile!Touch, OnProfile!Here, OnProfile!server, heard, counted
    <2>4. CASE ~(~OnProfile!NeedsStepup(type) \/ tab.belief)
      <3>1. /\ tab' = [tab EXCEPT !.dialog = TRUE, !.pending = [type |-> type, id |-> id]]
            /\ hist' = [hist EXCEPT !.asks = id, !.asked = id, !.late = @ \/ tab.leaving]
            /\ UNCHANGED <<profileVisit, profilePosts>>
        BY <2>1, <2>4 DEF OnProfile!Ask
      <3>2. [type |-> type, id |-> id] \in OnProfile!Action
        BY <2>2 DEF OnProfile!Action
      <3>3. hist' \in OnProfile!History /\ tab' \in OnProfile!Tab /\ tab'.where = tab.where
        BY <1>0, <2>2, <3>1, <3>2 DEF OnProfile!History, OnProfile!Tab
      <3> QED
        BY <1>0, <1>1, <1>3, <2>1, <3>1, <3>3
        DEF OnProfile!Ask, OnProfile!Touch, OnProfile!server, heard, counted
    <2> QED
      BY <2>3, <2>4
  <1>15. CASE OnProfile!closeReauthDialog
    <2>1. tab' \in OnProfile!Tab /\ tab'.where = tab.where /\ hist' \in OnProfile!History
      BY <1>0, <1>15 DEF OnProfile!closeReauthDialog, OnProfile!Closed, OnProfile!Tab, OnProfile!History
    <2> QED
      BY <1>0, <1>1, <1>3, <1>15, <2>1 DEF OnProfile!closeReauthDialog, OnProfile!server, heard, counted
  <1>16. CASE OnProfile!reauthSensitive
    <2>1. heard /\ hist' \in OnProfile!History
      BY <1>0, <1>16, SentProfile DEF OnProfile!reauthSensitive, OnProfile!Kind, OnProfile!Tab, heard
    <2> QED
      BY <1>0, <1>3, <1>16, <2>1
      DEF OnProfile!reauthSensitive, OnProfile!Here, OnProfile!server, heard, counted
  <1>17. CASE OnProfile!startOidcReauth
    <2>1. OnProfile!DraftOf(tab) \in OnProfile!Draft \union {None}
      BY <1>0 DEF OnProfile!DraftOf, OnProfile!Draft, OnProfile!Tab
    <2>2. tab' \in OnProfile!Tab /\ tab'.where = tab.where /\ hist' \in OnProfile!History
      BY <1>0, <1>17, <2>1 DEF OnProfile!startOidcReauth, OnProfile!Tab, OnProfile!History
    <2> QED
      BY <1>0, <1>1, <1>3, <1>17, <2>2 DEF OnProfile!startOidcReauth, OnProfile!server, heard, counted
  <1>18. CASE OnProfile!storePendingDraft
    <2>1. tab' \in OnProfile!Tab
      BY <1>0, <1>18 DEF OnProfile!storePendingDraft, OnProfile!Gone, OnProfile!Tab
    <2>2. session' \in OnProfile!Session
      BY <1>0, <1>18 DEF OnProfile!storePendingDraft, OnProfile!Session, OnProfile!Tab
    <2>3. counted
      BY <1>0, <1>18 DEF OnProfile!storePendingDraft, counted
    <2>4. hist' \in OnProfile!History
      BY <1>0, <1>18 DEF OnProfile!storePendingDraft, OnProfile!History
    <2> QED
      BY <1>0, <1>2, <1>18, <2>1, <2>2, <2>3, <2>4 DEF OnProfile!storePendingDraft, heard, counted
  <1>19. CASE OnProfile!Leave
    <2>1. tab' \in OnProfile!Tab /\ tab'.where = "app" /\ hist' \in OnProfile!History
      BY <1>0, <1>19 DEF OnProfile!Leave, OnProfile!Gone, OnProfile!Tab, OnProfile!History
    <2> QED
      BY <1>0, <1>2, <1>3, <1>19, <2>1
      DEF OnProfile!Leave, OnProfile!Touch, OnProfile!server, heard, counted
  <1>20. CASE OnProfile!Open
    <2>1. hist' \in OnProfile!History
      BY <1>0, <1>6, <1>20 DEF OnProfile!Open, OnProfile!History
    <2>2. tab' \in OnProfile!Tab /\ tab'.where = "profile"
      BY <1>0, <1>5, <1>20 DEF OnProfile!Open, OnProfile!Tab
    <2> QED
      BY <1>0, <1>1, <1>3, <1>20, <2>1, <2>2 DEF OnProfile!Open, OnProfile!server, heard, counted
  <1>21. CASE OnProfile!ProviderRefuses
    <2>1. /\ tab' \in OnProfile!Tab /\ tab'.where = "app" /\ hist' \in OnProfile!History
          /\ session' \in OnProfile!Session
      BY <1>0, <1>21 DEF OnProfile!ProviderRefuses, OnProfile!Tab, OnProfile!History, OnProfile!Session
    <2> QED
      BY <1>0, <1>1, <1>3, <1>21, <2>1 DEF OnProfile!ProviderRefuses, heard, counted
  <1>22. CASE OnProfile!ReauthCallback
    <2> DEFINE t == [OnProfile!Fresh EXCEPT !.belief = setup.ttl]
               dr == session.draft
    <2>1. t \in OnProfile!Tab /\ t.where = "profile"
      BY <1>0, <1>5 DEF OnProfile!Tab, OnProfile!Setup
    <2>2. session' \in OnProfile!Session
      BY <1>0, <1>22 DEF OnProfile!ReauthCallback, OnProfile!Proved, OnProfile!Session
    <2>3. CASE dr = None
      <3>1. /\ tab' = t /\ UNCHANGED <<profileVisit, profilePosts>>
            /\ hist' = [hist EXCEPT !.mixed = OnProfile!Mixed, !.credit = @ + 1]
        BY <1>22, <2>3 DEF OnProfile!ReauthCallback
      <3>2. hist' \in OnProfile!History
        BY <1>0, <1>6, <3>1, CreditTyped DEF OnProfile!History
      <3> HIDE DEF t
      <3> QED
        BY <1>0, <1>1, <1>3, <1>22, <2>1, <2>2, <3>1, <3>2 DEF OnProfile!ReauthCallback, heard, counted
    <2>4. CASE dr # None
      <3>1. dr \in OnProfile!Draft
        BY <1>0, <2>4 DEF OnProfile!Session
      <3>2. dr.action.type \in OnProfile!Kind /\ dr.action.id \in Nat /\ dr.form \in OnProfile!Form
        BY <3>1 DEF OnProfile!Draft, OnProfile!Action, OnProfile!Kind
      <3> DEFINE s == OnProfile!Restored(t, dr)
      <3>3. s \in OnProfile!Tab /\ s.where = "profile" /\ s.form \in OnProfile!Form
        BY <2>1, <3>2 DEF OnProfile!Restored, OnProfile!Tab
      <3>4. /\ tab' = s
            /\ profileVisit' = [type |-> dr.action.type, id |-> dr.action.id,
                                ready |-> FALSE, ok |-> FALSE]
            /\ profilePosts' = Append(profilePosts, OnProfile!Request(dr.action.type, dr.action.id,
                                                                      s.form, FALSE))
            /\ hist' = [hist EXCEPT !.credit = @ + 1,
                 !.mixed = OnProfile!Mixed \/ (dr.form.prefs # row.prefs),
                 !.wrongRun = @ \/ (dr.action.id # hist.asked /\ ~hist.storeLost /\ ~hist.late)]
        BY <1>22, <2>4 DEF OnProfile!ReauthCallback
      <3>5. \A k \in DOMAIN profilePosts : ~profilePosts[k].live
        BY <1>0, <1>22 DEF OnProfile!ReauthCallback, Heard
      <3> HIDE DEF s, dr, t
      <3>6. heard
        <4>1. /\ profilePosts \in Seq(OnProfile!Post) /\ dr.action.type \in OnProfile!Kind
              /\ dr.action.id \in Nat /\ s.form \in OnProfile!Form /\ FALSE \in BOOLEAN
          BY <1>0, <3>2, <3>3
        <4>2. /\ profilePosts' = Append(profilePosts, OnProfile!Request(
                                          dr.action.type, dr.action.id, s.form, FALSE))
              /\ profileVisit' = [type |-> dr.action.type, id |-> dr.action.id,
                                  ready |-> FALSE, ok |-> FALSE]
          BY <3>4
        <4>3. /\ profilePosts' \in Seq(OnProfile!Post) /\ profileVisit' \in OnProfile!Visit
              /\ Heard(profilePosts', profileVisit')
          BY ONLY <3>5, <4>1, <4>2, HeardAppended
        <4> QED
          BY <4>3 DEF Heard, heard
      <3>7. hist' \in OnProfile!History
        <4>1. (OnProfile!Mixed \/ (dr.form.prefs # row.prefs)) \in BOOLEAN
          BY <1>6
        <4>2. (hist.wrongRun \/ (dr.action.id # hist.asked /\ ~hist.storeLost)) \in BOOLEAN
          BY <1>0 DEF OnProfile!History
        <4> QED
          BY <1>0, <3>4, <4>1, <4>2, CreditTyped DEF OnProfile!History
      <3> QED
        BY <1>0, <1>3, <1>22, <2>2, <3>3, <3>4, <3>6, <3>7 DEF OnProfile!ReauthCallback, heard, counted
    <2> QED
      BY <2>3, <2>4
  <1>23. CASE OnProfile!LinkCallback
    <2>1. /\ hist' \in OnProfile!History /\ session' \in OnProfile!Session
          /\ setup' \in OnProfile!Setup
      BY <1>0, <1>6, <1>23
      DEF OnProfile!LinkCallback, OnProfile!History, OnProfile!Session, OnProfile!Setup
    <2> QED
      BY <1>0, <1>1, <1>3, <1>5, <1>23, <2>1 DEF OnProfile!LinkCallback, heard, counted
  <1>24. CASE \E k \in DOMAIN profilePosts : Handled(k)
    <2>1. PICK k \in DOMAIN profilePosts : Handled(k)
      BY <1>24
    <2> QED
      BY <2>1, HandledTyped DEF ProfileTyped, OnProfile!TypeOK, HeardLast
  <1>25. CASE OnProfile!Arrive
    <2>1. tab' \in OnProfile!Tab
      BY <1>0, <1>4, <1>25 DEF OnProfile!Arrive, OnProfile!Told, OnProfile!Tab
    <2>2. heard
      <3>1. \A k \in DOMAIN profilePosts : ~profilePosts[k].live
        BY <1>0, <1>25 DEF OnProfile!Arrive, Heard
      <3> QED
        BY <1>0, <1>25, <3>1 DEF OnProfile!Arrive, Heard, heard
    <2> QED
      BY <1>0, <1>3, <1>25, <2>1, <2>2 DEF OnProfile!Arrive, OnProfile!server, heard, counted
  <1>26. CASE OnProfile!ReauthArrives
    <2> DEFINE t == [OnProfile!Told EXCEPT !.belief = setup.ttl, !.current = TRUE,
                                           !.dialog = FALSE, !.pending = None]
    <2>1. /\ t \in OnProfile!Tab /\ t.where = tab.where
          /\ t.form \in OnProfile!Form /\ t.current \in BOOLEAN
      BY <1>0, <1>4 DEF OnProfile!Told, OnProfile!Tab, OnProfile!Setup
    <2>2. /\ tab' = t /\ tab.where = "profile" /\ profileVisit # None /\ profileVisit.ready
          /\ UNCHANGED <<setup, row, session, count>>
      BY <1>26 DEF OnProfile!ReauthArrives, OnProfile!Heard, OnProfile!InFlight, OnProfile!server
    <2>3. CASE tab.pending = None
      <3>1. profileVisit' = None /\ UNCHANGED <<profilePosts, hist>>
        BY <1>26, <2>3 DEF OnProfile!ReauthArrives
      <3>2. \A k \in DOMAIN profilePosts : ~profilePosts[k].live
        BY <1>0, <2>2 DEF Heard
      <3>3. heard
        BY <1>0, <3>1, <3>2 DEF Heard, heard
      <3> QED
        BY <1>0, <2>1, <2>2, <3>1, <3>3 DEF heard
    <2>4. CASE tab.pending # None
      <3>1. tab.pending.type \in OnProfile!Kind /\ tab.pending.id \in Nat
        BY <1>0, <2>4 DEF OnProfile!Tab, OnProfile!Action, OnProfile!Kind
      <3>2. OnProfile!Sent(tab.pending.type, tab.pending.id, t)
        BY <1>26, <2>4 DEF OnProfile!ReauthArrives
      <3> HIDE DEF t
      <3>3. heard /\ hist' \in OnProfile!History
        BY <2>1, <3>1, <3>2, SentProfile DEF heard
      <3> QED
        BY <1>0, <2>1, <2>2, <3>3 DEF heard
    <2> QED
      BY <2>3, <2>4
  <1>27. CASE OnProfile!LinkArrives
    <2>1. \A k \in DOMAIN profilePosts : ~profilePosts[k].live
      BY <1>0, <1>27 DEF OnProfile!LinkArrives, OnProfile!Heard, Heard
    <2>2. heard /\ profileVisit' = None
      BY <1>0, <1>27, <2>1 DEF OnProfile!LinkArrives, Heard, heard
    <2>3. OnProfile!Gone("provider") \in OnProfile!Tab
      BY <1>0 DEF OnProfile!Gone, OnProfile!Tab
    <2>4. tab' \in OnProfile!Tab
      BY <1>5, <1>27, <2>3 DEF OnProfile!LinkArrives
    <2>5. session' \in OnProfile!Session /\ hist' \in OnProfile!History
      BY <1>0, <1>6, <1>27 DEF OnProfile!LinkArrives, OnProfile!Session, OnProfile!History
    <2> QED
      BY <1>0, <1>3, <1>27, <2>2, <2>4, <2>5 DEF OnProfile!LinkArrives, heard, counted
  <1>28. CASE OnProfile!Fail
    <2>1. heard
      <3>1. CASE profilePosts' = OnProfile!Deaf(profilePosts)
        BY <1>2, <1>28, <3>1 DEF OnProfile!Fail
      <3>2. CASE \E k \in DOMAIN profilePosts :
                   /\ profilePosts[k].live
                   /\ profilePosts' = OnProfile!RemoveAt(profilePosts, k)
        BY <1>0, <1>28, <3>2, HeardRemoved DEF OnProfile!Fail, Heard, heard
      <3> QED
        BY <1>28, <3>1, <3>2 DEF OnProfile!Fail
    <2>2. hist' \in OnProfile!History
      BY <1>0, <1>28 DEF OnProfile!Fail, OnProfile!History
    <2>3. counted
      BY <1>0, <1>28 DEF OnProfile!Fail, counted
    <2> QED
      BY <1>0, <1>28, <2>1, <2>2, <2>3 DEF OnProfile!Fail, OnProfile!server, heard, counted
  <1>29. CASE OnProfile!Expire
    <2>1. /\ session' \in OnProfile!Session /\ tab' \in OnProfile!Tab /\ tab'.where = tab.where
          /\ hist' \in OnProfile!History
      BY <1>0, <1>29 DEF OnProfile!Expire, OnProfile!Session, OnProfile!Tab, OnProfile!History
    <2> QED
      BY <1>0, <1>1, <1>3, <1>29, <2>1 DEF OnProfile!Expire, heard, counted
  <1>30. CASE OnProfile!Impersonate
    <2>1. session' \in OnProfile!Session
      BY <1>0, <1>30 DEF OnProfile!Impersonate, OnProfile!Session
    <2> QED
      BY <1>0, <1>1, <1>3, <1>30, <2>1 DEF OnProfile!Impersonate, heard, counted
  <1>31. CASE OnProfile!ConfirmContact
    <2>1. \A c : (CHOOSE x \in OnProfile!Contact : x # c) \in OnProfile!Contact
      BY DEF OnProfile!Contact
    <2>2. row' \in OnProfile!Form
      BY <1>0, <1>31, <2>1 DEF OnProfile!ConfirmContact, OnProfile!Form
    <2> QED
      BY <1>0, <1>1, <1>3, <1>31, <2>2 DEF OnProfile!ConfirmContact, heard, counted
  <1> QED
    BY <1>10, <1>11, <1>12, <1>13, <1>14, <1>15, <1>16, <1>17, <1>18, <1>19, <1>20, <1>21, <1>22, <1>23, <1>24, <1>25, <1>26, <1>27, <1>28, <1>29, <1>30, <1>31 DEF OnProfile!Next, Handled

-----------------------------------------------------------------------------
(* A step-up comes first. *)

\* What is still there of a step-up has been paid for, and nothing went through
\* without one.
Credited ==
  /\ session.grant \/ (setup.ttl /\ session.marked) => hist.credit >= 1
  /\ ~hist.unproven

\* A sensitive action that goes through on e leaves what is left paid for.
LEMMA AppliedCredited ==
  ASSUME OnProfile!TypeOK, Credited, ~session.acting, NEW e, NEW s,
         e \in [s : OnProfile!Session, proof : BOOLEAN],
         \/ e.proof /\ ~OnProfile!Recent /\ ~session.grant /\ ~e.s.grant
         \/ ~e.proof /\ OnProfile!Recent /\ e.s.marked = session.marked
         \/ ~e.proof /\ session.grant /\ ~e.s.grant /\ e.s.marked = session.marked,
         setup' = setup, session' = s, s.grant = e.s.grant, s.marked = e.s.marked,
         hist' = OnProfile!Applied(e)
  PROVE  Credited'
  <1>0. /\ setup \in OnProfile!Setup /\ session \in OnProfile!Session /\ hist \in OnProfile!History
        /\ hist.credit \in Nat /\ e.s \in OnProfile!Session /\ e.proof \in BOOLEAN
    BY DEF OnProfile!TypeOK, OnProfile!History
  <1>1. hist' \in OnProfile!History
    BY <1>0, AppliedTyped
  <1>2. /\ hist'.credit = IF e.proof THEN IF setup.ttl THEN hist.credit + 1 ELSE hist.credit
                          ELSE OnProfile!Spent(e.s)
        /\ hist'.unproven = (hist.unproven \/ (hist.credit = 0 /\ ~e.proof) \/ session.acting)
    BY <1>0 DEF OnProfile!Applied, OnProfile!History
  <1>3. hist.credit = 0 => e.proof
    BY <1>0 DEF Credited, OnProfile!Recent
  <1>4. ~hist'.unproven
    BY <1>2, <1>3 DEF Credited
  <1>5. ASSUME session'.grant \/ (setup'.ttl /\ session'.marked) PROVE hist'.credit >= 1
    <2>1. CASE e.proof
      <3>1. setup.ttl
        BY <1>5, <2>1
      <3> QED
        BY <1>0, <1>2, <2>1, <3>1
    <2>2. CASE ~e.proof
      <3>1. OnProfile!Recent
        BY <1>5, <2>2 DEF OnProfile!Recent
      <3>2. OnProfile!Spent(e.s) = hist.credit
        BY <2>2, <3>1 DEF OnProfile!Spent, OnProfile!Recent
      <3> QED
        BY <1>2, <2>2, <3>1, <3>2 DEF Credited, OnProfile!Recent
    <2> QED
      BY <2>1, <2>2
  <1> QED
    BY <1>4, <1>5 DEF Credited

LEMMA EnsuredCredited ==
  ASSUME OnProfile!TypeOK, NEW current \in BOOLEAN, NEW e \in OnProfile!Ensured(current)
  PROVE  /\ e \in [s : OnProfile!Session, proof : BOOLEAN] /\ ~session.acting
         /\ \/ e.proof /\ ~OnProfile!Recent /\ ~session.grant /\ ~e.s.grant
            \/ ~e.proof /\ OnProfile!Recent /\ e.s.marked = session.marked
            \/ ~e.proof /\ session.grant /\ ~e.s.grant /\ e.s.marked = session.marked
  <1>1. session \in OnProfile!Session
    BY DEF OnProfile!TypeOK
  <1>2. /\ [session EXCEPT !.marked = TRUE] \in OnProfile!Session
        /\ [session EXCEPT !.marked = TRUE].grant = session.grant
        /\ OnProfile!GrantPulled(session) \in OnProfile!Session
        /\ ~OnProfile!GrantPulled(session).grant
        /\ OnProfile!GrantPulled(session).marked = session.marked
    BY <1>1 DEF OnProfile!GrantPulled, OnProfile!Session
  <1>3. ~session.acting
    BY DEF OnProfile!Ensured
  <1>4. CASE OnProfile!Recent
    <2>1. e = [s |-> session, proof |-> FALSE]
      BY <1>3, <1>4 DEF OnProfile!Ensured
    <2> QED
      BY <1>1, <1>3, <1>4, <2>1
  <1>5. CASE ~OnProfile!Recent /\ session.grant
    <2>1. e = [s |-> OnProfile!GrantPulled(session), proof |-> FALSE]
      BY <1>3, <1>5 DEF OnProfile!Ensured
    <2> QED
      BY <1>2, <1>3, <1>5, <2>1
  <1>6. CASE ~OnProfile!Recent /\ ~session.grant
    <2>1. e = [s |-> [session EXCEPT !.marked = TRUE], proof |-> TRUE]
      BY <1>3, <1>6 DEF OnProfile!Ensured
    <2> QED
      BY <1>2, <1>3, <1>6, <2>1
  <1> QED
    BY <1>4, <1>5, <1>6

LEMMA CreditedStep ==
  ASSUME ProfileTyped, Credited, OnProfile!Next
  PROVE  Credited'
  <1>0. /\ setup \in OnProfile!Setup /\ session \in OnProfile!Session /\ hist \in OnProfile!History
        /\ profilePosts \in Seq(OnProfile!Post) /\ OnProfile!TypeOK
        /\ hist.credit \in Nat
    BY DEF ProfileTyped, OnProfile!TypeOK, OnProfile!History
  <1> DEFINE kept == /\ setup'.ttl = setup.ttl
                     /\ session'.grant = session.grant /\ session'.marked = session.marked
                     /\ hist'.credit = hist.credit /\ hist'.unproven = hist.unproven
  <1>1. kept => Credited'
    BY DEF Credited
  <1> HIDE DEF kept
  <1>10. CASE \E p \in Pref : OnProfile!ChangePref(p)
    BY <1>0, <1>1, <1>10
    DEF OnProfile!ChangePref, OnProfile!server, OnProfile!History, OnProfile!Session, OnProfile!Setup, kept
  <1>11. CASE OnProfile!SavePreferences
    BY <1>0, <1>1, <1>11
    DEF OnProfile!SavePreferences, OnProfile!Sent, OnProfile!server, OnProfile!History, OnProfile!Session, OnProfile!Setup, kept
  <1>12. CASE OnProfile!toggleColorMode
    BY <1>0, <1>1, <1>12
    DEF OnProfile!toggleColorMode, OnProfile!Sent, OnProfile!server, OnProfile!History, OnProfile!Session, OnProfile!Setup, kept
  <1>13. CASE OnProfile!EditContact
    BY <1>0, <1>1, <1>13
    DEF OnProfile!EditContact, OnProfile!server, OnProfile!History, OnProfile!Session, OnProfile!Setup, kept
  <1>14. CASE \E type \in OnProfile!Sensitive : OnProfile!Ask(type)
    BY <1>0, <1>1, <1>14
    DEF OnProfile!Ask, OnProfile!server, OnProfile!History, OnProfile!Session, OnProfile!Setup, kept
  <1>15. CASE OnProfile!closeReauthDialog
    BY <1>0, <1>1, <1>15
    DEF OnProfile!closeReauthDialog, OnProfile!server, OnProfile!History, OnProfile!Session, OnProfile!Setup, kept
  <1>16. CASE OnProfile!reauthSensitive
    BY <1>0, <1>1, <1>16
    DEF OnProfile!reauthSensitive, OnProfile!Sent, OnProfile!server, OnProfile!History, OnProfile!Session, OnProfile!Setup, kept
  <1>17. CASE OnProfile!startOidcReauth
    BY <1>0, <1>1, <1>17
    DEF OnProfile!startOidcReauth, OnProfile!server, OnProfile!History, OnProfile!Session, OnProfile!Setup, kept
  <1>18. CASE OnProfile!storePendingDraft
    BY <1>0, <1>1, <1>18
    DEF OnProfile!storePendingDraft, OnProfile!History, OnProfile!Session, OnProfile!Setup, kept
  <1>19. CASE OnProfile!Leave
    BY <1>0, <1>1, <1>19
    DEF OnProfile!Leave, OnProfile!server, OnProfile!History, OnProfile!Session, OnProfile!Setup, kept
  <1>20. CASE OnProfile!Open
    BY <1>0, <1>1, <1>20
    DEF OnProfile!Open, OnProfile!server, OnProfile!History, OnProfile!Session, OnProfile!Setup, kept
  <1>21. CASE OnProfile!ProviderRefuses
    BY <1>0, <1>1, <1>21
    DEF OnProfile!ProviderRefuses, OnProfile!History, OnProfile!Session, OnProfile!Setup, kept
  <1>22. CASE OnProfile!ReauthCallback
    <2>1. hist'.credit = hist.credit + 1 /\ hist'.unproven = hist.unproven
      BY <1>0, <1>22 DEF OnProfile!ReauthCallback, OnProfile!History
    <2> QED
      BY <1>0, <2>1 DEF Credited
  <1>23. CASE OnProfile!LinkCallback
    BY <1>0, <1>1, <1>23
    DEF OnProfile!LinkCallback, OnProfile!History, OnProfile!Session, OnProfile!Setup, kept
  <1>24. CASE \E k \in DOMAIN profilePosts : Handled(k)
    <2>1. PICK k \in DOMAIN profilePosts : Handled(k)
      BY <1>24
    <2>2. profilePosts[k].current \in BOOLEAN
      <3>1. profilePosts[k] \in OnProfile!Post
        BY <1>0
      <3> QED
        BY <3>1 DEF OnProfile!Post
    <2>3. CASE OnProfile!updatePreferences(k)
      BY <1>0, <1>1, <2>3 DEF OnProfile!updatePreferences, OnProfile!History, kept
    <2>4. CASE OnProfile!storeColorMode(k)
      BY <1>0, <1>1, <2>4 DEF OnProfile!storeColorMode, kept
    <2>5. CASE OnProfile!update(k)
      <3>1. \/ UNCHANGED <<session, setup>> /\ (hist' = hist \/ hist' = [hist EXCEPT !.mixed = TRUE])
            \/ \E e \in OnProfile!Ensured(profilePosts[k].current) :
                 session' = e.s /\ hist' = OnProfile!Applied(e) /\ setup' = setup
        BY <2>5 DEF OnProfile!update
      <3>2. CASE UNCHANGED <<session, setup>> /\ (hist' = hist \/ hist' = [hist EXCEPT !.mixed = TRUE])
        BY <1>0, <1>1, <3>2 DEF OnProfile!History, kept
      <3>3. ASSUME NEW e \in OnProfile!Ensured(profilePosts[k].current),
                   session' = e.s, hist' = OnProfile!Applied(e), setup' = setup
            PROVE  Credited'
        BY <1>0, <2>2, <3>3, EnsuredCredited, AppliedCredited
      <3> QED
        BY <3>1, <3>2, <3>3
    <2>6. CASE OnProfile!changeAuthenticated(k)
      <3> DEFINE e == [s |-> OnProfile!GrantPulled(session), proof |-> FALSE]
      <3>1. /\ OnProfile!GrantPulled(session) \in OnProfile!Session
            /\ ~OnProfile!GrantPulled(session).grant
            /\ OnProfile!GrantPulled(session).marked = session.marked
        BY <1>0 DEF OnProfile!GrantPulled, OnProfile!Session
      <3>2. CASE session.acting
        BY <1>0, <1>1, <2>6, <3>2 DEF OnProfile!changeAuthenticated, kept
      <3>3. CASE ~session.acting /\ (OnProfile!Recent \/ session.grant)
        <4>1. /\ session' = OnProfile!GrantPulled(session) /\ setup' = setup
              /\ hist' = OnProfile!Applied(e)
          BY <2>6, <3>3 DEF OnProfile!changeAuthenticated
        <4>2. e \in [s : OnProfile!Session, proof : BOOLEAN] /\ ~e.proof
              /\ e.s = OnProfile!GrantPulled(session)
          BY <3>1
        <4> HIDE DEF e
        <4> QED
          BY <1>0, <3>1, <3>3, <4>1, <4>2, AppliedCredited
      <3>4. CASE ~session.acting /\ ~(OnProfile!Recent \/ session.grant)
        <4>1. session' = OnProfile!GrantPulled(session) /\ setup' = setup /\ hist' = hist
          BY <2>6, <3>4 DEF OnProfile!changeAuthenticated
        <4> QED
          BY <3>1, <4>1 DEF Credited
      <3> QED
        BY <3>2, <3>3, <3>4
    <2>7. CASE OnProfile!startOidcLink(k)
      <3>1. \/ UNCHANGED <<session, setup, hist>>
            \/ \E e \in OnProfile!Ensured(profilePosts[k].current) :
                 /\ session' = [e.s EXCEPT !.linkGrant = TRUE]
                 /\ hist' = OnProfile!Applied(e) /\ setup' = setup
        BY <2>7 DEF OnProfile!startOidcLink
      <3>2. CASE UNCHANGED <<session, setup, hist>>
        BY <1>1, <3>2 DEF kept
      <3>3. ASSUME NEW e \in OnProfile!Ensured(profilePosts[k].current),
                   session' = [e.s EXCEPT !.linkGrant = TRUE],
                   hist' = OnProfile!Applied(e), setup' = setup
            PROVE  Credited'
        <4>1. /\ e \in [s : OnProfile!Session, proof : BOOLEAN] /\ ~session.acting
              /\ \/ e.proof /\ ~OnProfile!Recent /\ ~session.grant /\ ~e.s.grant
                 \/ ~e.proof /\ OnProfile!Recent /\ e.s.marked = session.marked
                 \/ ~e.proof /\ session.grant /\ ~e.s.grant /\ e.s.marked = session.marked
          BY <1>0, <2>2, EnsuredCredited
        <4>2. session'.grant = e.s.grant /\ session'.marked = e.s.marked
          BY <3>3, <4>1 DEF OnProfile!Session
        <4> QED
          BY <1>0, <3>3, <4>1, <4>2, AppliedCredited
      <3> QED
        BY <3>1, <3>2, <3>3
    <2>8. CASE OnProfile!checkPassword(k)
      <3>1. CASE UNCHANGED <<session, hist>>
        BY <1>1, <2>8, <3>1 DEF OnProfile!checkPassword, kept
      <3>2. CASE hist' = [hist EXCEPT !.credit = @ + 1]
        <4>1. hist'.credit = hist.credit + 1 /\ hist'.unproven = hist.unproven
          BY <1>0, <3>2 DEF OnProfile!History
        <4> QED
          BY <1>0, <4>1 DEF Credited
      <3> QED
        BY <2>8, <3>1, <3>2 DEF OnProfile!checkPassword
    <2> QED
      BY <2>1, <2>3, <2>4, <2>5, <2>6, <2>7, <2>8 DEF Handled
  <1>25. CASE OnProfile!Arrive
    BY <1>0, <1>1, <1>25
    DEF OnProfile!Arrive, OnProfile!server, OnProfile!History, OnProfile!Session, OnProfile!Setup, kept
  <1>26. CASE OnProfile!ReauthArrives
    BY <1>0, <1>1, <1>26
    DEF OnProfile!ReauthArrives, OnProfile!Sent, OnProfile!server, OnProfile!History, OnProfile!Session, OnProfile!Setup, kept
  <1>27. CASE OnProfile!LinkArrives
    BY <1>0, <1>1, <1>27
    DEF OnProfile!LinkArrives, OnProfile!History, OnProfile!Session, OnProfile!Setup, kept
  <1>28. CASE OnProfile!Fail
    BY <1>0, <1>1, <1>28
    DEF OnProfile!Fail, OnProfile!server, OnProfile!History, OnProfile!Session, OnProfile!Setup, kept
  <1>29. CASE OnProfile!Expire
    <2>1. /\ setup' = setup /\ hist'.unproven = hist.unproven
          /\ hist'.credit = IF session'.grant \/ (setup.ttl /\ session'.marked) THEN hist.credit ELSE 0
      BY <1>0, <1>29 DEF OnProfile!Expire, OnProfile!History
    <2>2. /\ session'.grant => session.grant
          /\ session'.marked => session.marked
      BY <1>0, <1>29 DEF OnProfile!Expire, OnProfile!Session
    <2> QED
      BY <2>1, <2>2 DEF Credited
  <1>30. CASE OnProfile!Impersonate
    BY <1>0, <1>1, <1>30
    DEF OnProfile!Impersonate, OnProfile!History, OnProfile!Session, OnProfile!Setup, kept
  <1>31. CASE OnProfile!ConfirmContact
    BY <1>0, <1>1, <1>31
    DEF OnProfile!ConfirmContact, OnProfile!History, OnProfile!Session, OnProfile!Setup, kept
  <1> QED
    BY <1>10, <1>11, <1>12, <1>13, <1>14, <1>15, <1>16, <1>17, <1>18, <1>19, <1>20, <1>21, <1>22, <1>23, <1>24, <1>25, <1>26, <1>27, <1>28, <1>29, <1>30, <1>31 DEF OnProfile!Next, Handled

-----------------------------------------------------------------------------
(* What runs after a step-up is what was asked for last. *)

\* A page waits for the action asked for last, and so does its draft, unless a
\* draft was lost on its way to the session, or the action was given up meanwhile.
Waiting == /\ tab.pending # None => tab.pending.id = hist.asked
           /\ tab.dialog <=> tab.pending # None
           /\ tab.leaving => tab.draft # None /\ (hist.late \/ tab.draft.action.id = hist.asked)
           /\ tab.where # "profile" => ~tab.dialog
           /\ tab.where = "provider" => ~tab.leaving
Kept == tab.where = "provider" /\ session.intent = "reauth" /\ ~hist.storeLost /\ ~hist.late =>
          session.draft = None \/ session.draft.action.id = hist.asked
Latest == ~hist.wrongRun /\ Waiting /\ Kept

LEMMA LatestStep ==
  ASSUME ProfileTyped, Latest, OnProfile!Next
  PROVE  Latest'
  <1>0. /\ session \in OnProfile!Session /\ hist \in OnProfile!History /\ tab \in OnProfile!Tab
        /\ setup \in OnProfile!Setup
    BY DEF ProfileTyped, OnProfile!TypeOK
  <1> DEFINE Same(t) == /\ t.where = tab.where /\ t.pending = tab.pending
                        /\ t.dialog = tab.dialog /\ t.leaving = tab.leaving
                        /\ t.draft = tab.draft
             kept == /\ Same(tab') /\ session'.intent = session.intent
                     /\ (session'.draft = session.draft \/ session'.draft = None)
                     /\ hist'.asked = hist.asked /\ hist'.wrongRun = hist.wrongRun
                     /\ hist'.storeLost = hist.storeLost /\ hist'.late = hist.late
  <1>1. kept => Latest'
    BY DEF Latest, Waiting, Kept
  <1>2. /\ OnProfile!Fresh.where = "profile" /\ OnProfile!Fresh.pending = None
        /\ ~OnProfile!Fresh.dialog /\ ~OnProfile!Fresh.leaving
    BY DEF OnProfile!Fresh
  <1> HIDE DEF kept
  <1>10. CASE \E p \in Pref : OnProfile!ChangePref(p)
    BY <1>0, <1>1, <1>10
    DEF OnProfile!ChangePref, OnProfile!server, OnProfile!History, OnProfile!Session, OnProfile!Tab, kept
  <1>11. CASE OnProfile!SavePreferences
    BY <1>0, <1>1, <1>11
    DEF OnProfile!SavePreferences, OnProfile!Sent, OnProfile!server, OnProfile!Sensitive, OnProfile!History, OnProfile!Session, OnProfile!Tab, kept
  <1>12. CASE OnProfile!toggleColorMode
    BY <1>0, <1>1, <1>12
    DEF OnProfile!toggleColorMode, OnProfile!Sent, OnProfile!server, OnProfile!Sensitive, OnProfile!History, OnProfile!Session, OnProfile!Tab, kept
  <1>13. CASE OnProfile!EditContact
    BY <1>0, <1>1, <1>13
    DEF OnProfile!EditContact, OnProfile!server, OnProfile!History, OnProfile!Session, OnProfile!Tab, kept
  <1>14. CASE \E type \in OnProfile!Sensitive : OnProfile!Ask(type)
    <2>1. PICK type \in OnProfile!Sensitive : OnProfile!Ask(type)
      BY <1>14
    <2> DEFINE id == hist.asks + 1
    <2>2. /\ tab.where = "profile" /\ ~tab.dialog /\ session' = session
      BY <2>1 DEF OnProfile!Ask, OnProfile!Touch, OnProfile!Here, OnProfile!server
    <2>3. /\ hist'.asked = id /\ hist'.wrongRun = hist.wrongRun
          /\ tab.leaving => hist'.late
      BY <1>0, <2>1 DEF OnProfile!Ask, OnProfile!History
    <2> HIDE DEF id
    <2>4. \/ tab' = tab
          \/ tab' = [tab EXCEPT !.dialog = TRUE, !.pending = [type |-> type, id |-> id]]
      BY <2>1 DEF OnProfile!Ask, id
    <2>5. CASE tab' = tab
      BY <2>2, <2>3, <2>5 DEF Latest, Waiting, Kept
    <2>6. CASE tab' = [tab EXCEPT !.dialog = TRUE, !.pending = [type |-> type, id |-> id]]
      <3>1. [type |-> type, id |-> id] # None
        <4>1. [type |-> type, id |-> id] \in OnProfile!Action
          BY <1>0 DEF OnProfile!Action, OnProfile!History, id
        <4> QED
          BY <4>1, PagesAssumption
      <3>2. /\ tab'.dialog /\ tab'.pending = [type |-> type, id |-> id]
            /\ tab'.where = "profile" /\ tab'.leaving = tab.leaving /\ tab'.draft = tab.draft
        BY <1>0, <2>2, <2>6 DEF OnProfile!Tab
      <3> QED
        BY <2>3, <3>1, <3>2 DEF Latest, Waiting, Kept
    <2> QED
      BY <2>4, <2>5, <2>6
  <1>15. CASE OnProfile!closeReauthDialog
    <2>1. /\ tab.where = "profile" /\ hist'.wrongRun = hist.wrongRun
          /\ tab'.where = "profile" /\ ~tab'.dialog /\ tab'.pending = None
          /\ tab'.leaving = tab.leaving /\ tab'.draft = tab.draft
          /\ tab.leaving => hist'.late
      BY <1>0, <1>15
      DEF OnProfile!closeReauthDialog, OnProfile!Here, OnProfile!Closed, OnProfile!Tab, OnProfile!History
    <2> QED
      BY <2>1 DEF Latest, Waiting, Kept
  <1>16. CASE OnProfile!reauthSensitive
    BY <1>0, <1>1, <1>16
    DEF OnProfile!reauthSensitive, OnProfile!Sent, OnProfile!server, OnProfile!Sensitive, OnProfile!History, OnProfile!Session, OnProfile!Tab, kept
  <1>17. CASE OnProfile!startOidcReauth
    <2>1. /\ tab.where = "profile" /\ tab.dialog /\ session' = session
          /\ hist'.asked = hist.asked /\ hist'.wrongRun = hist.wrongRun
          /\ tab' = [tab EXCEPT !.leaving = TRUE, !.draft = OnProfile!DraftOf(tab)]
      BY <1>0, <1>17 DEF OnProfile!startOidcReauth, OnProfile!Here, OnProfile!server, OnProfile!History
    <2>2. OnProfile!DraftOf(tab) = [action |-> tab.pending, form |-> tab.form]
      BY <2>1 DEF OnProfile!DraftOf, Latest, Waiting
    <2>3. OnProfile!DraftOf(tab) # None /\ OnProfile!DraftOf(tab).action.id = hist.asked
      <3>1. OnProfile!DraftOf(tab) \in OnProfile!Draft
        BY <1>0, <2>1, <2>2 DEF OnProfile!Tab, OnProfile!Draft, Latest, Waiting
      <3> QED
        BY <2>1, <2>2, <3>1, PagesAssumption DEF Latest, Waiting
    <2>4. /\ tab'.where = "profile" /\ tab'.draft = OnProfile!DraftOf(tab)
          /\ tab'.pending = tab.pending /\ tab'.dialog = tab.dialog
      BY <1>0, <2>1 DEF OnProfile!Tab
    <2> QED
      BY <2>1, <2>3, <2>4 DEF Latest, Waiting, Kept
  <1>18. CASE OnProfile!storePendingDraft
    <2>1. /\ tab.leaving /\ hist'.asked = hist.asked /\ hist'.wrongRun = hist.wrongRun
          /\ hist'.late = hist.late
          /\ tab'.where = "provider" /\ tab'.pending = None /\ ~tab'.dialog /\ ~tab'.leaving
          /\ \/ hist'.storeLost
             \/ session'.draft = tab.draft
      BY <1>0, <1>18
      DEF OnProfile!storePendingDraft, OnProfile!Gone, OnProfile!Tab, OnProfile!History,
          OnProfile!Session, Latest, Waiting
    <2> QED
      BY <2>1 DEF Latest, Waiting, Kept
  <1>19. CASE OnProfile!Leave
    <2>1. /\ hist'.wrongRun = hist.wrongRun
          /\ tab.leaving => hist'.late
          /\ tab'.where = "app" /\ tab'.pending = None /\ ~tab'.dialog
          /\ tab'.leaving = tab.leaving /\ tab'.draft = tab.draft
      BY <1>0, <1>19 DEF OnProfile!Leave, OnProfile!Gone, OnProfile!Tab, OnProfile!History
    <2> QED
      BY <2>1 DEF Latest, Waiting, Kept
  <1>20. CASE OnProfile!Open
    <2>1. /\ hist'.wrongRun = hist.wrongRun /\ hist'.asked = hist.asked /\ hist'.late = hist.late
          /\ tab' = [OnProfile!Fresh EXCEPT !.timer = tab.timer, !.leaving = tab.leaving,
                                            !.draft = tab.draft]
      BY <1>0, <1>20 DEF OnProfile!Open, OnProfile!History
    <2>2. /\ tab'.where = "profile" /\ tab'.pending = None /\ ~tab'.dialog
          /\ tab'.leaving = tab.leaving /\ tab'.draft = tab.draft
      BY <2>1 DEF OnProfile!Fresh
    <2> QED
      BY <2>1, <2>2 DEF Latest, Waiting, Kept
  <1>21. CASE OnProfile!ProviderRefuses
    <2>1. /\ hist'.wrongRun = hist.wrongRun /\ tab.where = "provider"
          /\ tab'.where = "app" /\ tab'.pending = tab.pending
          /\ tab'.dialog = tab.dialog /\ tab'.leaving = tab.leaving
      BY <1>0, <1>21 DEF OnProfile!ProviderRefuses, OnProfile!Tab, OnProfile!History
    <2>2. ~tab.dialog /\ ~tab.leaving /\ tab.pending = None
      BY <2>1 DEF Latest, Waiting
    <2> QED
      BY <2>1, <2>2 DEF Latest, Waiting, Kept
  <1>22. CASE OnProfile!ReauthCallback
    <2> DEFINE t == [OnProfile!Fresh EXCEPT !.belief = setup.ttl]
               dr == session.draft
    <2>1. /\ t.where = "profile" /\ t.pending = None /\ ~t.dialog /\ ~t.leaving
          /\ OnProfile!Restored(t, dr).where = "profile" /\ OnProfile!Restored(t, dr).pending = None
          /\ ~OnProfile!Restored(t, dr).dialog /\ ~OnProfile!Restored(t, dr).leaving
      BY DEF OnProfile!Fresh, OnProfile!Restored
    <2>2. /\ tab.where = "provider" /\ session.intent = "reauth"
          /\ tab' = t \/ tab' = OnProfile!Restored(t, dr)
      BY <1>22 DEF OnProfile!ReauthCallback
    <2>3. /\ hist'.asked = hist.asked
          /\ hist'.wrongRun =>
               hist.wrongRun \/ (dr # None /\ dr.action.id # hist.asked /\ ~hist.storeLost /\ ~hist.late)
      BY <1>0, <1>22 DEF OnProfile!ReauthCallback, OnProfile!History
    <2>4. ~hist'.wrongRun
      BY <2>2, <2>3 DEF Latest, Kept
    <2> HIDE DEF t, dr
    <2> QED
      BY <2>1, <2>2, <2>4 DEF Latest, Waiting, Kept
  <1>23. CASE OnProfile!LinkCallback
    <2>1. hist'.wrongRun = hist.wrongRun /\ tab' = OnProfile!Fresh
      BY <1>0, <1>23 DEF OnProfile!LinkCallback, OnProfile!History
    <2> QED
      BY <1>2, <2>1 DEF Latest, Waiting, Kept
  <1>24. CASE \E k \in DOMAIN profilePosts : Handled(k)
    <2>1. PICK k \in DOMAIN profilePosts : Handled(k)
      BY <1>24
    <2>2. /\ tab' = tab /\ session'.intent = session.intent /\ session'.draft = session.draft
          /\ hist'.asked = hist.asked /\ hist'.wrongRun = hist.wrongRun
          /\ hist'.storeLost = hist.storeLost /\ hist'.late = hist.late
      <3>1. \A current, e : e \in OnProfile!Ensured(current) =>
              e.s.intent = session.intent /\ e.s.draft = session.draft
        BY <1>0 DEF OnProfile!Ensured, OnProfile!GrantPulled, OnProfile!Session
      <3>2. \A e : /\ OnProfile!Applied(e).asked = hist.asked
                   /\ OnProfile!Applied(e).wrongRun = hist.wrongRun
                   /\ OnProfile!Applied(e).storeLost = hist.storeLost
                   /\ OnProfile!Applied(e).late = hist.late
        BY <1>0 DEF OnProfile!Applied, OnProfile!History
      <3>3. /\ OnProfile!GrantPulled(session).intent = session.intent
            /\ OnProfile!GrantPulled(session).draft = session.draft
        BY <1>0 DEF OnProfile!GrantPulled, OnProfile!Session
      <3>4. CASE OnProfile!updatePreferences(k)
        BY <1>0, <3>4 DEF OnProfile!updatePreferences, OnProfile!History
      <3>5. CASE OnProfile!storeColorMode(k)
        BY <3>5 DEF OnProfile!storeColorMode
      <3>6. CASE OnProfile!update(k)
        <4>1. /\ tab' = tab
              /\ \/ /\ session' = session
                    /\ hist' = hist \/ hist' = [hist EXCEPT !.mixed = TRUE]
                 \/ \E e \in OnProfile!Ensured(profilePosts[k].current) :
                      session' = e.s /\ hist' = OnProfile!Applied(e)
          BY <3>6 DEF OnProfile!update
        <4> QED
          BY <1>0, <3>1, <3>2, <4>1 DEF OnProfile!History
      <3>7. CASE OnProfile!changeAuthenticated(k)
        BY <1>0, <3>2, <3>3, <3>7 DEF OnProfile!changeAuthenticated
      <3>8. CASE OnProfile!startOidcLink(k)
        <4>1. \/ UNCHANGED <<session, hist>>
              \/ \E e \in OnProfile!Ensured(profilePosts[k].current) :
                   /\ session' = [e.s EXCEPT !.linkGrant = TRUE]
                   /\ hist' = OnProfile!Applied(e)
          BY <3>8 DEF OnProfile!startOidcLink
        <4>2. ASSUME NEW e \in OnProfile!Ensured(profilePosts[k].current),
                     session' = [e.s EXCEPT !.linkGrant = TRUE]
              PROVE  session'.intent = session.intent /\ session'.draft = session.draft
          <5>1. [e.s EXCEPT !.linkGrant = TRUE].intent = e.s.intent
            BY <3>1
          <5> QED
            BY <3>1, <4>2
        <4>3. tab' = tab
          BY <3>8 DEF OnProfile!startOidcLink
        <4> QED
          BY <3>2, <4>1, <4>2, <4>3
      <3>9. CASE OnProfile!checkPassword(k)
        BY <1>0, <3>9 DEF OnProfile!checkPassword, OnProfile!History, OnProfile!Session
      <3> QED
        BY <2>1, <3>4, <3>5, <3>6, <3>7, <3>8, <3>9 DEF Handled
    <2> QED
      BY <1>1, <2>2 DEF kept
  <1>25. CASE OnProfile!Arrive
    BY <1>0, <1>1, <1>25
    DEF OnProfile!Arrive, OnProfile!server, OnProfile!Told, OnProfile!History, OnProfile!Session, OnProfile!Tab, kept
  <1>26. CASE OnProfile!ReauthArrives
    <2> DEFINE t == [OnProfile!Told EXCEPT !.belief = setup.ttl, !.current = TRUE,
                                           !.dialog = FALSE, !.pending = None]
    <2>1. /\ t.where = tab.where /\ t.pending = None /\ ~t.dialog /\ t.leaving = tab.leaving
          /\ t.draft = tab.draft
      BY <1>0 DEF OnProfile!Told, OnProfile!Tab
    <2>2. tab' = t /\ tab.where = "profile" /\ session' = session
      BY <1>26 DEF OnProfile!ReauthArrives, OnProfile!server
    <2>3. hist'.asked = hist.asked /\ hist'.late = hist.late /\ ~hist'.wrongRun
      <3>1. CASE tab.pending = None
        BY <1>26, <3>1 DEF OnProfile!ReauthArrives, Latest
      <3>2. CASE tab.pending # None
        <4>1. OnProfile!Sent(tab.pending.type, tab.pending.id, t)
          BY <1>26, <3>2 DEF OnProfile!ReauthArrives
        <4>2. tab.pending.id = hist.asked
          BY <3>2 DEF Latest, Waiting
        <4> HIDE DEF t
        <4> QED
          BY <1>0, <4>1, <4>2 DEF OnProfile!Sent, OnProfile!History, Latest
      <3> QED
        BY <3>1, <3>2
    <2> HIDE DEF t
    <2> QED
      BY <2>1, <2>2, <2>3 DEF Latest, Waiting, Kept
  <1>27. CASE OnProfile!LinkArrives
    <2>1. hist'.wrongRun = hist.wrongRun
      BY <1>0, <1>27 DEF OnProfile!LinkArrives, OnProfile!History
    <2>2. \/ tab' = OnProfile!Fresh
          \/ /\ tab'.where = "provider" /\ tab'.pending = None /\ ~tab'.dialog /\ ~tab'.leaving
             /\ session'.intent = "link"
      BY <1>0, <1>27 DEF OnProfile!LinkArrives, OnProfile!Gone, OnProfile!Tab, OnProfile!Session
    <2> QED
      BY <1>2, <2>1, <2>2 DEF Latest, Waiting, Kept
  <1>28. CASE OnProfile!Fail
    BY <1>0, <1>1, <1>28
    DEF OnProfile!Fail, OnProfile!server, OnProfile!History, OnProfile!Session, OnProfile!Tab, kept
  <1>29. CASE OnProfile!Expire
    BY <1>0, <1>1, <1>29
    DEF OnProfile!Expire, OnProfile!History, OnProfile!Session, OnProfile!Tab, kept
  <1>30. CASE OnProfile!Impersonate
    BY <1>0, <1>1, <1>30
    DEF OnProfile!Impersonate, OnProfile!History, OnProfile!Session, OnProfile!Tab, kept
  <1>31. CASE OnProfile!ConfirmContact
    BY <1>0, <1>1, <1>31
    DEF OnProfile!ConfirmContact, OnProfile!History, OnProfile!Session, OnProfile!Tab, kept
  <1> QED
    BY <1>10, <1>11, <1>12, <1>13, <1>14, <1>15, <1>16, <1>17, <1>18, <1>19, <1>20, <1>21, <1>22, <1>23, <1>24, <1>25, <1>26, <1>27, <1>28, <1>29, <1>30, <1>31 DEF OnProfile!Next, Handled

-----------------------------------------------------------------------------
(* What the profile shows is stored. *)

\* Unless two writers crossed: what is on its way is what the page shows, and with
\* nothing on its way that is stored.
Agrees == /\ PrefsOf(profilePosts) \subseteq {tab.form.prefs}
          /\ PrefsOf(profilePosts) = {} => row.prefs = tab.form.prefs
Written ==
  ~hist.mixed => /\ NoColour(profilePosts)
                 /\ tab.where = "profile" /\ ~tab.timer => Agrees

\* A request is sent that does not cross another.
LEMMA SentWritten ==
  ASSUME ProfileTyped, NEW type \in OnProfile!Kind, type # "color-mode", NEW id \in Nat, NEW t,
         t.form \in OnProfile!Form, t.current \in BOOLEAN,
         NoColour(profilePosts), ~OnProfile!Crossing(type, t.form),
         profilePosts' = Append(OnProfile!Deaf(profilePosts),
                                OnProfile!Request(type, id, t.form, t.current))
  PROVE  /\ NoColour(profilePosts')
         /\ type \in OnProfile!Writes => PrefsOf(profilePosts') = {t.form.prefs}
         /\ type \notin OnProfile!Writes => PrefsOf(profilePosts') = PrefsOf(profilePosts)
  <1> DEFINE ds == OnProfile!Deaf(profilePosts)
             p == OnProfile!Request(type, id, t.form, t.current)
  <1>1. /\ ds \in Seq(OnProfile!Post) /\ PrefsOf(ds) = PrefsOf(profilePosts)
        /\ NoColour(ds) <=> NoColour(profilePosts)
    BY DeafProfile DEF ProfileTyped, OnProfile!TypeOK
  <1>2. p \in OnProfile!Post /\ p.type = type /\ p.form = t.form
    BY DEF OnProfile!Request, OnProfile!Post
  <1> HIDE DEF ds, p
  <1>3. profilePosts' = Append(ds, p)
    BY DEF ds, p
  <1>4. /\ PrefsOf(profilePosts') = PrefsOf(profilePosts) \union Writing(p)
        /\ NoColour(profilePosts') <=> NoColour(profilePosts) /\ type # "color-mode"
    BY <1>1, <1>2, <1>3, AppendedProfile
  <1>5. type \in OnProfile!Writes => PrefsOf(profilePosts) \subseteq {t.form.prefs}
    BY DEF OnProfile!Crossing, PrefsOf
  <1> QED
    BY <1>2, <1>4, <1>5 DEF Writing

\* A request is handled: nothing comes on its way, and only a writer is no longer.
LEMMA AnsweredWritten ==
  ASSUME ProfileTyped, NEW k \in DOMAIN profilePosts, NEW ok, OnProfile!Answer(k, ok)
  PROVE  /\ PrefsOf(profilePosts') \subseteq PrefsOf(profilePosts)
         /\ PrefsOf(profilePosts) = PrefsOf(profilePosts') \union Writing(profilePosts[k])
         /\ NoColour(profilePosts) => NoColour(profilePosts')
  BY RemovedProfile DEF OnProfile!Answer, ProfileTyped, OnProfile!TypeOK

LEMMA WrittenStep ==
  ASSUME ProfileTyped, Written, OnProfile!Next
  PROVE  Written'
  <1>0. /\ session \in OnProfile!Session /\ hist \in OnProfile!History /\ tab \in OnProfile!Tab
        /\ setup \in OnProfile!Setup /\ row \in OnProfile!Form /\ tab.form \in OnProfile!Form
        /\ profilePosts \in Seq(OnProfile!Post)
    BY DEF ProfileTyped, OnProfile!TypeOK, OnProfile!Tab
  <1> DEFINE kept == /\ tab'.form.prefs = tab.form.prefs /\ row'.prefs = row.prefs
                     /\ tab'.where = tab.where /\ tab'.timer = tab.timer
                     /\ hist.mixed => hist'.mixed
                     /\ NoColour(profilePosts) => NoColour(profilePosts')
                     /\ PrefsOf(profilePosts') = PrefsOf(profilePosts)
  <1>1. kept => Written'
    BY DEF Written, Agrees
  <1>2. ASSUME ~OnProfile!Mixed
        PROVE  PrefsOf(profilePosts) = {} /\ NoColour(profilePosts) /\ ~tab.timer
    BY <1>2 DEF OnProfile!Mixed, OnProfile!Outstanding, OnProfile!Writes, PrefsOf, NoColour
  <1>3. /\ hist'.mixed = OnProfile!Mixed /\ tab' = OnProfile!Fresh
        /\ UNCHANGED <<row, profilePosts>>
        => Written'
    BY <1>2 DEF Written, Agrees, OnProfile!Fresh
  <1>4. /\ PrefsOf(OnProfile!Deaf(profilePosts)) = PrefsOf(profilePosts)
        /\ NoColour(OnProfile!Deaf(profilePosts)) <=> NoColour(profilePosts)
    BY <1>0, DeafProfile
  <1> HIDE DEF kept
  <1>10. CASE \E p \in Pref : OnProfile!ChangePref(p)
    <2>1. tab'.timer /\ tab'.where = tab.where /\ UNCHANGED <<hist, profilePosts>>
      BY <1>0, <1>10 DEF OnProfile!ChangePref, OnProfile!Watched, OnProfile!Tab
    <2> QED
      BY <2>1 DEF Written
  <1>11. CASE OnProfile!SavePreferences
    <2>1. /\ tab'.form = tab.form /\ tab'.where = tab.where /\ tab.current \in BOOLEAN
          /\ profilePosts' = Append(OnProfile!Deaf(profilePosts),
                                    OnProfile!Request("preferences", 0, tab.form, tab.current))
      BY <1>0, <1>11 DEF OnProfile!SavePreferences, OnProfile!Sent, OnProfile!Tab
    <2>2. ~hist'.mixed => ~hist.mixed /\ ~OnProfile!Crossing("preferences", tab.form)
      BY <1>0, <1>11 DEF OnProfile!SavePreferences, OnProfile!Sent, OnProfile!History
    <2>3. ~hist'.mixed => NoColour(profilePosts') /\ PrefsOf(profilePosts') = {tab.form.prefs}
      BY <1>0, <2>1, <2>2, SentWritten DEF Written, OnProfile!Kind, OnProfile!Writes
    <2> QED
      BY <2>1, <2>3 DEF Written, Agrees
  <1>12. CASE OnProfile!toggleColorMode
    <2>1. hist'.mixed
      BY <1>0, <1>12 DEF OnProfile!toggleColorMode, OnProfile!Sent, OnProfile!History
    <2> QED
      BY <2>1 DEF Written
  <1>13. CASE OnProfile!EditContact
    <2>1. tab'.form.prefs = tab.form.prefs
      BY <1>0, <1>13 DEF OnProfile!EditContact, OnProfile!Form, OnProfile!Tab
    <2> QED
      BY <1>0, <1>1, <1>13, <2>1 DEF OnProfile!EditContact, OnProfile!server, OnProfile!Tab, kept
  <1>14. CASE \E type \in OnProfile!Sensitive : OnProfile!Ask(type)
    <2>1. PICK type \in OnProfile!Sensitive : OnProfile!Ask(type)
      BY <1>14
    <2>2. CASE ~OnProfile!NeedsStepup(type) \/ tab.belief
      <3>1. /\ tab' = tab /\ row' = row /\ tab.current \in BOOLEAN
            /\ profilePosts' = Append(OnProfile!Deaf(profilePosts),
                 OnProfile!Request(type, hist.asks + 1, tab.form, tab.current))
            /\ ~hist'.mixed => ~hist.mixed /\ ~OnProfile!Crossing(type, tab.form)
        BY <1>0, <2>1, <2>2 DEF OnProfile!Ask, OnProfile!server, OnProfile!History, OnProfile!Tab
      <3>2. hist.asks + 1 \in Nat /\ type \in OnProfile!Kind /\ type # "color-mode"
        BY <1>0 DEF OnProfile!History, OnProfile!Kind, OnProfile!Sensitive
      <3>3. ASSUME ~hist'.mixed
            PROVE  /\ NoColour(profilePosts')
                   /\ \/ PrefsOf(profilePosts') = {tab.form.prefs}
                      \/ PrefsOf(profilePosts') = PrefsOf(profilePosts)
        BY <1>0, <3>1, <3>2, <3>3, SentWritten DEF Written
      <3> QED
        BY <3>1, <3>3 DEF Written, Agrees
    <2>3. CASE ~(~OnProfile!NeedsStepup(type) \/ tab.belief)
      BY <1>0, <1>1, <2>1, <2>3
      DEF OnProfile!Ask, OnProfile!server, OnProfile!History, OnProfile!Tab, kept
    <2> QED
      BY <2>2, <2>3
  <1>15. CASE OnProfile!closeReauthDialog
    BY <1>0, <1>1, <1>15
    DEF OnProfile!closeReauthDialog, OnProfile!Closed, OnProfile!server, OnProfile!History, OnProfile!Tab, kept
  <1>16. CASE OnProfile!reauthSensitive
    <2>1. /\ tab' = tab /\ row' = row /\ tab.current \in BOOLEAN
          /\ profilePosts' = Append(OnProfile!Deaf(profilePosts),
                                    OnProfile!Request("reauth", 0, tab.form, tab.current))
          /\ ~hist'.mixed => ~hist.mixed
      BY <1>0, <1>16
      DEF OnProfile!reauthSensitive, OnProfile!Sent, OnProfile!server, OnProfile!History, OnProfile!Tab
    <2>2. "reauth" \in OnProfile!Kind \ OnProfile!Writes /\ ~OnProfile!Crossing("reauth", tab.form)
      BY DEF OnProfile!Kind, OnProfile!Writes, OnProfile!Crossing
    <2>3. ~hist'.mixed => /\ NoColour(profilePosts')
                          /\ PrefsOf(profilePosts') = PrefsOf(profilePosts)
      BY <1>0, <2>1, <2>2, SentWritten DEF Written
    <2> QED
      BY <2>1, <2>3 DEF Written, Agrees
  <1>17. CASE OnProfile!startOidcReauth
    BY <1>0, <1>1, <1>17
    DEF OnProfile!startOidcReauth, OnProfile!server, OnProfile!History, OnProfile!Tab, kept
  <1>18. CASE OnProfile!storePendingDraft
    <2>1. /\ tab'.where = "provider" /\ hist'.mixed = hist.mixed
          /\ profilePosts' = OnProfile!Deaf(profilePosts)
      BY <1>0, <1>18 DEF OnProfile!storePendingDraft, OnProfile!Gone, OnProfile!Tab, OnProfile!History
    <2> QED
      BY <1>4, <2>1 DEF Written
  <1>19. CASE OnProfile!Leave
    <2>1. /\ tab'.where = "app" /\ hist'.mixed = hist.mixed
          /\ profilePosts' = OnProfile!Deaf(profilePosts)
      BY <1>0, <1>19 DEF OnProfile!Leave, OnProfile!Gone, OnProfile!Tab, OnProfile!History
    <2> QED
      BY <1>4, <2>1 DEF Written
  <1>20. CASE OnProfile!Open
    <2>1. hist'.mixed = OnProfile!Mixed /\ UNCHANGED <<row, profilePosts>>
      BY <1>0, <1>20 DEF OnProfile!Open, OnProfile!server, OnProfile!History
    <2>2. tab'.form = row
      BY <1>20 DEF OnProfile!Open, OnProfile!Fresh
    <2> QED
      BY <1>2, <2>1, <2>2 DEF Written, Agrees
  <1>21. CASE OnProfile!ProviderRefuses
    <2>1. tab'.where = "app" /\ hist'.mixed = hist.mixed /\ profilePosts' = profilePosts
      BY <1>0, <1>21 DEF OnProfile!ProviderRefuses, OnProfile!Tab, OnProfile!History
    <2> QED
      BY <2>1 DEF Written
  <1>22. CASE OnProfile!ReauthCallback
    <2> DEFINE t == [OnProfile!Fresh EXCEPT !.belief = setup.ttl]
               dr == session.draft
    <2>1. t.form = row
      BY DEF OnProfile!Fresh
    <2>2. CASE dr = None
      <3>1. hist'.mixed = OnProfile!Mixed /\ tab' = t /\ UNCHANGED <<row, profilePosts>>
        BY <1>0, <1>22, <2>2 DEF OnProfile!ReauthCallback, OnProfile!History
      <3> HIDE DEF t
      <3> QED
        BY <1>2, <2>1, <3>1 DEF Written, Agrees
    <2>3. CASE dr # None
      <3> DEFINE s == OnProfile!Restored(t, dr)
                 p == OnProfile!Request(dr.action.type, dr.action.id, s.form, FALSE)
      <3>1. dr.form \in OnProfile!Form /\ dr.action.id \in Nat /\ dr.action.type \in OnProfile!Sensitive
        BY <1>0, <2>3 DEF OnProfile!Session, OnProfile!Draft, OnProfile!Action
      <3>2. /\ tab' = s /\ row' = row /\ profilePosts' = Append(profilePosts, p)
            /\ hist'.mixed = (OnProfile!Mixed \/ (dr.form.prefs # row.prefs))
        BY <1>0, <1>22, <2>3 DEF OnProfile!ReauthCallback, OnProfile!History
      <3>3. s.form = dr.form
        BY DEF OnProfile!Restored, OnProfile!Fresh
      <3>4. /\ p \in OnProfile!Post /\ p.type # "color-mode" /\ p.form = dr.form
        BY <3>1, <3>3
        DEF OnProfile!Request, OnProfile!Post, OnProfile!Kind, OnProfile!Sensitive
      <3> HIDE DEF s, p, t, dr
      <3>5. /\ PrefsOf(profilePosts') = PrefsOf(profilePosts) \union Writing(p)
            /\ NoColour(profilePosts) => NoColour(profilePosts')
        BY <1>0, <3>2, <3>4, AppendedProfile
      <3>6. Writing(p) \subseteq {dr.form.prefs}
        BY <3>4 DEF Writing
      <3> QED
        BY <1>2, <3>2, <3>3, <3>5, <3>6 DEF Written, Agrees
    <2> QED
      BY <2>2, <2>3
  <1>23. CASE OnProfile!LinkCallback
    <2>1. hist'.mixed = OnProfile!Mixed
      BY <1>0, <1>23 DEF OnProfile!LinkCallback, OnProfile!History
    <2> QED
      BY <1>3, <1>23, <2>1 DEF OnProfile!LinkCallback
  <1>24. CASE \E k \in DOMAIN profilePosts : Handled(k)
    <2>1. PICK k \in DOMAIN profilePosts : Handled(k)
      BY <1>24
    <2> DEFINE p == profilePosts[k]
    <2>2. \E ok \in BOOLEAN : OnProfile!Answer(k, ok)
      BY <2>1 DEF Handled, OnProfile!updatePreferences, OnProfile!storeColorMode, OnProfile!update,
             OnProfile!changeAuthenticated, OnProfile!startOidcLink, OnProfile!checkPassword
    <2>3. /\ PrefsOf(profilePosts') \subseteq PrefsOf(profilePosts)
          /\ PrefsOf(profilePosts) = PrefsOf(profilePosts') \union Writing(p)
          /\ NoColour(profilePosts) => NoColour(profilePosts')
      BY <2>1, <2>2, AnsweredWritten
    <2>4. tab' = tab
      BY <2>1 DEF Handled, OnProfile!updatePreferences, OnProfile!storeColorMode, OnProfile!update,
             OnProfile!changeAuthenticated, OnProfile!startOidcLink, OnProfile!checkPassword
    <2>5. ASSUME ~hist'.mixed
          PROVE  /\ ~hist.mixed
                 /\ \/ row'.prefs = row.prefs /\ p.type \notin OnProfile!Writes
                    \/ row'.prefs = p.form.prefs /\ p.type \in OnProfile!Writes
                    \/ p.type = "color-mode"
      <3>1. \A e : OnProfile!Applied(e).mixed = hist.mixed
        BY <1>0 DEF OnProfile!Applied, OnProfile!History
      <3>2. CASE OnProfile!updatePreferences(k)
        BY <1>0, <2>5, <3>2
        DEF OnProfile!updatePreferences, OnProfile!Handling, OnProfile!History, OnProfile!Form,
            OnProfile!Writes
      <3>3. CASE OnProfile!storeColorMode(k)
        BY <2>5, <3>3 DEF OnProfile!storeColorMode, OnProfile!Handling
      <3>4. CASE OnProfile!update(k)
        <4>1. /\ p.type = "profile-submit"
              /\ \/ hist' = [hist EXCEPT !.mixed = TRUE]
                 \/ hist' = hist /\ row' = p.form
                 \/ \E e, c : /\ hist' = OnProfile!Applied(e)
                              /\ row' = [prefs |-> p.form.prefs, contact |-> c]
          BY <3>4 DEF OnProfile!update, OnProfile!Handling
        <4>2. hist' # [hist EXCEPT !.mixed = TRUE]
          BY <1>0, <2>5 DEF OnProfile!History
        <4> HIDE DEF p
        <4>3. hist'.mixed = hist.mixed /\ row'.prefs = p.form.prefs
          BY <3>1, <4>1, <4>2
        <4> QED
          BY <2>5, <4>1, <4>3 DEF OnProfile!Writes
      <3>5. CASE OnProfile!changeAuthenticated(k)
        BY <2>5, <3>1, <3>5
        DEF OnProfile!changeAuthenticated, OnProfile!Handling, OnProfile!Writes
      <3>6. CASE OnProfile!startOidcLink(k)
        BY <2>5, <3>1, <3>6 DEF OnProfile!startOidcLink, OnProfile!Handling, OnProfile!Writes
      <3>7. CASE OnProfile!checkPassword(k)
        BY <1>0, <2>5, <3>7
        DEF OnProfile!checkPassword, OnProfile!Handling, OnProfile!History, OnProfile!Writes
      <3> QED
        BY <2>1, <3>2, <3>3, <3>4, <3>5, <3>6, <3>7 DEF Handled
    <2> HIDE DEF p
    <2>6. ASSUME ~hist'.mixed, tab.where = "profile", ~tab.timer
          PROVE  /\ PrefsOf(profilePosts') \subseteq {tab.form.prefs}
                 /\ PrefsOf(profilePosts') = {} => row'.prefs = tab.form.prefs
      <3>1. NoColour(profilePosts) /\ Agrees
        BY <2>5, <2>6 DEF Written
      <3>2. p.type # "color-mode"
        BY <3>1 DEF NoColour, p
      <3>3. CASE row'.prefs = row.prefs /\ p.type \notin OnProfile!Writes
        BY <2>3, <3>1, <3>3 DEF Agrees, Writing
      <3>4. CASE row'.prefs = p.form.prefs /\ p.type \in OnProfile!Writes
        BY <2>3, <3>1, <3>4 DEF Agrees, Writing
      <3> QED
        BY <2>5, <2>6, <3>2, <3>3, <3>4
    <2> QED
      BY <2>3, <2>4, <2>5, <2>6 DEF Written, Agrees
  <1>25. CASE OnProfile!Arrive
    BY <1>0, <1>1, <1>25
    DEF OnProfile!Arrive, OnProfile!server, OnProfile!Told, OnProfile!History, OnProfile!Tab, kept
  <1>26. CASE OnProfile!ReauthArrives
    <2> DEFINE t == [OnProfile!Told EXCEPT !.belief = setup.ttl, !.current = TRUE,
                                           !.dialog = FALSE, !.pending = None]
    <2>1. t.form = tab.form /\ t.where = tab.where /\ t.timer = tab.timer /\ t.current \in BOOLEAN
      BY <1>0 DEF OnProfile!Told, OnProfile!Tab
    <2>2. tab' = t /\ row' = row
      BY <1>26 DEF OnProfile!ReauthArrives, OnProfile!server
    <2>3. CASE tab.pending = None
      <3>1. UNCHANGED <<profilePosts, hist>>
        BY <1>26, <2>3 DEF OnProfile!ReauthArrives
      <3> HIDE DEF t
      <3> QED
        BY <1>1, <2>1, <2>2, <3>1 DEF kept
    <2>4. CASE tab.pending # None
      <3>1. OnProfile!Sent(tab.pending.type, tab.pending.id, t)
        BY <1>26, <2>4 DEF OnProfile!ReauthArrives
      <3>2. /\ tab.pending.type \in OnProfile!Kind /\ tab.pending.type # "color-mode"
            /\ tab.pending.id \in Nat
        BY <1>0, <2>4 DEF OnProfile!Tab, OnProfile!Action, OnProfile!Kind, OnProfile!Sensitive
      <3> HIDE DEF t
      <3>3. /\ ~hist'.mixed => ~hist.mixed /\ ~OnProfile!Crossing(tab.pending.type, t.form)
            /\ profilePosts' = Append(OnProfile!Deaf(profilePosts),
                 OnProfile!Request(tab.pending.type, tab.pending.id, t.form, t.current))
        BY <1>0, <3>1 DEF OnProfile!Sent, OnProfile!History
      <3>4. ASSUME ~hist'.mixed
            PROVE  /\ NoColour(profilePosts')
                   /\ \/ PrefsOf(profilePosts') = {tab.form.prefs}
                      \/ PrefsOf(profilePosts') = PrefsOf(profilePosts)
        BY <1>0, <2>1, <3>2, <3>3, <3>4, SentWritten DEF Written
      <3> QED
        BY <2>1, <2>2, <3>3, <3>4 DEF Written, Agrees
    <2> QED
      BY <2>3, <2>4
  <1>27. CASE OnProfile!LinkArrives
    <2>1. UNCHANGED <<row, profilePosts>>
      BY <1>27 DEF OnProfile!LinkArrives
    <2>2. \/ hist'.mixed = OnProfile!Mixed /\ tab' = OnProfile!Fresh
          \/ hist' = hist /\ tab'.where = "provider"
      BY <1>0, <1>27 DEF OnProfile!LinkArrives, OnProfile!Gone, OnProfile!Tab, OnProfile!History
    <2> QED
      BY <1>3, <2>1, <2>2 DEF Written
  <1>28. CASE OnProfile!Fail
    <2>1. hist'.mixed
      BY <1>0, <1>28 DEF OnProfile!Fail, OnProfile!History
    <2> QED
      BY <2>1 DEF Written
  <1>29. CASE OnProfile!Expire
    BY <1>0, <1>1, <1>29
    DEF OnProfile!Expire, OnProfile!History, OnProfile!Tab, kept
  <1>30. CASE OnProfile!Impersonate
    BY <1>0, <1>1, <1>30
    DEF OnProfile!Impersonate, OnProfile!History, OnProfile!Tab, kept
  <1>31. CASE OnProfile!ConfirmContact
    <2>1. row'.prefs = row.prefs
      BY <1>0, <1>31 DEF OnProfile!ConfirmContact, OnProfile!Form
    <2> QED
      BY <1>1, <1>31, <2>1 DEF OnProfile!ConfirmContact, kept
  <1> QED
    BY <1>10, <1>11, <1>12, <1>13, <1>14, <1>15, <1>16, <1>17, <1>18, <1>19, <1>20, <1>21, <1>22, <1>23, <1>24, <1>25, <1>26, <1>27, <1>28, <1>29, <1>30, <1>31 DEF OnProfile!Next, Handled

-----------------------------------------------------------------------------
(* The theorems about the profile. *)

\* A step of the tab is a step of the profile, or leaves it as it is.
LEMMA OnProfileStep ==
  ASSUME [PagesNext]_<<opened, vars, profile>>
  PROVE  [OnProfile!Next]_OnProfile!vars
  BY DEF PagesNext, profile, OnProfile!vars

ProfileInv == ProfileTyped /\ Credited /\ Latest /\ Written

LEMMA ProfileInvInit == PagesInit => ProfileInv
  <1> SUFFICES ASSUME OnProfile!Init PROVE ProfileInv
    BY DEF PagesInit
  <1>1. ProfileTyped
    BY ProfileTypedInit
  <1>2. Credited
    BY DEF OnProfile!Init, Credited
  <1>3. Latest
    BY DEF OnProfile!Init, Latest, Waiting, Kept
  <1>4. Written
    <2>1. profilePosts = << >> /\ row.prefs = tab.form.prefs
      BY DEF OnProfile!Init
    <2>2. DOMAIN profilePosts = {}
      BY <2>1
    <2> QED
      BY <2>1, <2>2 DEF Written, Agrees, NoColour, PrefsOf, OnProfile!Outstanding
  <1> QED
    BY <1>1, <1>2, <1>3, <1>4 DEF ProfileInv

LEMMA ProfileInvStep == ProfileInv /\ [PagesNext]_<<opened, vars, profile>> => ProfileInv'
  <1> SUFFICES ASSUME ProfileInv, [PagesNext]_<<opened, vars, profile>> PROVE ProfileInv'
    OBVIOUS
  <1>1. CASE OnProfile!Next
    BY <1>1, ProfileTypedStep, CreditedStep, LatestStep, WrittenStep DEF ProfileInv
  <1>2. CASE UNCHANGED OnProfile!vars
    BY <1>2
    DEF OnProfile!vars, ProfileInv, ProfileTyped, OnProfile!TypeOK, HeardLast, Heard, Credited,
        Latest, Waiting, Kept, Written, Agrees, NoColour, PrefsOf, OnProfile!Outstanding
  <1> QED
    BY <1>1, <1>2, OnProfileStep

\* The profile keeps its types, and what is told of its requests, step-ups, drafts
\* and preferences.
THEOREM ProfileKeepsItsInvariant == PagesSpec => []ProfileInv
  BY ProfileInvInit, ProfileInvStep, PTL DEF PagesSpec

\* Nothing sensitive goes through without a step-up (consumeOneTimeGrant,
\* ensureSensitiveStepup), and nothing at all for an impersonator.
THEOREM SensitiveIsProvenFirst == PagesSpec => []ProvenFirst
  <1>1. ProfileInv => ProvenFirst
    BY DEF ProfileInv, Credited, ProvenFirst, OnProfile!ProvenFirst
  <1> QED
    BY <1>1, ProfileKeepsItsInvariant, PTL

\* What runs after the step-up, in the page or by way of the provider, is what was
\* asked for last and has not been given up, unless the draft was lost, or the action
\* was given up while the draft was on its way (requestSensitiveAction,
\* postPendingDraft, startOidcReauth, closeReauthDialog).
THEOREM StepUpRunsWhatIsAsked == PagesSpec => []RunsWhatIsAsked
  <1>1. ProfileInv => RunsWhatIsAsked
    BY DEF ProfileInv, Latest, RunsWhatIsAsked, OnProfile!RunsWhatIsAsked
  <1> QED
    BY <1>1, ProfileKeepsItsInvariant, PTL

\* At rest the preferences the page shows are the stored ones
\* (schedulePreferencesSave).
THEOREM PreferencesAreSaved == PagesSpec => []PrefsSaved
  <1>1. ProfileInv => PrefsSaved
    <2> SUFFICES ASSUME ProfileInv, tab.where = "profile", ~tab.timer, profilePosts = << >>,
                        ~hist.mixed
                 PROVE  tab.form.prefs = row.prefs
      BY DEF PrefsSaved, OnProfile!PrefsSaved
    <2>1. DOMAIN profilePosts = {}
      OBVIOUS
    <2>2. PrefsOf(profilePosts) = {}
      BY <2>1 DEF PrefsOf, OnProfile!Outstanding
    <2> QED
      BY <2>2 DEF ProfileInv, Written, Agrees
  <1> QED
    BY <1>1, ProfileKeepsItsInvariant, PTL

-----------------------------------------------------------------------------
(* Requests of the lists.  What their rows are is left open. *)

Sequence(ps) == \E S : ps \in Seq(S)
Known(p) == p = [act |-> p.act, row |-> p.row, mark |-> p.mark, live |-> p.live]
Requests(ps) == Sequence(ps) /\ \A k \in DOMAIN ps : Known(ps[k])

LEMMA DeafList ==
  ASSUME NEW ps, Requests(ps)
  PROVE  /\ Requests(Deaf(ps)) /\ Len(Deaf(ps)) = Len(ps) /\ DOMAIN Deaf(ps) = DOMAIN ps
         /\ \A k \in DOMAIN ps : ~Deaf(ps)[k].live /\ Deaf(ps)[k].act = ps[k].act
                                 /\ Deaf(ps)[k].mark = ps[k].mark
  <1>1. PICK S : ps \in Seq(S)
    BY DEF Requests, Sequence
  <1> DEFINE ds == Deaf(ps)
             T == {[p EXCEPT !.live = FALSE] : p \in S}
  <1>2. Len(ps) \in Nat /\ DOMAIN ps = 1 .. Len(ps) /\ \A k \in DOMAIN ps : ps[k] \in S
    BY <1>1
  <1>3. ds = [k \in 1 .. Len(ps) |-> [ps[k] EXCEPT !.live = FALSE]]
    BY <1>2 DEF Deaf
  <1> HIDE DEF ds
  <1>4. ds \in [1 .. Len(ps) -> T]
    BY <1>2, <1>3
  <1>5. ds \in Seq(T) /\ Len(ds) = Len(ps) /\ DOMAIN ds = DOMAIN ps
    BY <1>2, <1>4
  <1>6. ASSUME NEW k \in DOMAIN ps
        PROVE  Known(ds[k]) /\ ~ds[k].live /\ ds[k].act = ps[k].act /\ ds[k].mark = ps[k].mark
    <2>1. ds[k] = [ps[k] EXCEPT !.live = FALSE]
      BY <1>2, <1>3
    <2>2. Known(ps[k])
      BY DEF Requests
    <2>3. ds[k] = [act |-> ps[k].act, row |-> ps[k].row, mark |-> ps[k].mark, live |-> FALSE]
      BY <2>1, <2>2 DEF Known
    <2> QED
      BY <2>3 DEF Known
  <1> QED
    BY <1>5, <1>6 DEF Requests, Sequence, ds

LEMMA NothingSent == \A ps : Requests(ps) => Deaf(ps) \o << >> = Deaf(ps)
  <1> SUFFICES ASSUME NEW ps, Requests(ps) PROVE Deaf(ps) \o << >> = Deaf(ps)
    OBVIOUS
  <1>1. PICK S : Deaf(ps) \in Seq(S)
    BY DeafList DEF Requests, Sequence
  <1> QED
    BY <1>1, ConcatEmptySeq

LEMMA SentList ==
  ASSUME NEW ps, Requests(ps), NEW p, Known(p)
  PROVE  /\ Requests(Deaf(ps) \o <<p>>) /\ Len(Deaf(ps) \o <<p>>) = Len(ps) + 1
         /\ \A k \in DOMAIN (Deaf(ps) \o <<p>>) :
              \/ k = Len(ps) + 1 /\ (Deaf(ps) \o <<p>>)[k] = p
              \/ k \in DOMAIN ps /\ (Deaf(ps) \o <<p>>)[k] = Deaf(ps)[k]
  <1> DEFINE ds == Deaf(ps)
             one == <<p>>
             qs == ds \o one
  <1>1. /\ Requests(ds) /\ Len(ds) = Len(ps) /\ DOMAIN ds = DOMAIN ps
    BY DeafList
  <1>2. PICK S : ds \in Seq(S)
    BY <1>1 DEF Requests, Sequence
  <1>3. Len(ps) \in Nat /\ DOMAIN ps = 1 .. Len(ps)
    BY DEF Requests, Sequence
  <1> HIDE DEF ds
  <1>4. ds \in Seq(S \union {p}) /\ one \in Seq(S \union {p}) /\ Len(one) = 1 /\ one[1] = p
    BY <1>2
  <1> HIDE DEF one
  <1>5. /\ qs \in Seq(S \union {p}) /\ Len(qs) = Len(ps) + 1
        /\ \A k \in 1 .. Len(ps) + 1 :
             qs[k] = IF k <= Len(ps) THEN ds[k] ELSE one[k - Len(ps)]
    <2>1. /\ qs \in Seq(S \union {p}) /\ Len(qs) = Len(ds) + Len(one)
          /\ \A k \in 1 .. Len(ds) + Len(one) :
               qs[k] = IF k <= Len(ds) THEN ds[k] ELSE one[k - Len(ds)]
      BY <1>4, ConcatProperties
    <2> QED
      BY <1>1, <1>4, <2>1
  <1>6. DOMAIN qs = 1 .. Len(ps) + 1
    BY <1>5, LenProperties
  <1> HIDE DEF qs
  <1>7. ASSUME NEW k \in DOMAIN qs
        PROVE  \/ k = Len(ps) + 1 /\ qs[k] = p
               \/ k \in DOMAIN ps /\ qs[k] = ds[k]
    <2>1. CASE k <= Len(ps)
      BY <1>3, <1>5, <1>6, <2>1
    <2>2. CASE ~(k <= Len(ps))
      <3>1. k = Len(ps) + 1 /\ k - Len(ps) = 1
        BY <1>3, <1>6, <2>2
      <3>2. qs[k] = one[k - Len(ps)]
        BY <1>5, <1>6, <2>2
      <3>3. one[k - Len(ps)] = p
        BY <1>4, <3>1
      <3> QED
        BY <3>1, <3>2, <3>3
    <2> QED
      BY <2>1, <2>2
  <1>8. Requests(qs)
    BY <1>1, <1>5, <1>7 DEF Requests, Sequence
  <1> QED
    BY <1>5, <1>7, <1>8 DEF qs, ds, one

LEMMA RemovedList ==
  ASSUME NEW ps, Requests(ps), NEW k \in DOMAIN ps
  PROVE  /\ Requests(RemoveAt(ps, k)) /\ Len(RemoveAt(ps, k)) = Len(ps) - 1
         /\ \A i \in DOMAIN RemoveAt(ps, k) :
              \E j \in DOMAIN ps \ {k} :
                RemoveAt(ps, k)[i] = ps[j] /\ (j = Len(ps) => i = Len(ps) - 1)
  <1>1. PICK S : ps \in Seq(S)
    BY DEF Requests, Sequence
  <1>2. /\ RemoveAt(ps, k) \in Seq(S) /\ Len(RemoveAt(ps, k)) = Len(ps) - 1
        /\ \A i \in DOMAIN RemoveAt(ps, k) :
             \E j \in DOMAIN ps \ {k} :
               RemoveAt(ps, k)[i] = ps[j] /\ (j = Len(ps) => i = Len(ps) - 1)
    BY <1>1, Removed
  <1> QED
    BY <1>2 DEF Requests, Sequence

-----------------------------------------------------------------------------
(* The eleven pages agree with their controllers and queries. *)

Alright(p) ==
  /\ Form[p].fields \subseteq Index[p] \intersect Query[p].where
  /\ "" \notin Query[p].whitelist
  /\ "sortBy" \in Form[p].sends =>
       /\ "sortBy" \in Index[p]
       /\ Table[p].sortable \union {Form[p].order.sortBy} \subseteq Query[p].whitelist
  /\ "sortBy" \notin Form[p].sends =>
       /\ Query[p].order.sortBy = Form[p].order.sortBy
       /\ Table[p].sortable \subseteq {Form[p].order.sortBy}
  /\ "sortOrder" \in Form[p].sends => "sortOrder" \in Index[p]
  /\ "sortOrder" \notin Form[p].sends =>
       Query[p].order.dir = Form[p].order.dir /\ Table[p].sortable = {}
  /\ p # "stock" => Query[p].order = Form[p].order
  /\ Form[p].order.dir \in Direction

LEMMA PagesAlright == \A p \in Page : Alright(p)
  <1>1. Page = {"orders", "invoices", "payments", "adminOrders", "adminInvoices", "users",
                "audit", "adminAudit", "deliveries", "products", "stock"}
    BY DEF Page, Form
  <1>2. Alright("orders")
    BY DEF Alright, Form, Table, Index, Query, OrdersForm, OrdersTable, OrdersIndex, getOrdersForUser,
           Sorted, NewestFirst, Direction
  <1>3. Alright("invoices")
    BY DEF Alright, Form, Table, Index, Query, InvoicesForm, InvoicesTable, InvoicesIndex, getInvoicesForBuyer,
           Sorted, NewestFirst, Direction
  <1>4. Alright("payments")
    BY DEF Alright, Form, Table, Index, Query, PaymentsForm, PaymentsTable, PaymentsIndex, getInvoicesForSupplier,
           Sorted, NewestFirst, Direction
  <1>5. Alright("adminOrders")
    BY DEF Alright, Form, Table, Index, Query, AdminOrdersForm, AdminOrdersTable, AdminOrdersIndex, getAllOrders,
           Sorted, NewestFirst, Direction
  <1>6. Alright("adminInvoices")
    BY DEF Alright, Form, Table, Index, Query, AdminInvoicesForm, AdminInvoicesTable, AdminInvoicesIndex, getAllInvoices,
           Sorted, NewestFirst, Direction
  <1>7. Alright("users")
    BY DEF Alright, Form, Table, Index, Query, UsersForm, UsersTable, UsersIndex, getUsers,
           Sorted, NewestFirst, Direction
  <1>8. Alright("audit")
    BY DEF Alright, Form, Table, Index, Query, AuditForm, AuditTable, AuditIndex, getForUser,
           Sorted, NewestFirst, Direction
  <1>9. Alright("adminAudit")
    BY DEF Alright, Form, Table, Index, Query, AdminAuditForm, AdminAuditTable, AdminAuditIndex, getAll,
           Sorted, NewestFirst, Direction
  <1>10. Alright("deliveries")
    BY DEF Alright, Form, Table, Index, Query, DeliveriesForm, DeliveriesTable, DeliveriesIndex, getRecentDeliveries,
           Sorted, NewestFirst, Direction
  <1>11. Alright("products")
    BY DEF Alright, Form, Table, Index, Query, ProductsForm, ProductsTable, ProductsIndex, getProductsPaginated,
           Sorted, NewestFirst, Direction
  <1>12. Alright("stock")
    BY DEF Alright, Form, Table, Index, Query, StockForm, StockTable, StockIndex, getStockForSupplier,
           Sorted, NewestFirst, Direction
  <1> QED
    BY <1>1, <1>2, <1>3, <1>4, <1>5, <1>6, <1>7, <1>8, <1>9, <1>10, <1>11, <1>12

\* The marks of a row for which the server refuses an act, whatever the other rows are,
\* but for the one that is offered all the same.
Hopeless(act, m) ==
  \/ act \in {"requestPaid", "cancelPaid"} /\ "paid" \in m
  \/ act = "storno" /\ "open" \notin m
  \/ act = "disable" /\ m \intersect Debts # {}
  \/ act = "generateInvoice" /\ "owing" \notin m
  \/ act = "impersonate" /\ m \intersect {"admin", "kiosk", "disabled"} # {}

\* No control is for a row with such a mark.
LEMMA OffersAreMet ==
  \A p \in Page : \A pair \in Table[p].offers : ~Hopeless(pair[2], pair[1])
  <1>1. Page = {"orders", "invoices", "payments", "adminOrders", "adminInvoices", "users",
                "audit", "adminAudit", "deliveries", "products", "stock"}
    BY DEF Page, Form
  <1> DEFINE Met(t) == \A pair \in t.offers : ~Hopeless(pair[2], pair[1])
  <1>2. Met(Table["orders"])
    BY DEF Table, OrdersTable, Hopeless
  <1>3. Met(Table["invoices"])
    BY DEF Table, InvoicesTable, Hopeless
  <1>4. Met(Table["payments"])
    BY DEF Table, PaymentsTable, Hopeless
  <1>5. Met(Table["adminOrders"])
    BY DEF Table, AdminOrdersTable, Hopeless
  <1>6. Met(Table["adminInvoices"])
    BY DEF Table, AdminInvoicesTable, Hopeless
  <1>7. Met(Table["audit"])
    BY DEF Table, AuditTable, Hopeless
  <1>8. Met(Table["adminAudit"])
    BY DEF Table, AdminAuditTable, Hopeless
  <1>9. Met(Table["deliveries"])
    BY DEF Table, DeliveriesTable, Hopeless
  <1>10. Met(Table["products"])
    BY DEF Table, ProductsTable, Hopeless
  <1>11. Met(Table["stock"])
    BY DEF Table, StockTable, Hopeless
  <1>12. Met(Table["users"])
    <2>1. Table["users"].offers = {offer \in UserMark \X UserAct : UserControl(offer[1], offer[2])}
      BY DEF Table, UsersTable
    <2>2. ASSUME NEW m \in UserMark, NEW act \in UserAct, UserControl(m, act), Hopeless(act, m)
          PROVE  FALSE
      <3>1. CASE act = "disable"
        <4>1. m \intersect ({"disabled"} \union Debts) = {}
          BY <2>2, <3>1 DEF UserControl
        <4> QED
          BY <2>2, <3>1, <4>1 DEF Hopeless
      <3>2. CASE act = "generateInvoice"
        <4>1. "owing" \in m
          BY <2>2, <3>2 DEF UserControl
        <4> QED
          BY <2>2, <3>2, <4>1 DEF Hopeless
      <3>3. CASE act = "impersonate"
        <4>1. m \intersect {"admin", "kiosk", "disabled"} = {}
          BY <2>2, <3>3 DEF UserControl
        <4> QED
          BY <2>2, <3>3, <4>1 DEF Hopeless
      <3> QED
        BY <2>2, <3>1, <3>2, <3>3 DEF Hopeless, UserAct
    <2> QED
      BY <2>1, <2>2
  <1> QED
    BY <1>1, <1>2, <1>3, <1>4, <1>5, <1>6, <1>7, <1>8, <1>9, <1>10, <1>11, <1>12

-----------------------------------------------------------------------------
(* Every step of a list keeps what is known of its state. *)

Visits == [kind : Kind, ready : BOOLEAN, to : Address]
Columns(p) == Table[p].sortable \union {Form[p].order.sortBy}
Forms(p) ==
  {f \in [set : SUBSET Form[p].fields, sortBy : Columns(p), dir : Direction] :
     Table[p].sortable = {} => f.dir = Form[p].order.dir}
\* A visit that waits for the server waits for the last request, if it is still there.
Awaited(ps, v) ==
  \A k \in DOMAIN ps : ps[k].live =>
    /\ k = Len(ps) /\ v # None /\ ~v.ready
    /\ ps[k].act = "delivery" <=> v.kind = "delivery"
AnyCode(q) == q = [open |-> q.open, loading |-> q.loading, asked |-> q.asked, code |-> q.code,
                   crossed |-> q.crossed]

ListTyped ==
  /\ page \in Page /\ DOMAIN table \subseteq Row /\ form \in Forms(page)
  /\ applied \in Params /\ url \in Address /\ shown.of \in Address
  /\ visit \in Visits \union {None}
  /\ Requests(posts) /\ Awaited(posts, visit)
  /\ quick \in [full : BOOLEAN, submitting : BOOLEAN] /\ delivered \in Nat
  /\ dialog # None => Known(dialog) /\ dialog.act # "delivery"

LEMMA PagesOf ==
  ASSUME NEW p \in Page
  PROVE  /\ Form[p].fields \subseteq Field /\ Columns(p) \subseteq Column
         /\ Form[p].order.dir \in Direction /\ Default(p) \in Forms(p)
  <1>1. Form[p].fields \subseteq Field /\ Columns(p) \subseteq Column
    <2>1. Form[p].fields \in {Form[q].fields : q \in Page}
      OBVIOUS
    <2>2. Table[p].sortable \in {Table[q].sortable : q \in Page}
      OBVIOUS
    <2>3. Form[p].order.sortBy \in {Form[q].order.sortBy : q \in Page}
      OBVIOUS
    <2>4. Form[p].fields \subseteq Field
      BY <2>1 DEF Field
    <2>5. Table[p].sortable \subseteq Column
      BY <2>2 DEF Column
    <2>6. Form[p].order.sortBy \in Column
      BY <2>3 DEF Column
    <2> QED
      BY <2>4, <2>5, <2>6 DEF Columns
  <1>2. Form[p].order.dir \in Direction
    BY PagesAlright DEF Alright
  <1> QED
    BY <1>1, <1>2 DEF Default, Forms, Columns

LEMMA BuiltParams ==
  ASSUME page \in Page, NEW f \in Forms(page)
  PROVE  Built(f) \in Params
  <1>1. f.set \in SUBSET Field /\ f.sortBy \in Column \union {""} /\ f.dir \in Direction \union {""}
    BY PagesOf DEF Forms
  <1> QED
    BY <1>1 DEF Built, Params

LEMMA PlainAddress ==
  /\ Plain \in Address /\ NoParams \in Params
  /\ \A q \in Params : [Plain EXCEPT !.q = q] \in Address
  <1>1. NoParams \in Params
    BY DEF NoParams, Params
  <1>2. \A q \in Params : [q |-> q, page |-> 1, carried |-> FALSE] \in Address
    BY DEF Address
  <1>3. Plain \in Address
    BY <1>1, <1>2 DEF Plain
  <1>4. \A ps \in Params : \A a \in Address : [a EXCEPT !.q = ps] \in Address
    BY DEF Address
  <1> QED
    BY <1>1, <1>3, <1>4

LEMMA TurnedForm ==
  ASSUME page \in Page, form \in Forms(page), NEW c \in Table[page].sortable
  PROVE  Turned(c) \in Forms(page)
  BY DEF Turned, Forms, Columns, Direction

\* The last page is one of a finite table.
LEMMA LastPageNat ==
  ASSUME ListTyped, NEW fs
  PROVE  LastPage(fs) \in Nat \ {0}
  <1>1. IsFiniteSet(Found(fs))
    <2>1. Found(fs) \subseteq Row
      BY DEF Found, ListTyped
    <2> QED
      BY <2>1, FS_Subset, ListsAssumption
  <1>2. CASE Found(fs) = {}
    BY <1>2 DEF LastPage
  <1>3. CASE Found(fs) # {}
    <2> DEFINE n == Cardinality(Found(fs))
    <2>1. n \in Nat /\ n # 0
      BY <1>1, <1>3, FS_CardinalityType, FS_EmptySet
    <2>2. PerPage \in Nat /\ PerPage >= 1
      BY ListsAssumption
    <2> HIDE DEF n
    <2>3. (n + PerPage - 1) \div PerPage \in Nat \ {0}
      BY <2>1, <2>2
    <2> QED
      BY <1>3, <2>3 DEF LastPage, CeilDiv, n
  <1> QED
    BY <1>2, <1>3

\* A request that is given up, sent, or answered.
LEMMA VisitGets ==
  ASSUME ListTyped, NEW kind \in Kind, NEW a \in Address, Visit(Get(kind, a), << >>)
  PROVE  /\ visit' \in Visits /\ visit' # None /\ visit'.ready /\ visit'.kind = kind
         /\ visit'.to = a
         /\ Requests(posts') /\ Awaited(posts', visit') /\ posts' = Deaf(posts)
  <1>1. Requests(posts)
    BY DEF ListTyped
  <1>2. visit' = Get(kind, a) /\ posts' = Deaf(posts)
    BY <1>1, NothingSent DEF Visit
  <1>3. visit' \in Visits /\ visit'.ready /\ visit'.kind = kind /\ visit'.to = a
    BY <1>2 DEF Get, Visits
  <1>4. visit' # None
    BY <1>3, ListsAssumption DEF Visits
  <1> QED
    BY <1>1, <1>2, <1>3, <1>4, DeafList DEF Awaited

LEMMA VisitSends ==
  ASSUME ListTyped, NEW p, Known(p), Send(p)
  PROVE  /\ visit' \in Visits /\ visit' # None /\ ~visit'.ready
         /\ visit'.kind = (IF p.act = "delivery" THEN "delivery" ELSE "act")
         /\ Requests(posts') /\ Awaited(posts', visit') /\ posts' = Deaf(posts) \o <<p>>
  <1>1. Requests(posts)
    BY DEF ListTyped
  <1>2. /\ visit' = [kind |-> IF p.act = "delivery" THEN "delivery" ELSE "act",
                     ready |-> FALSE, to |-> Plain]
        /\ posts' = Deaf(posts) \o <<p>>
    BY DEF Send, Visit
  <1>3. /\ visit' \in Visits /\ ~visit'.ready
        /\ visit'.kind = (IF p.act = "delivery" THEN "delivery" ELSE "act")
    BY <1>2, PlainAddress DEF Visits, Kind
  <1>4. visit' # None
    BY <1>3, ListsAssumption DEF Visits
  <1>5. Requests(posts') /\ Len(posts') = Len(posts) + 1
    BY <1>1, <1>2, SentList
  <1>6. ASSUME NEW k \in DOMAIN posts', posts'[k].live
        PROVE  k = Len(posts') /\ posts'[k] = p
    <2>1. \/ k = Len(posts) + 1 /\ posts'[k] = p
          \/ k \in DOMAIN posts /\ posts'[k] = Deaf(posts)[k]
      BY <1>1, <1>2, SentList
    <2> QED
      BY <1>1, <1>5, <1>6, <2>1, DeafList
  <1> QED
    BY <1>2, <1>3, <1>4, <1>5, <1>6 DEF Awaited

LEMMA VisitAnswers ==
  ASSUME ListTyped, NEW k \in DOMAIN posts, Answered(posts[k]), posts' = RemoveAt(posts, k)
  PROVE  /\ visit' \in Visits \union {None} /\ Requests(posts') /\ Awaited(posts', visit')
         /\ posts[k].live =>
              /\ visit # None /\ ~visit.ready /\ visit'.ready
              /\ visit'.to = ReturnUrl(posts[k].act) /\ visit'.kind = visit.kind
              /\ posts[k].act = "delivery" <=> visit.kind = "delivery"
         /\ ~posts[k].live => visit' = visit
  <1>1. /\ Requests(posts) /\ Awaited(posts, visit) /\ visit \in Visits \union {None}
        /\ url \in Address
    BY DEF ListTyped
  <1>2. ReturnUrl(posts[k].act) \in Address
    BY <1>1, PlainAddress DEF ReturnUrl
  <1>3. posts[k].live =>
          /\ k = Len(posts) /\ visit # None /\ ~visit.ready /\ visit \in Visits
          /\ posts[k].act = "delivery" <=> visit.kind = "delivery"
    BY <1>1 DEF Awaited
  <1>4. CASE posts[k].live
    <2>1. visit' = [visit EXCEPT !.ready = TRUE, !.to = ReturnUrl(posts[k].act)]
      BY <1>4 DEF Answered
    <2>2. /\ visit' \in Visits /\ visit'.ready /\ visit'.to = ReturnUrl(posts[k].act)
          /\ visit'.kind = visit.kind
      BY <1>2, <1>3, <1>4, <2>1 DEF Visits
    <2>3. ASSUME NEW i \in DOMAIN posts' PROVE ~posts'[i].live
      <3>1. PICK j \in DOMAIN posts \ {k} : posts'[i] = posts[j]
        BY <1>1, RemovedList
      <3> QED
        BY <1>1, <1>3, <1>4, <3>1 DEF Awaited
    <2> QED
      BY <1>1, <1>3, <1>4, <2>2, <2>3, RemovedList DEF Awaited
  <1>5. CASE ~posts[k].live
    <2>1. visit' = visit
      BY <1>5 DEF Answered
    <2>2. ASSUME NEW i \in DOMAIN posts', posts'[i].live
          PROVE  /\ i = Len(posts') /\ visit # None /\ ~visit.ready
                 /\ posts'[i].act = "delivery" <=> visit.kind = "delivery"
      <3>1. PICK j \in DOMAIN posts \ {k} : posts'[i] = posts[j] /\ (j = Len(posts) => i = Len(posts) - 1)
        BY <1>1, RemovedList
      <3>2. Len(posts') = Len(posts) - 1
        BY <1>1, RemovedList
      <3> QED
        BY <1>1, <2>2, <3>1, <3>2 DEF Awaited
    <2> QED
      BY <1>1, <1>5, <2>1, <2>2, RemovedList DEF Awaited
  <1> QED
    BY <1>4, <1>5

\* An answer that never comes leaves the visit as it is.
LEMMA VisitStays ==
  ASSUME ListTyped, NEW k \in DOMAIN posts, visit' = visit, posts' = RemoveAt(posts, k)
  PROVE  visit' \in Visits \union {None} /\ Requests(posts') /\ Awaited(posts', visit')
  <1>1. Requests(posts) /\ Awaited(posts, visit) /\ visit \in Visits \union {None}
    BY DEF ListTyped
  <1>2. ASSUME NEW i \in DOMAIN posts', posts'[i].live
        PROVE  /\ i = Len(posts') /\ visit # None /\ ~visit.ready
               /\ posts'[i].act = "delivery" <=> visit.kind = "delivery"
    <2>1. PICK j \in DOMAIN posts \ {k} : posts'[i] = posts[j] /\ (j = Len(posts) => i = Len(posts) - 1)
      BY <1>1, RemovedList
    <2>2. Len(posts') = Len(posts) - 1
      BY <1>1, RemovedList
    <2> QED
      BY <1>1, <1>2, <2>1, <2>2 DEF Awaited
  <1> QED
    BY <1>1, <1>2, RemovedList DEF Awaited

LEMMA LoadTyped ==
  ASSUME ListTyped, NEW a \in Address, Load(a), page' = page, form' \in Forms(page),
         applied' \in Params
  PROVE  ListTyped'
  <1>1. Visit(Get("list", a), << >>) /\ UNCHANGED <<table, delivered, shown, url, dialog>>
    BY DEF Load, server
  <1>2. quick' \in [full : BOOLEAN, submitting : BOOLEAN]
    BY DEF Load, ListTyped
  <1>3. visit' \in Visits /\ Requests(posts') /\ Awaited(posts', visit')
    BY <1>1, VisitGets DEF Kind
  <1> QED
    BY <1>1, <1>2, <1>3 DEF ListTyped

LEMMA ApplyTyped ==
  ASSUME ListTyped, NEW f \in Forms(page), applyFilters(f), page' = page
  PROVE  ListTyped'
  <1> DEFINE q == Built(f)
             a == [q |-> q, page |-> PageFor(q),
                   carried |-> PageFor(q) > 1 /\ (applied.set # shown.of.q.set \/ shown.of.carried)]
  <1>1. q \in Params
    BY BuiltParams DEF ListTyped
  <1>2. shown.of.page \in Nat \ {0} /\ shown.of.carried \in BOOLEAN
    BY DEF ListTyped, Address
  <1>3. a \in Address
    BY <1>1, <1>2 DEF PageFor, Address
  <1>4. Load(a) /\ form' = f /\ applied' = q
    BY DEF applyFilters
  <1> HIDE DEF a, q
  <1> QED
    BY <1>1, <1>3, <1>4, LoadTyped

LEMMA ListTypedStep ==
  ASSUME ListTyped, Next
  PROVE  ListTyped'
  <1>0. /\ page \in Page /\ DOMAIN table \subseteq Row /\ form \in Forms(page)
        /\ applied \in Params /\ url \in Address /\ shown.of \in Address
        /\ visit \in Visits \union {None}
        /\ Requests(posts) /\ Awaited(posts, visit)
        /\ quick \in [full : BOOLEAN, submitting : BOOLEAN] /\ delivered \in Nat
        /\ dialog # None => Known(dialog) /\ dialog.act # "delivery"
    BY DEF ListTyped
  <1>10. CASE \E x \in Field : ChooseFilter(x)
    <2>1. PICK x \in Form[page].fields :
            form' = [form EXCEPT !.set = IF x \in @ THEN @ \ {x} ELSE @ \union {x}]
      BY <1>10 DEF ChooseFilter
    <2>2. form' \in Forms(page)
      BY <1>0, <2>1 DEF Forms
    <2> QED
      BY <1>0, <1>10, <2>2 DEF ChooseFilter, Touch, Move, server, ListTyped
  <1>11. CASE Apply
    BY <1>0, <1>11, ApplyTyped DEF Apply, Touch, Move
  <1>12. CASE navigateClear
    <2>1. Default(page) \in Forms(page)
      BY <1>0, PagesOf
    <2>2. Built(Default(page)) \in Params
      BY <1>0, <2>1, BuiltParams
    <2>3. [Plain EXCEPT !.q = Built(Default(page))] \in Address
      BY <2>2, PlainAddress
    <2> QED
      BY <1>12, <2>1, <2>2, <2>3, LoadTyped DEF navigateClear, Touch, Move
  <1>13. CASE changeInvitePage
    <2> DEFINE a == [Plain EXCEPT !.q = Built(form)]
    <2>1. Built(form) \in Params
      BY <1>0, BuiltParams
    <2>2. a \in Address
      BY <2>1, PlainAddress
    <2>3. Visit(Get("partial", a), << >>)
      BY <1>13 DEF changeInvitePage
    <2> HIDE DEF a
    <2>4. visit' \in Visits /\ Requests(posts') /\ Awaited(posts', visit')
      BY <2>2, <2>3, VisitGets DEF Kind
    <2> QED
      BY <1>0, <1>13, <2>4 DEF changeInvitePage, Touch, Move, server, ListTyped
  <1>14. CASE \E m \in 1..shown.last : onPageChange(m)
    <2>1. PICK m \in 1..shown.last : onPageChange(m)
      BY <1>14
    <2> DEFINE a == [q |-> Built(form), page |-> m,
                     carried |-> m > 1 /\ Built(form).set # shown.of.q.set]
    <2>2. Built(form) \in Params /\ m \in Nat \ {0}
      BY <1>0, BuiltParams
    <2>3. a \in Address
      BY <2>2 DEF Address
    <2>4. Load(a) /\ page' = page /\ UNCHANGED <<form, applied>>
      BY <2>1 DEF onPageChange, Touch, Move
    <2> HIDE DEF a
    <2> QED
      BY <1>0, <2>3, <2>4, LoadTyped
  <1>15. CASE \E c \in Column : onSort(c)
    <2>1. PICK c \in Column : onSort(c)
      BY <1>15
    <2>2. c \in Table[page].sortable /\ page' = page
      BY <2>1 DEF onSort, Touch, Move
    <2>3. Turned(c) \in Forms(page)
      BY <1>0, <2>2, TurnedForm
    <2>4. CASE applyFilters(Turned(c))
      BY <2>2, <2>3, <2>4, ApplyTyped
    <2>5. CASE navigateSort(Turned(c))
      <3>1. Built(Turned(c)) \in Params
        BY <1>0, <2>3, BuiltParams
      <3>2. [Plain EXCEPT !.q = Built(Turned(c))] \in Address
        BY <3>1, PlainAddress
      <3> QED
        BY <1>0, <2>2, <2>3, <2>5, <3>2, LoadTyped DEF navigateSort
    <2> QED
      BY <2>1, <2>4, <2>5 DEF onSort
  <1>16. CASE \E act \in Act, k \in DOMAIN shown.rows : Press(act, k)
    <2>1. PICK act \in Act, k \in DOMAIN shown.rows : Press(act, k)
      BY <1>16
    <2>2. Known(Post(act, shown.rows[k])) /\ Send(Post(act, shown.rows[k]))
      BY <2>1 DEF Press, Known, Post
    <2>3. visit' \in Visits /\ Requests(posts') /\ Awaited(posts', visit')
      BY <2>2, VisitSends
    <2> QED
      BY <1>0, <2>1, <2>3 DEF Press, Touch, Move, server, ListTyped
  <1>17. CASE \E act \in Act, k \in DOMAIN shown.rows : AskFirst(act, k)
    <2>1. PICK act \in Act, k \in DOMAIN shown.rows : AskFirst(act, k)
      BY <1>17
    <2>2. Known(dialog') /\ dialog'.act # "delivery"
      BY <2>1 DEF AskFirst, Confirmed, Known, Post
    <2> QED
      BY <1>0, <2>1, <2>2 DEF AskFirst, Touch, Move, server, ListTyped
  <1>18. CASE Accept
    <2>1. visit' \in Visits /\ Requests(posts') /\ Awaited(posts', visit')
      BY <1>0, <1>18, VisitSends DEF Accept
    <2> QED
      BY <1>0, <1>18, <2>1 DEF Accept, Move, server, ListTyped
  <1>19. CASE Reject
    BY <1>0, <1>19 DEF Reject, Move, server, ListTyped
  <1>20. CASE \E k \in DOMAIN posts : Handle(k)
    <2>1. PICK k \in DOMAIN posts : Handle(k)
      BY <1>20
    <2>2. (visit' = visit \/ Answered(posts[k])) /\ posts' = RemoveAt(posts, k)
      BY <2>1 DEF Handle, Without
    <2>3. visit' \in Visits \union {None} /\ Requests(posts') /\ Awaited(posts', visit')
      BY <2>2, VisitAnswers, VisitStays
    <2>4. DOMAIN table' \subseteq DOMAIN table
      BY <2>1 DEF Handle, Became
    <2> QED
      BY <1>0, <2>1, <2>3, <2>4 DEF Handle, ListTyped
  <1>21. CASE \E k \in DOMAIN posts : store(k)
    <2>1. PICK k \in DOMAIN posts : store(k)
      BY <1>21
    <2>2. Answered(posts[k]) /\ posts' = RemoveAt(posts, k)
      BY <2>1 DEF store, Without
    <2>3. visit' \in Visits \union {None} /\ Requests(posts') /\ Awaited(posts', visit')
      BY <2>2, VisitAnswers
    <2> QED
      BY <1>0, <2>1, <2>3 DEF store, ListTyped
  <1>22. CASE Fill
    BY <1>0, <1>22 DEF Fill, Touch, Move, ListTyped
  <1>23. CASE \E byEnter \in BOOLEAN : submitQuickDelivery(byEnter)
    <2> DEFINE p == [act |-> "delivery", row |-> None, mark |-> None, live |-> TRUE]
    <2>1. Known(p) /\ Send(p)
      BY <1>23 DEF submitQuickDelivery, Known
    <2> HIDE DEF p
    <2>2. visit' \in Visits /\ Requests(posts') /\ Awaited(posts', visit')
      BY <2>1, VisitSends
    <2>3. quick' \in [full : BOOLEAN, submitting : BOOLEAN]
      BY <1>0, <1>23 DEF submitQuickDelivery
    <2> QED
      BY <1>0, <1>23, <2>2, <2>3 DEF submitQuickDelivery, Touch, Move, server, ListTyped
  <1>24. CASE Arrive
    <2>1. visit \in Visits /\ visit.ready /\ visit' = None /\ url' = visit.to
      BY <1>0, <1>24 DEF Arrive
    <2>2. shown'.of \in Address
      BY <1>0, <1>24, <2>1 DEF Arrive, Listed, Visits
    <2>3. quick' \in [full : BOOLEAN, submitting : BOOLEAN]
      BY <1>0, <1>24 DEF Arrive, FormCleared
    <2>4. Awaited(posts', visit')
      BY <1>0, <1>24 DEF Arrive, Awaited
    <2> QED
      BY <1>0, <1>24, <2>1, <2>2, <2>3, <2>4 DEF Arrive, server, Visits, ListTyped
  <1>25. CASE Fail
    <2>1. visit' = None
      BY <1>25 DEF Fail
    <2>2. Requests(posts') /\ \A k \in DOMAIN posts' : ~posts'[k].live
      <3>1. CASE posts' = Deaf(posts)
        BY <1>0, <3>1, DeafList
      <3>2. ASSUME NEW k \in DOMAIN posts, posts[k].live, posts' = RemoveAt(posts, k)
            PROVE  Requests(posts') /\ \A i \in DOMAIN posts' : ~posts'[i].live
        BY <1>0, <3>2, RemovedList DEF Awaited
      <3> QED
        BY <1>25, <3>1, <3>2 DEF Fail
    <2>3. Awaited(posts', visit')
      BY <2>2 DEF Awaited
    <2>4. quick' \in [full : BOOLEAN, submitting : BOOLEAN]
      BY <1>0, <1>25 DEF Fail, FormStays
    <2> QED
      BY <1>0, <1>25, <2>1, <2>2, <2>3, <2>4 DEF Fail, server, ListTyped
  <1>26. CASE \E k \in DOMAIN shown.rows : showQr(k)
    BY <1>0, <1>26 DEF showQr, Touch, Move, server, ListTyped
  <1>27. CASE CloseQr
    BY <1>0, <1>27 DEF CloseQr, Move, server, ListTyped
  <1>28. CASE \E k \in DOMAIN fetches : QrAnswer(k)
    BY <1>0, <1>28 DEF QrAnswer, server, ListTyped
  <1>29. CASE \E r \in Row : Elsewhere(r)
    <2>1. DOMAIN table' \subseteq DOMAIN table
      BY <1>29 DEF Elsewhere, Became
    <2> QED
      BY <1>0, <1>29, <2>1 DEF Elsewhere, ListTyped
  <1> QED
    BY <1>10, <1>11, <1>12, <1>13, <1>14, <1>15, <1>16, <1>17, <1>18, <1>19, <1>20, <1>21, <1>22, <1>23, <1>24, <1>25, <1>26, <1>27, <1>28, <1>29 DEF Next

LEMMA ListTypedInit ==
  ASSUME Init
  PROVE  ListTyped
  <1>1. page \in Page /\ DOMAIN table \subseteq Row
    BY DEF Init
  <1>2. Default(page) \in Forms(page) /\ Built(Default(page)) \in Params
    BY <1>1, PagesOf, BuiltParams
  <1>3. Plain \in Address /\ shown.of = Plain
    BY PlainAddress DEF Init, Listed
  <1>4. posts = << >> /\ Requests(posts) /\ Awaited(posts, visit)
    <2>1. posts = << >> /\ posts \in Seq({}) /\ DOMAIN posts = {}
      BY DEF Init
    <2> QED
      BY <2>1 DEF Requests, Sequence, Awaited
  <1>5. dialog # None => Known(dialog) /\ dialog.act # "delivery"
    BY DEF Init, Linked, Known
  <1>6. quick \in [full : BOOLEAN, submitting : BOOLEAN] /\ delivered \in Nat
    BY DEF Init
  <1> QED
    BY <1>1, <1>2, <1>3, <1>4, <1>5, <1>6 DEF Init, ListTyped

-----------------------------------------------------------------------------
(* The payment code. *)

\* Unless the code of another was on its way when the dialog opened, all codes on
\* their way are of its invoice.
Coded ==
  /\ AnyCode(qr) /\ Sequence(fetches)
  /\ ~qr.crossed => /\ \A k \in DOMAIN fetches : fetches[k] = qr.asked
                    /\ ~qr.loading => qr.code \in {None, qr.asked}

LEMMA CodedStep ==
  ASSUME Coded, Next
  PROVE  Coded'
  <1>1. UNCHANGED qrVars => Coded'
    BY DEF qrVars, Coded, AnyCode, Sequence
  <1>10. CASE \E x \in Field : ChooseFilter(x)
    BY <1>1, <1>10 DEF ChooseFilter
  <1>11. CASE Apply
    BY <1>1, <1>11 DEF Apply, applyFilters, Load
  <1>12. CASE navigateClear
    BY <1>1, <1>12 DEF navigateClear, Load
  <1>13. CASE changeInvitePage
    BY <1>1, <1>13 DEF changeInvitePage
  <1>14. CASE \E m \in 1..shown.last : onPageChange(m)
    BY <1>1, <1>14 DEF onPageChange, Load
  <1>15. CASE \E c \in Column : onSort(c)
    BY <1>1, <1>15 DEF onSort, applyFilters, navigateSort, Load
  <1>16. CASE \E act \in Act, k \in DOMAIN shown.rows : Press(act, k)
    BY <1>1, <1>16 DEF Press
  <1>17. CASE \E act \in Act, k \in DOMAIN shown.rows : AskFirst(act, k)
    BY <1>1, <1>17 DEF AskFirst
  <1>18. CASE Accept
    BY <1>1, <1>18 DEF Accept
  <1>19. CASE Reject
    BY <1>1, <1>19 DEF Reject
  <1>20. CASE \E k \in DOMAIN posts : Handle(k)
    BY <1>1, <1>20 DEF Handle
  <1>21. CASE \E k \in DOMAIN posts : store(k)
    BY <1>1, <1>21 DEF store, qrVars
  <1>22. CASE Fill
    BY <1>1, <1>22 DEF Fill, qrVars
  <1>23. CASE \E byEnter \in BOOLEAN : submitQuickDelivery(byEnter)
    BY <1>1, <1>23 DEF submitQuickDelivery
  <1>24. CASE Arrive
    BY <1>1, <1>24 DEF Arrive
  <1>25. CASE Fail
    BY <1>1, <1>25 DEF Fail
  <1>26. CASE \E k \in DOMAIN shown.rows : showQr(k)
    <2>1. PICK k \in DOMAIN shown.rows : showQr(k)
      BY <1>26
    <2> DEFINE id == shown.rows[k].id
    <2>2. /\ qr' = [open |-> TRUE, loading |-> TRUE, asked |-> id, code |-> qr.code,
                    crossed |-> fetches # << >>]
          /\ fetches' = Append(fetches, id)
      BY <2>1 DEF showQr, Coded, AnyCode
    <2> HIDE DEF id
    <2>3. PICK S : fetches \in Seq(S)
      BY DEF Coded, Sequence
    <2>4. fetches \in Seq(S \union {id})
      BY <2>3
    <2>5. fetches' \in Seq(S \union {id})
      BY <2>2, <2>4
    <2>6. AnyCode(qr') /\ qr'.loading
      BY <2>2 DEF AnyCode
    <2>7. ASSUME ~qr'.crossed, NEW j \in DOMAIN fetches'
          PROVE  fetches'[j] = qr'.asked
      <3>1. fetches = << >>
        BY <2>2, <2>7
      <3>2. fetches' = <<id>>
        BY <2>2, <3>1
      <3> QED
        BY <2>2, <2>7, <3>2
    <2> QED
      BY <2>5, <2>6, <2>7 DEF Coded, Sequence
  <1>27. CASE CloseQr
    <2>1. /\ qr' = [qr EXCEPT !.open = FALSE] /\ fetches' = fetches
      BY <1>27 DEF CloseQr
    <2>2. qr' = [open |-> FALSE, loading |-> qr.loading, asked |-> qr.asked, code |-> qr.code,
                 crossed |-> qr.crossed]
      BY <2>1 DEF Coded, AnyCode
    <2> QED
      BY <2>1, <2>2 DEF Coded, AnyCode, Sequence
  <1>28. CASE \E k \in DOMAIN fetches : QrAnswer(k)
    <2>1. PICK k \in DOMAIN fetches : QrAnswer(k)
      BY <1>28
    <2>2. PICK S : fetches \in Seq(S)
      BY DEF Coded, Sequence
    <2>3. fetches' = RemoveAt(fetches, k)
      BY <2>1 DEF QrAnswer
    <2>4. /\ fetches' \in Seq(S)
          /\ \A i \in DOMAIN fetches' : \E j \in DOMAIN fetches : fetches'[i] = fetches[j]
      BY <2>2, <2>3, Removed
    <2>5. \E c \in {None, fetches[k]} :
            qr' = [open |-> qr.open, loading |-> FALSE, asked |-> qr.asked, code |-> c,
                   crossed |-> qr.crossed]
      BY <2>1 DEF QrAnswer, CodeComes, CodeFails, Coded, AnyCode
    <2>6. AnyCode(qr') /\ qr'.crossed = qr.crossed /\ qr'.asked = qr.asked
          /\ qr'.code \in {None, fetches[k]}
      BY <2>5 DEF AnyCode
    <2> QED
      BY <2>4, <2>6 DEF Coded, Sequence
  <1>29. CASE \E r \in Row : Elsewhere(r)
    BY <1>1, <1>29 DEF Elsewhere
  <1> QED
    BY <1>10, <1>11, <1>12, <1>13, <1>14, <1>15, <1>16, <1>17, <1>18, <1>19, <1>20, <1>21, <1>22, <1>23, <1>24, <1>25, <1>26, <1>27, <1>28, <1>29 DEF Next

-----------------------------------------------------------------------------
(* Nothing the table offers is refused for the row it was offered for. *)

Fits(p) == p.act = "delivery" \/ ~Hopeless(p.act, p.mark)
Fitting ==
  /\ \A k \in DOMAIN posts : Fits(posts[k])
  /\ dialog # None => Fits(dialog)

LEMMA OfferFits ==
  ASSUME page \in Page, NEW act, NEW r, Offered(act, r)
  PROVE  Fits(Post(act, r))
  <1> DEFINE pair == <<r.mark, act>>
  <1>1. pair \in Table[page].offers /\ pair[2] = act /\ pair[1] = r.mark
    BY DEF Offered
  <1>2. ~Hopeless(act, r.mark)
    BY <1>1, OffersAreMet
  <1> QED
    BY <1>2 DEF Fits, Post

LEMMA FittingStep ==
  ASSUME ListTyped, Fitting, Next
  PROVE  Fitting'
  <1>0. page \in Page /\ Requests(posts)
    BY DEF ListTyped
  <1>1. UNCHANGED <<posts, dialog>> => Fitting'
    BY DEF Fitting
  <1>2. ASSUME NEW ps, ps = Deaf(posts) PROVE \A k \in DOMAIN ps : Fits(ps[k])
    BY <1>0, <1>2, DeafList DEF Fitting, Fits
  <1>3. posts' = Deaf(posts) /\ dialog' = dialog => Fitting'
    BY <1>2 DEF Fitting
  <1>4. ASSUME NEW p, Known(p), Fits(p), Send(p),
               dialog' # None => dialog' = dialog
        PROVE  Fitting'
    <2>1. posts' = Deaf(posts) \o <<p>>
      BY <1>4 DEF Send, Visit
    <2>2. ASSUME NEW k \in DOMAIN posts' PROVE Fits(posts'[k])
      <3>1. \/ k = Len(posts) + 1 /\ posts'[k] = p
            \/ k \in DOMAIN posts /\ posts'[k] = Deaf(posts)[k]
        BY <1>0, <1>4, <2>1, SentList
      <3> QED
        BY <1>0, <1>2, <1>4, <3>1, DeafList
    <2> QED
      BY <1>4, <2>2 DEF Fitting
  <1>5. ASSUME NEW k \in DOMAIN posts, posts' = RemoveAt(posts, k), dialog' = dialog
        PROVE  Fitting'
    <2>1. \A i \in DOMAIN posts' : \E j \in DOMAIN posts : posts'[i] = posts[j]
      BY <1>0, <1>5, RemovedList
    <2> QED
      BY <1>5, <2>1 DEF Fitting
  <1>6. ASSUME NEW a, Load(a) PROVE Fitting'
    <2>1. posts' = Deaf(posts) /\ dialog' = dialog
      BY <1>0, <1>6, NothingSent DEF Load, Visit, server
    <2> QED
      BY <1>3, <2>1
  <1>10. CASE \E x \in Field : ChooseFilter(x)
    BY <1>1, <1>10 DEF ChooseFilter, server
  <1>11. CASE Apply
    BY <1>6, <1>11 DEF Apply, applyFilters
  <1>12. CASE navigateClear
    BY <1>6, <1>12 DEF navigateClear
  <1>13. CASE changeInvitePage
    <2>1. posts' = Deaf(posts) /\ dialog' = dialog
      BY <1>0, <1>13, NothingSent DEF changeInvitePage, Visit, server
    <2> QED
      BY <1>3, <2>1
  <1>14. CASE \E m \in 1..shown.last : onPageChange(m)
    BY <1>6, <1>14 DEF onPageChange
  <1>15. CASE \E c \in Column : onSort(c)
    BY <1>6, <1>15 DEF onSort, applyFilters, navigateSort
  <1>16. CASE \E act \in Act, k \in DOMAIN shown.rows : Press(act, k)
    <2>1. PICK act \in Act, k \in DOMAIN shown.rows : Press(act, k)
      BY <1>16
    <2>2. Known(Post(act, shown.rows[k])) /\ Send(Post(act, shown.rows[k]))
      BY <2>1 DEF Press, Known, Post
    <2>3. Fits(Post(act, shown.rows[k]))
      BY <1>0, <2>1, OfferFits DEF Press
    <2>4. dialog' = dialog
      BY <2>1 DEF Press
    <2> QED
      BY <1>4, <2>2, <2>3, <2>4
  <1>17. CASE \E act \in Act, k \in DOMAIN shown.rows : AskFirst(act, k)
    <2>1. PICK act \in Act, k \in DOMAIN shown.rows : AskFirst(act, k)
      BY <1>17
    <2>2. Fits(Post(act, shown.rows[k]))
      BY <1>0, <2>1, OfferFits DEF AskFirst, Confirmed
    <2> QED
      BY <2>1, <2>2 DEF AskFirst, server, Fitting
  <1>18. CASE Accept
    <2>1. Known(dialog) /\ Fits(dialog) /\ Send(dialog)
      BY <1>18 DEF Accept, ListTyped, Fitting
    <2>2. dialog' = None
      BY <1>18 DEF Accept
    <2> QED
      BY <1>4, <2>1, <2>2
  <1>19. CASE Reject
    BY <1>19 DEF Reject, server, Fitting
  <1>20. CASE \E k \in DOMAIN posts : Handle(k)
    <2>1. PICK k \in DOMAIN posts : Handle(k)
      BY <1>20
    <2>2. posts' = RemoveAt(posts, k) /\ dialog' = dialog
      BY <2>1 DEF Handle, Without
    <2> QED
      BY <1>5, <2>2
  <1>21. CASE \E k \in DOMAIN posts : store(k)
    BY <1>5, <1>21 DEF store, Without, Fitting
  <1>22. CASE Fill
    BY <1>1, <1>22 DEF Fill, server
  <1>23. CASE \E byEnter \in BOOLEAN : submitQuickDelivery(byEnter)
    <2> DEFINE p == [act |-> "delivery", row |-> None, mark |-> None, live |-> TRUE]
    <2>1. Known(p) /\ Fits(p) /\ Send(p)
      BY <1>23 DEF submitQuickDelivery, Known, Fits
    <2>2. dialog' = dialog
      BY <1>23 DEF submitQuickDelivery, server
    <2> HIDE DEF p
    <2> QED
      BY <1>4, <2>1, <2>2
  <1>24. CASE Arrive
    BY <1>1, <1>24 DEF Arrive, server
  <1>25. CASE Fail
    BY <1>3, <1>5, <1>25 DEF Fail, server, Fitting
  <1>26. CASE \E k \in DOMAIN shown.rows : showQr(k)
    BY <1>1, <1>26 DEF showQr, server
  <1>27. CASE CloseQr
    BY <1>1, <1>27 DEF CloseQr, server
  <1>28. CASE \E k \in DOMAIN fetches : QrAnswer(k)
    BY <1>1, <1>28 DEF QrAnswer, server
  <1>29. CASE \E r \in Row : Elsewhere(r)
    BY <1>1, <1>29 DEF Elsewhere, server
  <1> QED
    BY <1>10, <1>11, <1>12, <1>13, <1>14, <1>15, <1>16, <1>17, <1>18, <1>19, <1>20, <1>21, <1>22, <1>23, <1>24, <1>25, <1>26, <1>27, <1>28, <1>29 DEF Next

-----------------------------------------------------------------------------
(* A delivery that was filled in once is made once. *)

Delivering == visit # None /\ visit.kind = "delivery"
Single ==
  /\ Delivering \/ quick.full => page = "stock"
  /\ ~unsure =>
       /\ \A k \in DOMAIN posts : posts[k].act = "delivery" => posts[k].live
       /\ Delivering => quick.full
       /\ quick.full /\ ~(Delivering /\ visit.ready) => delivered = 0
       /\ delivered <= 1

\* A delivery is not one of the buttons next to a row.
LEMMA NoDelivery == \A p \in Page : \A mark : <<mark, "delivery">> \notin Table[p].offers
  <1>1. Page = {"orders", "invoices", "payments", "adminOrders", "adminInvoices", "users",
                "audit", "adminAudit", "deliveries", "products", "stock"}
    BY DEF Page, Form
  <1> QED
    BY <1>1
    DEF Table, OrdersTable, InvoicesTable, PaymentsTable, AdminOrdersTable, AdminInvoicesTable,
        UsersTable, UserAct, AuditTable, AdminAuditTable, DeliveriesTable, ProductsTable, StockTable

LEMMA SingleStep ==
  ASSUME ListTyped, Single, Next
  PROVE  Single'
  <1>0. /\ page \in Page /\ Requests(posts) /\ Awaited(posts, visit)
        /\ visit \in Visits \union {None}
        /\ quick \in [full : BOOLEAN, submitting : BOOLEAN]
    BY DEF ListTyped
  <1>1. UNCHANGED <<page, visit, posts, quick, delivered, unsure>> => Single'
    BY DEF Single, Delivering
  \* Without a delivery on its way, and with the page sure of it, none is left.
  <1>2. ~Delivering /\ ~unsure => \A k \in DOMAIN posts : posts[k].act # "delivery"
    BY DEF Single, Delivering, ListTyped, Awaited
  <1>3. ASSUME posts' = Deaf(posts), ~Delivering, ~unsure
        PROVE  \A k \in DOMAIN posts' : posts'[k].act # "delivery"
    BY <1>0, <1>2, <1>3, DeafList
  <1>4. ASSUME NEW kind \in {"list", "partial"}, NEW a, Visit(Get(kind, a), << >>),
               quick'.full = quick.full, UNCHANGED <<page, delivered>>
        PROVE  Single'
    <2>1. posts' = Deaf(posts) /\ unsure' = (unsure \/ Delivering) /\ ~Delivering'
      BY <1>0, <1>4, NothingSent DEF Visit, Get, Delivering
    <2> QED
      BY <1>3, <1>4, <2>1 DEF Single
  <1>5. ASSUME NEW p, Known(p), Send(p), quick'.full = quick.full, UNCHANGED <<page, delivered>>,
               p.act = "delivery" => p.live /\ quick.full
        PROVE  Single'
    <2>1. /\ unsure' = (unsure \/ Delivering) /\ posts' = Deaf(posts) \o <<p>>
          /\ Delivering' => p.act = "delivery" /\ ~visit'.ready
      <3>1. Visit([kind |-> IF p.act = "delivery" THEN "delivery" ELSE "act",
                   ready |-> FALSE, to |-> Plain], <<p>>)
        BY <1>5 DEF Send
      <3> QED
        BY <3>1 DEF Visit, Delivering
    <2>2. ASSUME ~unsure', NEW k \in DOMAIN posts', posts'[k].act = "delivery"
          PROVE  posts'[k].live
      <3>0. posts' = Deaf(posts) \o <<p>> /\ Requests(posts) /\ Known(p)
        BY <1>0, <1>5, <2>1
      <3>1. \/ posts'[k] = p
            \/ k \in DOMAIN posts /\ posts'[k] = Deaf(posts)[k]
        BY ONLY <3>0, <2>2, SentList
      <3>2. CASE posts'[k] = p
        BY <1>5, <2>2, <3>2
      <3>3. CASE k \in DOMAIN posts /\ posts'[k] = Deaf(posts)[k]
        <4>1. posts[k].act = "delivery"
          BY <1>0, <2>2, <3>3, DeafList
        <4> QED
          BY <1>2, <2>1, <2>2, <3>3, <4>1
      <3> QED
        BY <3>1, <3>2, <3>3
    <2> QED
      BY <1>5, <2>1, <2>2 DEF Single
  <1>6. ASSUME NEW a, Load(a), page' = page PROVE Single'
    BY <1>0, <1>4, <1>6 DEF Load, server
  <1>10. CASE \E x \in Field : ChooseFilter(x)
    BY <1>1, <1>10 DEF ChooseFilter, server, Touch, Move
  <1>11. CASE Apply
    BY <1>6, <1>11 DEF Apply, applyFilters, Touch, Move
  <1>12. CASE navigateClear
    BY <1>6, <1>12 DEF navigateClear, Touch, Move
  <1>13. CASE changeInvitePage
    BY <1>4, <1>13 DEF changeInvitePage, server, Touch, Move
  <1>14. CASE \E m \in 1..shown.last : onPageChange(m)
    BY <1>6, <1>14 DEF onPageChange, Touch, Move
  <1>15. CASE \E c \in Column : onSort(c)
    BY <1>6, <1>15 DEF onSort, applyFilters, navigateSort, Touch, Move
  <1>16. CASE \E act \in Act, k \in DOMAIN shown.rows : Press(act, k)
    <2>1. PICK act \in Act, k \in DOMAIN shown.rows : Press(act, k)
      BY <1>16
    <2> DEFINE p == Post(act, shown.rows[k])
    <2>2. Known(p) /\ Send(p) /\ p.live
      BY <2>1 DEF Press, Known, Post
    <2>3. /\ UNCHANGED <<page, delivered, quick>> /\ p.act # "delivery"
      <3>1. act # "delivery"
        <4>1. Offered(act, shown.rows[k]) /\ act # "showQr"
          BY <2>1 DEF Press
        <4> QED
          BY <1>0, <4>1, NoDelivery DEF Offered
      <3> QED
        BY <2>1, <3>1 DEF Press, server, Touch, Move, Post
    <2> HIDE DEF p
    <2> QED
      BY <1>5, <2>2, <2>3
  <1>17. CASE \E act \in Act, k \in DOMAIN shown.rows : AskFirst(act, k)
    BY <1>1, <1>17 DEF AskFirst, server, Touch, Move
  <1>18. CASE Accept
    <2>1. Known(dialog) /\ dialog.act # "delivery" /\ Send(dialog)
      BY <1>18 DEF Accept, ListTyped
    <2>2. UNCHANGED <<page, quick, delivered>>
      BY <1>18 DEF Accept, server, Move
    <2> QED
      BY <1>5, <2>1, <2>2
  <1>19. CASE Reject
    BY <1>1, <1>19 DEF Reject, server, Touch, Move
  <1>20. CASE \E k \in DOMAIN posts : Handle(k)
    <2>1. PICK k \in DOMAIN posts : Handle(k)
      BY <1>20
    <2>2. /\ visit' = visit \/ Answered(posts[k])
          /\ posts' = RemoveAt(posts, k) /\ posts[k].act # "delivery"
          /\ UNCHANGED <<page, quick, delivered, unsure>>
      BY <2>1 DEF Handle, Without
    <2>3. Delivering' <=> Delivering
      <3>1. CASE visit' = visit
        BY <3>1 DEF Delivering
      <3>2. CASE Answered(posts[k])
        BY <1>0, <2>2, <3>2, VisitAnswers DEF Delivering, Answered, Visits
      <3> QED
        BY <2>2, <3>1, <3>2
    <2>4. Delivering => visit' = visit
      BY <1>0, <2>2, VisitAnswers DEF Delivering
    <2>5. \A i \in DOMAIN posts' : \E j \in DOMAIN posts : posts'[i] = posts[j]
      BY <1>0, <2>2, RemovedList
    <2> QED
      BY <2>2, <2>3, <2>4, <2>5 DEF Single
  <1>21. CASE \E k \in DOMAIN posts : store(k)
    <2>1. PICK k \in DOMAIN posts : store(k)
      BY <1>21
    <2>2. /\ Answered(posts[k]) /\ posts' = RemoveAt(posts, k) /\ posts[k].act = "delivery"
          /\ UNCHANGED <<page, quick, unsure>> /\ delivered' = delivered + 1
      BY <2>1 DEF store, Without
    <2>3. CASE unsure
      <3>1. Delivering' => Delivering
        BY <1>0, <2>2, VisitAnswers DEF Delivering
      <3> QED
        BY <2>2, <2>3, <3>1 DEF Single
    <2>4. CASE ~unsure
      <3>1. posts[k].live /\ k = Len(posts) /\ Delivering /\ ~visit.ready
        BY <1>0, <2>2, <2>4 DEF Single, Awaited, Delivering
      <3>2. delivered = 0 /\ quick.full
        BY <2>4, <3>1 DEF Single
      <3>3. Delivering' /\ visit'.ready
        <4>1. visit' \in Visits /\ visit'.ready /\ visit'.kind = visit.kind
          <5>1. visit \in Visits
            BY <1>0, <3>1 DEF Delivering
          <5>2. ReturnUrl(posts[k].act) \in Address
            BY PlainAddress DEF ReturnUrl, ListTyped
          <5> QED
            BY <2>2, <3>1, <5>1, <5>2 DEF Answered, Visits
        <4> QED
          BY <3>1, <4>1, ListsAssumption DEF Delivering, Visits
      <3>4. \A i \in DOMAIN posts' : posts'[i].act # "delivery"
        <4>1. ASSUME NEW i \in DOMAIN posts', posts'[i].act = "delivery" PROVE FALSE
          <5>1. PICK j \in DOMAIN posts \ {k} : posts'[i] = posts[j]
            BY <1>0, <2>2, RemovedList
          <5> QED
            BY <1>0, <2>4, <3>1, <4>1, <5>1 DEF Single, Awaited
        <4> QED
          BY <4>1
      <3> QED
        BY <2>2, <3>2, <3>3, <3>4 DEF Single
    <2> QED
      BY <2>3, <2>4
  <1>22. CASE Fill
    <2>1. /\ page = "stock" /\ ~quick.full /\ quick' = [quick EXCEPT !.full = TRUE] /\ delivered' = 0
          /\ UNCHANGED <<page, visit, posts, unsure>>
      BY <1>22 DEF Fill, Touch, Move
    <2>2. quick'.full
      BY <1>0, <2>1
    <2> QED
      BY <2>1, <2>2 DEF Single, Delivering
  <1>23. CASE \E byEnter \in BOOLEAN : submitQuickDelivery(byEnter)
    <2> DEFINE p == [act |-> "delivery", row |-> None, mark |-> None, live |-> TRUE]
    <2>1. Known(p) /\ Send(p) /\ p.live
      BY <1>23 DEF submitQuickDelivery, Known
    <2>2. /\ quick.full /\ quick'.full = quick.full /\ UNCHANGED <<page, delivered>>
      BY <1>0, <1>23 DEF submitQuickDelivery, server, Touch, Move
    <2> HIDE DEF p
    <2> QED
      BY <1>5, <2>1, <2>2
  <1>24. CASE Arrive
    <2>1. /\ visit # None /\ visit.ready /\ visit' = None
          /\ UNCHANGED <<page, posts, delivered, unsure>>
          /\ quick' = IF visit.kind = "delivery" THEN FormCleared ELSE quick
      BY <1>24 DEF Arrive, server
    <2>2. ~FormCleared.full
      BY DEF FormCleared
    <2>3. \A k \in DOMAIN posts : ~posts[k].live
      BY <1>0, <2>1 DEF Awaited
    <2> QED
      BY <2>1, <2>2, <2>3 DEF Single, Delivering
  <1>25. CASE Fail
    <2>1. /\ visit # None /\ visit' = None /\ UNCHANGED <<page, delivered>>
          /\ unsure' = (unsure \/ Delivering) /\ (~Delivering => quick' = quick)
          /\ quick'.full = quick.full
      BY <1>25 DEF Fail, server, Delivering, FormStays
    <2>2. ASSUME ~unsure, ~Delivering
          PROVE  \A k \in DOMAIN posts' : posts'[k].act # "delivery"
      <3>1. CASE posts' = Deaf(posts)
        BY <1>3, <2>2, <3>1
      <3>2. ASSUME NEW k \in DOMAIN posts, posts' = RemoveAt(posts, k)
            PROVE  \A i \in DOMAIN posts' : posts'[i].act # "delivery"
        BY <1>0, <1>2, <2>2, <3>2, RemovedList
      <3> QED
        BY <1>25, <3>1, <3>2 DEF Fail
    <2> QED
      BY <2>1, <2>2 DEF Single, Delivering
  <1>26. CASE \E k \in DOMAIN shown.rows : showQr(k)
    BY <1>1, <1>26 DEF showQr, server, Touch, Move
  <1>27. CASE CloseQr
    BY <1>1, <1>27 DEF CloseQr, server, Touch, Move
  <1>28. CASE \E k \in DOMAIN fetches : QrAnswer(k)
    BY <1>1, <1>28 DEF QrAnswer, server, Touch, Move
  <1>29. CASE \E r \in Row : Elsewhere(r)
    BY <1>1, <1>29 DEF Elsewhere, server, Touch, Move
  <1> QED
    BY <1>10, <1>11, <1>12, <1>13, <1>14, <1>15, <1>16, <1>17, <1>18, <1>19, <1>20, <1>21, <1>22, <1>23, <1>24, <1>25, <1>26, <1>27, <1>28, <1>29 DEF Next

-----------------------------------------------------------------------------
(* The list that is shown is the one that was asked for. *)

\* What a page p makes of the params q, and how many pages the table t has of it.
Honour(p, q) == q.set \intersect Index[p] \intersect Query[p].where
Ordered(p, q) ==
  [sortBy |-> IF "sortBy" \in Index[p] /\ q.sortBy \in Query[p].whitelist
                THEN q.sortBy ELSE Query[p].order.sortBy,
   dir |-> IF "sortOrder" \in Index[p] /\ q.dir # "" THEN q.dir ELSE Query[p].order.dir]
\* The plain address of the stock page says nothing of the order.
Silent(p, q) == p = "stock" /\ q = NoParams
Answers(p, f, q, set) ==
  /\ Honour(p, q) = set
  /\ Silent(p, q) \/ Ordered(p, q) = [sortBy |-> f.sortBy, dir |-> f.dir]

LEMMA ListedIs ==
  \A a : /\ Listed(a).of = a /\ Listed(a).set = Honour(page, a.q)
         /\ Listed(a).order = Ordered(page, a.q)
         /\ Listed(a).last = LastPage(Honour(page, a.q))
  BY DEF Listed, Honour, Honoured, Ordered, OrderOf

\* What is sent of a form is honoured: all its filters, and the order of its header.
LEMMA BuiltAnswers ==
  ASSUME page \in Page, NEW f \in Forms(page)
  PROVE  Answers(page, f, Built(f), f.set) /\ Built(f).set = f.set
  <1>1. Alright(page)
    BY PagesAlright
  <1>2. /\ f.set \subseteq Form[page].fields /\ f.sortBy \in Columns(page) /\ f.dir \in Direction
        /\ Table[page].sortable = {} => f.dir = Form[page].order.dir
    BY DEF Forms
  <1>3. Honour(page, Built(f)) = f.set
    BY <1>1, <1>2 DEF Honour, Built, Alright
  <1>4. Ordered(page, Built(f)).sortBy = f.sortBy
    <2>1. CASE "sortBy" \in Form[page].sends
      BY <1>1, <1>2, <2>1 DEF Ordered, Built, Alright, Columns
    <2>2. CASE "sortBy" \notin Form[page].sends
      <3>1. f.sortBy = Form[page].order.sortBy
        BY <1>1, <1>2, <2>2 DEF Alright, Columns
      <3> QED
        BY <1>1, <2>2, <3>1 DEF Ordered, Built, Alright
    <2> QED
      BY <2>1, <2>2
  <1>5. Ordered(page, Built(f)).dir = f.dir
    <2>1. CASE "sortOrder" \in Form[page].sends
      BY <1>1, <1>2, <2>1 DEF Ordered, Built, Alright, Direction
    <2>2. CASE "sortOrder" \notin Form[page].sends
      BY <1>1, <1>2, <2>2 DEF Ordered, Built, Alright
    <2> QED
      BY <2>1, <2>2
  <1>6. Ordered(page, Built(f)) = [sortBy |-> Ordered(page, Built(f)).sortBy,
                                   dir |-> Ordered(page, Built(f)).dir]
    BY DEF Ordered
  <1> QED
    BY <1>3, <1>4, <1>5, <1>6 DEF Answers, Built

\* An address that shows page p as the form f has it, for the filters in set.
Told ==
  /\ shown.set = Honour(page, shown.of.q) /\ shown.order = Ordered(page, shown.of.q)
  /\ visit # None /\ visit.kind = "partial" => page = "users"
  /\ visit # None /\ visit.kind \in {"list", "partial"} => visit.ready
  /\ visit # None /\ visit.kind = "delivery" => page = "stock"
  /\ visit # None /\ visit.ready /\ visit.kind = "delivery" => visit.to = url
Matches ==
  asked # None =>
    /\ Answers(page, form, asked, asked.set)
    /\ visit # None /\ visit.kind = "list" => visit.to.q = asked
    /\ visit # None /\ visit.kind = "partial" => Answers(page, form, visit.to.q, asked.set)
    /\ ~(visit # None /\ visit.kind = "list") =>
         /\ Answers(page, form, url.q, asked.set) /\ shown.set = asked.set
         /\ Silent(page, shown.of.q) \/ shown.order = [sortBy |-> form.sortBy, dir |-> form.dir]

LEMMA MatchesStep ==
  ASSUME ListTyped, Single, Told, Matches, Next
  PROVE  Told' /\ Matches'
  <1>0. /\ page \in Page /\ form \in Forms(page) /\ Requests(posts) /\ Awaited(posts, visit)
        /\ visit \in Visits \union {None}
    BY DEF ListTyped
  <1>1. UNCHANGED <<page, form, shown, url, visit, asked>> => Told' /\ Matches'
    BY DEF Told, Matches
  \* A list is asked for.
  <1>2. ASSUME NEW a \in Address, Load(a), page' = page, form' \in Forms(page),
               a.q = Built(form')
        PROVE  Told' /\ Matches'
    <2>1. visit' # None /\ visit'.ready /\ visit'.kind = "list" /\ visit'.to = a
      <3>1. Visit(Get("list", a), << >>)
        BY <1>2 DEF Load
      <3> QED
        BY <3>1, VisitGets DEF Kind
    <2>2. asked' = a.q /\ shown' = shown
      BY <1>2 DEF Load
    <2>3. Answers(page, form', a.q, a.q.set)
      BY <1>0, <1>2, BuiltAnswers
    <2> QED
      BY <1>2, <2>1, <2>2, <2>3 DEF Told, Matches
  <1>3. ASSUME NEW f \in Forms(page), applyFilters(f), page' = page
        PROVE  Told' /\ Matches'
    <2> DEFINE q == Built(f)
               a == [q |-> q, page |-> PageFor(q),
                     carried |-> PageFor(q) > 1
                                 /\ (applied.set # shown.of.q.set \/ shown.of.carried)]
    <2>1. q \in Params
      BY <1>0, BuiltParams
    <2>2. shown.of.page \in Nat \ {0} /\ shown.of.carried \in BOOLEAN
      BY DEF ListTyped, Address
    <2>3. a \in Address /\ a.q = q
      BY <2>1, <2>2 DEF PageFor, Address
    <2>4. Load(a) /\ form' = f
      BY <1>3 DEF applyFilters
    <2> HIDE DEF a
    <2> QED
      BY <1>2, <1>3, <2>3, <2>4
  \* A POST is sent: a list on its way is not seen.
  <1>4. ASSUME NEW p, Known(p), Send(p), p.act = "delivery" => page = "stock",
               UNCHANGED <<page, form, shown, url>>
        PROVE  Told' /\ Matches'
    <2>1. /\ visit' # None /\ ~visit'.ready
          /\ visit'.kind = (IF p.act = "delivery" THEN "delivery" ELSE "act")
      BY <1>4, VisitSends
    <2>2. asked' = IF visit # None /\ visit.kind = "list" THEN None ELSE asked
      BY <1>4 DEF Send
    <2> QED
      BY <1>4, <2>1, <2>2 DEF Told, Matches
  \* A POST is answered: by the address of the page, where that counts.
  <1>5. ASSUME NEW k \in DOMAIN posts, Answered(posts[k]), posts' = RemoveAt(posts, k),
               UNCHANGED <<page, form, shown, url, asked>>
        PROVE  Told' /\ Matches'
    <2>1. CASE ~posts[k].live
      <3>1. visit' = visit
        BY <1>5, <2>1, VisitAnswers
      <3> QED
        BY <1>1, <1>5, <3>1
    <2>2. CASE posts[k].live
      <3>1. /\ visit # None /\ ~visit.ready /\ visit'.ready
            /\ visit'.to = ReturnUrl(posts[k].act) /\ visit'.kind = visit.kind
            /\ posts[k].act = "delivery" <=> visit.kind = "delivery"
        BY <1>5, <2>2, VisitAnswers
      <3>2. visit.kind = "delivery" => visit'.to = url
        <4>1. visit.kind = "delivery" => page = "stock" /\ posts[k].act = "delivery"
          BY <3>1 DEF Told
        <4>2. page = "stock" => ReturnUrl("delivery") = url
          BY DEF ReturnUrl
        <4> QED
          BY <3>1, <4>1, <4>2
      <3> QED
        BY <1>5, <3>1, <3>2 DEF Told, Matches
    <2> QED
      BY <2>1, <2>2
  <1>10. CASE \E x \in Field : ChooseFilter(x)
    <2>1. /\ form'.sortBy = form.sortBy /\ form'.dir = form.dir
          /\ UNCHANGED <<page, shown, url, visit, asked>>
      BY <1>0, <1>10 DEF ChooseFilter, Touch, Move, Forms
    <2> QED
      BY <2>1 DEF Told, Matches, Answers
  <1>11. CASE Apply
    BY <1>0, <1>3, <1>11 DEF Apply, Touch, Move
  <1>12. CASE navigateClear
    <2>1. Default(page) \in Forms(page)
      BY <1>0, PagesOf
    <2>2. Built(Default(page)) \in Params
      BY <1>0, <2>1, BuiltParams
    <2> DEFINE a == [Plain EXCEPT !.q = Built(Default(page))]
    <2>3. a \in Address /\ a.q = Built(Default(page))
      BY <2>2, PlainAddress DEF Plain
    <2>4. Load(a) /\ page' = page /\ form' = Default(page)
      BY <1>12 DEF navigateClear, Touch, Move
    <2>5. Built(form') = Built(Default(page))
      BY <2>4 
    <2> HIDE DEF a
    <2> QED
      BY <1>2, <2>1, <2>3, <2>4, <2>5
  <1>13. CASE changeInvitePage
    <2> DEFINE a == [Plain EXCEPT !.q = Built(form)]
    <2>1. Built(form) \in Params
      BY <1>0, BuiltParams
    <2>2. a \in Address /\ a.q = Built(form)
      BY <2>1, PlainAddress DEF Plain
    <2>3. Visit(Get("partial", a), << >>) /\ page = "users"
      BY <1>13 DEF changeInvitePage
    <2>4. /\ UNCHANGED <<page, form, shown, url>>
          /\ asked' = IF visit = None /\ asked = Built(form) THEN asked ELSE None
      BY <1>13 DEF changeInvitePage, Touch, Move
    <2> HIDE DEF a
    <2>5. visit' # None /\ visit'.ready /\ visit'.kind = "partial" /\ visit'.to = a
      BY <2>2, <2>3, VisitGets DEF Kind
    <2>6. Answers(page, form, Built(form), Built(form).set)
      BY <1>0, BuiltAnswers
    <2> QED
      BY <2>2, <2>3, <2>4, <2>5, <2>6 DEF Told, Matches
  <1>14. CASE \E m \in 1..shown.last : onPageChange(m)
    <2>1. PICK m \in 1..shown.last : onPageChange(m)
      BY <1>14
    <2> DEFINE a == [q |-> Built(form), page |-> m,
                     carried |-> m > 1 /\ Built(form).set # shown.of.q.set]
    <2>2. Built(form) \in Params /\ m \in Nat \ {0}
      BY <1>0, BuiltParams
    <2>3. a \in Address /\ a.q = Built(form)
      BY <2>2 DEF Address
    <2>4. Load(a) /\ page' = page /\ form' = form
      BY <2>1 DEF onPageChange, Touch, Move
    <2> HIDE DEF a
    <2> QED
      BY <1>0, <1>2, <2>3, <2>4
  <1>15. CASE \E c \in Column : onSort(c)
    <2>1. PICK c \in Column : onSort(c)
      BY <1>15
    <2>2. c \in Table[page].sortable /\ page' = page
      BY <2>1 DEF onSort, Touch, Move
    <2>3. Turned(c) \in Forms(page)
      BY <1>0, <2>2, TurnedForm
    <2>4. CASE applyFilters(Turned(c))
      BY <1>3, <2>2, <2>3, <2>4
    <2>5. CASE navigateSort(Turned(c))
      <3> DEFINE a == [Plain EXCEPT !.q = Built(Turned(c))]
      <3>1. Built(Turned(c)) \in Params
        BY <1>0, <2>3, BuiltParams
      <3>2. a \in Address /\ a.q = Built(Turned(c))
        BY <3>1, PlainAddress DEF Plain
      <3>3. Load(a) /\ form' = Turned(c)
        BY <2>5 DEF navigateSort
      <3> HIDE DEF a
      <3> QED
        BY <1>2, <2>2, <2>3, <3>2, <3>3
    <2> QED
      BY <2>1, <2>4, <2>5 DEF onSort
  <1>16. CASE \E act \in Act, k \in DOMAIN shown.rows : Press(act, k)
    <2>1. PICK act \in Act, k \in DOMAIN shown.rows : Press(act, k)
      BY <1>16
    <2> DEFINE p == Post(act, shown.rows[k])
    <2>2. Known(p) /\ Send(p) /\ p.act = act
      BY <2>1 DEF Press, Known, Post
    <2>3. act # "delivery" /\ UNCHANGED <<page, form, shown, url>>
      BY <1>0, <2>1, NoDelivery DEF Press, Offered, Touch, Move
    <2> HIDE DEF p
    <2> QED
      BY <1>4, <2>2, <2>3
  <1>17. CASE \E act \in Act, k \in DOMAIN shown.rows : AskFirst(act, k)
    BY <1>1, <1>17 DEF AskFirst, Touch, Move
  <1>18. CASE Accept
    <2>1. Known(dialog) /\ dialog.act # "delivery" /\ Send(dialog)
      BY <1>18 DEF Accept, ListTyped
    <2>2. UNCHANGED <<page, form, shown, url>>
      BY <1>18 DEF Accept, Move
    <2> QED
      BY <1>4, <2>1, <2>2
  <1>19. CASE Reject
    BY <1>1, <1>19 DEF Reject, Touch, Move
  <1>20. CASE \E k \in DOMAIN posts : Handle(k)
    <2>1. PICK k \in DOMAIN posts : Handle(k)
      BY <1>20
    <2>2. /\ visit' = visit \/ Answered(posts[k])
          /\ posts' = RemoveAt(posts, k) /\ UNCHANGED <<page, form, shown, url, asked>>
      BY <2>1 DEF Handle, Without
    <2> QED
      BY <1>1, <1>5, <2>2
  <1>21. CASE \E k \in DOMAIN posts : store(k)
    BY <1>5, <1>21 DEF store, Without
  <1>22. CASE Fill
    BY <1>1, <1>22 DEF Fill, Touch, Move
  <1>23. CASE \E byEnter \in BOOLEAN : submitQuickDelivery(byEnter)
    <2> DEFINE p == [act |-> "delivery", row |-> None, mark |-> None, live |-> TRUE]
    <2>1. Known(p) /\ Send(p)
      BY <1>23 DEF submitQuickDelivery, Known
    <2>2. page = "stock" /\ UNCHANGED <<page, form, shown, url>>
      BY <1>23 DEF submitQuickDelivery, Touch, Move, Single
    <2> HIDE DEF p
    <2> QED
      BY <1>4, <2>1, <2>2
  <1>24. CASE Arrive
    <2>1. /\ visit # None /\ visit.ready /\ visit' = None /\ url' = visit.to
          /\ shown' = IF visit.kind = "partial" THEN shown ELSE Listed(visit.to)
          /\ asked' = IF visit.kind = "act" /\ (page # "users" \/ visit.to # url) THEN None ELSE asked
          /\ UNCHANGED <<page, form>>
      BY <1>24 DEF Arrive
    <2>2. /\ Listed(visit.to).of = visit.to /\ Listed(visit.to).set = Honour(page, visit.to.q)
          /\ Listed(visit.to).order = Ordered(page, visit.to.q)
      BY ListedIs
    <2>3. Told'
      BY <2>1, <2>2 DEF Told
    <2>4. ASSUME asked' # None PROVE Answers(page, form, visit.to.q, asked.set) /\ asked' = asked
      <3>1. asked' = asked /\ (visit.kind = "act" => visit.to = url)
        BY <2>1, <2>4
      <3>2. visit.kind \in {"list", "partial", "act", "delivery"}
        BY <1>0, <2>1 DEF Visits, Kind
      <3>3. CASE visit.kind = "list"
        BY <2>1, <2>4, <3>1, <3>3 DEF Matches
      <3>4. CASE visit.kind = "partial"
        BY <2>1, <2>4, <3>1, <3>4 DEF Matches
      <3>5. CASE visit.kind \in {"act", "delivery"}
        <4>1. visit.to = url
          BY <2>1, <3>1, <3>5 DEF Told
        <4> QED
          BY <2>1, <2>4, <3>1, <3>5, <4>1 DEF Matches
      <3> QED
        BY <3>1, <3>2, <3>3, <3>4, <3>5
    <2>5. ASSUME asked' # None
          PROVE  /\ shown'.set = asked.set
                 /\ \/ Silent(page, shown'.of.q)
                    \/ shown'.order = [sortBy |-> form.sortBy, dir |-> form.dir]
      <3>1. CASE visit.kind = "partial"
        BY <2>1, <2>4, <2>5, <3>1 DEF Matches
      <3>2. CASE visit.kind # "partial"
        BY <2>1, <2>2, <2>4, <2>5, <3>2 DEF Answers
      <3> QED
        BY <3>1, <3>2
    <2>6. asked' # None => Answers(page, form, asked, asked.set)
      BY <2>4 DEF Matches
    <2> QED
      BY <2>1, <2>3, <2>4, <2>5, <2>6 DEF Matches
  <1>25. CASE Fail
    <2>1. /\ visit # None /\ visit' = None /\ UNCHANGED <<page, form, shown, url>>
          /\ asked' = IF visit.kind = "list" THEN None ELSE asked
      BY <1>25 DEF Fail
    <2> QED
      BY <2>1 DEF Told, Matches
  <1>26. CASE \E k \in DOMAIN shown.rows : showQr(k)
    BY <1>1, <1>26 DEF showQr, Touch, Move
  <1>27. CASE CloseQr
    BY <1>1, <1>27 DEF CloseQr, Touch, Move
  <1>28. CASE \E k \in DOMAIN fetches : QrAnswer(k)
    BY <1>1, <1>28 DEF QrAnswer, Touch, Move
  <1>29. CASE \E r \in Row : Elsewhere(r)
    BY <1>1, <1>29 DEF Elsewhere, Touch, Move
  <1> QED
    BY <1>10, <1>11, <1>12, <1>13, <1>14, <1>15, <1>16, <1>17, <1>18, <1>19, <1>20, <1>21, <1>22, <1>23, <1>24, <1>25, <1>26, <1>27, <1>28, <1>29 DEF Next

-----------------------------------------------------------------------------
(* The page of the list that is shown exists. *)

\* How many pages the table t has of the rows that pass the filters fs.
Meets(t, r, f) ==
  CASE f = "status" -> "unpaid" \in t[r]
    [] f = "invoiced" -> "open" \in t[r]
    [] f = "disabled" -> "disabled" \notin t[r]
    [] f = "role" -> "admin" \notin t[r]
    [] OTHER -> r \in Alike
PagesOn(t, fs) ==
  LET found == {r \in DOMAIN t : \A f \in fs : Meets(t, r, f)}
  IN  IF found = {} THEN 1 ELSE CeilDiv(Cardinality(found), PerPage)

\* Page p has the page of the address a, or its number was counted in another list.
Exists(p, t, a) == a.carried \/ a.page <= PagesOn(t, Honour(p, a.q))
Paged ==
  ~changed => /\ Exists(page, table, shown.of) /\ Exists(page, table, url)
              /\ visit # None => Exists(page, table, visit.to)
              /\ shown.last = PagesOn(table, shown.set)

LEMMA LastPageIs == \A fs : LastPage(fs) = PagesOn(table, fs)
  BY DEF LastPage, Found, Passes, PagesOn, Meets

LEMMA PagesOnNat ==
  ASSUME ListTyped, NEW fs
  PROVE  PagesOn(table, fs) \in Nat \ {0}
  BY LastPageNat, LastPageIs

\* The first page of a list is always there.
LEMMA FirstExists ==
  ASSUME ListTyped, NEW a, a.page = 1
  PROVE  Exists(page, table, a)
  BY PagesOnNat DEF Exists

LEMMA PagedStep ==
  ASSUME ListTyped, Single, Told, Paged, Next
  PROVE  Paged'
  <1>0. /\ page \in Page /\ form \in Forms(page) /\ visit \in Visits \union {None}
        /\ shown.of \in Address /\ url \in Address
    BY DEF ListTyped
  <1>1. UNCHANGED <<page, table, changed, shown, url, visit>> => Paged'
    BY DEF Paged
  <1>2. Plain.page = 1 /\ \A ps : [Plain EXCEPT !.q = ps].page = 1
    BY DEF Plain
  \* A list is asked for.
  <1>3. ASSUME NEW a \in Address, Load(a), page' = page, ~changed => Exists(page, table, a)
        PROVE  Paged'
    <2>1. visit'.to = a
      <3>1. Visit(Get("list", a), << >>)
        BY <1>3 DEF Load
      <3> QED
        BY <3>1, VisitGets DEF Kind
    <2>2. UNCHANGED <<page, table, changed, shown, url>>
      BY <1>3 DEF Load, server
    <2> QED
      BY <1>3, <2>1, <2>2 DEF Paged
  <1>4. ASSUME NEW f \in Forms(page), applyFilters(f), page' = page
        PROVE  Paged'
    <2> DEFINE q == Built(f)
               n == PageFor(q)
               a == [q |-> q, page |-> n,
                     carried |-> n > 1 /\ (applied.set # shown.of.q.set \/ shown.of.carried)]
    <2>1. q \in Params
      BY <1>0, BuiltParams
    <2>2. shown.of.page \in Nat \ {0} /\ shown.of.carried \in BOOLEAN
      BY <1>0 DEF Address
    <2>3. n \in Nat \ {0} /\ (n = 1 \/ (n = shown.of.page /\ q = applied))
      BY <2>2 DEF PageFor
    <2>4. /\ a \in Address /\ a.q = q /\ a.page = n
          /\ a.carried = (n > 1 /\ (applied.set # shown.of.q.set \/ shown.of.carried))
      BY <2>1, <2>2, <2>3 DEF Address
    <2>5. Load(a)
      BY <1>4 DEF applyFilters
    <2> HIDE DEF a, n, q
    <2>6. ASSUME ~changed PROVE Exists(page, table, a)
      <3>1. CASE n = 1
        BY <2>4, <3>1, FirstExists
      <3>2. CASE n # 1 /\ ~a.carried
        <4>1. n > 1
          BY <2>3, <3>2
        <4>2. a.q.set = shown.of.q.set /\ ~shown.of.carried /\ a.page = shown.of.page
          BY <2>3, <2>4, <3>2, <4>1
        <4>3. Honour(page, a.q) = Honour(page, shown.of.q)
          BY <4>2 DEF Honour
        <4> QED
          BY <2>6, <4>2, <4>3 DEF Paged, Exists
      <3>3. CASE a.carried
        BY <3>3 DEF Exists
      <3> QED
        BY <3>1, <3>2, <3>3
    <2> QED
      BY <1>3, <1>4, <2>4, <2>5, <2>6
  \* A POST is sent, and leads to the first page for the time being.
  <1>5. ASSUME NEW p, Known(p), Send(p), UNCHANGED <<page, table, changed, shown, url>>
        PROVE  Paged'
    <2>1. visit'.to = Plain
      BY <1>5 DEF Send, Visit
    <2>2. Exists(page, table, Plain)
      BY <1>2, FirstExists
    <2> QED
      BY <1>5, <2>1, <2>2 DEF Paged
  \* A POST is answered: with the first page, or the one that is shown.
  <1>6. ASSUME NEW k \in DOMAIN posts, visit' = visit \/ Answered(posts[k]),
               posts' = RemoveAt(posts, k),
               UNCHANGED <<page, shown, url>>, changed' \/ (table' = table /\ ~changed)
        PROVE  Paged'
    <2>1. Exists(page, table, Plain)
      BY <1>2, FirstExists
    <2>2. visit' = visit \/ visit'.to \in {url, Plain}
      <3>1. ReturnUrl(posts[k].act) \in {url, Plain}
        BY DEF ReturnUrl
      <3> QED
        BY <1>6, <3>1, VisitAnswers
    <2> QED
      BY <1>6, <2>1, <2>2 DEF Paged
  <1>10. CASE \E x \in Field : ChooseFilter(x)
    BY <1>1, <1>10 DEF ChooseFilter, Touch, Move, server
  <1>11. CASE Apply
    BY <1>0, <1>4, <1>11 DEF Apply, Touch, Move
  <1>12. CASE navigateClear
    <2> DEFINE a == [Plain EXCEPT !.q = Built(Default(page))]
    <2>1. Built(Default(page)) \in Params
      BY <1>0, PagesOf, BuiltParams
    <2>2. a \in Address /\ a.page = 1
      BY <1>2, <2>1, PlainAddress
    <2>3. Load(a) /\ page' = page
      BY <1>12 DEF navigateClear, Touch, Move
    <2> HIDE DEF a
    <2> QED
      BY <1>3, <2>2, <2>3, FirstExists
  <1>13. CASE changeInvitePage
    <2> DEFINE a == [Plain EXCEPT !.q = Built(form)]
    <2>1. Built(form) \in Params
      BY <1>0, BuiltParams
    <2>2. a \in Address /\ a.page = 1
      BY <1>2, <2>1, PlainAddress
    <2>3. Visit(Get("partial", a), << >>) /\ UNCHANGED <<page, table, changed, shown, url>>
      BY <1>13 DEF changeInvitePage, Touch, Move, server
    <2> HIDE DEF a
    <2>4. visit'.to = a
      BY <2>2, <2>3, VisitGets DEF Kind
    <2> QED
      BY <2>2, <2>3, <2>4, FirstExists DEF Paged
  <1>14. CASE \E m \in 1..shown.last : onPageChange(m)
    <2>1. PICK m \in 1..shown.last : onPageChange(m)
      BY <1>14
    <2> DEFINE c == m > 1 /\ Built(form).set # shown.of.q.set
               a == [q |-> Built(form), page |-> m, carried |-> c]
    <2>2. Built(form) \in Params /\ m \in Nat \ {0} /\ c \in BOOLEAN
      BY <1>0, BuiltParams
    <2>3. a \in Address /\ a.q = Built(form) /\ a.page = m /\ a.carried = c
      BY <2>2 DEF Address
    <2>4. Load(a) /\ page' = page
      BY <2>1 DEF onPageChange, Touch, Move
    <2> HIDE DEF a
    <2>5. ASSUME ~changed PROVE Exists(page, table, a)
      <3>1. CASE m = 1
        BY <2>3, <3>1, FirstExists
      <3>2. CASE m # 1 /\ ~a.carried
        <4>1. a.q.set = shown.of.q.set
          <5>1. m > 1 /\ a.carried = (m > 1 /\ a.q.set # shown.of.q.set)
            BY <2>2, <2>3, <3>2
          <5> HIDE DEF c
          <5> QED
            BY <3>2, <5>1
        <4>2. Honour(page, a.q) = shown.set
          BY <4>1 DEF Honour, Told
        <4>3. m <= PagesOn(table, shown.set)
          <5>1. shown.last = PagesOn(table, shown.set) /\ shown.last \in Nat
            BY <2>5, PagesOnNat DEF Paged
          <5> QED
            BY <5>1
        <4> QED
          BY <2>3, <4>2, <4>3 DEF Exists
      <3>3. CASE a.carried
        BY <3>3 DEF Exists
      <3> QED
        BY <3>1, <3>2, <3>3
    <2> QED
      BY <1>3, <2>3, <2>4, <2>5
  <1>15. CASE \E c \in Column : onSort(c)
    <2>1. PICK c \in Column : onSort(c)
      BY <1>15
    <2>2. c \in Table[page].sortable /\ page' = page
      BY <2>1 DEF onSort, Touch, Move
    <2>3. Turned(c) \in Forms(page)
      BY <1>0, <2>2, TurnedForm
    <2>4. CASE applyFilters(Turned(c))
      BY <1>4, <2>2, <2>3, <2>4
    <2>5. CASE navigateSort(Turned(c))
      <3> DEFINE a == [Plain EXCEPT !.q = Built(Turned(c))]
      <3>1. Built(Turned(c)) \in Params
        BY <1>0, <2>3, BuiltParams
      <3>2. a \in Address /\ a.page = 1
        BY <1>2, <3>1, PlainAddress
      <3>3. Load(a)
        BY <2>5 DEF navigateSort
      <3> HIDE DEF a
      <3> QED
        BY <1>3, <2>2, <3>2, <3>3, FirstExists
    <2> QED
      BY <2>1, <2>4, <2>5 DEF onSort
  <1>16. CASE \E act \in Act, k \in DOMAIN shown.rows : Press(act, k)
    <2>1. PICK act \in Act, k \in DOMAIN shown.rows : Press(act, k)
      BY <1>16
    <2> DEFINE p == Post(act, shown.rows[k])
    <2>2. Known(p) /\ Send(p) /\ UNCHANGED <<page, table, changed, shown, url>>
      BY <2>1 DEF Press, Known, Post, Touch, Move, server
    <2> HIDE DEF p
    <2> QED
      BY <1>5, <2>2
  <1>17. CASE \E act \in Act, k \in DOMAIN shown.rows : AskFirst(act, k)
    BY <1>1, <1>17 DEF AskFirst, Touch, Move, server
  <1>18. CASE Accept
    <2>1. Known(dialog) /\ Send(dialog) /\ UNCHANGED <<page, table, changed, shown, url>>
      BY <1>18 DEF Accept, ListTyped, Move, server
    <2> QED
      BY <1>5, <2>1
  <1>19. CASE Reject
    BY <1>1, <1>19 DEF Reject, Touch, Move, server
  <1>20. CASE \E k \in DOMAIN posts : Handle(k)
    <2>1. PICK k \in DOMAIN posts : Handle(k)
      BY <1>20
    <2>2. /\ visit' = visit \/ Answered(posts[k])
          /\ posts' = RemoveAt(posts, k)
          /\ changed' = (changed \/ table' # table) /\ UNCHANGED <<page, shown, url>>
      BY <2>1 DEF Handle, Without
    <2>3. changed' \/ (table' = table /\ ~changed)
      <3>1. CASE table' = table
        <4>1. CASE changed'
          BY <4>1
        <4>2. CASE ~changed'
          BY <2>2, <3>1, <4>2
        <4> QED
          BY <4>1, <4>2
      <3>2. CASE table' # table
        BY <2>2, <3>2
      <3> QED
        BY <3>1, <3>2
    <2> QED
      BY <1>6, <2>2, <2>3
  <1>21. CASE \E k \in DOMAIN posts : store(k)
    <2>1. PICK k \in DOMAIN posts : store(k)
      BY <1>21
    <2>2. Answered(posts[k]) /\ posts' = RemoveAt(posts, k)
          /\ UNCHANGED <<page, table, changed, shown, url>>
      BY <2>1 DEF store, Without
    <2>3. changed' \/ (table' = table /\ ~changed)
      BY <2>2
    <2> QED
      BY <1>6, <2>2, <2>3
  <1>22. CASE Fill
    BY <1>1, <1>22 DEF Fill, Touch, Move, server
  <1>23. CASE \E byEnter \in BOOLEAN : submitQuickDelivery(byEnter)
    <2> DEFINE p == [act |-> "delivery", row |-> None, mark |-> None, live |-> TRUE]
    <2>1. Known(p) /\ Send(p) /\ UNCHANGED <<page, table, changed, shown, url>>
      BY <1>23 DEF submitQuickDelivery, Known, Touch, Move, server
    <2> HIDE DEF p
    <2> QED
      BY <1>5, <2>1
  <1>24. CASE Arrive
    <2>1. /\ visit # None /\ visit' = None /\ url' = visit.to
          /\ shown' = IF visit.kind = "partial" THEN shown ELSE Listed(visit.to)
          /\ UNCHANGED <<page, table, changed>>
      BY <1>24 DEF Arrive, server
    <2>2. /\ Listed(visit.to).of = visit.to
          /\ Listed(visit.to).last = PagesOn(table, Listed(visit.to).set)
      BY ListedIs, LastPageIs
    <2> QED
      BY <2>1, <2>2 DEF Paged
  <1>25. CASE Fail
    <2>1. visit' = None /\ UNCHANGED <<page, table, changed, shown, url>>
      BY <1>25 DEF Fail, server
    <2> QED
      BY <2>1 DEF Paged
  <1>26. CASE \E k \in DOMAIN shown.rows : showQr(k)
    BY <1>1, <1>26 DEF showQr, Touch, Move, server
  <1>27. CASE CloseQr
    BY <1>1, <1>27 DEF CloseQr, Touch, Move, server
  <1>28. CASE \E k \in DOMAIN fetches : QrAnswer(k)
    BY <1>1, <1>28 DEF QrAnswer, Touch, Move, server
  <1>29. CASE \E r \in Row : Elsewhere(r)
    BY <1>29 DEF Elsewhere, Paged
  <1> QED
    BY <1>10, <1>11, <1>12, <1>13, <1>14, <1>15, <1>16, <1>17, <1>18, <1>19, <1>20, <1>21, <1>22, <1>23, <1>24, <1>25, <1>26, <1>27, <1>28, <1>29 DEF Next

-----------------------------------------------------------------------------
(* The theorems about the lists. *)

ListInv ==
  ListTyped /\ Coded /\ Fitting /\ Single /\ Told /\ Matches /\ Paged

LEMMA ListInvInit == PagesInit => ListInv
  <1> SUFFICES ASSUME Init PROVE ListInv
    BY DEF PagesInit
  <1>1. ListTyped
    BY ListTypedInit
  <1>2. page \in Page /\ posts = << >> /\ DOMAIN posts = {} /\ visit = None
    BY DEF Init
  <1>3. Coded
    <2>1. fetches = << >> /\ fetches \in Seq({}) /\ DOMAIN fetches = {}
      BY DEF Init
    <2> QED
      BY <2>1 DEF Init, Coded, AnyCode, Sequence
  <1>4. Fitting
    <2>1. PICK r \in Row : dialog \in Linked(r)
      BY DEF Init
    <2>2. \/ dialog = None
          \/ dialog = [act |-> "requestPaid", row |-> r, mark |-> table[r], live |-> TRUE]
             /\ table[r] = {"unpaid"}
          \/ dialog = [act |-> "approve", row |-> r, mark |-> table[r], live |-> TRUE]
      BY <2>1 DEF Linked
    <2>3. ~Hopeless("requestPaid", {"unpaid"}) /\ \A m : ~Hopeless("approve", m)
      BY DEF Hopeless
    <2>4. dialog # None => Fits(dialog)
      BY <2>2, <2>3 DEF Fits
    <2> QED
      BY <1>2, <2>4 DEF Init, Fitting
  <1>5. Single
    BY <1>2 DEF Init, Single, Delivering
  <1>6. /\ shown.of = Plain /\ shown.set = Honour(page, NoParams)
        /\ shown.order = Ordered(page, NoParams) /\ shown.last = PagesOn(table, shown.set)
    <2>1. shown = Listed(Plain) /\ Plain.q = NoParams
      BY DEF Init, Plain
    <2> QED
      BY <2>1, ListedIs, LastPageIs
  <1>7. Told
    BY <1>2, <1>6 DEF Told, Plain
  <1>8. Matches
    <2>1. asked = Built(Default(page)) /\ form = Default(page) /\ url.q = NoParams
      BY DEF Init, Plain
    <2>2. Default(page) \in Forms(page)
      BY <1>2, PagesOf
    <2>3. Answers(page, form, asked, asked.set) /\ asked.set = form.set
      BY <1>2, <2>1, <2>2, BuiltAnswers
    <2>4. form.set = {} /\ form.sortBy = Form[page].order.sortBy /\ form.dir = Form[page].order.dir
      BY <2>1 DEF Default
    <2>5. Answers(page, form, NoParams, {})
      <3>1. Honour(page, NoParams) = {}
        BY DEF Honour, NoParams
      <3>2. CASE page = "stock"
        BY <3>1, <3>2 DEF Answers, Silent
      <3>3. CASE page # "stock"
        <4>1. "" \notin Query[page].whitelist /\ Query[page].order = Form[page].order
          BY <1>2, <3>3, PagesAlright DEF Alright
        <4>2. Ordered(page, NoParams) = [sortBy |-> form.sortBy, dir |-> form.dir]
          BY <2>4, <4>1 DEF Ordered, NoParams
        <4> QED
          BY <3>1, <4>2 DEF Answers
      <3> QED
        BY <3>2, <3>3
    <2>6. shown.of.q = NoParams
      BY <1>6 DEF Plain
    <2> QED
      BY <1>2, <1>6, <2>1, <2>3, <2>4, <2>5, <2>6 DEF Matches, Answers
  <1>9. Paged
    <2>1. url = Plain /\ Plain.page = 1
      BY DEF Init, Plain
    <2> QED
      BY <1>1, <1>2, <1>6, <2>1, FirstExists DEF Paged
  <1> QED
    BY <1>1, <1>3, <1>4, <1>5, <1>7, <1>8, <1>9 DEF ListInv

LEMMA ListInvStep == ListInv /\ [PagesNext]_<<opened, vars, profile>> => ListInv'
  <1> SUFFICES ASSUME ListInv, [PagesNext]_<<opened, vars, profile>> PROVE ListInv'
    OBVIOUS
  <1>1. CASE Next
    BY <1>1, ListTypedStep, CodedStep, FittingStep, SingleStep, MatchesStep, PagedStep DEF ListInv
  <1>2. CASE UNCHANGED vars
    <2>1. /\ UNCHANGED <<page, table, form, applied, shown, url, visit, posts, dialog>>
          /\ UNCHANGED <<qr, fetches, quick, delivered, asked, changed, unsure>>
      BY <1>2 DEF vars
    <2>2. ListTyped' /\ Coded' /\ Fitting'
      BY <2>1 DEF ListInv, ListTyped, Requests, Sequence, Awaited, Coded, AnyCode, Fitting
    <2>3. Single' /\ Told' /\ Matches' /\ Paged'
      BY <2>1 DEF ListInv, Single, Delivering, Told, Matches, Paged
    <2> QED
      BY <2>2, <2>3 DEF ListInv
  <1> QED
    BY <1>1, <1>2 DEF PagesNext

\* The lists keep their types, and what is told of their requests, visits and
\* addresses.
THEOREM ListsKeepTheirInvariant == PagesSpec => []ListInv
  BY ListInvInit, ListInvStep, PTL DEF PagesSpec

\* What is in the table is what the form and the paginator say: controller and query
\* honour every filter that was sent, the rows come in the order of the header, but for
\* the stock page until something is asked of it, and the page is one of the list
\* (applyFilters, onPageChange, onSort, changeInvitePage, whatever visit is given up,
\* and whatever a POST leads to).
THEOREM ListsShowWhatIsAsked == PagesSpec => []ShownAsAsked
  <1>1. ListInv => ShownAsAsked
    BY DEF ListInv, Matches, Told, Paged, Exists, ShownAsAsked, StockAtFirst, Silent
  <1> QED
    BY <1>1, ListsKeepTheirInvariant, PTL

\* A control next to a row, a confirmed one included, and the link of a reminder are
\* refused only for a row that has changed since, but for the last active admin, who
\* cannot be disabled or demoted, and the password of a disabled user (requestPaid,
\* cancelPaid, approve, storno, toggleDisabled, updateRole, generateInvoiceForUser,
\* impersonateUser).
THEOREM ButtonsFitTheirRows == PagesSpec => []RefusedOnlyWhenStale
  <1>1. ASSUME Fitting PROVE RefusedOnlyWhenStale
    <2> SUFFICES ASSUME NEW k \in DOMAIN posts, Refuses(posts[k].act, posts[k].row),
                        table[posts[k].row] = posts[k].mark
                 PROVE  \/ /\ posts[k].act \in {"disable", "demote"}
                           /\ LastActiveAdmin(posts[k].row)
                        \/ posts[k].act = "sendPasswordReset" /\ "disabled" \in posts[k].mark
      BY DEF RefusedOnlyWhenStale
    <2>1. Fits(posts[k])
      BY <1>1 DEF Fitting
    <2>2. posts[k].act # "delivery"
      BY DEF Refuses
    <2> QED
      BY <2>1, <2>2 DEF Fits, Hopeless, Refuses
  <1>2. ListInv => RefusedOnlyWhenStale
    BY <1>1 DEF ListInv
  <1> QED
    BY <1>2, ListsKeepTheirInvariant, PTL

\* The payment code is that of the invoice the dialog is about, unless it was opened
\* while another was on its way (showQr).
THEOREM CodeIsOfItsInvoice == PagesSpec => []QrIsTheirs
  <1>1. ListInv => QrIsTheirs
    BY DEF ListInv, Coded, QrIsTheirs
  <1> QED
    BY <1>1, ListsKeepTheirInvariant, PTL

\* A delivery filled in once is made once, Enter and the button together
\* (submitQuickDelivery), as long as the page hears of every request.
THEOREM DeliveredOnce == PagesSpec => []DeliversOnce
  <1>1. ListInv => DeliversOnce
    BY DEF ListInv, Single, DeliversOnce
  <1> QED
    BY <1>1, ListsKeepTheirInvariant, PTL
=============================================================================
