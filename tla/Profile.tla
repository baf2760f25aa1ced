------------------------------ MODULE Profile ------------------------------
(***************************************************************************)
(* The profile page in a browser tab (inertia/pages/profile/show.vue), its *)
(* controller, and the session they share.                                 *)
(*                                                                         *)
(* Preferences are saved by themselves: a change starts a timer, the timer *)
(* sends all of them.  What is sensitive (a new address or IBAN, a new     *)
(* password, a link to a provider) needs a step-up: the password in a      *)
(* dialog, or a round trip to a provider that the page does not survive;   *)
(* the session keeps a draft of the page meanwhile.  A step-up lasts for a *)
(* while, or, when that while is set to zero, for one action.              *)
(*                                                                         *)
(* Inertia has one visit in flight; a new one gives the former up, though  *)
(* the server handles it all the same.  A handler is one step: it reads    *)
(* the session when it begins and writes it when it ends.  The row is the  *)
(* row of the user the page was opened for; while an administrator acts as *)
(* somebody else in another tab, requests are about another row.           *)
(***************************************************************************)
EXTENDS Naturals, Sequences, SequencesExt

CONSTANTS
  Pref,      \* preferences, "colorMode" among them
  None,      \* nothing
  MaxMoves,  \* bound: what the user does
  MaxPosts,  \* bound: requests the server has not handled
  MaxOthers  \* bound: what happens elsewhere, and failures

VARIABLES
  setup,   \* the server: ttl (a step-up lasts), password, provider (linked)
  row,     \* the server: preferences and address of the user
  session, \* the server: marked, grant, linkGrant, intent, draft, acting
  tab,     \* the browser: where it is, and the refs of the page
  visit,   \* the visit in flight
  posts,   \* requests the server has not handled
  count,   \* counters of the bounds
  hist     \* history, for the properties

vars == <<setup, row, session, tab, visit, posts, count, hist>>
server == <<setup, row, session>>

Sensitive == {"profile-submit", "password-change", "oidc-link"}
Writes == {"preferences", "color-mode", "profile-submit"}
Contact == {"old", "new"}

Form == [prefs : [Pref -> BOOLEAN], contact : Contact]
Action == [type : Sensitive, id : Nat]
Draft == [action : Action, form : Form]
Kind == Sensitive \union {"preferences", "color-mode", "reauth"}
Post == [type : Kind, id : Nat, form : Form, current : BOOLEAN, live : BOOLEAN]
Setup == [ttl : BOOLEAN, password : BOOLEAN, provider : BOOLEAN]
Session ==
  [marked : BOOLEAN, grant : BOOLEAN, linkGrant : BOOLEAN, intent : {None, "reauth", "link"},
   draft : Draft \union {None}, acting : BOOLEAN]
Tab ==
  [where : {"profile", "provider", "app"}, form : Form, contact : Contact, current : BOOLEAN,
   belief : BOOLEAN, pending : Action \union {None}, dialog : BOOLEAN, timer : BOOLEAN,
   leaving : BOOLEAN, draft : Draft \union {None}]
Visit == [type : Kind, id : Nat, ready : BOOLEAN, ok : BOOLEAN]
History ==
  [asks : Nat, asked : Nat \union {None}, credit : Nat, mixed : BOOLEAN, wrongRun : BOOLEAN,
   unproven : BOOLEAN, storeLost : BOOLEAN, late : BOOLEAN]

-----------------------------------------------------------------------------
(* Requests.                                                                *)

Deaf(ps) == [k \in DOMAIN ps |-> [ps[k] EXCEPT !.live = FALSE]]
Outstanding(ps) == {k \in DOMAIN ps : ps[k].type \in Writes}
Request(type, id, form, current) ==
  [type |-> type, id |-> id, form |-> form, current |-> current, live |-> TRUE]

InFlight(type) == visit # None /\ visit.type = type

\* Two requests that write preferences may be handled in either order.
Crossing(type, form) ==
  type \in Writes /\ \E k \in Outstanding(posts) : posts[k].form.prefs # form.prefs

\* router.put and router.post of the page t.
Sent(type, id, t) ==
  /\ Len(posts) < MaxPosts
  /\ visit' = [type |-> type, id |-> id, ready |-> FALSE, ok |-> FALSE]
  /\ posts' = Append(Deaf(posts), Request(type, id, t.form, t.current))
  /\ hist' = [hist EXCEPT
       !.mixed = @ \/ Crossing(type, t.form) \/ type = "color-mode",
       !.wrongRun = @ \/ (type \in Sensitive /\ id # hist.asked /\ ~hist.storeLost)]

-----------------------------------------------------------------------------
(* The page.                                                                *)

Move == count.moves < MaxMoves /\ count' = [count EXCEPT !.moves = @ + 1]
Here == tab.where = "profile"
Touch == Move /\ Here /\ ~tab.dialog

\* Mutant: a preference is missing from the watched ones.
WatchedButColor == Pref \ {"colorMode"}
Watched == Pref
\* schedulePreferencesSave: the timer starts again.
ChangePref(p) ==
  /\ Touch
  /\ tab' = [tab EXCEPT !.form.prefs[p] = ~@, !.timer = @ \/ p \in Watched]
  /\ UNCHANGED <<server, visit, posts, hist>>

\* The timer sends what the form holds by then; it outlives the page.
SavePreferences ==
  /\ tab.timer /\ tab.where # "provider"
  /\ tab' = [tab EXCEPT !.timer = FALSE]
  /\ Sent("preferences", 0, tab)
  /\ UNCHANGED <<server, count>>

\* The switch in the header of the layout; the form is not told.
toggleColorMode ==
  /\ Touch /\ Sent("color-mode", 0, tab)
  /\ UNCHANGED <<server, tab>>

EditContact ==
  /\ Touch /\ tab' = [tab EXCEPT !.form.contact = CHOOSE c \in Contact : c # @]
  /\ UNCHANGED <<server, visit, posts, hist>>

profileHasSensitiveChanges == tab.form.contact # tab.contact
NeedsStepup(type) == type = "profile-submit" => profileHasSensitiveChanges

\* Its button is there, and does not wait for an answer.
Offered(type) == IF type = "oidc-link" THEN ~setup.provider ELSE ~InFlight(type)

\* requestSensitiveAction: at once, or after the dialog.
Ask(type) ==
  LET id == hist.asks + 1 IN
  /\ Touch /\ Offered(type)
  /\ IF ~NeedsStepup(type) \/ tab.belief
       THEN /\ Len(posts) < MaxPosts
            /\ visit' = [type |-> type, id |-> id, ready |-> FALSE, ok |-> FALSE]
            /\ posts' = Append(Deaf(posts), Request(type, id, tab.form, tab.current))
            /\ hist' = [hist EXCEPT !.asks = id, !.asked = id, !.late = @ \/ tab.leaving,
                                    !.mixed = @ \/ Crossing(type, tab.form)]
            /\ tab' = tab
       ELSE /\ tab' = [tab EXCEPT !.dialog = TRUE, !.pending = [type |-> type, id |-> id]]
            /\ hist' = [hist EXCEPT !.asks = id, !.asked = id, !.late = @ \/ tab.leaving]
            /\ UNCHANGED <<visit, posts>>
  /\ UNCHANGED server

\* Mutant: the action stays when the dialog is closed.
ClosedButPending(t) == [t EXCEPT !.dialog = FALSE]
Closed(t) == [t EXCEPT !.dialog = FALSE, !.pending = None]
\* It stops neither the draft on its way to the session nor what follows.
closeReauthDialog ==
  /\ Move /\ Here /\ tab.dialog
  /\ tab' = Closed(tab) /\ hist' = [hist EXCEPT !.asked = None, !.late = @ \/ tab.leaving]
  /\ UNCHANGED <<server, visit, posts>>

\* The password in the dialog; its button waits for the answer.
reauthSensitive ==
  /\ Move /\ Here /\ tab.dialog /\ setup.password
  /\ ~InFlight("reauth")
  /\ Sent("reauth", 0, tab)
  /\ UNCHANGED <<server, tab>>

\* postPendingDraft: what is kept of the page t.
DraftOf(t) == IF t.pending = None THEN None ELSE [action |-> t.pending, form |-> t.form]
\* startOidcReauth awaits the draft, and leaves whether it was stored or not; until
\* then the page is alive.
startOidcReauth ==
  /\ Move /\ Here /\ ~tab.leaving /\ tab.dialog /\ setup.provider
  /\ tab' = [tab EXCEPT !.leaving = TRUE, !.draft = DraftOf(tab)]
  /\ hist' = [hist EXCEPT !.late = FALSE]
  /\ UNCHANGED <<server, visit, posts>>

\* The page is left: what it waited for is not heard.  Only leaving for another
\* site stops the timer, and the way there.
Gone(where) ==
  [tab EXCEPT !.where = where, !.pending = None, !.dialog = FALSE,
              !.leaving = @ /\ where # "provider",
              !.draft = IF where = "provider" THEN None ELSE @,
              !.timer = @ /\ where # "provider"]

storePendingDraft ==
  /\ tab.leaving
  /\ \/ /\ session' = [session EXCEPT !.intent = "reauth",
                         !.draft = IF tab.draft = None THEN @ ELSE tab.draft]
        /\ UNCHANGED <<count, hist>>
     \/ /\ count.others < MaxOthers /\ count' = [count EXCEPT !.others = @ + 1]
        /\ session' = [session EXCEPT !.intent = "reauth"]
        /\ hist' = [hist EXCEPT !.storeLost = TRUE]
  /\ tab' = Gone("provider") /\ visit' = None /\ posts' = Deaf(posts)
  /\ UNCHANGED <<setup, row>>

\* Another page of the application.
Leave ==
  /\ Touch /\ tab' = Gone("app") /\ visit' = None /\ posts' = Deaf(posts)
  /\ hist' = [hist EXCEPT !.asked = None, !.late = @ \/ tab.leaving]
  /\ UNCHANGED server

\* A new page, from the row as it is.
Fresh ==
  [where |-> "profile", form |-> row, contact |-> row.contact, current |-> FALSE,
   belief |-> setup.ttl /\ session.marked, pending |-> None, dialog |-> FALSE,
   timer |-> FALSE, leaving |-> FALSE, draft |-> None]
Mixed == tab.timer \/ Outstanding(posts) # {} \/ session.acting

\* What is left of the former page goes on.
Open ==
  /\ Move /\ tab.where = "app" /\ ~session.acting
  /\ tab' = [Fresh EXCEPT !.timer = tab.timer, !.leaving = tab.leaving, !.draft = tab.draft]
  /\ hist' = [hist EXCEPT !.mixed = Mixed]
  /\ UNCHANGED <<server, visit, posts>>

-----------------------------------------------------------------------------
(* The provider.                                                            *)

\* Refused there, or given up: back by way of the login page.
ProviderRefuses ==
  /\ Move /\ tab.where = "provider"
  /\ tab' = [tab EXCEPT !.where = "app"] /\ session' = [session EXCEPT !.intent = None]
  /\ hist' = [hist EXCEPT !.asked = None]
  /\ UNCHANGED <<setup, row, visit, posts>>

\* onMounted with a draft.
Restored(t, d) == [t EXCEPT !.form = d.form]
Proved == [session EXCEPT !.marked = TRUE, !.grant = TRUE, !.intent = None]

\* callback with hasReauthIntent: the step-up, and the page with its draft, whose
\* action runs at once.  show takes the draft only after this, and once.  (While an
\* administrator acts as somebody it would open the other's page.)
ReauthCallback ==
  /\ tab.where = "provider" /\ session.intent = "reauth" /\ ~session.acting
  /\ session' = [Proved EXCEPT !.draft = None]
  /\ LET t == [Fresh EXCEPT !.belief = setup.ttl]
         d == session.draft
     IN  IF d = None
           THEN /\ tab' = t /\ UNCHANGED <<visit, posts>>
                /\ hist' = [hist EXCEPT !.mixed = Mixed, !.credit = @ + 1]
           ELSE LET s == Restored(t, d) IN
                /\ Len(posts) < MaxPosts
                /\ tab' = s
                /\ visit' = [type |-> d.action.type, id |-> d.action.id,
                             ready |-> FALSE, ok |-> FALSE]
                /\ posts' = Append(posts, Request(d.action.type, d.action.id, s.form, FALSE))
                /\ hist' = [hist EXCEPT !.credit = @ + 1,
                     !.mixed = Mixed \/ (d.form.prefs # row.prefs),
                     !.wrongRun = @ \/ (d.action.id # hist.asked /\ ~hist.storeLost /\ ~hist.late)]
  /\ UNCHANGED <<setup, row, count>>

\* callback with hasLinkIntent; it refuses while an administrator acts as somebody.
LinkCallback ==
  /\ tab.where = "provider" /\ session.intent = "link"
  /\ session' = [session EXCEPT !.intent = None]
  /\ ~session.acting /\ setup' = [setup EXCEPT !.provider = TRUE]
  /\ tab' = Fresh /\ hist' = [hist EXCEPT !.mixed = Mixed]
  /\ UNCHANGED <<row, visit, posts, count>>

-----------------------------------------------------------------------------
(* The controller.                                                          *)

\* Mutant: the grant is not pulled from the session.
GrantRead(s) == s
\* consumeOneTimeGrant
GrantPulled(s) == [s EXCEPT !.grant = FALSE]

Recent == setup.ttl /\ session.marked
Spent(s) == IF (setup.ttl /\ s.marked) \/ hist.credit = 0 THEN hist.credit ELSE hist.credit - 1

\* ensureSensitiveStepup: what the session is afterwards; the password the page
\* remembers may be right or, after a change, wrong.
Ensured(current) ==
  CASE session.acting -> {}
    [] ~session.acting /\ Recent -> {[s |-> session, proof |-> FALSE]}
    [] ~session.acting /\ ~Recent /\ session.grant ->
         {[s |-> GrantPulled(session), proof |-> FALSE]}
    [] OTHER -> IF setup.password /\ current
                  THEN {[s |-> [session EXCEPT !.marked = TRUE], proof |-> TRUE]} ELSE {}

\* A sensitive action goes through on e; the proof it rests on is spent.
Applied(e) ==
  [hist EXCEPT !.unproven = @ \/ (hist.credit = 0 /\ ~e.proof) \/ session.acting,
               !.credit = IF e.proof THEN IF setup.ttl THEN @ + 1 ELSE @ ELSE Spent(e.s)]

Answer(k, ok) ==
  /\ posts' = RemoveAt(posts, k)
  /\ visit' = IF posts[k].live THEN [visit EXCEPT !.ready = TRUE, !.ok = ok] ELSE visit
Handling(k, type) == k \in DOMAIN posts /\ posts[k].type = type

updatePreferences(k) ==
  /\ Handling(k, "preferences") /\ Answer(k, TRUE)
  /\ row' = IF session.acting THEN row ELSE [row EXCEPT !.prefs = posts[k].form.prefs]
  /\ hist' = [hist EXCEPT !.mixed = @ \/ session.acting]
  /\ UNCHANGED <<setup, session, tab, count>>

\* It stores the other colour than the header showed, which may be the one there is.
storeColorMode(k) ==
  /\ Handling(k, "color-mode") /\ Answer(k, TRUE)
  /\ \E mode \in BOOLEAN :
       row' = IF session.acting THEN row ELSE [row EXCEPT !.prefs["colorMode"] = mode]
  /\ UNCHANGED <<setup, session, tab, count, hist>>

\* update: a new address counts at once when the provider vouches for it; else it
\* waits for its link.
update(k) ==
  LET changed == posts[k].form.contact # row.contact IN
  /\ Handling(k, "profile-submit")
  /\ IF session.acting
       THEN Answer(k, FALSE) /\ hist' = [hist EXCEPT !.mixed = TRUE] /\ UNCHANGED <<row, session>>
     ELSE IF ~changed
       THEN Answer(k, TRUE) /\ row' = posts[k].form /\ UNCHANGED <<session, hist>>
     ELSE \/ \E e \in Ensured(posts[k].current), c \in Contact :
               /\ Answer(k, TRUE) /\ session' = e.s
               /\ row' = [prefs |-> posts[k].form.prefs, contact |-> c] /\ hist' = Applied(e)
          \/ /\ ~Recent /\ ~session.grant /\ Answer(k, FALSE)
             /\ hist' = [hist EXCEPT !.mixed = TRUE] /\ UNCHANGED <<row, session>>
  /\ UNCHANGED <<setup, tab, count>>

\* changeAuthenticated: the grant is taken even when the step-up is recent.
changeAuthenticated(k) ==
  /\ Handling(k, "password-change")
  /\ IF session.acting THEN Answer(k, FALSE) /\ UNCHANGED <<session, hist>>
     ELSE /\ session' = GrantPulled(session)
          /\ IF Recent \/ session.grant
               THEN /\ Answer(k, TRUE)
                    /\ hist' = Applied([s |-> session', proof |-> FALSE])
               ELSE Answer(k, FALSE) /\ UNCHANGED hist
  /\ UNCHANGED <<setup, row, tab, count>>

startOidcLink(k) ==
  /\ Handling(k, "oidc-link")
  /\ \/ \E e \in Ensured(posts[k].current) :
          /\ Answer(k, TRUE) /\ session' = [e.s EXCEPT !.linkGrant = TRUE] /\ hist' = Applied(e)
     \/ /\ session.acting \/ (~Recent /\ ~session.grant)
        /\ Answer(k, FALSE) /\ UNCHANGED <<session, hist>>
  /\ UNCHANGED <<setup, row, tab, count>>

\* ProfileController.reauthSensitive: the password is right or wrong.
checkPassword(k) ==
  /\ Handling(k, "reauth")
  /\ \/ /\ ~session.acting /\ setup.password /\ Answer(k, TRUE)
        /\ session' = [session EXCEPT !.marked = TRUE, !.grant = TRUE]
        /\ hist' = [hist EXCEPT !.credit = @ + 1]
     \/ Answer(k, FALSE) /\ UNCHANGED <<session, hist>>
  /\ UNCHANGED <<setup, row, tab, count>>

-----------------------------------------------------------------------------
(* Answers.                                                                 *)

Heard(type) == InFlight(type) /\ visit.ready
\* Every answer to this page brings the user anew.
Told == [tab EXCEPT !.contact = row.contact]

Arrive ==
  /\ visit # None /\ visit.ready /\ tab.where # "provider"
  /\ ~(visit.ok /\ visit.type \in {"reauth", "oidc-link"} /\ tab.where = "profile")
  /\ visit' = None /\ tab' = IF tab.where = "profile" THEN Told ELSE tab
  /\ UNCHANGED <<server, posts, count, hist>>

\* The password was right: the pending action runs.
ReauthArrives ==
  /\ Heard("reauth") /\ visit.ok /\ tab.where = "profile"
  /\ LET t == [Told EXCEPT !.belief = setup.ttl, !.current = TRUE,
                           !.dialog = FALSE, !.pending = None]
     IN  /\ tab' = t
         /\ IF tab.pending = None THEN visit' = None /\ UNCHANGED <<posts, hist>>
            ELSE Sent(tab.pending.type, tab.pending.id, t)
  /\ UNCHANGED <<server, count>>

\* OidcController.redirect with the intent to link.
MayLink == session.linkGrant \/ Recent
\* The page goes to the provider by way of it.
LinkArrives ==
  /\ Heard("oidc-link") /\ visit.ok /\ tab.where = "profile" /\ ~session.acting
  /\ visit' = None
  /\ IF MayLink
       THEN /\ tab' = Gone("provider") /\ UNCHANGED hist
            /\ session' = [session EXCEPT !.linkGrant = FALSE, !.intent = "link"]
       ELSE /\ tab' = Fresh /\ hist' = [hist EXCEPT !.mixed = Mixed] /\ UNCHANGED session
  /\ UNCHANGED <<setup, row, posts, count>>

\* A visit fails: its request was handled, will be, or never is.
Fail ==
  /\ visit # None /\ count.others < MaxOthers
  /\ count' = [count EXCEPT !.others = @ + 1]
  /\ visit' = None
  /\ \/ posts' = Deaf(posts)
     \/ \E k \in DOMAIN posts : posts[k].live /\ posts' = RemoveAt(posts, k)
  /\ hist' = [hist EXCEPT !.mixed = TRUE]
  /\ UNCHANGED <<server, tab>>

-----------------------------------------------------------------------------
(* Elsewhere.                                                               *)

Other == count.others < MaxOthers /\ count' = [count EXCEPT !.others = @ + 1]

\* Time passes: maxAgeMinutes, ttlMinutes, PENDING_DRAFT_TTL_MS.
Expire ==
  /\ Other
  /\ \/ /\ session' \in {[session EXCEPT !.grant = FALSE], [session EXCEPT !.marked = FALSE],
                         [session EXCEPT !.linkGrant = FALSE], [session EXCEPT !.draft = None]}
        /\ session' # session /\ tab' = tab
     \/ tab.belief /\ tab' = [tab EXCEPT !.belief = FALSE] /\ session' = session
  /\ hist' = [hist EXCEPT !.credit =
                  IF session'.grant \/ (setup.ttl /\ session'.marked) THEN @ ELSE 0]
  /\ UNCHANGED <<setup, row, visit, posts>>

\* Another tab of an administrator acts as somebody, or stops.
Impersonate ==
  /\ Other /\ session' = [session EXCEPT !.acting = ~@]
  /\ UNCHANGED <<setup, row, tab, visit, posts, hist>>

\* The link of an earlier change is followed.
ConfirmContact ==
  /\ Other /\ row' = [row EXCEPT !.contact = CHOOSE c \in Contact : c # @]
  /\ UNCHANGED <<setup, session, tab, visit, posts, hist>>

-----------------------------------------------------------------------------
\* A page is opened; the session may hold the draft of a step-up that was given up.
Init ==
  /\ setup \in Setup
  /\ row = [prefs |-> [p \in Pref |-> FALSE], contact |-> "old"]
  /\ \E old \in {None, [action |-> [type |-> "password-change", id |-> 0], form |-> row]} :
       /\ old # None => setup.provider
       /\ session = [marked |-> FALSE, grant |-> FALSE, linkGrant |-> FALSE, intent |-> None,
                     draft |-> old, acting |-> FALSE]
  /\ tab = [where |-> "profile", form |-> row, contact |-> row.contact, current |-> FALSE,
            belief |-> FALSE, pending |-> None, dialog |-> FALSE, timer |-> FALSE,
            leaving |-> FALSE, draft |-> None]
  /\ visit = None /\ posts = <<>>
  /\ count = [moves |-> 0, others |-> 0]
  /\ hist = [asks |-> 0, asked |-> None, credit |-> 0, mixed |-> FALSE, wrongRun |-> FALSE,
             unproven |-> FALSE, storeLost |-> FALSE, late |-> FALSE]

Next ==
  \/ \E p \in Pref : ChangePref(p)
  \/ SavePreferences \/ toggleColorMode \/ EditContact
  \/ \E type \in Sensitive : Ask(type)
  \/ closeReauthDialog \/ reauthSensitive \/ startOidcReauth \/ storePendingDraft
  \/ Leave \/ Open
  \/ ProviderRefuses \/ ReauthCallback \/ LinkCallback
  \/ \E k \in DOMAIN posts :
       \/ updatePreferences(k) \/ storeColorMode(k) \/ update(k)
       \/ changeAuthenticated(k) \/ startOidcLink(k) \/ checkPassword(k)
  \/ Arrive \/ ReauthArrives \/ LinkArrives \/ Fail
  \/ Expire \/ Impersonate \/ ConfirmContact

Spec == Init /\ [][Next]_vars

-----------------------------------------------------------------------------
\* Type invariant.
TypeOK ==
  /\ setup \in Setup /\ row \in Form /\ session \in Session
  /\ tab \in Tab /\ visit \in Visit \union {None} /\ posts \in Seq(Post)
  /\ count \in [moves : Nat, others : Nat] /\ hist \in History

\* At rest the preferences on the page are the stored ones, unless two writers
\* crossed, a save failed, the header's switch was used, or a page was opened over
\* the leftovers of another.
PrefsSaved ==
  tab.where = "profile" /\ ~tab.timer /\ visit = None /\ posts = <<>> /\ ~hist.mixed =>
    tab.form.prefs = row.prefs

\* What the page sends after a step-up is what the user asked for last and has not
\* given up, unless its draft could not be stored, or it was given up after the way
\* to the provider had begun (Cancel while startOidcReauth awaits the draft).
RunsWhatIsAsked == ~hist.wrongRun

\* Nothing sensitive happens without a step-up of its own, or one that still lasts,
\* and nothing at all while an administrator acts as the user.
ProvenFirst == ~hist.unproven
=============================================================================
