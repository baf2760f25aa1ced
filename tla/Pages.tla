------------------------------- MODULE Pages -------------------------------
(* A browser tab that opens one of the lists, or the profile.  The part    *)
(* that is not opened stays as it is.                                      *)
EXTENDS Lists

CONSTANTS Pref, MaxProfileMoves, MaxPosts, MaxOthers

VARIABLES opened, setup, row, session, tab, profileVisit, profilePosts, count, hist

profile == <<setup, row, session, tab, profileVisit, profilePosts, count, hist>>
OnProfile == INSTANCE Profile
               WITH MaxMoves <- MaxProfileMoves, visit <- profileVisit, posts <- profilePosts

ASSUME PagesAssumption ==
  /\ "colorMode" \in Pref
  /\ None \notin OnProfile!Visit \union OnProfile!Action \union OnProfile!Draft \union Nat
  /\ None \notin {"reauth", "link"}

PagesInit ==
  /\ Init /\ OnProfile!Init
  /\ opened \in {"list", "profile"}
  /\ opened = "list" => setup = [ttl |-> FALSE, password |-> FALSE, provider |-> FALSE]
  /\ opened = "profile" => page = "orders" /\ table = [r \in Row |-> {"open"}]

PagesNext ==
  /\ opened' = opened
  /\ \/ opened = "list" /\ Next /\ UNCHANGED profile
     \/ opened = "profile" /\ OnProfile!Next /\ UNCHANGED vars

PagesSpec == PagesInit /\ [][PagesNext]_<<opened, vars, profile>>

\* What the profile shows of the preferences is stored, once nothing is on its way.
PrefsSaved == OnProfile!PrefsSaved
\* After a step-up the profile runs what was asked for last.
RunsWhatIsAsked == OnProfile!RunsWhatIsAsked
\* Nothing sensitive goes through without a step-up.
ProvenFirst == OnProfile!ProvenFirst
=============================================================================
