-------------------------- MODULE Recommendations --------------------------
(***************************************************************************)
(* RecommendationService over the catalogue: the nightly refreshAll, which *)
(* replaces the precomputed rows of one user after another, and            *)
(* getRecommendedIds, which shop and kiosk call for every customer shown.  *)
(*                                                                         *)
(* A recommendation is a product its user once bought, that is in stock    *)
(* and carries nothing the user excludes.  Scores, ranks and the limits    *)
(* (ten computed, four or eight shown) are left out: what is shown is the  *)
(* set.  Neither side uses a transaction, so a page can be rendered while  *)
(* the job is between deleting rows and inserting the new ones, a supplier *)
(* is editing a product, or the customer is changing what to exclude.      *)
(***************************************************************************)
EXTENDS Catalogue

CONSTANTS
  StartBought, \* what each user bought before the start
  StartStocked, \* the products in stock at the start
  MaxRefresh,  \* bound: runs of the nightly job
  MaxViews     \* bound: pages rendered

ASSUME RecommendationsAssumption ==
  /\ StartBought \in [User -> SUBSET {p \in Product : StartKey[p] > 0}]
  /\ StartStocked \subseteq {p \in Product : StartKey[p] > 0}
  /\ MaxRefresh \in Nat /\ MaxViews \in Nat

VARIABLES
  bought,   \* what each user ever bought (orders joined with deliveries)
  stocked,  \* products with a delivery that has something left
  recommended, \* table recommendations
  job,      \* refreshAll
  view,     \* getRecommendedIds, at most one for each user
  refreshes, views, \* counters of the bounds
  steady    \* history: what held at every moment of the view of each user

trade == <<bought, stocked>>
pages == <<view, views>>
nightly == <<job, refreshes>>
vars == <<catalogueVars, trade, recommended, nightly, pages, steady>>

NoJob == [pc |-> "idle", todo |-> {}, excluded |-> [u \in User |-> {}],
          user |-> None, scored |-> {}]
NoView == [pc |-> "idle", excluded |-> {}, shown |-> {}]

RecommendationsInit ==
  /\ Init
  /\ bought = StartBought /\ stocked = StartStocked
  /\ recommended = [u \in User |-> {}]
  /\ job = NoJob
  /\ view = [u \in User |-> NoView]
  /\ refreshes = 0 /\ views = 0
  /\ steady = [u \in User |-> [excluded |-> {}, any |-> FALSE]]

\* computeForUser.
Candidates(u, excluded) ==
  {p \in bought[u] \intersect stocked : marks[p] \intersect excluded = {}}

-----------------------------------------------------------------------------
\* A delivery arrives, a user buys, perhaps the last piece (FridgeStock).
Trades == begun < MaxBegun /\ begun' = begun + 1 /\ UNCHANGED <<rows, req, lost, history>>

Restock(p) ==
  /\ Stored(p) /\ p \notin stocked /\ Trades
  /\ stocked' = stocked \union {p}
  /\ UNCHANGED <<bought, recommended, nightly, pages>>

Buy(u, p, last) ==
  /\ p \in stocked /\ Trades
  /\ bought' = [bought EXCEPT ![u] = @ \union {p}]
  /\ stocked' = IF last THEN stocked \ {p} ELSE stocked
  /\ UNCHANGED <<recommended, nightly, pages>>

-----------------------------------------------------------------------------
(* refreshAll.                                                             *)

\* The users, and the exclusions of all of them, are read once.
StartRefresh ==
  /\ job.pc = "idle" /\ refreshes < MaxRefresh
  /\ refreshes' = refreshes + 1
  /\ job' = [NoJob EXCEPT !.pc = "compute", !.todo = User,
                          !.excluded = [u \in User |-> marks[u]]]
  /\ UNCHANGED <<catalogueVars, trade, recommended, pages>>

ComputeScores(u) ==
  /\ job.pc = "compute" /\ u \in job.todo
  /\ job' = [job EXCEPT !.pc = "delete", !.user = u,
                        !.scored = Candidates(u, job.excluded[u])]
  /\ UNCHANGED <<catalogueVars, trade, recommended, refreshes, pages>>

DeleteOld ==
  /\ job.pc = "delete"
  /\ recommended' = [recommended EXCEPT ![job.user] = {}]
  /\ job' = [job EXCEPT !.pc = "insert"]
  /\ UNCHANGED <<catalogueVars, trade, refreshes, pages>>

\* createMany, for a user with any score; then the next user.
InsertNew ==
  LET rest == job.todo \ {job.user} IN
  /\ job.pc = "insert"
  /\ recommended' = [recommended EXCEPT ![job.user] = @ \union job.scored]
  /\ job' = IF rest = {} THEN NoJob
            ELSE [job EXCEPT !.pc = "compute", !.todo = rest, !.user = None, !.scored = {}]
  /\ UNCHANGED <<catalogueVars, trade, refreshes, pages>>

\* A statement fails or the process stops: nothing is undone, and the users
\* that were left are left.
CutRefresh ==
  /\ job.pc # "idle" /\ lost < MaxLost
  /\ lost' = lost + 1
  /\ job' = NoJob
  /\ UNCHANGED <<rows, req, begun, history, trade, recommended, refreshes, pages>>

-----------------------------------------------------------------------------
(* getRecommendedIds.                                                      *)

ReadExcluded(u) ==
  /\ view[u].pc \in {"idle", "done"} /\ views < MaxViews
  /\ views' = views + 1
  /\ view' = [view EXCEPT ![u] = [NoView EXCEPT !.pc = "rows", !.excluded = marks[u]]]
  /\ UNCHANGED <<catalogueVars, trade, recommended, nightly>>

\* Mutant: rows are trusted to have been filtered when they were computed.
Unfiltered(u, excluded) == recommended[u] \intersect stocked
\* The precomputed rows, filtered once more by what is in stock and what is
\* excluded now.
Precomputed(u, excluded) ==
  {p \in recommended[u] \intersect stocked : marks[p] \intersect excluded = {}}

\* Mutant: the precomputed rows are all there is.
NoFallback(found) == "done"
\* With no row left, the scores are computed for this page.
AfterRows(found) == IF found = {} THEN "compute" ELSE "done"

ReadRows(u) ==
  LET found == Precomputed(u, view[u].excluded) IN
  /\ view[u].pc = "rows"
  /\ view' = [view EXCEPT ![u].pc = AfterRows(found), ![u].shown = found]
  /\ UNCHANGED <<catalogueVars, trade, recommended, nightly, views>>

ComputeLive(u) ==
  /\ view[u].pc = "compute"
  /\ view' = [view EXCEPT ![u].pc = "done", ![u].shown = Candidates(u, view[u].excluded)]
  /\ UNCHANGED <<catalogueVars, trade, recommended, nightly, views>>

-----------------------------------------------------------------------------
Trade ==
  \/ \E p \in Product : Restock(p)
  \/ \E u \in User, p \in Product, last \in BOOLEAN : Buy(u, p, last)

Refresh ==
  \/ StartRefresh \/ DeleteOld \/ InsertNew \/ CutRefresh
  \/ \E u \in User : ComputeScores(u)

View == \E u \in User : ReadExcluded(u) \/ ReadRows(u) \/ ComputeLive(u)

Making(u) == view[u].pc \in {"rows", "compute"}
Available(u) == Candidates(u, view[u].excluded) # {}

\* History: while a page is made, what its user excluded at every moment,
\* and whether there was something to recommend at every moment.
Watch ==
  steady' = [u \in User |->
    IF ~Making(u)' THEN [excluded |-> {}, any |-> FALSE]
    ELSE IF ~Making(u) THEN [excluded |-> marks'[u], any |-> Available(u)']
    ELSE [excluded |-> steady[u].excluded \intersect marks'[u],
          any |-> steady[u].any /\ Available(u)']]

RecommendationsNext ==
  /\ \/ CatalogueNext /\ UNCHANGED <<trade, recommended, nightly, pages>>
     \/ Trade \/ Refresh \/ View
  /\ Watch

Spec == RecommendationsInit /\ [][RecommendationsNext]_vars

-----------------------------------------------------------------------------
TypeOK ==
  /\ CatalogueTypeOK
  /\ stocked \subseteq Products
  /\ \A u \in User : bought[u] \union recommended[u] \union view[u].shown \subseteq Products
  /\ job.pc \in {"idle", "compute", "delete", "insert"} /\ job.todo \subseteq User
  /\ \A u \in User : view[u].pc \in {"idle", "rows", "compute", "done"}

Shows(u) == view[u].pc # "done" /\ view'[u].pc = "done"

\* No page recommends a product out of stock, nor one that carries an
\* allergen its user excluded all the time the page was made: not even when
\* the rows are older than the exclusion, the allergen or the last purchase,
\* or a refresh that had read older exclusions wrote them meanwhile.
ShownIsSafe ==
  [][\A u \in User : Shows(u) =>
       \A p \in view'[u].shown : p \in stocked /\ marks[p] \intersect steady[u].excluded = {}]_vars

\* A page recommends nothing only when at some moment there was nothing to
\* recommend: the gap between the job's delete and its insert, a job cut off
\* in it, and rows that no longer fit are never seen.
NothingOnlyWhenNothing ==
  [][\A u \in User : Shows(u) /\ steady[u].any => view'[u].shown # {}]_vars
=============================================================================
