----------------------------- MODULE FridgePool -----------------------------
(***************************************************************************)
(* FridgeStock with the pool of database connections, and the audit log.   *)
(*                                                                         *)
(* db.transaction takes a connection of the pool and keeps it until COMMIT *)
(* or ROLLBACK.  Inside purchase and purchaseBasket, AuditService.log is   *)
(* awaited for every order; it inserts its row on another connection, in   *)
(* no transaction, and catches whatever goes wrong.  Whoever finds the     *)
(* pool empty waits, and fails after acquireConnectionTimeout.             *)
(*                                                                         *)
(* Requests that run no transaction hold a connection for one statement    *)
(* at a time; they can only make the others wait a little longer, and are  *)
(* left out.                                                               *)
(***************************************************************************)
EXTENDS FridgeStock

CONSTANT PoolSize   \* connections of the pool (max of knex)

ASSUME PoolAssumption == PoolSize \in Nat \ {0}

VARIABLES
  conn,      \* requests whose transaction has a connection
  logging,   \* requests whose AuditService.log has a connection
  audited,   \* ids of the orders with an audit row
  dropped    \* history: ids whose log call failed

poolVars == <<vars, conn, logging, audited, dropped>>

PoolInit ==
  /\ Init
  /\ conn = {} /\ logging = {}
  /\ audited = {} /\ dropped = {}

\* The pool has a connection to give.
Free == Cardinality(conn) + Cardinality(logging) < PoolSize

InFlight == {c \in Client : pc[c] # "idle"}

\* Orders of c that its transaction has inserted and not yet logged.
Unlogged(c) == Ids(made[c]) \ (audited \union dropped)

\* Mutant: the transaction goes on while the log is being written.
NotAwaited(c) == TRUE
\* Every log call of c has returned.
Logged(c) == Unlogged(c) = {} /\ c \notin logging

\* The connection goes back to the pool with the end of the transaction.
Returned(c) == IF pc'[c] = "idle" THEN conn \ {c} ELSE conn

-----------------------------------------------------------------------------
(* The transaction. *)

Connect(c) ==
  /\ c \in InFlight \ conn /\ Free
  /\ conn' = conn \union {c}
  /\ UNCHANGED <<vars, logging, audited, dropped>>

\* The request fails before its transaction has begun.
ConnectTimeout(c) ==
  /\ c \in InFlight \ conn /\ ~Free
  /\ Rollback(c)
  /\ UNCHANGED <<conn, logging, audited, dropped>>

Statement(c) ==
  /\ c \in conn /\ Logged(c)
  /\ Step(c)
  /\ conn' = Returned(c)
  /\ UNCHANGED <<logging, audited, dropped>>

\* An error in the transaction.  What was logged stays logged.
Fail(c) ==
  /\ c \in conn /\ c \notin logging
  /\ Abort(c) \/ DeadlockVictim(c)
  /\ conn' = Returned(c)
  /\ UNCHANGED <<logging, audited, dropped>>

-----------------------------------------------------------------------------
(* AuditService.log, called for one order after the other. *)

AwaitsLog(c) == c \in conn /\ Unlogged(c) # {} /\ c \notin logging

\* The order of c that the log call is about.
InTurn(c, i) == \A j \in Unlogged(c) : i <= j

LogConnect(c) ==
  /\ AwaitsLog(c) /\ Free
  /\ logging' = logging \union {c}
  /\ UNCHANGED <<vars, conn, audited, dropped>>

LogInsert(c) ==
  /\ c \in logging
  /\ \E i \in Unlogged(c) : InTurn(c, i) /\ audited' = audited \union {i}
  /\ logging' = logging \ {c}
  /\ UNCHANGED <<vars, conn, dropped>>

\* The INSERT fails: the error is caught.
LogFails(c) ==
  /\ c \in logging
  /\ \E i \in Unlogged(c) : InTurn(c, i) /\ dropped' = dropped \union {i}
  /\ logging' = logging \ {c}
  /\ UNCHANGED <<vars, conn, audited>>

\* Mutant: the wait for a connection has no end.
LogNeverGivesUp(c) ==
  /\ AwaitsLog(c) /\ FALSE
  /\ UNCHANGED poolVars
\* No connection in time: this error is caught, too.
LogTimeout(c) ==
  /\ AwaitsLog(c) /\ ~Free
  /\ \E i \in Unlogged(c) : InTurn(c, i) /\ dropped' = dropped \union {i}
  /\ UNCHANGED <<vars, conn, logging, audited>>

-----------------------------------------------------------------------------
\* What happens next to request c, without it being asked.
Acquire(c) == Connect(c) \/ ConnectTimeout(c)
Log(c) == LogConnect(c) \/ LogTimeout(c) \/ LogInsert(c) \/ LogFails(c)

Arrive(c) ==
  \/ \E d \in Lot : PurchaseBegin(c, d)
  \/ \E r \in Baskets : BasketBegin(c, r)
  \/ \E i \in Ids(orders) : StornoBegin(c, i)

Outside ==
  \/ \E d \in Lot, n \in 1 .. MaxSupply : AddStock(d, n)
  \/ \E S \in SUBSET Ids(orders) : InvoiceOrders(S)
  \/ \E c \in Client : Arrive(c)

PoolNext ==
  \/ Outside /\ UNCHANGED <<conn, logging, audited, dropped>>
  \/ \E c \in Client : Acquire(c) \/ Statement(c) \/ Fail(c) \/ Log(c)

PoolSpec == PoolInit /\ [][PoolNext]_poolVars

\* PostgreSQL queues the waiters of a row lock, so a request that is given
\* the chance to go on again and again does go on; the deadlock detector runs
\* whenever a wait lasts (deadlock_timeout); a wait for a connection ends
\* with one or with acquireConnectionTimeout.
PoolFairness ==
  \A c \in Client :
    /\ SF_poolVars(Statement(c))
    /\ WF_poolVars(DeadlockVictim(c) /\ Fail(c))
    /\ WF_poolVars(Acquire(c))
    /\ WF_poolVars(Log(c))

FairPoolSpec == PoolSpec /\ PoolFairness

-----------------------------------------------------------------------------
(* Properties. *)

\* The pool is never overdrawn, and only requests in flight have connections.
PoolTypeOK ==
  /\ conn \subseteq InFlight /\ logging \subseteq conn
  /\ Cardinality(conn) + Cardinality(logging) <= PoolSize
  /\ audited \subseteq 1 .. nextId - 1 /\ dropped \subseteq 1 .. nextId - 1

\* Every request ends, with an order or without: waits on row locks, also
\* circular ones, and waits for connections that purchases holding one each
\* expect of each other, are resolved.
RequestEnds == \A c \in Client : pc[c] # "idle" ~> pc[c] = "idle"

\* An order that is committed has its audit row, unless the insertion itself
\* failed or found no connection: log is awaited before COMMIT.
OrdersAudited == Ids(orders) \subseteq audited \union dropped

\* c cannot go on before somebody else does.
Blocked(c) ==
  \/ c \notin conn /\ ~Free
  \/ AwaitsLog(c) /\ ~Free
  \/ c \in conn /\ Logged(c) /\ \E x \in Client : WaitsFor(c, x)

\* Everybody waits for somebody else only in a deadlock on rows, or when the
\* transactions in flight have taken every connection of the pool and one of
\* them wants another for its audit row.
HangsOnlyWhenSpent ==
  InFlight # {} /\ (\A c \in InFlight : Blocked(c)) =>
    \/ \E S \in SUBSET InFlight : WaitCycle(S)
    \/ Cardinality(conn) = PoolSize /\ \E c \in conn : AwaitsLog(c)

=============================================================================
