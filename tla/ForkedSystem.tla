---------------------------- MODULE ForkedSystem ----------------------------
(***************************************************************************)
(* The worker on a cluster that forks.  The worker's RPC client, its log   *)
(* subscription and its blockhash all use CommitmentConfig::processed, so  *)
(* it acts on blocks the cluster may still abandon.  When that happens the *)
(* order accounts and the executed transactions fall back to the last      *)
(* rooted state, while everything the worker was told stays told: its      *)
(* active_orders, its running futures and the events in its stream.        *)
(*                                                                         *)
(* The instructions that set the program up (initialize, register_oracle)  *)
(* are taken to be rooted; only create_order and fulfill_order can be      *)
(* undone.                                                                 *)
(***************************************************************************)
EXTENDS OracleSystem

VARIABLE rooted   \* the order accounts and transactions no fork can undo

forkVars == <<vars, rooted>>

Processed == [orders |-> orders, ledger |-> ledger]

ForkInit == Init /\ rooted = Processed

Root ==
  /\ rooted # Processed
  /\ rooted' = Processed
  /\ UNCHANGED vars

\* The cluster settles on another fork.  An abandoned fulfill_order may be
\* sent on again by the nodes that still hold it, or be forgotten, as it must
\* be when its blockhash is one of the abandoned blocks; a user whose
\* create_order was undone may submit it again.
Fork ==
  /\ rooted # Processed
  /\ Fault
  /\ orders' = rooted.orders
  /\ ledger' = rooted.ledger
  /\ LET orphaned == {r.tx : r \in ledger \ rooted.ledger} IN
       mempool' \in {mempool, mempool \cup orphaned}
  /\ UNCHANGED <<program, markets, oracles, slot, unix_timestamp, logs,
                 workerVars, registrations, strays, rooted>>

ForkNext == (Next /\ UNCHANGED rooted) \/ Root \/ Fork

\* The worker and the cluster are as fair as without forks.
ForkSpec == ForkInit /\ [][ForkNext]_forkVars /\ Fairness

\* No fork, retry or resubmission changes an answer the cluster has rooted: the
\* price and the closing time users settle on are final.
RootedAnswerFinal ==
  [][\A o \in OrderKey :
       rooted.orders[o].exists /\ rooted.orders[o].open_order = 0
         => /\ rooted'.orders[o] = rooted.orders[o]
            /\ orders'[o] = rooted.orders[o]]_forkVars

\* An order's price, with the market it is a price of.
Answer(o, m, p) == [order |-> o, market |-> m, price |-> p]

\* The price requests the worker can have met: those emitted so far, on abandoned
\* forks too, and the stray ones.
Requests ==
  {[order |-> e.order, market |-> e.market, timestamp |-> e.timestamp] :
     e \in {logs[i] : i \in {j \in DOMAIN logs : logs[j].type = "requested"}}}
  \cup strays

AnswersToRequests ==
  UNION {{Answer(e.order, e.market, p) : p \in get_price(e.market, e.timestamp)} :
           e \in Requests}

\* What forks leave of PriceIsForOrder: each success the cluster holds of the worker's
\* transactions is the answer its order now has, and gives it a price of the order's
\* own market at a second for which it was requested for that market, however events,
\* accounts, futures and transactions of several forks mix.
PriceWasRequested ==
  \A r \in ledger :
    LET o == r.tx.order IN
    r.ok => /\ IsClosed(o) /\ orders[o].oracle_price = r.tx.price
            /\ Answer(o, orders[o].market, r.tx.price) \in AnswersToRequests

\* README.md: dApps use the oracle "to constantly watch the chain and fulfill
\* orders": no order stays open for ever.
NoOrderOpenForever == \A o \in OrderKey : []<>(~IsOpen(o))
=============================================================================
