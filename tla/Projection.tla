----------------------------- MODULE Projection -----------------------------
(***************************************************************************)
(* The public projection: one thread follows the chaincode events of the   *)
(* ledger and keeps one page per batch in SQLite.  The stream may end at   *)
(* any event (the process stops, the peer or a query fails); it is opened  *)
(* again at the block of the last event that was stored, so events come    *)
(* again and must not count twice.  The ledger is seen as the sequence of  *)
(* its events; a block of several is published at once.                    *)
(***************************************************************************)
EXTENDS Integers, Sequences, FiniteSets

CONSTANTS
  Batch, Lot,
  Follows,    \* which type of event may come after which in a batch's life,
              \* as pairs; <<None, t>> says that a life may begin with t
  Lifetime,   \* bound: events per batch
  None        \* no page, no lot, no event before the first

Type == {"BatchCreated", "PickupOffered", "PickupAccepted",
         "FreightCostRecorded", "DeliveryOffered", "DeliveryAccepted",
         "RetailPriceReported", "PriceEvaluated", "ReviewUpdated"}

VARIABLES
  chain,    \* the events of valid transactions, in the order of the ledger; the
            \* position of an event stands for its transaction
  stored,   \* the table events: the transactions already projected
  page,     \* the table projections: one page per batch
  stream    \* the event the stream delivers next, or Closed

vars == <<chain, stored, page, stream>>

Closed == 0

Event == [type : Type, batch : Batch, lot : Lot \cup {None}, block : Nat \ {0}]

\* A page shows the state, version and block of one event; history and sources
\* list the transactions that added a handover and signed sources.  What else is
\* on it never changes after the batch is created.
Page == [shows : Nat, lot : Lot \cup {None}, history : Seq(Nat), sources : Seq(Nat)]

ASSUME ProjectionAssumption ==
  /\ Follows \subseteq (Type \cup {None}) \X Type
  /\ Lifetime \in Nat
  /\ None \notin Lot \cup Page

Init ==
  /\ chain  = <<>>
  /\ stored = {}
  /\ page   = [b \in Batch |-> None]
  /\ stream = Closed

-----------------------------------------------------------------------------
(* The ledger, as the projection relies on it                              *)

Of(c, b) == {i \in DOMAIN c : c[i].batch = b}

\* The type of the batch's last event.
Latest(c, b) ==
  IF Of(c, b) = {} THEN None
  ELSE c[CHOOSE i \in Of(c, b) : \A j \in Of(c, b) : j <= i].type

AnyLot(c, lot) == TRUE

FreshLot(c, lot) == \A i \in DOMAIN c : c[i].lot # lot

Continues(c, e) ==
  /\ <<Latest(c, e.batch), e.type>> \in Follows
  /\ (e.lot # None) <=> (e.type = "RetailPriceReported")
  /\ e.lot # None => FreshLot(c, e.lot)

Height(c) == IF c = <<>> THEN 0 ELSE c[Len(c)].block

\* The events that may come next after c, in the given block.
Upcoming(c, block) ==
  {e \in [type : Type, batch : Batch, lot : Lot \cup {None}, block : {block}] :
     Continues(c, e) /\ Cardinality(Of(c, e.batch)) < Lifetime}

\* A block has an event, or events of two batches: two transactions on one batch
\* conflict.
Publish ==
  /\ \E e \in Upcoming(chain, Height(chain) + 1) :
       LET one == Append(chain, e)
       IN  \/ chain' = one
           \/ \E f \in Upcoming(one, e.block) :
                f.batch # e.batch /\ chain' = Append(one, f)
  /\ UNCHANGED <<stored, page, stream>>

-----------------------------------------------------------------------------
(* The stream                                                              *)

\* Store.checkpoint: MAX(block), or 0 of an empty table.
checkpoint ==
  IF stored = {} THEN 0
  ELSE CHOOSE m \in {chain[i].block : i \in stored} :
         \A i \in stored : chain[i].block <= m

Exclusive(i) == \A j \in DOMAIN chain : j < i <=> chain[j].block <= checkpoint

Inclusive(i) == \A j \in DOMAIN chain : j < i <=> chain[j].block < checkpoint

\* The loop of Application.Workers opens the stream at the checkpoint's block.
Connect ==
  /\ stream = Closed
  /\ stream' \in {i \in 1..(Len(chain) + 1) : Inclusive(i)}
  /\ UNCHANGED <<chain, stored, page>>

\* The peer, the query of a new batch, SQLite or the process fails: whatever
\* accept had not committed is gone.
Disconnect ==
  /\ stream # Closed
  /\ stream' = Closed
  /\ UNCHANGED <<chain, stored, page>>

-----------------------------------------------------------------------------
(* Projection.accept                                                       *)

unseen(tx) == FALSE

seen(tx) == tx \in stored

Handover(e) == e.type \in {"BatchCreated", "PickupAccepted", "DeliveryAccepted"}

Sourced(e) == e.type \in {"BatchCreated", "PickupOffered"}

AddAlways(condition, list, tx) == Append(list, tx)

AddIf(condition, list, tx) == IF condition THEN Append(list, tx) ELSE list

\* The page of a new batch begins with the fields that GetBatch answers and that
\* never change, so it does not matter how old the answer is.
NewPage == [shows |-> 0, lot |-> None, history |-> <<>>, sources |-> <<>>]

forgotten(b) == NewPage

existing(b) == IF page[b] = None THEN NewPage ELSE page[b]

\* Only a report names a lot, and the lot stays on the page.
Updated(b, tx) ==
  LET e   == chain[tx]
      old == existing(b)
  IN  [shows   |-> tx,
       lot     |-> IF e.type = "RetailPriceReported" THEN e.lot ELSE old.lot,
       history |-> AddIf(Handover(e), old.history, tx),
       sources |-> AddIf(Sourced(e), old.sources, tx)]

\* The column lot of projections is unique.
Storable(tx) ==
  \A b \in Batch :
    page[b] # None /\ b # chain[tx].batch =>
      page[b].lot = None \/ page[b].lot # Updated(chain[tx].batch, tx).lot

Skip ==
  /\ stream \in DOMAIN chain
  /\ seen(stream)
  /\ stream' = stream + 1
  /\ UNCHANGED <<chain, stored, page>>

\* Store.project: the transaction and the page are stored in one go.
Project ==
  /\ stream \in DOMAIN chain
  /\ ~seen(stream)
  /\ Storable(stream)
  /\ LET b == chain[stream].batch
     IN  page' = [page EXCEPT ![b] = Updated(b, stream)]
  /\ stored' = stored \cup {stream}
  /\ stream' = stream + 1
  /\ UNCHANGED chain

Handle == Skip \/ Project

Follow == Connect \/ Disconnect \/ Handle

Next == Publish \/ Follow

\* The loop reconnects after every failure, and no event fails for ever: one that
\* is delivered again and again is handled in the end.
Fairness ==
  /\ WF_vars(Connect)
  /\ \A i \in 1..(Lifetime * Cardinality(Batch)) : SF_vars(stream = i /\ Handle)

Spec     == Init /\ [][Next]_vars
FairSpec == Spec /\ Fairness

-----------------------------------------------------------------------------

\* Type invariant: block numbers never fall along the chain, an open stream is at
\* an event or just after the last, and histories list handovers only.
TypeOK ==
  /\ chain \in Seq(Event)
  /\ \A i, j \in DOMAIN chain : i <= j => chain[i].block <= chain[j].block
  /\ stored \subseteq DOMAIN chain
  /\ page \in [Batch -> Page \cup {None}]
  /\ \A b \in Batch : page[b] # None =>
       page[b].history \in Seq({i \in stored : Handover(chain[i])})
  /\ stream \in 0..(Len(chain) + 1)

\* A list holds the members of S, each once and in order.
Lists(list, S) ==
  /\ {list[i] : i \in DOMAIN list} = S
  /\ \A i, j \in DOMAIN list : i < j => list[i] < list[j]

Projected(b) == {i \in stored : chain[i].batch = b}

\* A page shows the last of the transactions S, lists each handover and source
\* among them once and in order, and bears the lot of the last report.
Reflects(p, S) ==
  /\ p.shows \in S
  /\ \A i \in S : i <= p.shows
  /\ Lists(p.history, {i \in S : Handover(chain[i])})
  /\ Lists(p.sources, {i \in S : Sourced(chain[i])})
  /\ p.lot = None => \A i \in S : chain[i].lot = None
  /\ p.lot # None => \E i \in S : /\ chain[i].lot = p.lot
                                 /\ \A j \in S : chain[j].lot # None => j <= i

\* Through broken streams and replayed blocks every page is what its batch's
\* stored events make of it (Projection.accept).
PagesTrue ==
  \A b \in Batch : IF page[b] = None THEN Projected(b) = {}
                  ELSE Reflects(page[b], Projected(b))

\* No event wedges the stream: the lot on the page that the next event makes is
\* no other page's (Store.project, the unique column), however often the stream
\* came back to it.
NeverRefused == stream \in DOMAIN chain => Storable(stream)

Log == INSTANCE Delivery WITH published <- chain, delivered <- stored

\* backend/README.md: the projection "resumes from" its checkpoint with
\* "transaction deduplication": events are projected exactly once, in order.
DeliversInOrder == Log!Spec

\* Every published event is projected in the end, although any connection may
\* break (Application.Workers retries every two seconds); with the bounded ledger
\* of a run, the projection catches up for good.
CatchesUp == <>[](stored = DOMAIN chain)
=============================================================================
