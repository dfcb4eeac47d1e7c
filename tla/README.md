# AgroChain: specifications, model checking and proofs

AgroChain traces a batch of produce from the producer to the shelf. Four
organisations (producer, carrier, retailer, regulator) share a Hyperledger
Fabric ledger; a Go chaincode decides which commands the ledger accepts; a Java
backend fetches signed documents, submits commands, projects committed events
for the public and evaluates the retail price of every reported batch. The
modules here specify the chaincode, the way Fabric runs it concurrently, the
backend's journal, the price rule that is written once in Go and once in Java,
the public projection with the worker that depends on it, the queries and who
may ask them, and the operation that the browser remembers. TLC checks them on small instances;
TLAPS proves the theorems listed below for every value of the constants.

`PROJECT.json` maps every definition to the lines it stands for.

## Inventory

Paths are relative to `src/`; `G` is `chaincode/agrochain/internal/agrochain`,
`J` is `backend/src/main/java/org/agrochain`.

| Part | State | Operations | Talks to | What makes it correct |
| --- | --- | --- | --- | --- |
| Chaincode engine (`G/domain.go`, `ledger.go`, `models.go`) | 21 kinds of public key, from `batch` to `reviewActionReference` | ten mutations | evidence provider (call), ledger (read, write set) | one path through six states; custody by acceptance only; a receipt, a history entry and an event per mutation; indexes that agree |
| Evidence and configuration (`G/evidence.go`) | `configuration`, `policy`, `sourceKey` | Bootstrap, verification of bundles | ledger | one configuration; a document only from the right source, used once |
| Private records (`G/private.go`) | documents' openings, costs, reports in three collections | `prepare`, private queries | ledger, private collections | what public references promise exists, and is never overwritten |
| Price analysis (`G/analysis.go`) | anomaly records, review actions | EvaluatePrice, OpenReview, ResolveReview, queries | private collections | the score is the rule's; one evaluation; a review opened and resolved once |
| Contract entry (`G/contract.go`, `validation.go`) | none | dispatch, authorisation, parsing | Fabric stub | only the right organisation and role |
| Queries (`G/queries.go`) | none | eight reads, paged indexes | ledger | whoever pages through sees every entry that stays, once and in order |
| Fabric (`network/`, external) | blocks, read versions | endorse, order, validate, commit | chaincode, gateway | serializability of the commands |
| Workflow and journal (`J/Workflow.java`, `Store.java`) | SQLite: `operations`, `evidence` | submit, advance, recover | gateway, evidence service | one transaction per row; outcomes that are true and final; no row left undecided |
| Gateway (`J/FabricLedger.java`, `ApiError.java`) | none | query, endorse, submit, reconcile, events | Fabric | unknown outcomes are not reported as failures |
| Evidence service and simulators (`J/EvidenceService.java`, `Simulators.java`) | documents on disk, cache of simulated documents | prepare | adapters, ledger queries | documents for this command only |
| Analysis worker (`J/Analysis.java`, `Application.java`) | none (finds its work in `projections`) | reconcile, every two seconds | workflow, ledger queries | every report is evaluated in the end |
| Projection (`J/Projection.java`) | SQLite: `events`, `projections` | accept | event stream, GetBatch | each event once, in order, nothing private |
| HTTP interface, identities, web client (`J/Api.java`, `AuthFilter.java`, `Actor.java`, `static/app.js`) | the browser's pending operation | routes, access table | workflow | a reader gets what the chaincode grants; a user is told the true end of an operation and can go on asking for it |
| Deployment (`network/scripts`, `scripts`) | files, containers | shell and Python scripts | - | - |

What is hard here: clients endorse concurrently against old snapshots, and the
engine writes several keys it never reads; documents, nonces and identifiers may
be used again in any combination; the backend may stop between any two of its
steps, the ledger may be out of reach at each of them, and a transaction may be
lost or committed after the backend stopped waiting; one operation identifier may be used by two
roles of an organisation; an evaluation passes only if two programs in two
languages agree; the event stream breaks anywhere and replays what was handled;
the worker acts on answers that may be old; pages of a listing are answered at
different times; access rules are written four times; and the browser may have
several requests about one operation under way. `PROJECT.json` lists these hazards line by line with the
properties that cover them.

## Modules

| Module | Models | Composition |
| --- | --- | --- |
| `PriceScore` | `priceScore` (Go) and `score` (Java), with 64-bit arithmetic (`Wrap`) at the width `MaxLong` | - |
| `ScoreAgreement` | worker proposes, chaincode attests | extends `PriceScore` |
| `Engine` | one invocation: `Accepts`, `Reads`, `Plan`, `Emits` as functions of a world state and a proposal | extends `PriceScore` |
| `Lifecycle` | abstract: what the chaincode promises about a batch | - |
| `Chaincode` | the contract, one proposal after another; the invariants | extends `Engine`, implements `Lifecycle` |
| `Fabric` | endorsement on a snapshot, versions, MVCC validation, duplicate and lost transactions | extends `Engine`, implements `Chaincode` |
| `Workflow` | the backend's journal and the ledger as the backend sees it | - |
| `Delivery` | abstract: each event once, in order | - |
| `Projection` | the event stream from the checkpoint, the pages, their storing | implements `Delivery` |
| `Tracing` | contract, projection and analysis worker together | extends `Chaincode`, instantiates `Projection` |
| `Queries` | paged listings while transactions commit; the private queries and the access tables | extends `Chaincode` |
| `PendingOperation` | the page in the browser with the backend as its journal row | - |
| `Clients` | proposals for TLC | extends `Engine` |
| `MCChaincode`, `MCFabric`, `MCWorkflow`, `MCProjection`, `MCTracing`, `MCQueries` | instances for TLC | |
| `PriceScore_proofs`, `ScoreAgreement_proofs`, `Workflow_proofs`, `Projection_proofs`, `PendingOperation_proofs` | theorems and proofs | extend the module they are about |
| `Engine_proofs` | lemmas about one invocation on one world | extends `Engine`, `PriceScore_proofs` |
| `Chaincode_proofs` | theorems about the contract and about those who act on it | extends `Tracing`, `Queries`, `Engine_proofs` |
| `Fabric_proofs` | theorems about concurrent transactions | extends `Fabric`, `Engine_proofs` |

### The chaincode

`Engine` has no variables, so that the same definitions serve `Chaincode`, which
runs proposals one after another, and `Fabric`, which runs them on a snapshot
and commits them later. A world is a record of tables, one for each kind of
composite key (`key(kind, ...)` in `G/ledger.go`), the private collections among
them. A proposal is a command together with its transient documents. `Accepts`
is the conjunction of the early returns of `engine.apply`,
`realEvidence.prepare` and `realEvidence.analysis`; the early returns differ
only in the error, so their order is not kept. `Plan` is the write plan with the
private writes, the first of two entries for one key winning as `proof.Public`
does over the plan (`domain.go:286`); `flush` applies it. `Reads` is every key
the stub is asked for, which is what Fabric validates at commit.

Abstracted: a document is its header and the amounts of its body; `sound` stands
for all checks of a document whose only effect is to reject (schema, signature,
commitment, parties, currency and tax basis). Salts, timestamps, transaction
identifiers and descriptive fields are left out. `Command` lets a field that a
command lacks hold anything.

Each action of `Chaincode` is one mutation (or Bootstrap) for some proposal;
rejected proposals are no steps.

### Fabric

`Endorse` runs the engine on the current world and records the versions read.
`Commit` applies a transaction whose reads still have those versions, and leaves
it in the pool, so that it may be delivered again. `Invalidate` is
`MVCC_READ_CONFLICT`, `Lose` a transaction that never arrives. A version is the
number of the write of that key, since only equality of versions is compared.
Both endorsing peers are at one height: peers that differ produce different read
sets, which Fabric refuses as a mismatch.

### The workflow

The journal row of `Workflow` is a row of `operations` and its documents in
`evidence`; `pc` and `cur` are the place in `advance`. `submit` and `recover`
are `synchronized`, so one row is worked on at a time. The steps of `advance`
are separate actions wherever the process could stop between two lasting
effects or two remote calls; each remote call may also fail, with the errors
that `FabricLedger` and `ApiError` distinguish. `Crash` loses everything but the
journal. The ledger side is reduced to one receipt per operation key, with
transactions in flight, delivered, invalidated by rivals or lost, and other
clients (`Interfere`) or another role (rows with a common key) using the same
identifier. A failure of SQLite itself is not modelled.

### The projection and the worker

`Projection` sees the ledger as the sequence `chain` of its events, several of
which may be in one block. `Connect` opens the stream at the block of the
checkpoint, that is at the first event of that block, handled or not
(`FabricLedger.events`, inclusive). `Skip` and `Project` are the two ways through
`accept`; `Project` is one step because `Store.project` is one transaction and
nothing before it lasts. `Disconnect` stands for every failure and for the end of
the process. Which event may follow which (`Follows`) and that no lot is named
twice are what the projection takes from the chaincode: in `Tracing` the events
come from `Chaincode` itself, and `FeedsProjection` shows that it emits
accordingly. A page is the transaction it shows, its lot and the transactions
that left a handover or sources; the rest of a page never changes.

In `Tracing`, `Pick` is the three queries of `Analysis.reconcile`, each answered
from a version of its own within `Lag`; `Evaluate` and `Refused` are the two ends
of the request. What else may befall a request is in `Workflow`. The identifier
of the operation is a digest of batch and version, given as the injective
function `Digest` for the pairs that a run can meet. The fields that the request
does not carry hold any values of their types (`AnyCommand`).

### Queries

A listing is read by `Ask`, then one `Page` after another until the bookmark is
empty, with `Mutate` in between. A key is its position in the order of the ledger
(ten-digit versions, batch identifiers in `Order`), so the bookmark, the next key,
is a position. All answers come from the retailer's peer
(`FabricLedger.query`), whose ledger only grows. The private queries are functions
of the world, in the order in which the chaincode refuses; beside them stand the
tables of `Actor.commercial`, `Api` and `collections.json`.

### The browser

`PendingOperation` has the page (`pending`, and in `told` what it said), the
requests under way, and of the backend only the journal row and its transaction.
`Break` loses a request or its answer, or leaves a request that still arrives.
`Serve` and `Recover` are rounds of `advance` with all the ends that `Workflow`
has, and the error 500 of an unexpected exception; `Order` puts a transaction that was
persisted on the ledger at any later time, if the version is still the one it
was drafted on. The channel is bootstrapped: `CONFIGURATION_REQUIRED`, which the
page takes for an end and the journal for an outage, does not occur.

## Checks

| Run | Instance | Distinct states | Shows |
| --- | --- | --- | --- |
| `chaincode` | 2 batches, 10 versions, about 40 proposals at every version | 8,786 | all ledger invariants, three action properties and the refinement of `Lifecycle` |
| `fabric` | 2 batches, 2 endorsed transactions at once | 60,881 | `EndorsementsStand` and refinement of `Chaincode` |
| `score_agreement` | every price to 13, threshold to 21 | 13,626 | both scores agree and are exact |
| `workflow` | 2 rows under one key, 2 crashes | 93,018 | journal invariants |
| `settles` | 1 row, 3 crashes, all troubles | 1,934 | every persisted transaction is settled |
| `evaluation` | 1 evaluation, 3 crashes, outages and a wrong threshold | 383 | the evaluation completes |
| `lagging_peer` | 1 evaluation, an endorsement on a lagging peer | - | violated: see Findings |
| `projection` | 2 batches of 3 events, 2 lots, blocks of 1 or 2 | 39,450 | order, pages, no wedge, catching up |
| `tracing` | 1 whole life and the creation of a 2nd batch, a rival oracle, `Lag` 1 | 8,517 | the way of a batch to its page and its evaluation |
| `queries` | 3 batches, pages of 1, `MaxVersion` 9 | 77,341 | listings, access, the version ceiling |
| `browser` | 2 operations, others move the batch, logout and login | 493,832 | what the user is told is so; no operation is stuck |
| `double_check` | 2 operations, no logout | - | violated: see Findings |

`chaincode` checks, besides the types:

- `CustodyOffered`: one outstanding offer exactly while the batch waits for it,
  from the custodian to the organisation the state waits for.
- `CustodyFollowsTransfers`: custodian and owner are what the accepted transfers
  say.
- `EvidenceUsedOnce`: every document on the ledger backs one batch, in the place
  of its type, and was consumed by a mutation that has a receipt.
- `IndexesAgree`, `HistoryComplete`, `LotsConserved`, `PrivateBacked`: tables
  that are written together still agree after any sequence of commands.
- `ReceivedWithCost`: a received batch never lacks an input of its evaluation.
- `ReviewJustified`, `ScoreGrounded`: the review and the score of an anomaly.
- `RecordsPermanent`, `OneBatchAtATime`: what a step may never do.
- `ImplementsLifecycle`: each batch follows the abstract lifecycle.

The other runs, besides types:

- `EndorsementsStand`, `Serializable` (`fabric`): a transaction that passes
  validation would have been accepted on the world it commits to.
- `PagesTrue`, `DeliversInOrder`, `NeverRefused`, `CatchesUp` (`projection`):
  pages are the fold of the stored events; each event once and in order; the
  unique lot never refuses the next event; the stream gets past everything.
- `PagesAgree`, `FeedsProjection` (`tracing`): a page that has caught up agrees
  with the batch, its accepted transfers and its evidence on the ledger.
- `FreshRequestsStand`, `ReportsEvaluated` (`tracing`): a request of the worker
  that is up to date is accepted whatever the prices are, and every report is
  evaluated by somebody.
- `Listed` (`queries`): no entry twice, none missed that was there all along, each
  fits the filter when it is shown.
- `ReadersServed` (`queries`): the four access tables agree for every signer, and
  what they grant is there as soon as the public history says so.
- `ToldTrue`, `Resolved` (`browser`): see the table.

**Bounds.** Two batches are the fewest with which one can take the other's
identifiers, and every rule of the engine relates at most two batches. Ten
versions are all that a batch can ever have, so these runs reach the end of
both lives. `Clients` gives batch 2 an honest client and variants that reuse each
kind of identifier of batch 1 (document, source, nonce, transfer, cost, report,
lot, anomaly, operation), and batch 1 variants that break one rule each. In
`fabric`, clients send a command only at versions at which it may be due, as
others are rejected at endorsement in the same way as in `chaincode`, and two
transactions are outstanding; a conflict is between two. `MaxLong` in the two
instances is the smallest word in which the accepted products fit, so any
overflow would wrap. In `workflow`, the troubles are all errors the code
distinguishes; two rows are enough for one to find the other's receipt, and
one crash more than the first lets the retry of a retry fail. In `projection`,
lives have three events, of the kinds that `accept` tells apart, and blocks of two
make the replay begin before events that were stored; whole lives are in
`tracing`, where `Lag` 1 suffices for an answer from before the last event.
Its clients record the freight cost before the delivery is offered; `chaincode`
has both orders. Pages of one record have the most boundaries; a third batch
lets an entry appear behind, at and ahead of the bookmark. In `queries`
`MaxVersion` is one less than the commands would need, so the ceiling refuses
the last. In `browser` two operations let an answer about the first meet the
second, others move the batch once (`Moves`), and at most one request whose
connection broke is still to arrive.
`CHECK_DEADLOCK FALSE` is used throughout because the systems do stop: a
resolved batch, a settled row and an attested score have nothing left to do.

**Fairness.** `settles`, `evaluation`, `lagging_peer`: the
worker of `Application.Workers` calls `recover` and `Analysis.reconcile` every two
seconds and each visits every row, hence strong fairness of `Recover` for a row
and of `Submit` for an evaluation; a call in progress returns, hence weak fairness
of `Step`. Calls may fail any finite number of times but not for ever, hence
strong fairness of the successful outcome of each remote call; the same holds of
a transaction that is sent again and again (`Deliver`). Crashes are bounded by
`MaxCrashes`; endless crashing would rightly prevent progress.
`EvaluationCompletes` further supposes that the command is in order and that
nobody else evaluates the batch (`Alone`).

`projection`: the thread of `Application.Workers` reopens the stream two seconds
after every failure, hence weak fairness of `Connect`; failures are not bounded, so
each event needs strong fairness: one that is delivered again and again is
handled in the end. `tracing`: the same, the worker's rounds, and that a request
comes to one of its ends; nothing is asked of clients or of the answers' age.
`browser`: the assumption is about the user, who presses the refresh button again
and again while the message says that the operation is pending (`Check`);
requests of the pending operation get through, the outage ends, and the ledger
decides. Without a user who asks, the page waits: it polls nothing.

## Findings

`lagging_peer`: `Analysis.reconcile` submits under an identifier derived from the
batch and its version. If that row fails once for a reason that is neither an
outage nor a wrong threshold (an endorsing peer that lags and answers
`VERSION_CONFLICT`, an internal error before the transaction is persisted),
`Workflow.submit` returns the old error for ever, while nothing changes the
batch's version. `docs/ARCHITECTURE.md:144` says that "Anomaly computation is
eventually completed after the retail report." In the two-rows run the same
behaviour is what keeps a failed row final, so a remedy would be another
identifier, not a retry of any error.

`tracing` has the other half of this: as long as the endorsing peers are up to
date, a request drawn up on an old version fails alone, because the next
round's has another identifier, and `ReportsEvaluated` holds.

`double_check`: while the request of a command is under way, the refresh button
is enabled and posts the pending operation again. The first answer that ends the
operation clears `pending`; the user starts another; the late answer to the other
request clears `pending` again, whatever it now holds (`sendPending`,
`app.js:25-26`). If the new operation is then answered with 202, the page no
longer asks about it, although `docs/STAGE6_UI.md:136-137` says that the pending
`operationId` of the open page is kept. Nothing is lost on the ledger, and
`ToldTrue` holds all the same; comparing `pending` with `p` before clearing it
would be the remedy.

## Proofs

| Theorem | Statement |
| --- | --- |
| `PriceScore_proofs!ScoresAgree` | Go's corrected truncating division and Java's `floorDiv` give the same score on every accepted input |
| `ScoreAgreement_proofs!AlwaysAgree`, `VerdictExact` | the two invariants of `score_agreement` |
| `Chaincode_proofs!TypeCorrect` | `Spec => []TypeOK` |
| `Chaincode_proofs!OffersOutstanding`, `CustodyTrue` | `CustodyOffered`, `CustodyFollowsTransfers` |
| `Chaincode_proofs!IndexesTrue`, `HistoryUnbroken` | `IndexesAgree`, `HistoryComplete` |
| `Chaincode_proofs!EvidenceUsed`, `PrivateRecordsBacked` | `EvidenceUsedOnce`, `PrivateBacked` |
| `Chaincode_proofs!LotsAreConserved`, `InputsOnRecord` | `LotsConserved`, `ReceivedWithCost` |
| `Chaincode_proofs!ScoresGrounded`, `ReviewsJustified` | `ScoreGrounded`, `ReviewJustified` |
| `Chaincode_proofs!PermanentRecords`, `OneBatchEach` | the action properties `RecordsPermanent`, `OneBatchAtATime` |
| `Chaincode_proofs!Implements` | the contract implements `Lifecycle` |
| `Fabric_proofs!EndorsementsHold` | `EndorsementsStand`, for any number of outstanding transactions |
| `Fabric_proofs!OneAfterAnother` | Fabric's concurrency implements `Chaincode` |
| `Workflow_proofs!TypeCorrect`, `SubmitsOne`, `CommitsOwn`, `FailsDead`, `ServesCommitted`, `EndsForGood` | every property of the run `workflow` |
| `Projection_proofs!TypeCorrect`, `PagesAreTrue`, `NeverWedged` | the three invariants of the run `projection`, for any batches, lots and life cycle |
| `Projection_proofs!ImplementsDelivery` | the projection implements `Delivery` |
| `Chaincode_proofs!ProjectionFed` | `FeedsProjection`: the contract emits what the projection relies on |
| `Chaincode_proofs!PagesFollowLedger`, `FreshRequestsAccepted` | the two invariants of the run `tracing`, for any number of batches, any lag and any clients |
| `Chaincode_proofs!ReadersAreServed`, `ListingsComplete` | `ReadersServed` and `Listed` of the run `queries`, for any page size and any order of the keys |
| `PendingOperation_proofs!TellsTrue` | `ToldTrue` of the run `browser`, for any number of operations and requests |

With them every safety property of a passing run is a theorem, for any
identifiers, prices and proposals.

They rest on the assumptions in the modules: on the numbers (`PriceAssumption`:
products of accepted inputs fit a word; bounds are positive), on `None` being
none of the values it stands beside (`EngineAssumption`, `AnswerAssumption` and
their like), and that proposals are commands (`ProposalAssumption`,
`FabricAssumption`). A command carries finitely many documents (`Bundles`), which
counting what they use up needs. `TracingAssumption` says that the identifiers of
the worker are injective in batch and version; `WorkerAssumption`, that no other
client comes by one of these digests, and that the bound on versions admits an
evaluation, the eighth version of a batch at the latest. `QueriesAssumption` says that
the ledger has some order of the batch identifiers. TLC evaluates each of them in the runs.

*Price.* `FloorBounds` and `FloorUnique` characterise the floor by the
inequalities `q * d <= n < (q + 1) * d`; `WrapExact` and `NumeratorExact` show
that nothing wraps, and `CorrectedIsFloor` that Go's correction yields the
floor. Two integers with the same inequalities are equal.

*Chaincode.* A plan *fits* if each entry it puts is one its table may hold; one
lemma per part of a plan shows that it fits, `UnionFits` and `FlushKeepsWorld`
put them together. `TypeOK` is not inductive: an operation on an existing batch
loads its evidence references, and `TypeOK` does not say that they exist.
The inductive invariant adds `Paired`, that a batch has evidence references
exactly when it exists.

*Custody.* Neither invariant is inductive: the custodian after an acceptance is
right only if the accepted transfer was the one offer and no transfer of its kind
was accepted before. `Custodied` says for each batch, by its state, whether an
offer is pending and on which terms (`Offering`), and which kinds of transfer
have been accepted, at most one of each (`Holding`); a batch that does not exist
has no transfer at all (`Unoffered`), which is what creation needs. `OthersKeep`
frames the batches that a proposal does not name, `OfferKeeps` and `AcceptKeeps`
are the two steps of a hand-over, `NextHolder` and `TransfersFlushed` read them
off `nextBatch` and the plan.

*The ledger.* No other invariant of the ledger is inductive either, and none of
them becomes so alone. `Effect` says table by table what a mutation leaves
(`MutationEffect`, from `PlanFlushed`: no two parts of a plan write to the same
table). The inductive invariant `Sound` is a conjunction of relations between
tables, each with a lemma that a mutation keeps it:

| Relation | Says | Needs besides |
| --- | --- | --- |
| `Chained` | the history of a batch is its receipts by version, without a gap | - |
| `IndexedIn` | each index has a batch once, at its owner and at its state | - |
| `OpeningsIn`, `PurchasedIn` | openings are of documents on record; from its first offer on, a batch has a purchase of its quantity | `PurchasedIn` needs `OpeningsIn` |
| `FreightIn` | a batch has its cost under both keys before its delivery is accepted | - |
| `SoldIn` | batches, lots and reports, one for one | - |
| `EvaluatedIn` | evaluations and anomalies, one for one | - |
| `ReviewsIn` | the review actions are those of the review state, by receipts in order | `Chained`, `EvaluatedIn` |
| `Configured`, `GroundedIn` | the policy is on record; an anomaly is the rule's verdict on records that are still there | every relation above but `IndexedIn` |
| `PlacedIn` | documents and places behind batches, one for one | `PurchasedIn`, `FreightIn`, and that costs last |
| `UsesIn` | as many sources and as many nonces are used up as there are documents | - |

A relation that only says what exists is not enough: to show that a new record
overwrites none, its identifier must be free in every table it is written to, of
which the code reads one. So each relation also says that nothing else is there,
for instance that every lot belongs to the batch that names it. TLC finds no
violation of `Sound`, together with `Custodied` and `Paired`, in the 8,786 states
of the run `chaincode`. `Bootstrap` keeps `Sound` because it only succeeds on a
ledger without a configuration, where no anomaly can be.

`HistoryComplete` also speaks of the events: `Told` says that the events of a batch
tell its history one for one, each from the state in which the last one ended.
The action properties need `Sound` before the step: a key that a plan writes is
free (`RecordsKept`), or its record changes in the one allowed way
(`TransferAfter`, `AnomalyAfter`).

*Lifecycle.* The refinement maps a ledger to stage, custodian, owner, freight and
review of each batch. `BatchLives` shows that each function takes its batch one
step on, `OthersLive` that the others stand still, which needs `Sound`: an
anomaly or a cost that is written must not be another batch's.

*Fabric.* `ReadsDecide` is about the engine alone: two worlds that hold the same
under the keys of `Reads` accept the same proposal, with the same plan and event,
although the plan writes keys that are never read. The inductive invariant says of
each transaction in the pool that *some* world, not necessarily one that is
remembered, explains what it was endorsed with (`Endorsed`), and that a version
stands for a value: absent, or that of the key's n-th write (`Seen`, `Counted`).
A transaction whose versions are still current then finds the values it read
(`Stands`), so at its commit the contract would do the same. This invariant
quantifies over all worlds, so TLC cannot evaluate it; it evaluates
`EndorsementsStand`, which follows. `OneAfterAnother` adds that the commit is a step
of `Chaincode`, whose operators, being of an instance, are unfolded in
`ContractWrites`, `ContractAdmits` and `ContractAccepts`.

*Workflow.* `IInv` adds to the types: what is in hand while `advance` is at each
step (`InHand`); that only the transaction persisted last was ever sent
(`OneTransaction`, `Persisted`); that a transaction is valid exactly if it left
the receipt of its key (`OnLedger`); and what each final state knows
(`Settled`). `FailedIsDead`, for instance, is not inductive alone: it needs that
a row can fail only before its transaction is persisted, by a receipt that is not
its own, or by an outcome that is not valid.

*Projection.* The inductive invariant adds two parts to `TypeOK` and `PagesTrue`.
`Orderly`: along the chain, blocks do not fall and no lot is named twice.
`Prefix`: the stored transactions are a prefix of the chain, and the stream is
within it or just behind it. Neither the replay nor the checkpoint appears in
`Prefix`: `ConnectStarts` shows that a stream opened at the first event of the
checkpoint's block begins within the prefix, because the checkpoint is the block
of the last stored event; that the replay is inclusive is what this needs. An
unseen event is then the first behind the prefix (`NextIsFirst`), so
`ListGrows` and `PageGrows` extend the lists of a page at their end. That nothing
wedges the stream follows: a lot on another page was named by a stored event,
and the next event is not stored.

*Tracing.* `Traced` is the ledger's invariant (`Good`), that the chain of events
recounts the ledger (`Recounting`), and that a staged request bears an identifier
of the worker (`Staged`). A chain *recounts* a ledger when each batch has as many
events as its version says, as many handovers and sources among them as its state
tells of, the lot that the ledger has and no other, and a last event that `Tells` its
state, freight cost and review. Each
function then emits an event that may follow the last one, for which `Tells` is
needed: the abstract life cycle of `Projection` knows types of events alone, and the
freight cost may come between any two states of a transport. So each step of the
contract is a step of `P!Spec` or a stutter, and the theorems about `Projection`
hold of the projection in `Tracing`. `PagesAgree` needs `Showing` besides: a batch
on the ledger has its certificate (`Eligible`), and a page has as many handovers and
sources as the stored events of its batch (`Paging`). When these are as many as the
version says, they are all events of the batch, and what the chain says by the
batch's state, `Custodied` says of its accepted transfers.

*The worker's request.* `FreshRequestsStand` speaks of every guard of `EvaluatePrice` at
once. `Standing` says why each holds: the version of a batch is the number of
steps that its state, freight cost and review tell of (`AgedIn`), hence below the
ceiling; the report names the purchase and the cost that are on record, under the policy
in force (`OfferableIn`); and a digest is in use only if its batch is evaluated
(`UntakenIn`), as an operation of this name can only have been the worker's own. The
staged task is of a reported batch and names its report (`Tasked`), whatever old
version it was drawn up on. That the chaincode then agrees with the proposed
score is `ScoresAgree`.

*Queries.* For `ReadersServed`, `Storied` says that the history of a batch has a
receipt of a function exactly if what the function records is there, and as many
receipts of reviews as the review's state tells of. The access tables are compared
role by role, without reference to the ledger. For `Listed`, `Going` relates the
bookmark, the records shown and `steady`, the entries that were there all along:
the records ascend, lie before the bookmark, and contain every steady entry before it. A
page adds the least `PageSize` entries from the bookmark on. `nth` chooses the
i-th of a finite set of positions by counting; that there is one, that it
grows with i and that it leaves out none (`NthOf`, `NthGrows`, `NthAll`) rests on a
least element (`LeastOf`), as induction on the size of a set is out of reach.
Entries that come or go while the reader pages are in no relation to the
bookmark, and need none.

TLC finds no violation of `Recounting`, `Staged`, `Showing` and `Standing` in the 8,517
states of the run `tracing`, nor of `StoriedIn` and `Listing` in the 77,341 states
of `queries`.

*Browser.* What the page was told must stay true. `Truthful` says when an answer
is: a verified operation's transaction is on the ledger; a refused one's row has
failed, and `Dead`, that a failed row's transaction is missing or drafted on a
version that the batch has left, holds for ever. The invariant demands this of every
answer under way too, as `Receive` may believe any of them, of rows only a
drafted operation having them (`Drafted`), and of the journal having a
transaction exactly in the states after persisting (`Journalled`). TLC checked
it on the 493,832 states of the run.

Only model-checked: liveness (`CatchesUp`, `ReportsEvaluated`, `Resolved`, `Settles`,
`EvaluationCompletes`), as fairness and `ENABLED` are out of the prover's reach.
The findings are counterexamples; there is nothing to prove of them.

## Not modelled

Parsing, schemas, signatures and commitments beyond whether a document holds
(they only reject); rendering, sessions and routes; the consumer's page; simulators; shell scripts.
Private data dissemination is taken for granted. `Health`, `GetBatch`,
`GetTransfer` and `GetOperation` are one read each and have no action of their
own. An exception in `recover` that is no `ApiError` ends the round for the rows
behind it; the model has no cause for one that repeats.

## Further work

`Workflow` with the requests of several users, in place of the row that
`PendingOperation` has, and `PendingOperation` shown to follow from it.
