------------------------------ MODULE Queries ------------------------------
(***************************************************************************)
(* Readers of the ledger: the paged queries, whose pages are answered one  *)
(* by one while transactions commit in between, and the private ones, with *)
(* the access rules that the chaincode, the HTTP interface and Fabric's    *)
(* collections each keep in a form of their own.  All of them are answered *)
(* by the retailer's peer (FabricLedger.query), whose ledger only grows.   *)
(***************************************************************************)
EXTENDS Chaincode, Functions

CONSTANTS
  Order,      \* the batch identifiers in the order of their keys
  PageSize    \* records per page

ASSUME QueriesAssumption ==
  /\ Order \in Seq(BatchId) /\ Range(Order) = BatchId /\ IsInjective(Order)
  /\ PageSize \in Nat \ {0}
  /\ None \notin AnomalyId

VARIABLES
  cursor,   \* the listing a reader is going through, or None
  steady    \* the entries that have been in its range ever since it began

reading == <<cursor, steady>>

Paged == [owner |-> Member, state |-> State, history |-> BatchId]

\* The keys of a range, in the order of the ledger: receipts are keyed by their
\* version in ten digits, index entries by the batch.
Span(table, filter) ==
  IF table = "history"
  THEN [n \in 1..MaxVersion |-> <<filter, n>>]
  ELSE [n \in 1..Len(Order) |-> <<filter, Order[n]>>]

\* The positions that hold an entry, from a bookmark on.
Entries(L, table, filter, from) ==
  {n \in DOMAIN Span(table, filter) :
     n >= from /\ L[table][Span(table, filter)[n]] # None}

Finished == 0   \* the empty bookmark

-----------------------------------------------------------------------------
(* GetBatchHistory, QueryBatchesByOwner, QueryBatchesByState               *)

Ask ==
  /\ cursor = None
  /\ \E table \in DOMAIN Paged : \E filter \in Paged[table] :
       /\ cursor' = [table |-> table, filter |-> filter, bookmark |-> 1,
                     records |-> <<>>]
       /\ steady' = Entries(world, table, filter, 1)
  /\ UNCHANGED vars

\* The bookmark is the key of the first entry that was left out, and the next
\* page begins with it.
AfterBookmark(n) == n + 1

AtBookmark(n) == n

\* The i-th of a set of positions.
nth(S, i) == CHOOSE n \in S : Cardinality({m \in S : m <= n}) = i

\* A page: the positions it holds, and the bookmark it ends with.
pageFrom(table, filter, from) ==
  LET found == Entries(world, table, filter, from)
      size  == Cardinality(found)
  IN  IF size <= PageSize
      THEN [items |-> [i \in 1..size |-> nth(found, i)], next |-> Finished]
      ELSE [items |-> [i \in 1..PageSize |-> nth(found, i)],
            next  |-> AtBookmark(nth(found, PageSize + 1))]

\* What is shown of an entry: the receipt, or the batch that the index names.
record(table, key) ==
  IF table = "history" THEN world.history[key] ELSE world.batch[world[table][key]]

Page ==
  /\ cursor # None /\ cursor.bookmark # Finished
  /\ LET p == pageFrom(cursor.table, cursor.filter, cursor.bookmark)
         shown(n) == [at |-> n, value |-> record(cursor.table,
                        Span(cursor.table, cursor.filter)[n])]
     IN  cursor' = [cursor EXCEPT
           !.records  = @ \o [i \in DOMAIN p.items |-> shown(p.items[i])],
           !.bookmark = p.next]
  /\ UNCHANGED <<vars, steady>>

Done ==
  /\ cursor # None /\ cursor.bookmark = Finished
  /\ cursor' = None
  /\ steady' = {}
  /\ UNCHANGED vars

\* Transactions commit between the pages.
Mutate ==
  /\ \E c \in Proposal : Invoke(c)
  /\ steady' = IF cursor = None THEN {}
               ELSE steady \cap Entries(world', cursor.table, cursor.filter, 1)
  /\ UNCHANGED cursor

QueriesInit == Init /\ cursor = None /\ steady = {}
QueriesNext == Ask \/ Page \/ Done \/ Mutate
QueriesSpec == QueriesInit /\ [][QueriesNext]_<<vars, reading>>

\* Whoever pages through a listing until the bookmark is empty sees every entry
\* at most once, in the order of the keys, and misses none that was there all
\* along, although entries come and go between the pages; each record fits the
\* filter when it is shown, and a history has no gap (query, fabricLedger.page).
Listed ==
  cursor # None =>
    LET r == cursor.records
        passed(n) == cursor.bookmark = Finished \/ n < cursor.bookmark
    IN  /\ \A i, j \in DOMAIN r : i < j => r[i].at < r[j].at
        /\ \A n \in steady : passed(n) => \E i \in DOMAIN r : r[i].at = n
        /\ \A i \in DOMAIN r :
             CASE cursor.table = "history" -> r[i].value.version = i
               [] cursor.table = "owner"   -> r[i].value.owner = cursor.filter
               [] cursor.table = "state"   -> r[i].value.state = cursor.filter

-----------------------------------------------------------------------------
(* GetPurchase, GetFreightCost, GetRetailReport, GetAnomaly,               *)
(* GetReviewHistory: who may read which collection                         *)

Trade   == "tradePrivate"
Freight == "freightPrivate"
Audit   == "retailAuditPrivate"

\* Fabric lets a client read a collection if its organisation is a member.
CollectionMember ==
  [c \in {Trade, Freight, Audit} |->
     CASE c = Trade   -> {Producer, Retailer, Regulator}
       [] c = Freight -> {Logistics, Retailer, Regulator}
       [] c = Audit   -> {Retailer, Regulator}]

\* authorize: the roles of each organisation that may call a query at all.
queryRole ==
  [m \in Member |->
     CASE m = Producer  -> {"producer"}
       [] m = Logistics -> {"carrier"}
       [] m = Retailer  -> {"retailer"}
       [] m = Regulator -> {"reviewer", "auditor", "oracle", "public-reader"}]

mayRead(actor, role, collection) ==
  \/ actor = Regulator /\ role \in {"reviewer", "auditor", "oracle"}
  \/ actor = Retailer  /\ role = "retailer"
  \/ actor = Producer  /\ role = "producer" /\ collection = Trade
  \/ actor = Logistics /\ role = "carrier"  /\ collection = Freight

PrivateQuery ==
  [GetPurchase      |-> Trade,
   GetFreightCost   |-> Freight,
   GetRetailReport  |-> Audit,
   GetAnomaly       |-> Audit,
   GetReviewHistory |-> Audit]

answer(v)     == [code |-> "OK", value |-> v]
refusal(code) == [code |-> code]

privateLoad(table, key) ==
  IF key = None \/ world[table][key] = None
  THEN refusal("PRIVATE_DATA_UNAVAILABLE") ELSE answer(world[table][key])

\* One page of ten; the actions kept under the anomaly, by their operations.
reviewActions(anomaly) ==
  LET keys == {k \in Present("reviewActionReference") : k[1] = anomaly}
  IN  IF \E k \in keys : world.reviewAction[k] = None
      THEN refusal("PRIVATE_DATA_UNAVAILABLE")
      ELSE answer({world.reviewAction[k] : k \in keys})

analysisQuery(fn, b) ==
  LET e == world.evaluation[b]
  IN  IF e = None THEN refusal("EVALUATION_PENDING")
      ELSE IF fn = "GetAnomaly" THEN privateLoad("anomaly", e.anomaly)
      ELSE reviewActions(e.anomaly)

privateRecord(fn, b) ==
  LET refs == world.batchEvidence[b]
  IN  CASE fn = "GetPurchase"     -> privateLoad("tradeOpening", refs.purchase)
        [] fn = "GetFreightCost"  -> privateLoad("cost", refs.freight)
        [] fn = "GetRetailReport" -> privateLoad("report", refs.report)
        [] OTHER                  -> analysisQuery(fn, b)

\* What the chaincode answers to a signer with this role.
privateQuery(actor, role, fn, b) ==
  LET collection == PrivateQuery[fn]
  IN  IF role \notin queryRole[actor] THEN refusal("UNAUTHORIZED_ROLE")
      ELSE IF ~mayRead(actor, role, collection)
      THEN refusal("PRIVATE_DATA_ACCESS_DENIED")
      ELSE IF world.batch[b] = None THEN refusal("BATCH_NOT_FOUND")
      ELSE IF actor \notin CollectionMember[collection]
      THEN refusal("PRIVATE_DATA_UNAVAILABLE")
      ELSE privateRecord(fn, b)

\* verifyOpening: the collection whose readers may check a document's opening.
openingCollection(type) == IF type = "FREIGHT_INVOICE" THEN Freight ELSE Trade

-----------------------------------------------------------------------------
(* The HTTP interface asks first: Actor.commercial for the three records;  *)
(* it leaves the analysis to the chaincode.                                *)

\* The signers that the backend can be configured with (Actor.parse).
Signer == UNION {{m} \X queryRole[m] : m \in Member}

anyoneOf(org, role, kind) ==
  \/ org \in {Regulator, Retailer}
  \/ org = Producer  /\ kind = "purchase"
  \/ org = Logistics /\ kind = "freight"

commercial(org, role, kind) ==
  \/ org = Regulator /\ role # "public-reader"
  \/ org = Retailer
  \/ org = Producer  /\ kind = "purchase"
  \/ org = Logistics /\ kind = "freight"

kindOf ==
  [GetPurchase |-> "purchase", GetFreightCost |-> "freight",
   GetRetailReport |-> "retail"]

\* A document of the archive is served by what it is about.
documentKind(type) == IF type = "FREIGHT_INVOICE" THEN "freight" ELSE "purchase"

\* The command that leaves what a query answers.
Source ==
  [GetPurchase |-> "OfferPickup", GetFreightCost |-> "RecordFreightCost",
   GetRetailReport |-> "ReportRetailPrice", GetAnomaly |-> "EvaluatePrice",
   GetReviewHistory |-> "EvaluatePrice"]

Receipts(b, fns) ==
  {n \in 1..version(world, b) : world.history[<<b, n>>].fn \in fns}

\* The access tables agree, and what they grant is there: a signer whom the HTTP
\* interface lets ask is not turned away by the chaincode or by Fabric, nor the
\* other way round, and is served the batch's own record from the moment the
\* public history has the command that wrote it, with one review action for each
\* review in that history; documents are open to those who may read their
\* openings (Actor.commercial, Api.document, mayRead, collections.json).
ReadersServed ==
  \A s \in Signer :
    /\ \A fn \in DOMAIN PrivateQuery, b \in Present("batch") :
         LET granted == IF fn \in DOMAIN kindOf
                        THEN commercial(s[1], s[2], kindOf[fn])
                        ELSE mayRead(s[1], s[2], PrivateQuery[fn])
             a == privateQuery(s[1], s[2], fn, b)
         IN  /\ (a.code = "PRIVATE_DATA_ACCESS_DENIED") <=> ~granted
             /\ (a.code = "OK") <=> granted /\ Receipts(b, {Source[fn]}) # {}
             /\ a.code = "OK" =>
                  CASE fn = "GetPurchase" ->
                         a.value.quantity = world.batch[b].quantity
                    [] fn = "GetReviewHistory" ->
                         Cardinality(a.value)
                           = Cardinality(Receipts(b, {"OpenReview", "ResolveReview"}))
                    [] OTHER -> a.value.batch = b
    /\ \A type \in DocType : commercial(s[1], s[2], documentKind(type))
                               <=> mayRead(s[1], s[2], openingCollection(type))
=============================================================================
