-------------------------- MODULE Projection_proofs --------------------------
(***************************************************************************)
(* For any batches, lots and lives of batches: the projection handles the  *)
(* events of the ledger exactly once and in order, its pages are true, and *)
(* no event is ever refused.                                               *)
(***************************************************************************)
EXTENDS Projection, SequenceTheorems, TLAPS

\* A chain as the ledger makes it: blocks in order, a lot with a report only, and
\* no lot twice.
Orderly(c) ==
  /\ \A i, j \in DOMAIN c : i <= j => c[i].block <= c[j].block
  /\ \A i \in DOMAIN c : (c[i].lot # None) <=> (c[i].type = "RetailPriceReported")
  /\ \A i, j \in DOMAIN c : c[i].lot # None /\ c[i].lot = c[j].lot => i = j

\* What is stored is a prefix of the chain, and the stream is not past it.
Prefix ==
  \E k \in 0..Len(chain) : stored = 1..k /\ stream <= k + 1

IInv == TypeOK /\ Orderly(chain) /\ Prefix /\ PagesTrue

-----------------------------------------------------------------------------
(* The ledger                                                              *)

LEMMA AppendKeeps ==
  ASSUME NEW c \in Seq(Event), Orderly(c), NEW e \in Event,
         Height(c) <= e.block, Continues(c, e)
  PROVE  /\ Append(c, e) \in Seq(Event)
         /\ Orderly(Append(c, e))
         /\ Len(Append(c, e)) = Len(c) + 1
         /\ \A i \in DOMAIN c : Append(c, e)[i] = c[i]
         /\ Height(Append(c, e)) = e.block
<1> DEFINE d == Append(c, e)
<1>1. /\ d \in Seq(Event) /\ Len(d) = Len(c) + 1
      /\ DOMAIN d = 1..(Len(c) + 1) /\ DOMAIN c = 1..Len(c)
      /\ \A i \in 1..Len(c) : d[i] = c[i]
      /\ d[Len(c) + 1] = e
  OBVIOUS
<1>2. ASSUME NEW i \in 1..Len(c) PROVE c[i].block \in Nat
  <2>1. c[i] \in Event
    OBVIOUS
  <2> QED BY <2>1 DEF Event
<1>3. e.block \in Nat
  BY DEF Event
<1>4. \A i \in 1..Len(c) : c[i].block <= e.block
  <2>1. SUFFICES ASSUME NEW i \in 1..Len(c) PROVE c[i].block <= e.block
    OBVIOUS
  <2>2. c # <<>> /\ Len(c) \in 1..Len(c) /\ i <= Len(c)
    BY <2>1
  <2>3. c[Len(c)].block <= e.block
    BY <2>2 DEF Height
  <2>4. c[i].block <= c[Len(c)].block
    BY <1>1, <2>2 DEF Orderly
  <2> QED BY <1>2, <1>3, <2>2, <2>3, <2>4
<1>5. \A i, j \in DOMAIN d : i <= j => d[i].block <= d[j].block
  <2>1. SUFFICES ASSUME NEW i \in DOMAIN d, NEW j \in DOMAIN d, i <= j
                 PROVE  d[i].block <= d[j].block
    OBVIOUS
  <2>2. CASE j \in 1..Len(c)
    <3>1. i \in 1..Len(c)
      BY <1>1, <2>1, <2>2
    <3> QED BY <1>1, <2>1, <2>2, <3>1 DEF Orderly
  <2>3. CASE j = Len(c) + 1
    <3>1. d[j].block = e.block
      BY <1>1, <2>3
    <3>2. i \in 1..Len(c) \/ i = Len(c) + 1
      BY <1>1
    <3> QED BY <1>1, <1>3, <1>4, <3>1, <3>2
  <2> QED BY <1>1, <2>2, <2>3
<1>6. \A i \in DOMAIN d : (d[i].lot # None) <=> (d[i].type = "RetailPriceReported")
  <2>1. SUFFICES ASSUME NEW i \in DOMAIN d
                 PROVE  (d[i].lot # None) <=> (d[i].type = "RetailPriceReported")
    OBVIOUS
  <2>2. CASE i \in 1..Len(c)
    BY <1>1, <2>2 DEF Orderly
  <2>3. CASE i = Len(c) + 1
    BY <1>1, <2>3 DEF Continues
  <2> QED BY <1>1, <2>2, <2>3
<1>7. \A i, j \in DOMAIN d : d[i].lot # None /\ d[i].lot = d[j].lot => i = j
  <2>1. SUFFICES ASSUME NEW i \in DOMAIN d, NEW j \in DOMAIN d,
                        d[i].lot # None, d[i].lot = d[j].lot
                 PROVE  i = j
    OBVIOUS
  <2>2. e.lot # None => \A m \in 1..Len(c) : c[m].lot # e.lot
    BY <1>1 DEF Continues, FreshLot
  <2>3. i \in 1..Len(c) /\ j \in 1..Len(c) => i = j
    BY <1>1, <2>1 DEF Orderly
  <2>4. i \in 1..Len(c) => j # Len(c) + 1
    BY <1>1, <2>1, <2>2
  <2>5. j \in 1..Len(c) => i # Len(c) + 1
    BY <1>1, <2>1, <2>2
  <2> QED BY <1>1, <2>3, <2>4, <2>5
<1>8. Height(d) = e.block
  BY <1>1 DEF Height
<1> QED BY <1>1, <1>5, <1>6, <1>7, <1>8 DEF Orderly

LEMMA UpcomingTyped ==
  ASSUME NEW c, NEW block \in Nat \ {0}, NEW e \in Upcoming(c, block)
  PROVE  e \in Event /\ e.block = block /\ Continues(c, e)
  BY DEF Upcoming, Event

\* The height of a chain is a block number, or 0.
LEMMA HeightTyped ==
  ASSUME NEW c \in Seq(Event)
  PROVE  Height(c) \in Nat
<1>1. CASE c = <<>>
  BY <1>1 DEF Height
<1>2. CASE c # <<>>
  <2>1. Len(c) \in 1..Len(c)
    BY <1>2
  <2>2. c[Len(c)] \in Event
    BY <2>1
  <2> QED BY <1>2, <2>2 DEF Height, Event
<1> QED BY <1>1, <1>2

\* The events of the chain are events.
LEMMA EventTyped ==
  ASSUME IInv, NEW tx \in DOMAIN chain
  PROVE  /\ tx \in 1..Len(chain) /\ Len(chain) \in Nat
         /\ chain[tx] \in Event
         /\ chain[tx].batch \in Batch /\ chain[tx].lot \in Lot \cup {None}
<1>1. chain \in Seq(Event)
  BY DEF IInv, TypeOK
<1>2. tx \in 1..Len(chain) /\ Len(chain) \in Nat /\ chain[tx] \in Event
  BY <1>1
<1> QED BY <1>2 DEF Event

\* A published block extends the chain.
LEMMA PublishExtends ==
  ASSUME IInv, Publish
  PROVE  /\ chain' \in Seq(Event)
         /\ Orderly(chain')
         /\ Len(chain') > Len(chain)
         /\ DOMAIN chain \subseteq DOMAIN chain'
         /\ \A i \in DOMAIN chain : chain'[i] = chain[i]
<1>1. chain \in Seq(Event) /\ Orderly(chain)
  BY DEF IInv, TypeOK
<1>2. Height(chain) + 1 \in Nat \ {0} /\ Height(chain) <= Height(chain) + 1
  BY <1>1, HeightTyped
<1>3. PICK e \in Upcoming(chain, Height(chain) + 1) :
        \/ chain' = Append(chain, e)
        \/ \E f \in Upcoming(Append(chain, e), e.block) :
              chain' = Append(Append(chain, e), f)
  BY DEF Publish
<1>4. e \in Event /\ e.block = Height(chain) + 1 /\ Continues(chain, e)
  BY <1>2, UpcomingTyped
<1> DEFINE one == Append(chain, e)
<1>5. /\ one \in Seq(Event) /\ Orderly(one) /\ Len(one) = Len(chain) + 1
      /\ \A i \in DOMAIN chain : one[i] = chain[i]
      /\ Height(one) = e.block
  BY <1>1, <1>2, <1>4, AppendKeeps
<1>6. DOMAIN chain = 1..Len(chain) /\ DOMAIN one = 1..Len(one) /\ Len(chain) \in Nat
  BY <1>1, <1>5
<1>7. CASE chain' = one
  BY <1>5, <1>6, <1>7
<1>8. ASSUME NEW f \in Upcoming(one, e.block), chain' = Append(one, f)
      PROVE  /\ chain' \in Seq(Event) /\ Orderly(chain') /\ Len(chain') = Len(one) + 1
             /\ \A i \in DOMAIN one : chain'[i] = one[i]
  <2>1. e.block \in Nat \ {0}
    BY <1>2, <1>4
  <2>2. f \in Event /\ f.block = e.block /\ Continues(one, f)
    BY <2>1, UpcomingTyped
  <2>3. Height(one) <= f.block
    BY <1>5, <2>1, <2>2
  <2> HIDE DEF one
  <2> QED BY <1>5, <1>8, <2>2, <2>3, AppendKeeps
<1>9. ASSUME NEW f \in Upcoming(one, e.block), chain' = Append(one, f)
      PROVE  /\ chain' \in Seq(Event) /\ Orderly(chain') /\ Len(chain') > Len(chain)
             /\ DOMAIN chain' = 1..Len(chain')
             /\ \A i \in DOMAIN chain : chain'[i] = chain[i]
  <2> HIDE DEF one
  <2> QED BY <1>5, <1>6, <1>8, <1>9
<1> QED BY <1>3, <1>6, <1>7, <1>9

-----------------------------------------------------------------------------
(* The pages                                                               *)

\* What is true of the pages rests on the stored part of the chain only.
LEMMA PagesKept ==
  ASSUME IInv, stored' = stored, page' = page,
         \A i \in stored : chain'[i] = chain[i]
  PROVE  PagesTrue'
<1> SUFFICES ASSUME NEW b \in Batch
             PROVE  IF page'[b] = None THEN Projected(b)' = {}
                    ELSE Reflects(page[b], Projected(b))'
  BY DEF PagesTrue
<1> DEFINE S == Projected(b)
<1>1. S' = S /\ S \subseteq stored
  BY DEF Projected
<1>2. {i \in S' : Handover(chain'[i])} = {i \in S : Handover(chain[i])}
  BY <1>1 DEF Handover
<1>3. {i \in S' : Sourced(chain'[i])} = {i \in S : Sourced(chain[i])}
  BY <1>1 DEF Sourced
<1>4. \A i \in S : chain'[i] = chain[i]
  BY <1>1
<1>5. IF page[b] = None THEN S = {} ELSE Reflects(page[b], S)
  BY DEF IInv, PagesTrue
<1> HIDE DEF S
<1>6. Reflects(page[b], S) => Reflects(page[b], S)'
  BY <1>1, <1>2, <1>3, <1>4 DEF Reflects, Lists
<1> QED BY <1>1, <1>5, <1>6 DEF S

\* Publishing is one such step.
LEMMA PublishKeeps ==
  ASSUME IInv, Publish
  PROVE  IInv'
<1>1. /\ chain' \in Seq(Event) /\ Orderly(chain') /\ Len(chain') > Len(chain)
      /\ DOMAIN chain \subseteq DOMAIN chain'
      /\ \A i \in DOMAIN chain : chain'[i] = chain[i]
  BY PublishExtends
<1>2. stored' = stored /\ page' = page /\ stream' = stream
  BY DEF Publish
<1>3. stored \subseteq DOMAIN chain /\ Len(chain) \in Nat /\ Len(chain') \in Nat
  BY <1>1 DEF IInv, TypeOK
<1>4. \A i \in stored : chain'[i] = chain[i]
  BY <1>1, <1>3
<1>5. TypeOK'
  <2>1. \A i, j \in DOMAIN chain' : i <= j => chain'[i].block <= chain'[j].block
    BY <1>1 DEF Orderly
  <2>2. {i \in stored : Handover(chain'[i])} = {i \in stored : Handover(chain[i])}
    BY <1>4 DEF Handover
  <2>3. stream \in 0..(Len(chain') + 1)
    BY <1>1, <1>3 DEF IInv, TypeOK
  <2> QED BY <1>1, <1>2, <1>3, <2>1, <2>2, <2>3 DEF IInv, TypeOK
<1>6. Orderly(chain)'
  BY <1>1
<1>7. Prefix'
  BY <1>1, <1>2, <1>3 DEF IInv, Prefix
<1>8. PagesTrue'
  BY <1>2, <1>4, PagesKept
<1> QED BY <1>5, <1>6, <1>7, <1>8 DEF IInv

\* The stream starts no later than the event after the stored ones: at that
\* event's block or before.
LEMMA ConnectStarts ==
  ASSUME IInv, NEW i \in 1..(Len(chain) + 1), Inclusive(i),
         NEW k \in 0..Len(chain), stored = 1..k
  PROVE  i <= k + 1
<1>1. Len(chain) \in Nat /\ DOMAIN chain = 1..Len(chain)
  BY DEF IInv, TypeOK
<1>2. CASE k = 0
  <2>1. checkpoint = 0
    BY <1>2 DEF checkpoint
  <2>2. SUFFICES ASSUME i > 1 PROVE FALSE
    BY <1>2
  <2>3. 1 \in DOMAIN chain /\ chain[1].block < 0
    BY <1>1, <2>1, <2>2 DEF Inclusive
  <2>4. chain[1] \in Event
    BY <2>3 DEF IInv, TypeOK
  <2> QED BY <2>3, <2>4 DEF Event
<1>3. CASE k > 0
  <2>1. k \in stored /\ k \in DOMAIN chain
    BY <1>1, <1>3
  <2>2. \A j \in stored : chain[j].block <= chain[k].block
    BY <1>1, <2>1 DEF IInv, Orderly
  <2> DEFINE B == {chain[j].block : j \in stored}
             Top(m) == \A j \in stored : chain[j].block <= m
  <2>3. chain[k].block \in B /\ Top(chain[k].block)
    BY <2>1, <2>2
  <2>4. checkpoint = CHOOSE m \in B : Top(m)
    BY <2>1 DEF checkpoint
  <2>5. checkpoint \in B /\ Top(checkpoint)
    BY <2>3, <2>4
  <2>6. checkpoint \in Nat /\ chain[k].block \in Nat
    <3>1. \A j \in stored : chain[j] \in Event
      BY DEF IInv, TypeOK
    <3>2. \A j \in stored : chain[j].block \in Nat
      BY <3>1 DEF Event
    <3> QED BY <2>1, <2>5, <3>2
  <2>7. ~(k < i)
    <3>1. checkpoint <= chain[k].block
      BY <2>2, <2>5
    <3> QED BY <2>1, <2>6, <3>1 DEF Inclusive
  <2> QED BY <1>1, <2>7
<1> QED BY <1>1, <1>2, <1>3

\* Opening and closing the stream and skipping what was stored touch no page.
LEMMA StreamKeeps ==
  ASSUME IInv, Connect \/ Disconnect \/ Skip
  PROVE  IInv'
<1>1. chain' = chain /\ stored' = stored /\ page' = page
  BY DEF Connect, Disconnect, Skip
<1>2. Len(chain) \in Nat /\ DOMAIN chain = 1..Len(chain)
  BY DEF IInv, TypeOK
<1>3. PICK k \in 0..Len(chain) : stored = 1..k /\ stream <= k + 1
  BY DEF IInv, Prefix
<1>4. stream' \in 0..(Len(chain) + 1) /\ stream' <= k + 1
  <2>1. CASE Connect
    BY <1>3, <2>1, ConnectStarts, <1>2 DEF Connect
  <2>2. CASE Disconnect
    BY <1>2, <2>2 DEF Disconnect, Closed
  <2>3. CASE Skip
    BY <1>2, <1>3, <2>3 DEF Skip, seen
  <2> QED BY <2>1, <2>2, <2>3
<1>5. TypeOK' /\ Orderly(chain)'
  BY <1>1, <1>4 DEF IInv, TypeOK
<1>6. Prefix'
  BY <1>1, <1>3, <1>4 DEF Prefix
<1>7. PagesTrue'
  BY <1>1, PagesKept
<1> QED BY <1>5, <1>6, <1>7 DEF IInv

\* A list of some transactions grows at its end by a later one.
LEMMA ListGrows ==
  ASSUME NEW list \in Seq(Nat), NEW S, Lists(list, S), NEW tx \in Nat,
         \A i \in S : i < tx
  PROVE  Lists(Append(list, tx), S \cup {tx})
<1> DEFINE more == Append(list, tx)
<1>1. /\ DOMAIN list = 1..Len(list) /\ Len(list) \in Nat
      /\ DOMAIN more = 1..(Len(list) + 1)
      /\ \A i \in 1..Len(list) : more[i] = list[i]
      /\ more[Len(list) + 1] = tx
  OBVIOUS
<1> HIDE DEF more
<1>2. {more[i] : i \in DOMAIN more} = S \cup {tx}
  <2>1. S = {list[i] : i \in 1..Len(list)}
    BY <1>1 DEF Lists
  <2>2. DOMAIN more = 1..Len(list) \cup {Len(list) + 1}
    BY <1>1
  <2> QED BY <1>1, <2>1, <2>2
<1>3. \A i, j \in DOMAIN more : i < j => more[i] < more[j]
  <2>1. SUFFICES ASSUME NEW i \in DOMAIN more, NEW j \in DOMAIN more, i < j
                 PROVE  more[i] < more[j]
    OBVIOUS
  <2>2. i \in 1..Len(list) /\ more[i] = list[i] /\ list[i] \in S
    BY <1>1, <2>1 DEF Lists
  <2>3. CASE j = Len(list) + 1
    BY <1>1, <2>2, <2>3
  <2>4. CASE j \in 1..Len(list)
    BY <1>1, <2>1, <2>2, <2>4 DEF Lists
  <2> QED BY <1>1, <2>3, <2>4
<1> QED BY <1>2, <1>3 DEF Lists, more

\* The page of the batch of the event tx that is next, over what was on it.
LEMMA PageGrows ==
  ASSUME IInv, NEW tx \in DOMAIN chain, stored = 1..(tx - 1)
  PROVE  /\ Updated(chain[tx].batch, tx) \in Page
         /\ Reflects(Updated(chain[tx].batch, tx), Projected(chain[tx].batch) \cup {tx})
<1> DEFINE e   == chain[tx]
           b   == e.batch
           S   == Projected(b)
           old == existing(b)
           new == Updated(b, tx)
<1>1. tx \in Nat /\ e \in Event /\ b \in Batch /\ e.lot \in Lot \cup {None}
  BY EventTyped
<1>2. \A i \in S : i \in Nat /\ i < tx
  BY <1>1 DEF Projected
<1>3. old \in Page
  <2>1. NewPage \in Page
    BY DEF NewPage, Page
  <2>2. page[b] # None => page[b] \in Page
    BY <1>1 DEF IInv, TypeOK
  <2> QED BY <2>1, <2>2 DEF existing
<1>4. /\ Lists(old.history, {i \in S : Handover(chain[i])})
      /\ Lists(old.sources, {i \in S : Sourced(chain[i])})
      /\ old.lot = None => \A i \in S : chain[i].lot = None
      /\ old.lot # None => \E i \in S : /\ chain[i].lot = old.lot
                                       /\ \A j \in S : chain[j].lot # None => j <= i
  <2>1. CASE page[b] = None
    <3>1. S = {} /\ old = NewPage
      BY <1>1, <2>1 DEF IInv, PagesTrue, existing
    <3>2. Lists(<<>>, {})
      BY DEF Lists
    <3>3. /\ {i \in S : Handover(chain[i])} = {}
          /\ {i \in S : Sourced(chain[i])} = {}
      BY <3>1
    <3> HIDE DEF S, old
    <3> QED BY <3>1, <3>2, <3>3 DEF NewPage
  <2>2. CASE page[b] # None
    BY <1>1, <2>2 DEF IInv, PagesTrue, existing, Reflects
  <2> QED BY <2>1, <2>2
<1>5. /\ old.history \in Seq(Nat) /\ old.sources \in Seq(Nat)
      /\ old.lot \in Lot \cup {None}
  BY <1>3 DEF Page
<1>6. /\ new.shows = tx
      /\ new.lot = IF e.type = "RetailPriceReported" THEN e.lot ELSE old.lot
      /\ new.history = AddIf(Handover(e), old.history, tx)
      /\ new.sources = AddIf(Sourced(e), old.sources, tx)
  BY DEF Updated
<1>7. new \in Page
  <2>1. /\ AddIf(Handover(e), old.history, tx) \in Seq(Nat)
        /\ AddIf(Sourced(e), old.sources, tx) \in Seq(Nat)
    BY <1>1, <1>5 DEF AddIf
  <2> HIDE DEF old
  <2> QED BY <1>1, <1>5, <2>1 DEF Updated, Page, old
<1> HIDE DEF old, new, S
<1>8. Lists(new.history, {i \in S \cup {tx} : Handover(chain[i])})
  <2> DEFINE H == {i \in S : Handover(chain[i])}
  <2>1. {i \in S \cup {tx} : Handover(chain[i])} = IF Handover(e) THEN H \cup {tx} ELSE H
    OBVIOUS
  <2>2. Handover(e) => Lists(Append(old.history, tx), H \cup {tx})
    BY <1>1, <1>2, <1>4, <1>5, ListGrows
  <2> QED BY <1>4, <1>6, <2>1, <2>2 DEF AddIf
<1>9. Lists(new.sources, {i \in S \cup {tx} : Sourced(chain[i])})
  <2> DEFINE H == {i \in S : Sourced(chain[i])}
  <2>1. {i \in S \cup {tx} : Sourced(chain[i])} = IF Sourced(e) THEN H \cup {tx} ELSE H
    OBVIOUS
  <2>2. Sourced(e) => Lists(Append(old.sources, tx), H \cup {tx})
    BY <1>1, <1>2, <1>4, <1>5, ListGrows
  <2> QED BY <1>4, <1>6, <2>1, <2>2 DEF AddIf
<1>10. /\ new.lot = None => \A i \in S \cup {tx} : chain[i].lot = None
       /\ new.lot # None => \E i \in S \cup {tx} :
                              /\ chain[i].lot = new.lot
                              /\ \A j \in S \cup {tx} : chain[j].lot # None => j <= i
  <2>1. (e.lot # None) <=> (e.type = "RetailPriceReported")
    BY DEF IInv, Orderly
  <2>2. CASE e.lot # None
    BY <1>1, <1>2, <1>6, <2>1, <2>2
  <2>3. CASE e.lot = None
    BY <1>4, <1>6, <2>1, <2>3
  <2> QED BY <2>2, <2>3
<1>11. new.shows \in S \cup {tx} /\ \A i \in S \cup {tx} : i <= new.shows
  BY <1>1, <1>2, <1>6
<1>12. Reflects(new, S \cup {tx})
  BY <1>8, <1>9, <1>10, <1>11 DEF Reflects
<1> QED BY <1>7, <1>12 DEF new, S

\* An event that is not stored is the first that is not.
LEMMA NextIsFirst ==
  ASSUME IInv, stream \in DOMAIN chain, ~seen(stream)
  PROVE  stored = 1..(stream - 1)
<1>1. PICK k \in 0..Len(chain) : stored = 1..k /\ stream <= k + 1
  BY DEF IInv, Prefix
<1>2. stream \in 1..Len(chain) /\ Len(chain) \in Nat
  BY DEF IInv, TypeOK
<1>3. stream = k + 1
  BY <1>1, <1>2 DEF seen
<1> QED BY <1>1, <1>3

LEMMA ListTyped ==
  ASSUME NEW list \in Seq(Nat), NEW T, NEW U, Lists(list, T), T \subseteq U
  PROVE  list \in Seq(U)
<1>1. list \in [1..Len(list) -> Nat] /\ Len(list) \in Nat /\ DOMAIN list = 1..Len(list)
  OBVIOUS
<1>2. \A i \in 1..Len(list) : list[i] \in U
  BY <1>1 DEF Lists
<1>3. list \in [1..Len(list) -> U]
  BY <1>1, <1>2
<1> QED BY <1>1, <1>3, SeqDef

LEMMA ProjectKeeps ==
  ASSUME IInv, Project
  PROVE  IInv'
<1> DEFINE b == chain[stream].batch
           new == Updated(b, stream)
<1>1. /\ stream \in DOMAIN chain /\ chain' = chain
      /\ stored' = stored \cup {stream} /\ stream' = stream + 1
      /\ page' = [page EXCEPT ![b] = new]
  BY DEF Project
<1>2. stored = 1..(stream - 1)
  BY NextIsFirst DEF Project
<1>3. stream \in 1..Len(chain) /\ Len(chain) \in Nat /\ b \in Batch
  BY <1>1, EventTyped
<1>4. new \in Page /\ Reflects(new, Projected(b) \cup {stream})
  BY <1>1, <1>2, PageGrows
<1> HIDE DEF new
<1>5. page' \in [Batch -> Page \cup {None}] /\ page'[b] = new
      /\ \A a \in Batch \ {b} : page'[a] = page[a]
  BY <1>1, <1>3, <1>4 DEF IInv, TypeOK
<1>6. ASSUME NEW a
      PROVE  {i \in stored' : chain'[i].batch = a}
               = IF a = b THEN Projected(a) \cup {stream} ELSE Projected(a)
  BY <1>1 DEF Projected
<1>7. new # None
  BY <1>4, ProjectionAssumption
<1>8. ASSUME NEW a \in Batch
      PROVE  IF page'[a] = None THEN {i \in stored' : chain'[i].batch = a} = {}
             ELSE Reflects(page'[a], {i \in stored' : chain'[i].batch = a})
  <2>1. CASE a = b
    BY <1>4, <1>5, <1>6, <1>7, <2>1
  <2>2. CASE a # b
    <3>1. page'[a] = page[a]
      BY <1>5, <2>2
    <3>2. IF page[a] = None THEN Projected(a) = {} ELSE Reflects(page[a], Projected(a))
      BY DEF IInv, PagesTrue
    <3> QED BY <1>6, <2>2, <3>1, <3>2
  <2> QED BY <2>1, <2>2
<1>9. PagesTrue'
  <2> SUFFICES ASSUME NEW a \in Batch
               PROVE  IF page'[a] = None THEN Projected(a)' = {}
                      ELSE Reflects(page[a], Projected(a))'
    BY DEF PagesTrue
  <2> DEFINE S == {i \in stored' : chain'[i].batch = a}
  <2>1. Projected(a)' = S
    BY DEF Projected
  <2>2. Reflects(page'[a], S) => Reflects(page[a], Projected(a))'
    BY <1>1 DEF Reflects, Lists, Handover, Sourced, Projected
  <2> QED BY <1>8, <2>1, <2>2
<1>10. ASSUME NEW a \in Batch, page'[a] # None
       PROVE  page'[a].history \in Seq({i \in stored' : Handover(chain'[i])})
  <2> DEFINE U == {i \in stored' : Handover(chain'[i])}
             S == {i \in stored' : chain'[i].batch = a}
             T == {i \in S : Handover(chain[i])}
             list == page'[a].history
  <2>1. page'[a] \in Page
    BY <1>5, <1>10
  <2>2. list \in Seq(Nat)
    BY <2>1 DEF Page
  <2>3. Lists(list, T)
    BY <1>8, <1>10 DEF Reflects
  <2>4. T \subseteq U
    BY <1>1
  <2> HIDE DEF T, U, list
  <2>5. list \in Seq(U)
    BY <2>2, <2>3, <2>4, ListTyped
  <2> QED BY <2>5 DEF list, U
<1>11. TypeOK'
  BY <1>1, <1>3, <1>5, <1>10 DEF IInv, TypeOK
<1>12. Prefix'
  <2>1. stored' = 1..stream
    BY <1>1, <1>2, <1>3
  <2> QED BY <1>1, <1>3, <2>1 DEF Prefix
<1>13. Orderly(chain)'
  BY <1>1 DEF IInv
<1> QED BY <1>9, <1>11, <1>12, <1>13 DEF IInv

-----------------------------------------------------------------------------
(* The theorems                                                            *)

LEMMA InitHolds == Init => IInv
<1> SUFFICES ASSUME Init PROVE IInv
  OBVIOUS
<1>1. TypeOK
  BY DEF Init, TypeOK, Closed
<1>2. Orderly(chain) /\ Prefix
  BY DEF Init, Orderly, Prefix, Closed
<1>3. PagesTrue
  BY DEF Init, PagesTrue, Projected
<1> QED BY <1>1, <1>2, <1>3 DEF IInv

LEMMA NextHolds == IInv /\ [Next]_vars => IInv'
<1> SUFFICES ASSUME IInv, [Next]_vars PROVE IInv'
  OBVIOUS
<1>1. CASE Publish
  BY <1>1, PublishKeeps
<1>2. CASE Connect \/ Disconnect \/ Skip
  BY <1>2, StreamKeeps
<1>3. CASE Project
  BY <1>3, ProjectKeeps
<1>4. CASE UNCHANGED vars
  <2>1. chain' = chain /\ stored' = stored /\ page' = page /\ stream' = stream
    BY <1>4 DEF vars
  <2>2. PagesTrue'
    BY <2>1, PagesKept
  <2> QED BY <2>1, <2>2 DEF IInv, TypeOK, Prefix
<1> QED BY <1>1, <1>2, <1>3, <1>4 DEF Next, Follow, Handle

LEMMA Invariant == Spec => []IInv
  BY InitHolds, NextHolds, PTL DEF Spec

\* Pages, stream and table of events keep their types, whatever breaks
\* (Projection.accept).
THEOREM TypeCorrect == Spec => []TypeOK
<1>1. IInv => TypeOK
  BY DEF IInv
<1> QED BY <1>1, Invariant, PTL

\* Every page is what the stored events of its batch make of it
\* (Projection.accept).
THEOREM PagesAreTrue == Spec => []PagesTrue
<1>1. IInv => PagesTrue
  BY DEF IInv
<1> QED BY <1>1, Invariant, PTL

\* As a lot is reported once, the page of the next event never meets another
\* page with its lot (Store.project).
THEOREM NeverWedged == Spec => []NeverRefused
<1>1. IInv => NeverRefused
  <2> SUFFICES ASSUME IInv, stream \in DOMAIN chain PROVE Storable(stream)
    BY DEF NeverRefused
  <2> DEFINE e   == chain[stream]
             lot == Updated(e.batch, stream).lot
  <2> SUFFICES ASSUME NEW b \in Batch, page[b] # None, b # e.batch,
                      page[b].lot # None, page[b].lot = lot
               PROVE  FALSE
    BY DEF Storable
  <2>1. PICK i \in Projected(b) : chain[i].lot = page[b].lot
    BY DEF IInv, PagesTrue, Reflects
  <2>2. i \in DOMAIN chain /\ chain[i].batch = b /\ chain[i].lot # None
    BY <2>1 DEF Projected, IInv, TypeOK
  <2>3. \E j \in DOMAIN chain : chain[j].batch = e.batch /\ chain[j].lot = lot
    <3>1. e.batch \in Batch
      BY EventTyped
    <3>2. CASE e.type = "RetailPriceReported"
      BY <3>2 DEF Updated
    <3>3. CASE e.type # "RetailPriceReported"
      <4>1. lot = existing(e.batch).lot
        BY <3>3 DEF Updated
      <4>2. page[e.batch] # None
        BY <4>1 DEF existing, NewPage
      <4>3. lot = page[e.batch].lot
        BY <4>1, <4>2 DEF existing
      <4>4. PICK j \in Projected(e.batch) : chain[j].lot = page[e.batch].lot
        BY <3>1, <4>2, <4>3 DEF IInv, PagesTrue, Reflects
      <4> QED BY <4>3, <4>4 DEF Projected, IInv, TypeOK
    <3> QED BY <3>2, <3>3
  <2> HIDE DEF lot
  <2> QED BY <2>1, <2>2, <2>3 DEF IInv, Orderly
<1> QED BY <1>1, Invariant, PTL

\* The projection implements exactly-once delivery in order: it begins as
\* Delivery does, and each of its steps is one of Delivery's or none.
THEOREM ImplementsDelivery == Spec => DeliversInOrder
<1>1. Init => Log!Init
  BY DEF Init, Log!Init
<1>2. IInv /\ [Next]_vars => [Log!Next]_(Log!vars)
  <2> SUFFICES ASSUME IInv, [Next]_vars PROVE Log!Next \/ UNCHANGED Log!vars
    OBVIOUS
  <2>1. CASE Publish
    <3>1. /\ chain \in Seq(Event) /\ chain' \in Seq(Event)
          /\ Len(chain') > Len(chain)
          /\ \A i \in DOMAIN chain : chain'[i] = chain[i]
      BY <2>1, PublishExtends DEF IInv, TypeOK
    <3> DEFINE sub == SubSeq(chain', 1, Len(chain))
    <3>2. /\ sub \in Seq(Event) /\ Len(sub) = Len(chain)
          /\ \A i \in 1..Len(chain) : sub[i] = chain'[i]
      BY <3>1
    <3> HIDE DEF sub
    <3>3. sub = chain
      BY <3>1, <3>2, SeqEqual
    <3>4. Log!Publish
      BY <2>1, <3>1, <3>3 DEF Publish, Log!Publish, sub
    <3> QED BY <3>4 DEF Log!Next
  <2>2. CASE Connect \/ Disconnect \/ Skip
    BY <2>2 DEF Connect, Disconnect, Skip, Log!vars
  <2>3. CASE Project
    <3>1. stored = 1..(stream - 1) /\ stream \in 1..Len(chain) /\ Len(chain) \in Nat
      BY <2>3, NextIsFirst, EventTyped DEF Project
    <3>2. stored' = 1..stream
      BY <2>3, <3>1 DEF Project
    <3>3. Log!Deliver
      BY <2>3, <3>1, <3>2 DEF Project, Log!Deliver
    <3> QED BY <3>3 DEF Log!Next
  <2>4. CASE UNCHANGED vars
    BY <2>4 DEF vars, Log!vars
  <2> QED BY <2>1, <2>2, <2>3, <2>4 DEF Next, Follow, Handle
<1> QED BY <1>1, <1>2, Invariant, PTL DEF Spec, DeliversInOrder, Log!Spec
=============================================================================
