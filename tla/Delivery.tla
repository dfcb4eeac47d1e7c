------------------------------ MODULE Delivery ------------------------------
(***************************************************************************)
(* What the public projection promises of the committed events: each is    *)
(* delivered exactly once, in the order of the ledger, and nothing is      *)
(* passed over.  How a stream that breaks off and starts again achieves    *)
(* this is the module Projection.                                          *)
(***************************************************************************)
EXTENDS Integers, Sequences

VARIABLES
  published,   \* the events of the ledger, which only grow
  delivered    \* the positions of those that were delivered

vars == <<published, delivered>>

Init == published = <<>> /\ delivered = {}

Publish ==
  /\ Len(published') > Len(published)
  /\ SubSeq(published', 1, Len(published)) = published
  /\ UNCHANGED delivered

\* The next event is the first that was not delivered.
Deliver ==
  /\ \E n \in 1..Len(published) :
       delivered = 1..(n - 1) /\ delivered' = 1..n
  /\ UNCHANGED published

Next == Publish \/ Deliver

Spec == Init /\ [][Next]_vars
=============================================================================
