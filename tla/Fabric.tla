------------------------------- MODULE Fabric -------------------------------
(***************************************************************************)
(* How Fabric runs the chaincode.  Peers endorse a proposal against the    *)
(* state they have, recording the keys it read and their versions; much    *)
(* later, in an order nobody controls, the transaction is delivered, and   *)
(* committed only if every key it read still has that version.  A          *)
(* transaction may be delivered twice, or never.  The engine writes some   *)
(* keys without reading them, so whether concurrent clients see the        *)
(* one-after-another contract of Chaincode depends on what it does read.   *)
(***************************************************************************)
EXTENDS Engine, Sequences

CONSTANTS
  Proposal,
  MaxOutstanding   \* bound: endorsed transactions not yet forgotten

ASSUME FabricAssumption == Proposal \subseteq Command

VARIABLES
  world, events,   \* as in Chaincode
  written,         \* per key, how often it has been written
  pool             \* endorsed transactions on their way to the orderer

vars == <<world, events, written, pool>>

Init ==
  /\ world   = EmptyWorld
  /\ events  = [b \in BatchId |-> <<>>]
  /\ written = [t \in Table |-> [i \in Keys[t] |-> 0]]
  /\ pool    = {}

\* Fabric's version of a key is the height of its last write, none when the key
\* is absent, even if it was put and deleted before.  Only equality of versions
\* matters, so the number of the write stands for its height.
Version(k) == IF world[k[1]][k[2]] = None THEN 0 ELSE written[k[1]][k[2]]

\* Both endorsing organisations simulate the proposal and must agree; what they
\* sign is the read set, the write set and the event.
Endorse(c) ==
  /\ Cardinality(pool) < MaxOutstanding
  /\ Accepts(world, c)
  /\ pool' = pool \cup {[c     |-> c,
                         reads |-> [k \in Reads(world, c) |-> Version(k)],
                         plan  |-> Plan(world, c),
                         emits |-> Emits(world, c)]}
  /\ UNCHANGED <<world, events, written>>

Valid(tx) == \A k \in DOMAIN tx.reads : Version(k) = tx.reads[k]

\* A delivered transaction that is still valid takes effect as endorsed.  It
\* stays in the pool: its client may submit it again.
Commit(tx) ==
  /\ Valid(tx)
  /\ world'   = flush(world, tx.plan)
  /\ events'  = [events EXCEPT ![tx.c.batch] = @ \o tx.emits]
  /\ written' = [t \in Table |->
                   IF t \notin DOMAIN tx.plan THEN written[t]
                   ELSE [i \in Keys[t] |-> IF i \in DOMAIN tx.plan[t]
                                           THEN written[t][i] + 1
                                           ELSE written[t][i]]]
  /\ UNCHANGED pool

\* Delivered too late: the block records it as MVCC_READ_CONFLICT.
Invalidate(tx) ==
  /\ ~Valid(tx)
  /\ pool' = pool \ {tx}
  /\ UNCHANGED <<world, events, written>>

\* Never delivered: the client stopped, or lost the transaction.
Lose(tx) ==
  /\ Valid(tx)
  /\ pool' = pool \ {tx}
  /\ UNCHANGED <<world, events, written>>

Next ==
  \/ \E c \in Proposal : Endorse(c)
  \/ \E tx \in pool : Commit(tx)
  \/ \E tx \in pool : Invalidate(tx)
  \/ \E tx \in pool : Lose(tx)

Spec == Init /\ [][Next]_vars

-----------------------------------------------------------------------------

\* A transaction that is still valid would be accepted if it were invoked now,
\* and would do exactly what was endorsed: the read set covers whatever the
\* engine's decision and plan depend on, although documents, private records and
\* indexes are written blindly.
EndorsementsStand ==
  \A tx \in pool :
    Valid(tx) => /\ Accepts(world, tx.c)
                 /\ Plan(world, tx.c) = tx.plan
                 /\ Emits(world, tx.c) = tx.emits

C == INSTANCE Chaincode

\* Concurrent clients cannot tell this ledger from one that runs the proposals
\* one after another.
Serializable == C!Spec
=============================================================================
