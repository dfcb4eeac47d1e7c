------------------------------ MODULE Workflow ------------------------------
(***************************************************************************)
(* The backend's journal and the ledger it submits to.  Workflow.java moves*)
(* a journal row through stage, endorse, persist, submit and promote, one  *)
(* row at a time; the process may crash between any two of these, the      *)
(* ledger may be out of reach at any of them, a submitted transaction may  *)
(* be lost, and its outcome may arrive long after the caller gave up.      *)
(***************************************************************************)
EXTENDS Integers, FiniteSets

CONSTANTS
  Row,         \* journal rows: an actor and an operation identifier
  Key,         \* operation keys of the ledger: an MSP and an identifier
  KeyOf,       \* the ledger key of each row; two roles of one MSP may share one
  Evaluations, \* rows of the analysis worker, which submits them until evaluated
  Alone,       \* rows whose command is in order and whom no other client rivals
  Trouble,     \* the errors a query or an endorsement may meet through no fault
               \* of the command
  MaxCrashes,  \* bound: crashes of the backend
  None,        \* no transaction, no error, no row
  Foreign      \* the transaction of a client that is not this backend

\* A row's transactions, numbered: what is endorsed and not persisted is lost only
\* to a crash, so there is at most one more of them than there are crashes.
TxId == Row \X (1..MaxCrashes + 1)

ASSUME WorkflowAssumption ==
  /\ KeyOf \in [Row -> Key]
  /\ Evaluations \subseteq Row /\ Alone \subseteq Row
  /\ MaxCrashes \in Nat
  /\ None \notin TxId \cup Row /\ Foreign \notin TxId /\ None # Foreign

VARIABLES
  journal,   \* SQLite: the operations row, and its rows of the evidence table
  pc, cur,   \* where advance is, and on which row (submit and recover exclude
             \* each other, so there is one)
  held,      \* endorsed, not yet persisted
  endorsed,  \* per row, how many transactions have been endorsed for it
  inflight,  \* submitted transactions the orderer still has
  sent,      \* every transaction ever submitted
  outcome,   \* the validation code of a transaction, once in a block
  receipt,   \* per operation key, the transaction that left the receipt
  crashes

process == <<pc, cur, held>>
ledger  == <<inflight, outcome, receipt>>
vars    == <<journal, process, endorsed, sent, ledger, crashes>>

-----------------------------------------------------------------------------

States == {"ABSENT", "PENDING", "SUBMITTED_UNKNOWN", "COMMITTED", "FAILED"}

Unavailable == {"FABRIC_UNAVAILABLE"}   \* answered with HTTP 503

\* REJECTED stands for every refusal of the contract or of a source that is the
\* command's own fault.
Errors == Unavailable \cup {"INTERNAL_ERROR", "POLICY_MISMATCH",
            "VERSION_CONFLICT", "IDEMPOTENCY_CONFLICT", "REJECTED"}

\* Troubles by the call that meets them: any call, the analysis worker's look at
\* the configured policy, an endorsement on a peer that lags behind the one that
\* the command was drawn up on.
Anywhere    == Unavailable \cup {"INTERNAL_ERROR"}
Preparing   == Anywhere \cup {"POLICY_MISMATCH"}
Endorsing   == Anywhere \cup {"VERSION_CONFLICT"}

Entry ==
  [state : States, prepared : BOOLEAN, tx : TxId \cup {None},
   error : Errors \cup {None}, evidence : {"none", "archived", "promoted"}]

Init ==
  /\ journal  = [r \in Row |-> [state |-> "ABSENT", prepared |-> FALSE,
                                tx |-> None, error |-> None,
                                evidence |-> "none"]]
  /\ pc = "idle" /\ cur = None /\ held = None
  /\ endorsed = [r \in Row |-> 0]
  /\ inflight = {} /\ sent = {}
  /\ outcome  = [t \in TxId |-> "none"]
  /\ receipt  = [k \in Key |-> None]
  /\ crashes  = 0

row == journal[cur]
key == KeyOf[cur]

Goto(step) == pc' = step /\ UNCHANGED <<cur, held>>
Return     == pc' = "idle" /\ cur' = None /\ held' = None

-----------------------------------------------------------------------------
(* How advance ends: the row is promoted, left as it is, or fails.         *)

PromotedBare(e) == [e EXCEPT !.state = "COMMITTED", !.error = None]

\* Store.committed: one SQLite transaction for the operation and its evidence.
Promoted(e) ==
  [e EXCEPT !.state = "COMMITTED", !.error = None,
            !.evidence = IF e.evidence = "none" THEN "none" ELSE "promoted"]

Promote ==
  /\ journal' = [journal EXCEPT ![cur] = Promoted(@)]
  /\ Return

Decided(e, error) == FALSE

\* Neither a broken connection nor an internal error proves that a persisted
\* transaction failed.
Undecided(e, error) == e.tx # None /\ error \in Anywhere

Raise(error) ==
  /\ journal' = [journal EXCEPT ![cur] =
                   IF Undecided(@, error) THEN @
                   ELSE [@ EXCEPT !.state = "FAILED", !.error = error]]
  /\ Return

-----------------------------------------------------------------------------
(* Entry points                                                            *)

Failed(r) == journal[r].state = "FAILED"

FailedOutOfReach(r) == Failed(r) /\ journal[r].error \in Unavailable

\* A failed row may be tried again if the ledger was out of reach, or if the
\* backend's threshold had not been the ledger's.
Retriable(r) ==
  \/ FailedOutOfReach(r)
  \/ /\ Failed(r)
     /\ r \in Evaluations
     /\ journal[r].error = "POLICY_MISMATCH"
     /\ journal[r].tx = None

\* Workflow.submit, by a client or, for an evaluation, by the analysis worker,
\* which does so as long as the ledger has no evaluation.
Submit(r) ==
  /\ pc = "idle"
  /\ journal[r].state = "ABSENT" \/ Retriable(r)
  /\ r \in Evaluations => receipt[KeyOf[r]] = None
  /\ journal' = [journal EXCEPT ![r] = [@ EXCEPT !.state = "PENDING",
                                                 !.error = None]]
  /\ pc' = "query" /\ cur' = r /\ UNCHANGED held
  /\ UNCHANGED <<endorsed, sent, ledger, crashes>>

Staged == {"PENDING"}

Recoverable == {"PENDING", "SUBMITTED_UNKNOWN"}

\* Workflow.recover, or a client that submits a pending operation again.
Recover(r) ==
  /\ pc = "idle"
  /\ journal[r].state \in Recoverable
  /\ pc' = "query" /\ cur' = r
  /\ UNCHANGED <<journal, held, endorsed, sent, ledger, crashes>>

-----------------------------------------------------------------------------
(* advance                                                                 *)

\* A receipt under the row's key is the row's own only if it names the persisted
\* transaction: another role, or another client, may have used the identifier.
Anyones(r) == receipt[KeyOf[r]] # None

Ours(r) == journal[r].tx # None /\ receipt[KeyOf[r]] = journal[r].tx

NextStep(e) ==
  IF e.tx # None THEN "reconcile" ELSE IF e.prepared THEN "endorse" ELSE "prepare"

\* GetOperation on the retailer's peer.
QueryFound ==
  /\ pc = "query"
  /\ receipt[key] # None
  /\ IF Ours(cur) THEN Promote ELSE Raise("IDEMPOTENCY_CONFLICT")
  /\ UNCHANGED <<endorsed, sent, ledger, crashes>>

QueryNotFound ==
  /\ pc = "query"
  /\ receipt[key] = None
  /\ Goto(NextStep(row))
  /\ UNCHANGED <<journal, endorsed, sent, ledger, crashes>>

QueryFails ==
  /\ pc = "query"
  /\ \E error \in Trouble \cap Anywhere : Raise(error)
  /\ UNCHANGED <<endorsed, sent, ledger, crashes>>

\* What a validation code other than VALID is reported as.
Decide(tx) ==
  IF outcome[tx] = "VALID" THEN Promote ELSE Raise("VERSION_CONFLICT")

\* Ledger.reconcile: the outcome of the persisted transaction, if it has one.
ReconcileKnown ==
  /\ pc = "reconcile"
  /\ outcome[row.tx] # "none"
  /\ Decide(row.tx)
  /\ UNCHANGED <<endorsed, sent, ledger, crashes>>

ReconcileUnknown ==
  /\ pc = "reconcile"
  /\ Goto("mark")
  /\ UNCHANGED <<journal, endorsed, sent, ledger, crashes>>

\* EvidenceService.prepare archives documents as it fetches them, if the command
\* needs any; the prepared input is persisted once there are all of them.
Archive ==
  /\ pc = "prepare"
  /\ cur \notin Evaluations
  /\ journal' = [journal EXCEPT ![cur].evidence = "archived"]
  /\ UNCHANGED <<process, endorsed, sent, ledger, crashes>>

Prepare ==
  /\ pc = "prepare"
  /\ journal' = [journal EXCEPT ![cur].prepared = TRUE]
  /\ Goto("endorse")
  /\ UNCHANGED <<endorsed, sent, ledger, crashes>>

\* How a source or the contract may refuse the row's command.
Refusal(r) == IF r \in Alone THEN {} ELSE {"REJECTED"}

PrepareFails ==
  /\ pc = "prepare"
  /\ \E error \in Refusal(cur) \cup (Trouble \cap Preparing) : Raise(error)
  /\ UNCHANGED <<endorsed, sent, ledger, crashes>>

\* Both endorsing peers run the command; neither knows the operation.
Endorse ==
  /\ pc = "endorse"
  /\ receipt[key] = None
  /\ endorsed' = [endorsed EXCEPT ![cur] = @ + 1]
  /\ held' = <<cur, endorsed[cur] + 1>>
  /\ pc' = "persist" /\ UNCHANGED cur
  /\ UNCHANGED <<journal, sent, ledger, crashes>>

EndorseFails ==
  /\ pc = "endorse"
  /\ \E error \in Refusal(cur) \cup (Trouble \cap Endorsing)
                  \cup (IF receipt[key] = None THEN {} ELSE {"REJECTED"}) :
        Raise(error)
  /\ UNCHANGED <<endorsed, sent, ledger, crashes>>

PersistNothing ==
  /\ pc = "persist"
  /\ Goto("mark")
  /\ UNCHANGED <<journal, endorsed, sent, ledger, crashes>>

Persist ==
  /\ pc = "persist"
  /\ journal' = [journal EXCEPT ![cur].tx = held]
  /\ Goto("mark")
  /\ UNCHANGED <<endorsed, sent, ledger, crashes>>

\* Persist before sending; a crash here has a safe, same-transaction retry.
Mark ==
  /\ pc = "mark"
  /\ journal' = [journal EXCEPT ![cur].state = "SUBMITTED_UNKNOWN"]
  /\ Goto("submit")
  /\ UNCHANGED <<endorsed, sent, ledger, crashes>>

\* The transaction in hand, just endorsed or read from the journal.
prepared == IF held # None THEN held ELSE row.tx

Send ==
  /\ pc = "submit"
  /\ sent' = sent \cup {prepared}
  /\ inflight' = inflight \cup ({prepared} \ {t \in TxId : outcome[t] # "none"})
  /\ Goto("await")
  /\ UNCHANGED <<journal, endorsed, outcome, receipt, crashes>>

\* UnknownCommit: the orderer could not be reached, or no status came in time.
GiveUp ==
  /\ pc \in {"submit", "await"}
  /\ Return
  /\ UNCHANGED <<journal, endorsed, sent, ledger, crashes>>

Learn ==
  /\ pc = "await"
  /\ outcome[prepared] # "none"
  /\ Decide(prepared)
  /\ UNCHANGED <<endorsed, sent, ledger, crashes>>

\* The process stops anywhere; only the journal survives.
Crash ==
  /\ pc # "idle"
  /\ crashes < MaxCrashes
  /\ crashes' = crashes + 1
  /\ Return
  /\ UNCHANGED <<journal, endorsed, sent, ledger>>

-----------------------------------------------------------------------------
(* The ledger                                                              *)

\* The contract reads the operation key before it writes it, so of the
\* transactions under one key at most one is valid; a rival command for the same
\* batch may invalidate any but those of Alone.
Deliver(t) ==
  /\ t \in inflight
  /\ inflight' = inflight \ {t}
  /\ LET k == KeyOf[t[1]]
     IN  \/ /\ receipt[k] = None
            /\ outcome' = [outcome EXCEPT ![t] = "VALID"]
            /\ receipt' = [receipt EXCEPT ![k] = t]
         \/ /\ receipt[k] # None \/ t[1] \notin Alone
            /\ outcome' = [outcome EXCEPT ![t] = "INVALID"]
            /\ UNCHANGED receipt
  /\ UNCHANGED <<journal, process, endorsed, sent, crashes>>

Lose(t) ==
  /\ t \in inflight
  /\ inflight' = inflight \ {t}
  /\ UNCHANGED <<journal, process, endorsed, sent, outcome, receipt, crashes>>

\* A client of the same organisation that is not this backend.
Interfere(k) ==
  /\ receipt[k] = None
  /\ \A r \in Alone : KeyOf[r] # k
  /\ receipt' = [receipt EXCEPT ![k] = Foreign]
  /\ UNCHANGED <<journal, process, endorsed, sent, inflight, outcome, crashes>>

Step ==
  \/ QueryFound \/ QueryNotFound \/ QueryFails
  \/ ReconcileKnown \/ ReconcileUnknown
  \/ Archive \/ Prepare \/ PrepareFails
  \/ Endorse \/ EndorseFails
  \/ Persist \/ Mark \/ Send \/ GiveUp \/ Learn

Next ==
  \/ \E r \in Row : Submit(r) \/ Recover(r)
  \/ Step
  \/ Crash
  \/ \E t \in TxId : Deliver(t) \/ Lose(t)
  \/ \E k \in Key : Interfere(k)

\* The scheduler calls recover and the analysis worker every two seconds, and
\* one call visits every row; an outage ends, so a call that is made again and
\* again is answered in the end; a transaction sent again and again is delivered.
Fairness ==
  /\ WF_vars(Step)
  /\ \A r \in Row : SF_vars(Recover(r))
  /\ \A r \in Evaluations : SF_vars(Submit(r))
  /\ SF_vars(QueryFound) /\ SF_vars(QueryNotFound)
  /\ SF_vars(ReconcileKnown)
  /\ \A r \in Row : SF_vars(cur = r /\ Prepare) /\ SF_vars(cur = r /\ Endorse)
  /\ \A r \in Row : SF_vars(cur = r /\ Send)
  /\ \A t \in TxId : SF_vars(Deliver(t))

Spec     == Init /\ [][Next]_vars
FairSpec == Spec /\ Fairness

-----------------------------------------------------------------------------

\* Type invariant; in particular no row outruns its bound on endorsements: a
\* transaction is endorsed afresh only if a crash lost the last one before it was
\* persisted (Workflow.advance).
TypeOK ==
  /\ journal \in [Row -> Entry]
  /\ pc \in {"idle", "query", "reconcile", "prepare", "endorse", "persist",
             "mark", "submit", "await"}
  /\ cur \in Row \cup {None}
  /\ held \in TxId \cup {None}
  /\ endorsed \in [Row -> 0..MaxCrashes + 1]
  /\ inflight \subseteq TxId /\ sent \subseteq TxId
  /\ outcome \in [TxId -> {"none", "VALID", "INVALID"}]
  /\ receipt \in [Key -> TxId \cup {None, Foreign}]
  /\ crashes \in 0..MaxCrashes

\* A committed row has its own transaction on the ledger, valid: the receipt of
\* another role or client under the same identifier is never adopted, and no two
\* rows commit on one receipt (Workflow.advance, "Never adopt another role's").
CommittedIsOurs ==
  \A r \in Row :
    journal[r].state = "COMMITTED" =>
      /\ journal[r].tx # None
      /\ outcome[journal[r].tx] = "VALID"
      /\ receipt[KeyOf[r]] = journal[r].tx

\* What the client was told has failed does not happen later: the row's persisted
\* transaction is dead (its key taken by another, or invalidated), or nothing was
\* ever sent for it.
FailedIsDead ==
  \A r \in Row :
    journal[r].state = "FAILED" =>
      /\ \A t \in sent : t[1] = r => outcome[t] # "VALID"
      /\ \A t \in inflight : t[1] = r => receipt[KeyOf[r]] # None

\* Through crashes, outages and retries a row submits one transaction, the
\* persisted one ("never invent a fresh operation").
OneTransaction == \A t \in sent : journal[t[1]].tx = t

\* Evidence is served only for operations that the ledger holds, and for all of
\* them that the backend knows to be committed (Store.committed, Api.java).
EvidenceServed ==
  \A r \in Row :
    /\ journal[r].evidence = "promoted" =>
         receipt[KeyOf[r]] = journal[r].tx /\ journal[r].tx # None
    /\ journal[r].state = "COMMITTED" => journal[r].evidence # "archived"

\* Final is final: a committed row never changes, and a failed one only while it
\* has no transaction.
FinalStays ==
  [][\A r \in Row :
       /\ journal[r].state = "COMMITTED" => journal'[r] = journal[r]
       /\ journal[r].state = "FAILED" /\ journal[r].tx # None
            => journal'[r] = journal[r]
    ]_vars

\* Once a transaction is persisted its row is settled in the end, and truly: no
\* client waits for ever on SUBMITTED_UNKNOWN.
Settles ==
  \A r \in Row :
    journal[r].tx # None ~> journal[r].state \in {"COMMITTED", "FAILED"}

\* docs/ARCHITECTURE.md: "Anomaly computation is eventually completed after the
\* retail report."  The worker goes on submitting the evaluation until then.
EvaluationCompletes ==
  \A r \in Evaluations : <>(receipt[KeyOf[r]] # None)
=============================================================================
