--------------------------- MODULE Workflow_proofs ---------------------------
(***************************************************************************)
(* For any rows, identifiers and number of crashes: what Workflow says of  *)
(* its safety holds.  The argument is one inductive invariant, IInv, that  *)
(* ties what is in hand (pc, held) to the journal and the journal to the   *)
(* ledger.                                                                 *)
(***************************************************************************)
EXTENDS Workflow, TLAPS

\* What advance holds is of the row it is on, and is persisted before it is sent.
InHand ==
  /\ pc = "idle" <=> cur = None
  /\ pc = "idle" => held = None
  /\ pc \in {"query", "reconcile", "prepare", "endorse"} => held = None
  /\ pc = "persist" => held # None
  /\ held # None => held[1] = cur /\ held[2] = endorsed[cur]
  /\ pc # "idle" => journal[cur].state \in {"PENDING", "SUBMITTED_UNKNOWN"}
  /\ pc \in {"prepare", "endorse", "persist"} => journal[cur].tx = None
  /\ pc = "reconcile" => journal[cur].tx # None
  /\ pc \in {"mark", "submit", "await"} =>
        journal[cur].tx # None /\ held \in {None, journal[cur].tx}

\* A row persists a transaction of its own; an endorsement that was not persisted
\* was lost to a crash.
Persisted ==
  \A r \in Row :
    /\ journal[r].tx # None => journal[r].tx[1] = r
    /\ endorsed[r] <= crashes + 1
    /\ journal[r].tx = None /\ (cur # r \/ held = None) => endorsed[r] <= crashes
    /\ journal[r].state = "SUBMITTED_UNKNOWN" => journal[r].tx # None

\* Only what was sent reaches a block, and only one transaction of a key is valid.
OnLedger ==
  /\ inflight \subseteq sent
  /\ \A t \in TxId :
       /\ outcome[t] # "none" => t \in sent /\ t \notin inflight
       /\ outcome[t] = "VALID" <=> receipt[KeyOf[t[1]]] = t
  /\ \A k \in Key : receipt[k] \in TxId => KeyOf[receipt[k][1]] = k

\* What a final row has found out.
Settled ==
  \A r \in Row :
    /\ journal[r].state = "COMMITTED" =>
         /\ journal[r].tx # None
         /\ outcome[journal[r].tx] = "VALID"
         /\ journal[r].evidence # "archived"
    /\ journal[r].state = "FAILED" /\ journal[r].tx # None =>
         /\ outcome[journal[r].tx] # "VALID"
         /\ outcome[journal[r].tx] = "none" => receipt[KeyOf[r]] # None
         /\ journal[r].error \notin Unavailable \cup {"POLICY_MISMATCH"}
    /\ journal[r].evidence = "promoted" => journal[r].state = "COMMITTED"

IInv ==
  TypeOK /\ InHand /\ Persisted /\ OneTransaction /\ OnLedger /\ Settled

-----------------------------------------------------------------------------
(* The two ways in which advance ends                                      *)

\* A row is promoted only when its own persisted transaction is valid.
LEMMA PromoteKeeps ==
  ASSUME IInv, pc \in {"query", "reconcile", "await"},
         journal[cur].tx # None, outcome[journal[cur].tx] = "VALID",
         Promote, UNCHANGED <<endorsed, sent, ledger, crashes>>
  PROVE  IInv'
<1> USE WorkflowAssumption DEF IInv, ledger
<1>1. cur \in Row /\ journal[cur] \in Entry
  BY DEF TypeOK, InHand
<1>2. Promoted(journal[cur]) \in Entry
  BY <1>1 DEF Promoted, Entry, States
<1>3. journal' = [journal EXCEPT ![cur] = Promoted(journal[cur])]
  BY DEF Promote
<1>4. Promoted(journal[cur]).tx = journal[cur].tx
      /\ Promoted(journal[cur]).state = "COMMITTED"
      /\ Promoted(journal[cur]).evidence # "archived"
  BY <1>1 DEF Promoted, Entry
<1>5. TypeOK'
  <2>1. journal' \in [Row -> Entry]
    BY <1>2, <1>3 DEF TypeOK
  <2>2. pc' = "idle" /\ cur' = None /\ held' = None
    BY DEF Promote, Return
  <2> QED BY <2>1, <2>2 DEF TypeOK
<1>6. InHand'
  BY DEF InHand, Promote, Return
<1>7. Persisted'
  BY <1>1, <1>3, <1>4 DEF TypeOK, InHand, Persisted, Promote, Return
<1>8. OneTransaction'
  BY <1>1, <1>3, <1>4 DEF TypeOK, OneTransaction
<1>9. OnLedger'
  BY DEF OnLedger
<1>10. Settled'
  BY <1>1, <1>3, <1>4 DEF TypeOK, Settled
<1> QED BY <1>5, <1>6, <1>7, <1>8, <1>9, <1>10

\* A row with a persisted transaction fails only when that is known to be dead.
LEMMA RaiseKeeps ==
  ASSUME IInv, pc \in {"query", "reconcile", "prepare", "endorse", "await"},
         NEW error \in Errors,
         journal[cur].tx # None /\ error \notin Anywhere =>
           /\ outcome[journal[cur].tx] # "VALID"
           /\ outcome[journal[cur].tx] = "none" => receipt[KeyOf[cur]] # None
           /\ error # "POLICY_MISMATCH",
         Raise(error), UNCHANGED <<endorsed, sent, ledger, crashes>>
  PROVE  IInv'
<1> USE WorkflowAssumption DEF IInv, ledger
<1> DEFINE new == IF Undecided(journal[cur], error) THEN journal[cur]
                  ELSE [journal[cur] EXCEPT !.state = "FAILED", !.error = error]
<1>1. cur \in Row /\ journal[cur] \in Entry
  BY DEF TypeOK, InHand
<1>2. new \in Entry
  BY <1>1 DEF Entry, States
<1>3. journal' = [journal EXCEPT ![cur] = new]
  BY DEF Raise
<1>4. /\ new.tx = journal[cur].tx
      /\ new.evidence = journal[cur].evidence
      /\ new.state \in {journal[cur].state, "FAILED"}
      /\ new.state = "FAILED" /\ new.tx # None =>
           error \notin Anywhere /\ new.error = error
  BY <1>1 DEF Entry, Undecided, InHand
<1> HIDE DEF new
<1>5. TypeOK'
  <2>1. journal' \in [Row -> Entry]
    BY <1>2, <1>3 DEF TypeOK
  <2>2. pc' = "idle" /\ cur' = None /\ held' = None
    BY DEF Raise, Return
  <2> QED BY <2>1, <2>2 DEF TypeOK
<1>6. InHand'
  BY DEF InHand, Raise, Return
<1>7. Persisted'
  BY <1>1, <1>3, <1>4 DEF TypeOK, InHand, Persisted, Raise, Return
<1>8. OneTransaction'
  BY <1>1, <1>3, <1>4 DEF TypeOK, OneTransaction
<1>9. OnLedger'
  BY DEF OnLedger
<1>10. Settled'
  <2>1. ASSUME NEW r \in Row, r # cur
        PROVE  journal'[r] = journal[r]
    BY <2>1, <1>3 DEF TypeOK
  <2>2. journal'[cur] = new
    BY <1>1, <1>3 DEF TypeOK
  <2>3. journal[cur].state \in {"PENDING", "SUBMITTED_UNKNOWN"}
    BY DEF InHand
  <2> QED BY <1>1, <1>4, <2>1, <2>2, <2>3 DEF Settled, Anywhere, Unavailable
<1> QED BY <1>5, <1>6, <1>7, <1>8, <1>9, <1>10

\* The outcome of the row's own transaction decides between the two.
LEMMA DecideKeeps ==
  ASSUME IInv, pc \in {"reconcile", "await"},
         journal[cur].tx # None, outcome[journal[cur].tx] # "none",
         Decide(journal[cur].tx),
         UNCHANGED <<endorsed, sent, ledger, crashes>>
  PROVE  IInv'
<1>1. CASE outcome[journal[cur].tx] = "VALID"
  BY <1>1, PromoteKeeps DEF Decide
<1>2. CASE outcome[journal[cur].tx] # "VALID"
  <2>1. "VERSION_CONFLICT" \in Errors
    BY DEF Errors
  <2> QED BY <1>2, <2>1, RaiseKeeps DEF Decide
<1> QED BY <1>1, <1>2

-----------------------------------------------------------------------------
(* Every step preserves the invariant                                      *)

\* Entry points: the row is in flight again, with its transaction if it had one.
LEMMA SubmitKeeps ==
  ASSUME IInv, NEW r \in Row, Submit(r)
  PROVE  IInv'
<1> USE WorkflowAssumption DEF IInv, ledger, Submit
<1> DEFINE new == [journal[r] EXCEPT !.state = "PENDING", !.error = None]
<1>1. journal[r] \in Entry /\ new \in Entry /\ journal' = [journal EXCEPT ![r] = new]
  <2>1. journal[r] \in Entry
    BY DEF TypeOK
  <2> QED BY <2>1 DEF Entry, States
<1>2. journal[r].state # "COMMITTED" /\ journal[r].evidence # "promoted"
  BY DEF Settled, Retriable, FailedOutOfReach, Failed
<1>3. /\ new.tx = journal[r].tx /\ new.evidence = journal[r].evidence
      /\ new.state = "PENDING"
  BY <1>1 DEF Entry
<1> HIDE DEF new
<1>4. TypeOK'
  <2>1. journal' \in [Row -> Entry]
    BY <1>1 DEF TypeOK
  <2>2. pc' = "query" /\ cur' = r /\ UNCHANGED held
    OBVIOUS
  <2> QED BY <2>1, <2>2 DEF TypeOK
<1>5. InHand'
  BY <1>1, <1>3 DEF TypeOK, InHand
<1>6. Persisted'
  BY <1>1, <1>3 DEF TypeOK, InHand, Persisted
<1>7. OneTransaction'
  BY <1>1, <1>3 DEF TypeOK, OneTransaction
<1>8. OnLedger'
  BY DEF OnLedger
<1>9. Settled'
  BY <1>1, <1>2, <1>3 DEF TypeOK, Settled
<1> QED BY <1>4, <1>5, <1>6, <1>7, <1>8, <1>9

LEMMA RecoverKeeps ==
  ASSUME IInv, NEW r \in Row, Recover(r)
  PROVE  IInv'
<1> USE WorkflowAssumption DEF IInv, ledger, Recover
<1>1. TypeOK'
  BY DEF TypeOK
<1>2. InHand'
  BY DEF TypeOK, InHand, Recoverable
<1>3. Persisted'
  BY DEF InHand, Persisted
<1>4. OneTransaction' /\ OnLedger' /\ Settled'
  BY DEF OneTransaction, OnLedger, Settled
<1> QED BY <1>1, <1>2, <1>3, <1>4

\* Steps that only move on to another place of advance.
LEMMA GotoKeeps ==
  ASSUME IInv, \/ QueryNotFound \/ ReconcileUnknown
  PROVE  IInv'
<1> USE WorkflowAssumption
        DEF IInv, ledger, QueryNotFound, ReconcileUnknown, Goto, NextStep, row
<1>1. TypeOK'
  BY DEF TypeOK
<1>2. InHand'
  BY DEF TypeOK, InHand
<1>3. Persisted'
  BY DEF Persisted
<1>4. OneTransaction' /\ OnLedger' /\ Settled'
  BY DEF OneTransaction, OnLedger, Settled
<1> QED BY <1>1, <1>2, <1>3, <1>4

\* Steps that change a field of the row other than its transaction and error.
LEMMA PrepareKeeps ==
  ASSUME IInv, Archive \/ Prepare \/ Mark
  PROVE  IInv'
<1> USE WorkflowAssumption DEF IInv, ledger, process
<1>1. cur \in Row /\ journal[cur] \in Entry
  BY DEF TypeOK, InHand, Archive, Prepare, Mark
<1>2. PICK new \in Entry :
        /\ journal' = [journal EXCEPT ![cur] = new]
        /\ new.tx = journal[cur].tx
        /\ new.state \in {"PENDING", "SUBMITTED_UNKNOWN"}
        /\ new.state = "SUBMITTED_UNKNOWN" => new.tx # None
        /\ new.evidence \in {journal[cur].evidence, "archived"}
  <2>1. CASE Archive
    <3>1. [journal[cur] EXCEPT !.evidence = "archived"] \in Entry
      BY <1>1 DEF Entry
    <3> QED BY <1>1, <2>1, <3>1 DEF Archive, Entry, InHand, Persisted
  <2>2. CASE Prepare
    <3>1. [journal[cur] EXCEPT !.prepared = TRUE] \in Entry
      BY <1>1 DEF Entry
    <3> QED BY <1>1, <2>2, <3>1 DEF Prepare, Entry, InHand, Persisted
  <2>3. CASE Mark
    <3>1. [journal[cur] EXCEPT !.state = "SUBMITTED_UNKNOWN"] \in Entry
      BY <1>1 DEF Entry, States
    <3> QED BY <1>1, <2>3, <3>1 DEF Mark, Entry, InHand
  <2> QED BY <2>1, <2>2, <2>3
<1>3. /\ cur' = cur /\ held' = held
      /\ \/ pc = "prepare" /\ pc' \in {"prepare", "endorse"}
         \/ pc = "mark" /\ pc' = "submit"
      /\ UNCHANGED <<endorsed, sent, ledger, crashes>>
  BY DEF Archive, Prepare, Mark, Goto
<1>4. journal[cur].state \in {"PENDING", "SUBMITTED_UNKNOWN"}
  BY <1>3 DEF InHand
<1>5. TypeOK'
  <2>1. journal' \in [Row -> Entry]
    BY <1>2 DEF TypeOK
  <2> QED BY <2>1, <1>3 DEF TypeOK
<1>6. InHand'
  BY <1>1, <1>2, <1>3 DEF TypeOK, InHand
<1>7. Persisted'
  BY <1>1, <1>2, <1>3 DEF TypeOK, Persisted
<1>8. OneTransaction'
  BY <1>1, <1>2, <1>3 DEF TypeOK, OneTransaction
<1>9. OnLedger'
  BY <1>3 DEF OnLedger
<1>10. Settled'
  <2>1. journal[cur].evidence # "promoted"
    BY <1>1, <1>4 DEF Settled
  <2> QED BY <1>1, <1>2, <1>3, <2>1 DEF TypeOK, Settled
<1> QED BY <1>5, <1>6, <1>7, <1>8, <1>9, <1>10

LEMMA EndorseKeeps ==
  ASSUME IInv, Endorse
  PROVE  IInv'
<1> USE WorkflowAssumption DEF IInv, ledger, Endorse
<1>1. cur \in Row /\ held = None /\ journal[cur].tx = None
  BY DEF TypeOK, InHand
<1>2. endorsed[cur] \in Nat /\ endorsed[cur] <= crashes /\ crashes \in 0..MaxCrashes
  BY <1>1 DEF TypeOK, Persisted
<1>3. endorsed[cur] + 1 \in 1..MaxCrashes + 1
  BY <1>2
<1>4. held' \in TxId /\ held'[1] = cur /\ held'[2] = endorsed[cur] + 1
  BY <1>1, <1>3 DEF TxId
<1>5. TypeOK'
  BY <1>1, <1>3, <1>4 DEF TypeOK
<1>6. InHand'
  BY <1>1, <1>4 DEF TypeOK, InHand
<1>7. Persisted'
  BY <1>1, <1>2, <1>4 DEF TypeOK, Persisted
<1>8. OneTransaction' /\ OnLedger' /\ Settled'
  BY DEF OneTransaction, OnLedger, Settled
<1> QED BY <1>5, <1>6, <1>7, <1>8

\* Nothing was sent for the row before, or it would have had a transaction.
LEMMA PersistKeeps ==
  ASSUME IInv, Persist
  PROVE  IInv'
<1> USE WorkflowAssumption DEF IInv, ledger, Persist, Goto
<1>1. /\ cur \in Row /\ journal[cur] \in Entry
      /\ held \in TxId /\ held[1] = cur
      /\ journal[cur].tx = None
  BY DEF TypeOK, InHand
<1>2. \A t \in sent : t[1] # cur
  BY <1>1 DEF OneTransaction, TypeOK
<1> DEFINE new == [journal[cur] EXCEPT !.tx = held]
<1>3. new \in Entry /\ journal' = [journal EXCEPT ![cur] = new] /\ new.tx = held
      /\ new.state = journal[cur].state /\ new.evidence = journal[cur].evidence
  BY <1>1 DEF Entry
<1> HIDE DEF new
<1>4. TypeOK'
  <2>1. journal' \in [Row -> Entry]
    <3>1. journal \in [Row -> Entry]
      BY DEF TypeOK
    <3> HIDE DEF IInv, ledger, Persist, Goto
    <3> QED BY ONLY <1>3, <3>1
  <2> QED BY <2>1 DEF TypeOK
<1>5. InHand'
  BY <1>1, <1>3 DEF TypeOK, InHand
<1>6. Persisted'
  BY <1>1, <1>3 DEF TypeOK, Persisted
<1>7. OneTransaction'
  BY <1>1, <1>2, <1>3 DEF TypeOK, OneTransaction
<1>8. OnLedger'
  BY DEF OnLedger
<1>9. Settled'
  BY <1>1, <1>3 DEF TypeOK, InHand, Settled
<1> QED BY <1>4, <1>5, <1>6, <1>7, <1>8, <1>9

LEMMA SendKeeps ==
  ASSUME IInv, Send
  PROVE  IInv'
<1> USE WorkflowAssumption DEF IInv, Send, Goto
<1>1. /\ cur \in Row
      /\ prepared = journal[cur].tx /\ prepared \in TxId /\ prepared[1] = cur
  BY DEF TypeOK, Entry, InHand, Persisted, prepared, row
<1>2. TypeOK'
  BY <1>1 DEF TypeOK
<1>3. InHand'
  BY DEF InHand
<1>4. Persisted'
  BY DEF Persisted
<1>5. OneTransaction'
  BY <1>1 DEF OneTransaction
<1>6. OnLedger'
  BY <1>1 DEF OnLedger
<1>7. Settled'
  BY DEF Settled
<1> QED BY <1>2, <1>3, <1>4, <1>5, <1>6, <1>7

\* Giving up and crashing forget what is in hand.
LEMMA ReturnKeeps ==
  ASSUME IInv, GiveUp \/ Crash
  PROVE  IInv'
<1> USE WorkflowAssumption DEF IInv, ledger, GiveUp, Crash, Return
<1>1. TypeOK'
  BY DEF TypeOK
<1>2. InHand'
  BY DEF TypeOK, InHand
<1>3. Persisted'
  BY DEF TypeOK, InHand, Persisted
<1>4. OneTransaction' /\ OnLedger' /\ Settled'
  BY DEF OneTransaction, OnLedger, Settled
<1> QED BY <1>1, <1>2, <1>3, <1>4

-----------------------------------------------------------------------------

\* A delivered transaction is its row's, and a failed row's key is taken.
LEMMA DeliverKeeps ==
  ASSUME IInv, NEW t \in TxId, Deliver(t)
  PROVE  IInv'
<1> USE WorkflowAssumption DEF IInv, process
<1>1. /\ t[1] \in Row /\ KeyOf[t[1]] \in Key
      /\ t \in sent /\ outcome[t] = "none"
  BY DEF TxId, Deliver, OnLedger, TypeOK
<1>2. TypeOK'
  BY <1>1 DEF TypeOK, Deliver
<1>3. InHand' /\ Persisted' /\ OneTransaction'
  BY DEF InHand, Persisted, OneTransaction, Deliver
<1>4. OnLedger'
  <2>1. inflight' \subseteq sent' /\ sent' = sent /\ t \notin inflight'
    BY DEF OnLedger, Deliver
  <2>2. CASE outcome' = [outcome EXCEPT ![t] = "VALID"]
    <3>1. receipt' = [receipt EXCEPT ![KeyOf[t[1]]] = t] /\ receipt[KeyOf[t[1]]] = None
      BY <1>1, <2>2 DEF Deliver, TypeOK
    <3> QED BY <1>1, <2>1, <2>2, <3>1 DEF TypeOK, OnLedger, Deliver, TxId
  <2>3. CASE outcome' = [outcome EXCEPT ![t] = "INVALID"]
    <3>1. receipt' = receipt
      BY <1>1, <2>3 DEF Deliver, TypeOK
    <3> QED BY <1>1, <2>1, <2>3, <3>1 DEF TypeOK, OnLedger, Deliver
  <2> QED BY <2>2, <2>3 DEF Deliver
<1>5. Settled'
  BY <1>1 DEF TypeOK, Entry, Persisted, OneTransaction, OnLedger, Settled, Deliver
<1> QED BY <1>2, <1>3, <1>4, <1>5

LEMMA LoseKeeps ==
  ASSUME IInv, NEW t \in TxId, Lose(t)
  PROVE  IInv'
<1> USE WorkflowAssumption DEF IInv, process, Lose
<1>1. TypeOK'
  BY DEF TypeOK
<1>2. InHand' /\ Persisted' /\ OneTransaction' /\ Settled'
  BY DEF InHand, Persisted, OneTransaction, Settled
<1>3. OnLedger'
  BY DEF OnLedger
<1> QED BY <1>1, <1>2, <1>3

LEMMA InterfereKeeps ==
  ASSUME IInv, NEW k \in Key, Interfere(k)
  PROVE  IInv'
<1> USE WorkflowAssumption DEF IInv, process, Interfere
<1>1. TypeOK'
  BY DEF TypeOK
<1>2. InHand' /\ Persisted' /\ OneTransaction'
  BY DEF InHand, Persisted, OneTransaction
<1>3. OnLedger'
  BY DEF TypeOK, OnLedger
<1>4. Settled'
  BY DEF TypeOK, Settled
<1> QED BY <1>1, <1>2, <1>3, <1>4

-----------------------------------------------------------------------------
(* The theorems                                                            *)

LEMMA InitHolds == Init => IInv
<1> SUFFICES ASSUME Init PROVE IInv
  OBVIOUS
<1> USE WorkflowAssumption DEF IInv, Init
<1>1. TypeOK
  BY DEF TypeOK, Entry, States
<1>2. InHand
  BY DEF InHand
<1>3. Persisted
  BY DEF Persisted
<1>4. OneTransaction
  BY DEF OneTransaction
<1>5. OnLedger
  BY DEF OnLedger, TxId
<1>6. Settled
  BY DEF Settled
<1> QED BY <1>1, <1>2, <1>3, <1>4, <1>5, <1>6

LEMMA NextKeeps == IInv /\ [Next]_vars => IInv'
<1> SUFFICES ASSUME IInv, [Next]_vars PROVE IInv'
  OBVIOUS
<1>1. ASSUME NEW r \in Row, Submit(r) \/ Recover(r) PROVE IInv'
  BY <1>1, SubmitKeeps, RecoverKeeps
<1>2. CASE QueryFound
  <2>1. CASE Ours(cur)
    <3>1. journal[cur].tx # None /\ outcome[journal[cur].tx] = "VALID"
      BY <1>2, <2>1, WorkflowAssumption
         DEF IInv, TypeOK, Entry, InHand, Persisted, OnLedger, Ours, QueryFound
    <3> QED BY <1>2, <2>1, <3>1, PromoteKeeps DEF QueryFound
  <2>2. CASE ~Ours(cur)
    <3>1. journal[cur].tx # None => outcome[journal[cur].tx] # "VALID"
      BY <1>2, <2>2, WorkflowAssumption
         DEF IInv, TypeOK, Entry, InHand, Persisted, OnLedger, Ours, QueryFound
    <3>2. receipt[KeyOf[cur]] # None /\ "IDEMPOTENCY_CONFLICT" \in Errors
      BY <1>2 DEF QueryFound, key, Errors
    <3> QED BY <1>2, <2>2, <3>1, <3>2, RaiseKeeps DEF QueryFound
  <2> QED BY <2>1, <2>2
<1>3. CASE QueryFails
  <2>1. PICK error \in Anywhere : Raise(error)
    BY <1>3 DEF QueryFails
  <2>2. error \in Errors
    BY DEF Anywhere, Errors, Unavailable
  <2> QED BY <1>3, <2>1, <2>2, RaiseKeeps DEF QueryFails
<1>4. CASE ReconcileKnown
  <2>1. journal[cur].tx # None
    BY <1>4 DEF IInv, InHand, ReconcileKnown
  <2> QED BY <1>4, <2>1, DecideKeeps DEF ReconcileKnown, row
<1>5. CASE PrepareFails \/ EndorseFails
  <2>1. journal[cur].tx = None
    BY <1>5 DEF IInv, InHand, PrepareFails, EndorseFails
  <2>2. PICK error \in Errors : Raise(error)
    BY <1>5 DEF PrepareFails, EndorseFails, Refusal, Preparing, Endorsing,
                Anywhere, Errors, Unavailable
  <2> QED BY <1>5, <2>1, <2>2, RaiseKeeps DEF PrepareFails, EndorseFails
<1>6. CASE Learn
  <2>1. journal[cur].tx # None /\ prepared = journal[cur].tx
    BY <1>6 DEF IInv, InHand, Learn, prepared, row
  <2> QED BY <1>6, <2>1, DecideKeeps DEF Learn
<1>7. CASE QueryNotFound \/ ReconcileUnknown \/ Archive \/ Prepare \/ Endorse
           \/ Persist \/ Mark \/ Send \/ GiveUp \/ Crash
  BY <1>7, GotoKeeps, PrepareKeeps, EndorseKeeps, PersistKeeps, SendKeeps, ReturnKeeps
<1>8. ASSUME NEW t \in TxId, Deliver(t) \/ Lose(t) PROVE IInv'
  BY <1>8, DeliverKeeps, LoseKeeps
<1>9. ASSUME NEW k \in Key, Interfere(k) PROVE IInv'
  BY <1>9, InterfereKeeps
<1>10. CASE UNCHANGED vars
  BY <1>10 DEF IInv, TypeOK, InHand, Persisted, OneTransaction, OnLedger, Settled,
               vars, process, ledger
<1> QED
  BY <1>1, <1>2, <1>3, <1>4, <1>5, <1>6, <1>7, <1>8, <1>9, <1>10 DEF Next, Step

\* The journal and the ledger agree as IInv says, whatever crashes, is lost or
\* is refused.
THEOREM Inductive == Spec => []IInv
  BY InitHolds, NextKeeps, PTL DEF Spec

\* Workflow's variables keep their types; in particular a row is endorsed at most
\* once more than the backend crashes.
THEOREM TypeCorrect == Spec => []TypeOK
<1>1. IInv => TypeOK
  BY DEF IInv
<1> QED BY <1>1, Inductive, PTL

\* Through crashes and retries a row submits one transaction only.
THEOREM SubmitsOne == Spec => []OneTransaction
<1>1. IInv => OneTransaction
  BY DEF IInv
<1> QED BY <1>1, Inductive, PTL

\* COMMITTED is never said of a row whose own transaction is not valid.
THEOREM CommitsOwn == Spec => []CommittedIsOurs
<1>1. IInv => CommittedIsOurs
  BY WorkflowAssumption
     DEF IInv, TypeOK, Entry, Persisted, OnLedger, Settled, CommittedIsOurs
<1> QED BY <1>1, Inductive, PTL

\* FAILED is never said of a row whose transaction is, or can become, valid.
THEOREM FailsDead == Spec => []FailedIsDead
<1>1. IInv => FailedIsDead
  <2> SUFFICES ASSUME IInv, NEW r \in Row, journal[r].state = "FAILED",
                      NEW t \in sent, t[1] = r
               PROVE  /\ outcome[t] # "VALID"
                      /\ t \in inflight => receipt[KeyOf[r]] # None
    BY DEF IInv, OnLedger, FailedIsDead
  <2>1. t \in TxId /\ journal[r].tx = t /\ t # None
    BY WorkflowAssumption DEF IInv, TypeOK, OneTransaction
  <2> QED BY <2>1 DEF IInv, OnLedger, TypeOK, Settled
<1> QED BY <1>1, Inductive, PTL

\* Evidence is served exactly for operations that the ledger holds.
THEOREM ServesCommitted == Spec => []EvidenceServed
<1>1. IInv => EvidenceServed
  BY WorkflowAssumption
     DEF IInv, TypeOK, Entry, Persisted, OnLedger, Settled, EvidenceServed
<1> QED BY <1>1, Inductive, PTL

\* A step changes the row it is on, which is neither committed nor failed, or
\* takes up a failed row that has no transaction.
LEMMA OnlyPendingMoves ==
  ASSUME IInv, [Next]_vars, NEW r \in Row, journal'[r] # journal[r]
  PROVE  \/ journal[r].state \in {"PENDING", "SUBMITTED_UNKNOWN", "ABSENT"}
         \/ journal[r].state = "FAILED" /\ journal[r].tx = None
<1>1. ASSUME NEW q \in Row, Submit(q)
      PROVE  \/ journal[r].state = "ABSENT"
             \/ journal[r].state = "FAILED" /\ journal[r].tx = None
  <2>1. r = q
    BY <1>1 DEF IInv, TypeOK, Submit
  <2>2. journal[r].state = "ABSENT" \/ Retriable(r)
    BY <1>1, <2>1 DEF Submit
  <2>3. journal[r].state = "FAILED" /\ journal[r].tx # None =>
          journal[r].error \notin Unavailable \cup {"POLICY_MISMATCH"}
    BY DEF IInv, Settled
  <2> QED BY <2>2, <2>3 DEF Retriable, FailedOutOfReach, Failed
<1>2. CASE Step
  <2>1. r = cur /\ pc # "idle"
    BY <1>2 DEF IInv, TypeOK, Step, QueryFound, QueryNotFound, QueryFails,
                ReconcileKnown, ReconcileUnknown, Archive, Prepare, PrepareFails,
                Endorse, EndorseFails, Persist, Mark, Send, GiveUp, Learn,
                Promote, Raise, Decide
  <2> QED BY <2>1 DEF IInv, InHand
<1>3. CASE UNCHANGED journal
  BY <1>3
<1>4. Submit(r) \/ (\E q \in Row : Submit(q)) \/ Step \/ UNCHANGED journal
  BY DEF Next, vars, Recover, Crash, Deliver, Lose, Interfere
<1> QED BY <1>1, <1>2, <1>3, <1>4

\* What a client was told of a row's end stays so.
THEOREM EndsForGood == Spec => FinalStays
<1>1. IInv /\ [Next]_vars =>
        [\A r \in Row :
           /\ journal[r].state = "COMMITTED" => journal'[r] = journal[r]
           /\ journal[r].state = "FAILED" /\ journal[r].tx # None
                => journal'[r] = journal[r]]_vars
  BY OnlyPendingMoves
<1> QED BY <1>1, Inductive, PTL DEF Spec, FinalStays

=============================================================================
