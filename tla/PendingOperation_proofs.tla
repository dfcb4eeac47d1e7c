----------------------- MODULE PendingOperation_proofs -----------------------
(***************************************************************************)
(* For any number of operations and of moves by others: what the page      *)
(* tells its user about an operation is so and stays so.                   *)
(***************************************************************************)
EXTENDS PendingOperation, TLAPS

TypeOK ==
  /\ session \in BOOLEAN
  /\ pending \in Op \cup {None}
  /\ drafted \in [Op -> Nat \cup {None}]
  /\ told \subseteq Op \X Answer
  /\ calls \subseteq Call
  /\ row \in [Op -> RowState]
  /\ tx \subseteq Op /\ ledger \subseteq Op
  /\ version \in Nat \ {0}

\* Only a drafted operation is posted and has a row; its version is one that the
\* batch had.
Drafted ==
  /\ pending # None => drafted[pending] # None
  /\ \A o \in Op : drafted[o] # None => drafted[o] <= version
  /\ \A c \in calls : drafted[c.op] # None
  /\ \A o \in Op : row[o] # "none" => drafted[o] # None

\* The journal has a transaction exactly in the states after persisting; a row
\* that may be taken up again has none.
Journalled ==
  \A o \in Op :
    /\ row[o] \in Retried => o \notin tx
    /\ o \in ledger => o \in tx
    /\ o \in tx => drafted[o] # None
    /\ row[o] = "COMMITTED" => o \in ledger

\* A failed row's transaction, if there is one, is behind the batch for ever.
Dead(o) ==
  /\ row[o] = "FAILED" /\ o \notin ledger
  /\ o \in tx => drafted[o] < version

FailedDead == \A o \in Op : row[o] = "FAILED" => Dead(o)

\* An answer under way is as true as one that was told.
Truthful(o, answer) ==
  /\ answer = "COMMITTED" => o \in ledger
  /\ answer = "REFUSED" => Dead(o)

AnswersTrue ==
  /\ \A c \in calls : Truthful(c.op, c.answer)
  /\ \A t \in told : Truthful(t[1], t[2])

IInv == TypeOK /\ Drafted /\ Journalled /\ FailedDead /\ AnswersTrue

-----------------------------------------------------------------------------
(* What stays true                                                         *)

\* What is true of an operation stays true while the journal fails no row for
\* another reason, the batch moves on and the ledger forgets nothing.
Lasting ==
  /\ ledger \subseteq ledger'
  /\ \A o \in Op : Dead(o) => Dead(o)'

\* What is true of an answer stays true while the journal's rows only move on.
LEMMA TruthLasts ==
  ASSUME Lasting, NEW o \in Op, NEW answer, Truthful(o, answer)
  PROVE  Truthful(o, answer)'
  BY DEF Lasting, Truthful

\* The journal and the ledger as they were.
LEMMA PageStep ==
  ASSUME UNCHANGED backend, IInv, \A o \in Op : drafted[o] # None => drafted'[o] = drafted[o]
  PROVE  Lasting /\ (\A o \in Op : row[o] = "FAILED" => Dead(o)')
<1>1. \A o \in Op : o \in tx => drafted'[o] = drafted[o]
  BY DEF IInv, Journalled
<1>2. row' = row /\ tx' = tx /\ version' = version /\ ledger' = ledger
  BY DEF backend
<1> QED BY <1>1, <1>2 DEF Lasting, Dead, IInv, FailedDead

\* How a round of advance may leave a row, and the answer it gives.
LEMMA AdvanceTrue ==
  ASSUME IInv, NEW o \in Op, drafted[o] # None, NEW r \in advance(o),
         row' = [row EXCEPT ![o] = r[1]], UNCHANGED <<pending, drafted, tx, version, ledger>>
  PROVE  /\ row' \in [Op -> RowState] /\ r[2] \in Answer
         /\ \A q \in Op : row'[q] # "none" => drafted'[q] # None
         /\ Journalled' /\ FailedDead' /\ Lasting
         /\ Truthful(o, r[2])'
<1>1. /\ row \in [Op -> RowState] /\ row[o] \in RowState
      /\ drafted[o] \in Nat /\ version \in Nat /\ drafted[o] <= version
  BY DEF IInv, TypeOK, Drafted
<1>2. /\ r[1] \in RowState \ {"none"} /\ r[2] \in Answer
      /\ r[1] \in Retried => row[o] \in Retried
      /\ r[1] = "COMMITTED" => o \in ledger
      /\ r[2] = "COMMITTED" => o \in ledger
      /\ r[2] = "REFUSED" => r[1] = "FAILED"
      /\ row[o] = "FAILED" => r[1] = "FAILED"
      /\ r[1] = "FAILED" => o \notin ledger /\ (o \in tx => drafted[o] < version)
  <2>1. CASE row[o] \in Retried
    BY <1>1, <2>1 DEF advance, Retried, RowState, Answer, IInv, Journalled
  <2>2. CASE row[o] = "SUBMITTED"
    BY <1>1, <2>2 DEF advance, Retried, RowState, Answer, Undecided, Known, Decided
  <2>3. CASE row[o] = "COMMITTED"
    BY <1>1, <2>3 DEF advance, Retried, RowState, Answer, IInv, Journalled
  <2>4. CASE row[o] = "FAILED"
    BY <1>1, <2>4 DEF advance, Retried, RowState, Answer, IInv, FailedDead, Dead
  <2> QED BY <1>1, <2>1, <2>2, <2>3, <2>4 DEF RowState, Retried
<1>3. /\ row'[o] = r[1] /\ \A q \in Op \ {o} : row'[q] = row[q]
      /\ row' \in [Op -> RowState]
  BY <1>1, <1>2
<1>4. drafted' = drafted /\ tx' = tx /\ version' = version /\ ledger' = ledger
  OBVIOUS
<1>5. \A q \in Op : row'[q] # "none" => drafted'[q] # None
  BY <1>3, <1>4 DEF IInv, Drafted
<1>6. Journalled'
  BY <1>2, <1>3, <1>4 DEF IInv, Journalled
<1>7. FailedDead'
  BY <1>2, <1>3, <1>4 DEF IInv, FailedDead, Dead
<1>8. Lasting
  BY <1>2, <1>3, <1>4 DEF Lasting, Dead
<1>9. Truthful(o, r[2])'
  BY <1>2, <1>3, <1>4, <1>7 DEF Truthful, FailedDead
<1> QED BY <1>2, <1>3, <1>5, <1>6, <1>7, <1>8, <1>9

\* A transaction persisted for a row without one.
LEMMA PersistTrue ==
  ASSUME IInv, NEW o \in Op, drafted[o] # None, Persist(o),
         UNCHANGED <<pending, drafted, calls, version, ledger>>
  PROVE  /\ row' \in [Op -> RowState] /\ tx' \subseteq Op
         /\ Drafted' /\ Journalled' /\ FailedDead' /\ Lasting
<1>1. /\ row' = [row EXCEPT ![o] = "SUBMITTED"] /\ row[o] \in Retried
      /\ tx' = tx \cup {o} /\ row \in [Op -> RowState]
      /\ drafted' = drafted /\ calls' = calls /\ version' = version /\ ledger' = ledger
      /\ pending' = pending
  BY DEF Persist, IInv, TypeOK
<1>2. /\ row'[o] = "SUBMITTED" /\ \A q \in Op \ {o} : row'[q] = row[q]
      /\ row' \in [Op -> RowState]
  BY <1>1 DEF RowState
<1>3. tx' \subseteq Op
  BY <1>1 DEF IInv, TypeOK
<1>4. Drafted'
  BY <1>1, <1>2 DEF IInv, Drafted
<1>5. Journalled'
  BY <1>1, <1>2 DEF IInv, Journalled, Retried
<1>6. FailedDead' /\ Lasting
  BY <1>1, <1>2 DEF IInv, FailedDead, Lasting, Dead, Retried
<1> QED BY <1>2, <1>3, <1>4, <1>5, <1>6

-----------------------------------------------------------------------------
(* The page's steps: the journal and the ledger stay as they are.          *)

\* A step of the page and of the calls under way that leaves the backend alone.
LEMMA PageKeeps ==
  ASSUME IInv, UNCHANGED backend,
         session' \in BOOLEAN, pending' \in Op \cup {None},
         drafted' \in [Op -> Nat \cup {None}], told' \subseteq Op \X Answer,
         calls' \subseteq Call,
         \A o \in Op : drafted[o] # None => drafted'[o] = drafted[o],
         pending' # None => drafted'[pending'] # None,
         \A o \in Op : drafted'[o] # None => drafted'[o] <= version,
         \A c \in calls' : drafted'[c.op] # None /\ Truthful(c.op, c.answer),
         \A t \in told' : Truthful(t[1], t[2])
  PROVE  IInv'
<1>1. row' = row /\ tx' = tx /\ version' = version /\ ledger' = ledger
  BY DEF backend
<1>2. Lasting /\ \A o \in Op : row[o] = "FAILED" => Dead(o)'
  BY PageStep
<1>3. TypeOK'
  BY <1>1 DEF IInv, TypeOK
<1>4. Drafted'
  BY <1>1 DEF IInv, Drafted
<1>5. Journalled'
  BY <1>1 DEF IInv, Journalled
<1>6. FailedDead'
  BY <1>1, <1>2 DEF FailedDead
<1>7. AnswersTrue'
  <2>1. ASSUME NEW c \in calls' PROVE Truthful(c.op, c.answer)'
    <3>1. c.op \in Op /\ Truthful(c.op, c.answer)
      BY DEF Call
    <3> QED BY <1>2, <3>1, TruthLasts
  <2>2. ASSUME NEW t \in told' PROVE Truthful(t[1], t[2])'
    <3>1. t[1] \in Op /\ Truthful(t[1], t[2])
      OBVIOUS
    <3> QED BY <1>2, <3>1, TruthLasts
  <2> QED BY <2>1, <2>2 DEF AnswersTrue
<1> QED BY <1>3, <1>4, <1>5, <1>6, <1>7 DEF IInv

\* A new request has no answer, which claims nothing.
LEMMA PostTrue ==
  ASSUME IInv, NEW o \in Op, NEW by \in {"transact", "refresh", "nobody"}, post(o, by)
  PROVE  /\ calls' \subseteq Call
         /\ \A c \in calls' : c \in calls \/ (c.op = o /\ Truthful(c.op, c.answer))
<1> DEFINE new == [op |-> o, by |-> by, answer |-> None]
<1>1. calls' = calls \cup {new} /\ calls \subseteq Call
  BY DEF post, IInv, TypeOK
<1>2. new \in Call
  BY DEF Call
<1>3. Truthful(new.op, new.answer)
  BY AnswerAssumption DEF Truthful, Answer
<1> QED BY <1>1, <1>2, <1>3

\* A click drafts the operation and posts it.
LEMMA TransactKeeps ==
  ASSUME IInv, NEW o \in Op, Transact(o)
  PROVE  IInv'
<1>1. PICK shown \in 1..version : drafted' = [drafted EXCEPT ![o] = shown]
  BY DEF Transact
<1>2. /\ drafted[o] = None /\ pending' = o /\ session' = session /\ told' = told
      /\ post(o, "transact") /\ UNCHANGED backend
  BY DEF Transact
<1>3. /\ calls' \subseteq Call
      /\ \A c \in calls' : c \in calls \/ (c.op = o /\ Truthful(c.op, c.answer))
  BY <1>2, PostTrue
<1>4. /\ drafted \in [Op -> Nat \cup {None}] /\ version \in Nat /\ calls \subseteq Call
      /\ shown \in Nat /\ shown <= version /\ shown # None
  BY PendingAssumption DEF IInv, TypeOK
<1>5. /\ drafted'[o] = shown /\ \A q \in Op \ {o} : drafted'[q] = drafted[q]
      /\ drafted' \in [Op -> Nat \cup {None}]
  BY <1>1, <1>4
<1>6. \A c \in calls' : drafted'[c.op] # None /\ Truthful(c.op, c.answer)
  BY <1>3, <1>4, <1>5 DEF IInv, Drafted, AnswersTrue, Call
<1>7. \A q \in Op : drafted'[q] # None => drafted'[q] <= version
  BY <1>4, <1>5 DEF IInv, Drafted
<1>8. \A q \in Op : drafted[q] # None => drafted'[q] = drafted[q]
  BY <1>2, <1>5
<1>9. drafted'[pending'] # None /\ pending' \in Op
  BY <1>2, <1>4, <1>5
<1> QED BY <1>2, <1>3, <1>5, <1>6, <1>7, <1>8, <1>9, PageKeeps DEF IInv, TypeOK, AnswersTrue

\* The page asks for the operation it holds pending.
LEMMA CheckKeeps ==
  ASSUME IInv, Check
  PROVE  IInv'
<1>1. pending \in Op /\ post(pending, "refresh") /\ UNCHANGED <<page, backend>>
  BY DEF Check, IInv, TypeOK
<1>2. UNCHANGED <<session, pending, drafted, told>>
  BY <1>1 DEF page
<1>3. /\ calls' \subseteq Call
      /\ \A c \in calls' :
           c \in calls \/ (c.op = pending /\ Truthful(c.op, c.answer))
  BY <1>1, PostTrue
<1>4. drafted[pending] # None
  BY <1>1, PendingAssumption DEF IInv, Drafted
<1> QED BY <1>1, <1>2, <1>3, <1>4, PageKeeps DEF IInv, TypeOK, Drafted, AnswersTrue

\* Signing out and in again.
LEMMA SessionKeeps ==
  ASSUME IInv, Logout \/ Login
  PROVE  IInv'
<1>1. /\ session' \in BOOLEAN /\ pending' \in {pending, None}
      /\ UNCHANGED <<drafted, told, calls, backend>>
  BY DEF Logout, Login, IInv, TypeOK
<1> QED BY <1>1, PageKeeps DEF IInv, TypeOK, Drafted, AnswersTrue

\* What the page tells is the answer it receives.
LEMMA ReceiveKeeps ==
  ASSUME IInv, NEW c \in calls, Receive(c)
  PROVE  IInv'
<1>1. /\ calls' \subseteq calls /\ UNCHANGED <<session, drafted, backend>>
      /\ c.answer # None
      /\ pending' \in {pending, None}
      /\ told' \subseteq told \cup {<<c.op, c.answer>>}
  BY DEF Receive
<1>2. c \in Call /\ c.op \in Op /\ c.answer \in Answer /\ Truthful(c.op, c.answer)
  BY <1>1 DEF IInv, TypeOK, Call, AnswersTrue
<1>3. /\ told' \subseteq Op \X Answer
      /\ \A t \in told' : Truthful(t[1], t[2])
  BY <1>1, <1>2 DEF IInv, TypeOK, AnswersTrue
<1> QED BY <1>1, <1>3, PageKeeps DEF IInv, TypeOK, Drafted, AnswersTrue

\* A request or an answer that is lost.
LEMMA BreakKeeps ==
  ASSUME IInv, NEW c \in calls, Break(c)
  PROVE  IInv'
<1>1. UNCHANGED <<session, pending, drafted, told>> /\ UNCHANGED backend
  BY DEF Break, page
<1>2. /\ calls \subseteq Call /\ c \in Call
      /\ \A d \in calls : drafted[d.op] # None /\ Truthful(d.op, d.answer)
  BY DEF IInv, TypeOK, Drafted, AnswersTrue
<1>3. /\ calls' \subseteq Call
      /\ \A d \in calls' : drafted[d.op] # None /\ Truthful(d.op, d.answer)
  <2>1. CASE calls' = calls \ {c}
    BY <1>2, <2>1
  <2>2. CASE c.answer = None /\ calls' = (calls \ {c}) \cup {[c EXCEPT !.by = "nobody"]}
    <3> DEFINE d == [c EXCEPT !.by = "nobody"]
    <3>1. d \in Call /\ d.op = c.op /\ d.answer = c.answer
      BY <1>2 DEF Call
    <3> HIDE DEF d
    <3> QED BY <1>2, <2>2, <3>1 DEF d
  <2> QED BY <2>1, <2>2 DEF Break
<1> QED BY <1>1, <1>3, PageKeeps DEF IInv, TypeOK, Drafted, AnswersTrue

-----------------------------------------------------------------------------
(* The steps of the backend                                                *)

\* A row persisted, on the way of a request or in the recovery loop.
LEMMA PersistKeeps ==
  ASSUME IInv, NEW o \in Op, drafted[o] # None, Persist(o),
         UNCHANGED <<page, calls, version, ledger>>
  PROVE  IInv'
<1>1. UNCHANGED <<session, pending, drafted, told, calls, version, ledger>>
  BY DEF page
<1>2. /\ row' \in [Op -> RowState] /\ tx' \subseteq Op
      /\ Drafted' /\ Journalled' /\ FailedDead' /\ Lasting
  BY <1>1, PersistTrue
<1>3. TypeOK'
  BY <1>1, <1>2 DEF IInv, TypeOK
<1>4. AnswersTrue'
  BY <1>1, <1>2, TruthLasts DEF IInv, TypeOK, AnswersTrue, Call
<1> QED BY <1>2, <1>3, <1>4 DEF IInv

\* A request reaches the backend, which advances the row and answers.
LEMMA ServeKeeps ==
  ASSUME IInv, NEW c \in Unanswered, Serve(c)
  PROVE  IInv'
<1>1. /\ c \in calls /\ c \in Call /\ c.op \in Op /\ drafted[c.op] # None
  BY DEF Unanswered, IInv, TypeOK, Drafted, Call
<1>2. CASE Persist(c.op) /\ UNCHANGED <<page, calls, version, ledger>>
  BY <1>1, <1>2, PersistKeeps
<1>3. ASSUME NEW r \in advance(c.op), Answered(c, r)
      PROVE  IInv'
  <2> DEFINE d == [c EXCEPT !.answer = r[2]]
  <2>1. /\ UNCHANGED <<session, pending, drafted, told, tx, version, ledger>>
        /\ row' = [row EXCEPT ![c.op] = r[1]]
        /\ calls' \subseteq calls \cup {d}
    BY <1>3 DEF Answered, page
  <2>2. /\ row' \in [Op -> RowState] /\ r[2] \in Answer
        /\ \A q \in Op : row'[q] # "none" => drafted'[q] # None
        /\ Journalled' /\ FailedDead' /\ Lasting
        /\ Truthful(c.op, r[2])'
    BY <1>1, <2>1, AdvanceTrue
  <2>3. d \in Call /\ d.op = c.op /\ d.answer = r[2]
    BY <1>1, <2>2 DEF Call
  <2> HIDE DEF d
  <2>4. TypeOK'
    BY <2>1, <2>2, <2>3 DEF IInv, TypeOK
  <2>5. Drafted'
    BY <1>1, <2>1, <2>2, <2>3 DEF IInv, Drafted
  <2>6. AnswersTrue'
    <3>1. ASSUME NEW e \in calls' PROVE Truthful(e.op, e.answer)'
      <4>1. CASE e \in calls
        BY <2>2, <4>1, TruthLasts DEF IInv, TypeOK, AnswersTrue, Call
      <4>2. CASE e = d
        BY <2>2, <2>3, <4>2
      <4> QED BY <2>1, <4>1, <4>2
    <3>2. \A t \in told' : Truthful(t[1], t[2])'
      BY <2>1, <2>2, TruthLasts DEF IInv, TypeOK, AnswersTrue
    <3> QED BY <3>1, <3>2 DEF AnswersTrue
  <2> QED BY <2>2, <2>4, <2>5, <2>6 DEF IInv
<1> QED BY <1>2, <1>3 DEF Serve

\* The journal's recovery advances a row nobody asks about.
LEMMA RecoverKeeps ==
  ASSUME IInv, NEW o \in Op, Recover(o)
  PROVE  IInv'
<1>1. drafted[o] # None /\ UNCHANGED <<page, calls, version, ledger>>
  BY DEF Recover, IInv, Drafted
<1>2. CASE Persist(o)
  BY <1>1, <1>2, PersistKeeps
<1>3. ASSUME NEW r \in advance(o), row' = [row EXCEPT ![o] = r[1]], UNCHANGED tx
      PROVE  IInv'
  <2>1. UNCHANGED <<session, pending, drafted, told, calls, tx, version, ledger>>
    BY <1>1, <1>3 DEF page
  <2>2. /\ row' \in [Op -> RowState]
        /\ \A q \in Op : row'[q] # "none" => drafted'[q] # None
        /\ Journalled' /\ FailedDead' /\ Lasting
    BY <1>1, <1>3, <2>1, AdvanceTrue
  <2>3. TypeOK'
    BY <2>1, <2>2 DEF IInv, TypeOK
  <2>4. Drafted'
    BY <2>1, <2>2 DEF IInv, Drafted
  <2>5. AnswersTrue'
    BY <2>1, <2>2, TruthLasts DEF IInv, TypeOK, AnswersTrue, Call
  <2> QED BY <2>2, <2>3, <2>4, <2>5 DEF IInv
<1> QED BY <1>2, <1>3 DEF Recover

\* The batch moves on, by the transaction of o or of somebody else.
LEMMA MoveKeeps ==
  ASSUME IInv, version' = version + 1, UNCHANGED <<page, calls, row, tx>>,
         ledger' = ledger \/ \E o \in tx : ledger' = ledger \cup {o} /\ drafted[o] = version
  PROVE  IInv'
<1>1. UNCHANGED <<session, pending, drafted, told, calls, row, tx>>
  BY DEF page
<1>2. /\ version \in Nat /\ drafted \in [Op -> Nat \cup {None}]
      /\ tx \subseteq Op /\ ledger \subseteq Op
  BY DEF IInv, TypeOK
<1>3. TypeOK'
  BY <1>1, <1>2 DEF IInv, TypeOK
<1>4. Drafted'
  <2>1. ASSUME NEW o \in Op, drafted[o] # None PROVE drafted[o] <= version + 1
    <3>1. drafted[o] \in Nat /\ drafted[o] <= version
      BY <1>2, <2>1 DEF IInv, Drafted
    <3> QED BY <1>2, <3>1
  <2> QED BY <1>1, <2>1 DEF IInv, Drafted
<1>5. Journalled'
  BY <1>1 DEF IInv, Journalled
<1>6. \A o \in Op : Dead(o) => Dead(o)'
  <2>1. SUFFICES ASSUME NEW o \in Op, Dead(o) PROVE Dead(o)'
    OBVIOUS
  <2>2. o \in tx => drafted[o] \in Nat /\ drafted[o] < version
    BY <1>2, <2>1 DEF Dead, IInv, Journalled
  <2>3. o \in tx => drafted[o] < version + 1 /\ drafted[o] # version
    BY <1>2, <2>2
  <2> QED BY <1>1, <2>1, <2>3 DEF Dead
<1>7. Lasting
  BY <1>6 DEF Lasting
<1>8. FailedDead'
  BY <1>1, <1>6 DEF IInv, FailedDead
<1>9. AnswersTrue'
  BY <1>1, <1>7, TruthLasts DEF IInv, TypeOK, AnswersTrue, Call
<1> QED BY <1>3, <1>4, <1>5, <1>8, <1>9 DEF IInv

-----------------------------------------------------------------------------
(* The theorem                                                             *)

\* Initially, and after every step, the invariant holds.
LEMMA Inductive == Spec => []IInv
<1>1. Init => IInv
  BY PendingAssumption DEF Init, IInv, TypeOK, Drafted, Journalled, FailedDead,
     AnswersTrue, RowState, Retried
<1>2. IInv /\ [Next]_vars => IInv'
  <2> SUFFICES ASSUME IInv, [Next]_vars PROVE IInv'
    OBVIOUS
  <2>1. ASSUME NEW o \in Op, Transact(o) PROVE IInv'
    BY <2>1, TransactKeeps
  <2>2. CASE Check
    BY <2>2, CheckKeeps
  <2>3. CASE Logout \/ Login
    BY <2>3, SessionKeeps
  <2>4. ASSUME NEW c \in calls, Receive(c) PROVE IInv'
    BY <2>4, ReceiveKeeps
  <2>5. ASSUME NEW c \in calls, Break(c) PROVE IInv'
    BY <2>5, BreakKeeps
  <2>6. ASSUME NEW c \in Unanswered, Serve(c) PROVE IInv'
    BY <2>6, ServeKeeps
  <2>7. ASSUME NEW o \in Op, Order(o) PROVE IInv'
    BY <2>7, MoveKeeps DEF Order
  <2>8. ASSUME NEW o \in Op, Recover(o) PROVE IInv'
    BY <2>8, RecoverKeeps
  <2>9. CASE Others
    BY <2>9, MoveKeeps DEF Others
  <2>10. CASE UNCHANGED vars
    BY <2>10, PageKeeps DEF vars, page, IInv, TypeOK, Drafted, AnswersTrue
  <2> QED BY <2>1, <2>2, <2>3, <2>4, <2>5, <2>6, <2>7, <2>8, <2>9, <2>10 DEF Next
<1> QED BY <1>1, <1>2, PTL DEF Spec

\* What the page has told its user of an operation, verified or refused, is so at
\* every later time, whatever requests of it are under way, lost or late, and
\* whoever else moves the batch on (app.js, sendPending; Workflow.advance).
THEOREM TellsTrue == Spec => []ToldTrue
<1>1. IInv => ToldTrue
  BY DEF IInv, AnswersTrue, Truthful, Dead, ToldTrue
<1> QED BY <1>1, Inductive, PTL

=============================================================================
