-------------------------- MODULE PendingOperation --------------------------
(***************************************************************************)
(* The page of a user (static/app.js) and the one operation it remembers   *)
(* until it knows how it ended.  The page drafts a command on the version  *)
(* of the batch that it shows and posts it; while the end is unknown it    *)
(* drafts no other, and the refresh button posts the same command again.   *)
(* Requests and answers may be lost, an answer may come after a later one, *)
(* the user may log out in between.  The backend is what its journal row   *)
(* for the operation says: the inside of submit is the module Workflow.    *)
(***************************************************************************)
EXTENDS Integers, FiniteSets

CONSTANTS
  Op,           \* identifiers that the page may draw
  Moves,        \* bound: the last version from which others move the batch on
  LogsOut,      \* whether the user ever logs out
  None

ASSUME PendingAssumption ==
  /\ Moves \in Nat
  /\ LogsOut \in BOOLEAN
  /\ None \notin Op \cup Nat

VARIABLES
  session,   \* whether the user is logged in
  pending,   \* the operation that the page remembers, or None
  drafted,   \* per operation, the version it was drafted on, or None
  told,      \* what the page has told its user: operations with their ends,
             \* but for INTERNAL_ERROR, which is none
  calls,     \* requests under way, each with its answer when it has one
  row,       \* per operation, its state in the journal
  tx,        \* the operations with a transaction in the journal
  version,   \* of the batch on the ledger
  ledger     \* the operations on the ledger

page    == <<session, pending, drafted, told>>
backend == <<row, tx, version, ledger>>
vars    == <<page, calls, backend>>

\* SUBMITTED: the transaction is in the journal, its outcome is not; OUTAGE:
\* failed with an error of status 503, before there was a transaction.  (The channel
\* is bootstrapped: CONFIGURATION_REQUIRED, of status 503 too, does not occur.)
RowState == {"none", "PENDING", "SUBMITTED", "COMMITTED", "FAILED", "OUTAGE"}

\* An answer of status 202 and an error with a code *_UNAVAILABLE are one here:
\* the page keeps the operation.
Answer == {"COMMITTED", "PENDING", "REFUSED", "INTERNAL_ERROR"}

ASSUME AnswerAssumption == None \notin Answer

\* Who waits for the answer: the handler of a command's button, that of the
\* refresh button, or, after the connection broke, nobody.
Call ==
  [op : Op, by : {"transact", "refresh", "nobody"}, answer : Answer \cup {None}]

Init ==
  /\ session = TRUE
  /\ pending = None
  /\ drafted = [o \in Op |-> None]
  /\ told    = {}
  /\ calls   = {}
  /\ row     = [o \in Op |-> "none"]
  /\ tx      = {}
  /\ version = 1
  /\ ledger  = {}

-----------------------------------------------------------------------------
(* The page                                                                *)

post(o, by) == calls' = calls \cup {[op |-> o, by |-> by, answer |-> None]}

\* transact: a new identifier, and the version that the page shows, which may be
\* an old one.
Transact(o) ==
  /\ session /\ pending = None
  /\ drafted[o] = None
  /\ pending' = o
  /\ \E shown \in 1..version : drafted' = [drafted EXCEPT ![o] = shown]
  /\ post(o, "transact")
  /\ UNCHANGED <<session, told, backend>>

\* The refresh button is disabled only while its own handler runs.
RefreshIdle == \A c \in calls : c.by # "refresh"

Check ==
  /\ session /\ pending # None
  /\ RefreshIdle
  /\ post(pending, "refresh")
  /\ UNCHANGED <<page, backend>>

Logout ==
  /\ session /\ LogsOut
  /\ session' = FALSE
  /\ pending' = None
  /\ UNCHANGED <<drafted, told, calls, backend>>

\* The same user with the same token: answers of before count again.
Login ==
  /\ ~session
  /\ session' = TRUE
  /\ UNCHANGED <<pending, drafted, told, calls, backend>>

\* An end of the operation: committed, or an error with a code other than
\* *_UNAVAILABLE.
Ends(answer) == answer \in {"COMMITTED", "REFUSED", "INTERNAL_ERROR"}

\* sendPending and api when the answer comes: it is thrown away if the token
\* changed meanwhile; an end clears whatever is pending now.
Receive(c) ==
  /\ c.by # "nobody" /\ c.answer # None
  /\ calls' = calls \ {c}
  /\ IF session /\ Ends(c.answer)
     THEN /\ pending' = None
          /\ told'    = told \cup ({<<c.op, c.answer>>} \ {<<c.op, "INTERNAL_ERROR">>})
     ELSE UNCHANGED <<pending, told>>
  /\ UNCHANGED <<session, drafted, backend>>

\* The connection breaks, and the request or its answer is lost; or the request
\* had left and still arrives (bound: one such request at a time).
Break(c) ==
  /\ c.by # "nobody"
  /\ \/ calls' = calls \ {c}
     \/ /\ c.answer = None
        /\ \A d \in calls : d.by # "nobody"
        /\ calls' = (calls \ {c}) \cup {[c EXCEPT !.by = "nobody"]}
  /\ UNCHANGED <<page, backend>>

-----------------------------------------------------------------------------
(* The backend and the ledger                                              *)

\* submit takes a failed row up again if the failure was an outage.
Unfailed == {"none", "PENDING"}

Retried == {"none", "PENDING", "OUTAGE"}

\* The transaction is endorsed and in the journal.
Persist(o) ==
  /\ row[o] \in Retried
  /\ row' = [row EXCEPT ![o] = "SUBMITTED"]
  /\ tx'  = tx \cup {o}

\* A transaction that may have been sent may reach the ledger at any time, whatever
\* the journal says of it; it takes effect on the version it was drafted on only.
Order(o) ==
  /\ o \in tx /\ o \notin ledger
  /\ drafted[o] = version
  /\ ledger'  = ledger \cup {o}
  /\ version' = version + 1
  /\ UNCHANGED <<page, calls, row, tx>>

Others ==
  /\ version <= Moves
  /\ version' = version + 1
  /\ UNCHANGED <<page, calls, row, tx, ledger>>

Decided(o) == o \in ledger \/ drafted[o] # version

\* How a round of advance may leave the row, and what submit then answers.  An
\* error before there is a transaction fails the row, an outage after leaves it,
\* an exception that nobody expected leaves any row.
OutageFails(o) == {<<"SUBMITTED", "PENDING">>, <<"FAILED", "REFUSED">>}

Undecided(o) == {<<"SUBMITTED", "PENDING">>, <<"SUBMITTED", "INTERNAL_ERROR">>}

Known(o) ==
  IF o \in ledger THEN {<<"COMMITTED", "COMMITTED">>} ELSE {<<"FAILED", "REFUSED">>}

advance(o) ==
  CASE row[o] \in Retried -> {<<"FAILED", "REFUSED">>, <<"OUTAGE", "PENDING">>,
                              <<"PENDING", "INTERNAL_ERROR">>}
    [] row[o] = "SUBMITTED" ->
         Undecided(o) \cup (IF Decided(o) THEN Known(o) ELSE {})
    [] row[o] = "COMMITTED" -> {<<"COMMITTED", "COMMITTED">>}
    [] row[o] = "FAILED"    -> {<<"FAILED", "REFUSED">>}
    [] row[o] = "OUTAGE"    -> {<<"OUTAGE", "PENDING">>}

Answered(c, r) ==
  /\ row'   = [row EXCEPT ![c.op] = r[1]]
  /\ calls' = (calls \ {c}) \cup (IF c.by = "nobody" THEN {}
                                  ELSE {[c EXCEPT !.answer = r[2]]})
  /\ UNCHANGED <<page, tx, version, ledger>>

Unanswered == {c \in calls : c.answer = None}

\* A request is served: on the way the transaction may be put in the journal.
Serve(c) ==
  \/ Persist(c.op) /\ UNCHANGED <<page, calls, version, ledger>>
  \/ \E r \in advance(c.op) : Answered(c, r)

\* The recovery loop; it leaves failed rows alone.
Recover(o) ==
  /\ row[o] \in {"PENDING", "SUBMITTED"}
  /\ \/ Persist(o)
     \/ /\ \E r \in advance(o) : row' = [row EXCEPT ![o] = r[1]]
        /\ UNCHANGED tx
  /\ UNCHANGED <<page, calls, version, ledger>>

-----------------------------------------------------------------------------

Next ==
  \/ \E o \in Op : Transact(o)
  \/ Check \/ Logout \/ Login
  \/ \E c \in calls : Receive(c) \/ Break(c)
  \/ \E c \in Unanswered : Serve(c)
  \/ \E o \in Op : Order(o) \/ Recover(o)
  \/ Others

Spec == Init /\ [][Next]_vars

\* A user who sees the message presses the refresh button again and again, and
\* the outage ends: requests of the pending operation get through, are served,
\* the ledger decides, and the answer comes back, each infinitely often if it can.
Asked == {c \in Unanswered : c.op = pending}

Ended ==
  \E c \in Asked :
    /\ c.by # "nobody"
    /\ \E r \in advance(c.op) : r[1] \in {"COMMITTED", "FAILED"} /\ Answered(c, r)

Heard ==
  \E c \in calls : c.op = pending /\ Ends(c.answer) /\ Receive(c)

Fairness ==
  /\ WF_vars(Check)
  /\ WF_vars(\E c \in Unanswered :
               c.by = "refresh" /\ \E r \in advance(c.op) : Answered(c, r))
  /\ WF_vars(\E c \in calls : c.by = "refresh" /\ Receive(c))
  /\ SF_vars(\E c \in Asked : Persist(c.op) /\ UNCHANGED <<page, calls, version, ledger>>)
  /\ WF_vars(\E o \in Op : o = pending /\ Order(o))
  /\ SF_vars(Ended)
  /\ SF_vars(Heard)

FairSpec == Spec /\ Fairness

-----------------------------------------------------------------------------

\* What the page tells its user is so: an operation it calls verified is on the
\* ledger, one it calls refused is not and never will be, however many requests
\* of the operation are under way, lost or late.  (INTERNAL_ERROR says nothing.)
ToldTrue ==
  \A o \in Op :
    /\ <<o, "COMMITTED">> \in told => o \in ledger
    /\ <<o, "REFUSED">> \in told => o \notin ledger

\* The page is not stuck with an operation: a user who goes on asking learns of
\* its end, although the page lets nothing else be done meanwhile (transact), and
\* although an outage fails the row in the journal (Workflow.submit).
Resolved == \A o \in Op : (pending = o) ~> (pending # o)

\* docs/STAGE6_UI.md: the page keeps the pending operation.  It forgets it only
\* when the user logs out or has been told its end.
PendingKept ==
  [][pending # None /\ pending' # pending =>
       \/ ~session'
       \/ \E c \in calls \ calls' : c.op = pending /\ Ends(c.answer)]_vars
=============================================================================
