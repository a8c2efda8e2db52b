-------------------------- MODULE ProductionPayment --------------------------
(***************************************************************************)
(* One payment order and the workers and API calls that act on it.  A      *)
(* handler's transaction reads at its beginning and commits later: between *)
(* the two, other workers and API calls commit (READ COMMITTED, several    *)
(* workers).  The commit writes the columns the handler changed; the order *)
(* row only under its version (the compare-and-swap of set_order_state),   *)
(* inserted rows only if their unique key is still free, and the limit     *)
(* counter, locked FOR UPDATE, by its increments.  Claiming, retrying and  *)
(* dead-lettering of events is ProductionOutbox; here an event is PENDING  *)
(* until a handler transaction commits or an attempt exhausts it, any      *)
(* pending event may be taken next (backoff and the other workers' batches *)
(* undo the order of the ids), and never by two workers at once (the       *)
(* receipt's unique key).                                                  *)
(***************************************************************************)
EXTENDS PaymentHandlers, RowUpdate

CONSTANTS
    Worker,     \* concurrently running workers
    NoJob       \* the worker handles no event

VARIABLES
    db,         \* the committed database
    job,        \* job[w]: NoJob or the event and the rows its handler read
    valueSent,  \* the connector was told to settle the payment's value
    clean,      \* screening verdict on the payload, fixed with the payload
    cross       \* the order's currency differs from its settlement currency

vars == <<db, job, valueSent, clean, cross>>

Init ==
    /\ db = NewPayment
    /\ job = [w \in Worker |-> NoJob]
    /\ valueSent = FALSE
    /\ clean \in BOOLEAN
    /\ cross \in BOOLEAN

------------------------------------------------------------------------------
(* API commands, each one transaction *)

CreateFxAcceptance(q) ==
    /\ cross
    /\ db.intent[q] = "ABSENT"
    /\ db' = [db EXCEPT
         !.intent[q] = "PREPARING",
         !.res = [r \in Reservation |-> IF r[1] = q THEN "PENDING" ELSE @[r]],
         !.evt = [e \in Event |->
                    IF e \in {<<"funding.reserve.requested", q, s>> : s \in Side}
                    THEN "PENDING" ELSE @[e]]]
    /\ UNCHANGED <<job, valueSent, clean, cross>>

\* A second request of the order fails on the unique key of its event.
RequestCancellation ==
    /\ db.order.state \notin Terminal
    /\ db.evt[<<"payment.cancellation.requested">>] = "ABSENT"
    /\ db' = [db EXCEPT !.cancel = "REQUESTED",
                        !.evt[<<"payment.cancellation.requested">>] = "PENDING"]
    /\ UNCHANGED <<job, valueSent, clean, cross>>

RequestReturn ==
    /\ db.order.outcome = "COMPLETED"
    /\ db.evt[<<"payment.return.requested">>] = "ABSENT"
    /\ db' = [db EXCEPT !.ret = "REQUESTED",
                        !.evt[<<"payment.return.requested">>] = "PENDING"]
    /\ UNCHANGED <<job, valueSent, clean, cross>>

\* The operator posts the order's journal.
PostJournal ==
    /\ ~db.journal
    /\ db' = [db EXCEPT !.journal = TRUE]
    /\ UNCHANGED <<job, valueSent, clean, cross>>

\* Nothing closes a case again.
OpenCase ==
    /\ ~db.case
    /\ db' = [db EXCEPT !.case = TRUE]
    /\ UNCHANGED <<job, valueSent, clean, cross>>

------------------------------------------------------------------------------
(* Handler transactions *)

\* Worker w has inserted the receipt of event e and reads the rows.
BeginHandler(w, e) ==
    /\ job[w] = NoJob
    /\ db.evt[e] = "PENDING"
    /\ \A v \in Worker : job[v] # NoJob => job[v].event # e
    /\ job' = [job EXCEPT ![w] = [event |-> e, base |-> db]]
    /\ UNCHANGED <<db, valueSent, clean, cross>>

\* PAYMENT_VALUE was submitted unless the leg was already seen FINAL.
Submits(e, base) ==
    e = <<"payment.value.requested">> /\ base.leg["PAYMENT_VALUE"] # "FINAL"

\* Variant for mutation testing: an update that ignores the version.
OrderUnchecked(base, new) == TRUE

\* The compare-and-swap on the order's version.
OrderUnchanged(base, new) ==
    new.order = base.order \/ db.order.version = base.order.version

\* Unique keys of the rows a transaction inserts.
KeysFree(base, new) ==
    /\ \A e \in Event :
          base.evt[e] = "ABSENT" /\ new.evt[e] # "ABSENT" => db.evt[e] = "ABSENT"
    /\ \A role \in Role :
          base.leg[role] = "ABSENT" /\ new.leg[role] # "ABSENT"
             => db.leg[role] = "ABSENT"

\* The database after committing a transaction that read base and made new.
Merge(base, new) ==
    LET written == Flush(db, base, new) IN
    [written EXCEPT
        !.res = Flush(db.res, base.res, new.res),
        !.intent = Flush(db.intent, base.intent, new.intent),
        !.leg = Flush(db.leg, base.leg, new.leg),
        !.evt = Flush(db.evt, base.evt, new.evt),
        !.limit =
          [reserved |-> db.limit.reserved + new.limit.reserved - base.limit.reserved,
           consumed |-> db.limit.consumed + new.limit.consumed - base.limit.consumed]]

\* The handler returns, nothing conflicts, and its transaction commits with
\* the event's completion.
CommitHandler(w) ==
    /\ job[w] # NoJob
    /\ LET e == job[w].event
           base == job[w].base
           t == Handle(base, e, clean, cross)
       IN  /\ t.ok
           /\ OrderUnchanged(base, t.db)
           /\ KeysFree(base, t.db)
           /\ db' = [Merge(base, t.db) EXCEPT !.evt[e] = "PUBLISHED"]
           /\ valueSent' = (valueSent \/ Submits(e, base))
    /\ job' = [job EXCEPT ![w] = NoJob]
    /\ UNCHANGED <<clean, cross>>

\* The handler raises, its commit conflicts, a connector call fails, complete()
\* rejects the lease or the process dies: all is rolled back but what the
\* connector has already been told.  The event stays to be retried, or its
\* attempts are exhausted.
AbortHandler(w) ==
    /\ job[w] # NoJob
    /\ LET e == job[w].event IN
       /\ db' \in {db, [db EXCEPT !.evt[e] = "DEAD_LETTER"]}
       /\ valueSent' \in {valueSent, valueSent \/ Submits(e, job[w].base)}
    /\ job' = [job EXCEPT ![w] = NoJob]
    /\ UNCHANGED <<clean, cross>>

Next ==
    \/ \E q \in Quote : CreateFxAcceptance(q)
    \/ RequestCancellation
    \/ RequestReturn
    \/ PostJournal
    \/ OpenCase
    \/ \E w \in Worker :
          \/ \E e \in Event : BeginHandler(w, e)
          \/ CommitHandler(w)
          \/ AbortHandler(w)

Spec == Init /\ [][Next]_vars

Refund == <<"payment.return.requested">>

\* Workers that keep trying: attempts do not run out, a handler that has begun
\* ends, the return's event is taken again and again while it is pending, and
\* its handler commits if it ever can.
RetrySpec ==
    /\ Init /\ [][Next /\ \A e \in Event : db'.evt[e] # "DEAD_LETTER"]_vars
    /\ WF_vars(\E w \in Worker : CommitHandler(w) \/ AbortHandler(w))
    /\ SF_vars(\E w \in Worker : BeginHandler(w, Refund))
    /\ SF_vars(\E w \in Worker : CommitHandler(w) /\ job[w].event = Refund)

------------------------------------------------------------------------------
(* Properties *)

Database ==
    [order : [state : OrderState, outcome : Outcome, version : Nat],
     compliance : {"PENDING", "PASSED", "REJECTED"},
     res : [Reservation -> ReservationState],
     intent : [Quote -> {"ABSENT", "PREPARING", "READY_TO_ACCEPT",
                         "TRADE_ACCEPTED"}],
     leg : [Role -> {"ABSENT", "PENDING", "FINAL"}],
     credited : BOOLEAN,
     cancel : {"ABSENT", "REQUESTED", "ACCEPTED"},
     ret : ReturnState,
     journal : BOOLEAN,
     case : BOOLEAN,
     evt : [Event -> EventState],
     limit : [reserved : Nat, consumed : Nat]]

\* Types of the order's rows: no commit writes a state its table does not have,
\* whatever the handler read, or leaves the limit counter negative.
TypeOK ==
    /\ db \in Database
    /\ job \in [Worker -> {NoJob} \cup [event : Event, base : Database]]
    /\ valueSent \in BOOLEAN
    /\ clean \in BOOLEAN
    /\ cross \in BOOLEAN

\* "Terminal states are immutable": no handler that read the order before it
\* was closed changes its state or outcome afterwards.
TerminalIsImmutable ==
    [][db.order.state \in Terminal => db'.order = db.order]_vars

\* set_order_state settles the order's share of the day's limit exactly once,
\* when the order closes, and never takes another payment's reservation: the
\* share is consumed by a completed order and given back by any other.
LimitIsSettledOnce ==
    db.limit =
        IF db.order.state \notin Terminal THEN [reserved |-> 2, consumed |-> 0]
        ELSE IF db.order.state = "OPERATIONALLY_CLOSED"
        THEN [reserved |-> 1, consumed |-> 1]
        ELSE [reserved |-> 1, consumed |-> 0]

Funds(i) == {r \in Reservation : r[1] = i}

\* A payment the worker closes as completed was credited, is final on every
\* leg, has a journal, and exactly one intent's funding paid for it: the
\* direct one, or that of the one FX trade concluded.
CloseIsComplete ==
    db.order.state = "OPERATIONALLY_CLOSED" =>
        /\ db.order.outcome = "COMPLETED"
        /\ db.credited /\ db.journal
        /\ \A role \in Role : db.leg[role] \in {"ABSENT", "FINAL"}
        /\ \E i \in IF cross THEN {q \in Quote : db.intent[q] = "TRADE_ACCEPTED"}
                             ELSE {Direct} :
              \A r \in Funds(i) : db.res[r] = "CONSUMED"

\* At most one trade: two intents may both be READY_TO_ACCEPT, but the unique
\* leg roles let only one acceptance commit.
AtMostOneTrade ==
    \A p, q \in Quote :
        db.intent[p] = "TRADE_ACCEPTED" /\ db.intent[q] = "TRADE_ACCEPTED" => p = q

\* Cancellation and completion race for the order's version; whichever loses
\* leaves no trace: an accepted cancellation excludes a credit, a consumed
\* reservation and any outcome but CANCELLED.
CancelExcludesCredit ==
    db.cancel = "ACCEPTED" =>
        /\ db.order.outcome = "CANCELLED"
        /\ ~db.credited
        /\ \A r \in Reservation : db.res[r] # "CONSUMED"

\* A same-currency payment moves nothing before its screening has passed.
DirectPaymentIsScreened ==
    ~cross /\ (valueSent \/ db.order.state = "MESSAGE_DELIVERED"
                         \/ \E r \in Reservation : db.res[r] # "ABSENT")
        => db.compliance = "PASSED"

\* What the code's own tables promise and its interleavings break.

\* payment_state_machine.py: EXECUTION_CANCELLED closes under the guard "all
\* reservations released".
UnsuccessfulCloseHoldsNothing ==
    db.order.state = "OPERATIONALLY_CLOSED_UNSUCCESSFUL" =>
        \A r \in Reservation : db.res[r] # "RESERVED"

\* ... and "external status known": the value of a payment closed as cancelled
\* has not been sent out.
CancelledValueIsNotSent ==
    db.cancel = "ACCEPTED" => ~valueSent

\* A message is delivered under the guard "funding RESERVED and compliance PASS".
DeliveryIsScreened ==
    db.order.state = "MESSAGE_DELIVERED" => db.compliance = "PASSED"

\* The saga barrier: once both reservations of an intent are committed as
\* RESERVED the intent is ready to accept its quote; nothing else looks again.
BarrierIsPassed ==
    \A q \in Quote :
        (\A r \in Funds(q) : db.res[r] = "RESERVED") => db.intent[q] # "PREPARING"

\* A return is a workflow of its own ("independent cancellation and return
\* workflows"): a requested one is answered, so its row moves on from REQUESTED,
\* since the connector answers every submission and the worker tries again.
ReturnIsAnswered == db.ret = "REQUESTED" ~> db.ret # "REQUESTED"
==============================================================================
