--------------------------- MODULE PaymentHandlers ---------------------------
(***************************************************************************)
(* The saga of one payment order of backend/production: what each outbox   *)
(* topic's handler (worker.py) and each command of the API (service.py)    *)
(* does to the database, as a function from the rows the transaction reads *)
(* to the rows it leaves in its session.                                   *)
(*                                                                         *)
(* A database value d is a record with                                     *)
(*   order       [state, outcome, version] of prod_payment_orders          *)
(*   compliance  outcome of the latest compliance decision                 *)
(*   res         state of each funding reservation                         *)
(*   intent      state of the FX trade intent made for each quote          *)
(*   leg         state of each settlement leg                              *)
(*   credited    a beneficiary credit exists                               *)
(*   cancel, ret state of the cancellation request and of the return       *)
(*   journal     a POSTED journal exists for the order                     *)
(*   case        an investigation case is open                             *)
(*   evt         state of each outbox event of the order                   *)
(*   limit       [reserved, consumed] of the limit counter of the          *)
(*               participant's day, in units of the order's amount         *)
(*                                                                         *)
(* Facts, evidence and audit rows are appended alongside and decide        *)
(* nothing here, except that a SETTLEMENT fact for an FX role exists       *)
(* exactly when that leg was submitted.  Connectors are the simulators of  *)
(* connectors.py, the only ones that answer.  Authorization always passes  *)
(* in the sandbox.                                                         *)
(***************************************************************************)
EXTENDS Naturals

CONSTANTS
    Quote,   \* FX quotes the participant holds for the order's currency pair
    Direct   \* the funding intent payment-<order_id> of a same-currency order

ASSUME DirectAssumption == Direct \notin Quote

Terminal == {"OPERATIONALLY_CLOSED", "OPERATIONALLY_CLOSED_UNSUCCESSFUL"}

OrderState ==
    {"CONTROL_CHECKS", "RESERVATION_PENDING", "FX_ACCEPTANCE_PENDING",
     "FX_ACCEPTED", "MESSAGE_DELIVERED", "VALUE_SETTLEMENT",
     "CUSTOMER_COMPLETED", "COMPLIANCE_REJECTED", "EXECUTION_CANCELLED",
     "SUSPENDED"} \cup Terminal

AllowedOrderTransitions ==
    [s \in OrderState |->
        CASE s = "CONTROL_CHECKS" ->
               {"RESERVATION_PENDING", "FX_ACCEPTANCE_PENDING",
                "COMPLIANCE_REJECTED", "SUSPENDED", "EXECUTION_CANCELLED"}
          [] s \in {"RESERVATION_PENDING", "FX_ACCEPTED"} ->
               {"MESSAGE_DELIVERED", "SUSPENDED", "EXECUTION_CANCELLED"}
          [] s = "FX_ACCEPTANCE_PENDING" ->
               {"FX_ACCEPTED", "SUSPENDED", "EXECUTION_CANCELLED"}
          [] s = "MESSAGE_DELIVERED" ->
               {"VALUE_SETTLEMENT", "SUSPENDED", "EXECUTION_CANCELLED"}
          [] s = "VALUE_SETTLEMENT" ->
               {"CUSTOMER_COMPLETED", "SUSPENDED", "EXECUTION_CANCELLED"}
          [] s = "CUSTOMER_COMPLETED" -> {"OPERATIONALLY_CLOSED"}
          [] s \in {"COMPLIANCE_REJECTED", "EXECUTION_CANCELLED"} ->
               {"OPERATIONALLY_CLOSED_UNSUCCESSFUL"}
          [] s = "SUSPENDED" ->
               {"RESERVATION_PENDING", "FX_ACCEPTANCE_PENDING",
                "MESSAGE_DELIVERED", "VALUE_SETTLEMENT",
                "OPERATIONALLY_CLOSED_UNSUCCESSFUL", "EXECUTION_CANCELLED"}
          [] OTHER -> {}]

Outcome == {"NONE", "COMPLETED", "REJECTED", "CANCELLED"}

ReturnState ==
    {"ABSENT", "REQUESTED", "SENT", "ACCEPTED", "UNKNOWN", "REJECTED", "FINAL",
     "CLOSED"}

RETURN_STATES ==
    [s \in ReturnState |->
        CASE s = "REQUESTED" -> {"SENT", "REJECTED", "UNKNOWN"}
          [] s = "SENT" -> {"ACCEPTED", "REJECTED", "UNKNOWN"}
          [] s = "ACCEPTED" -> {"FINAL", "REJECTED", "UNKNOWN"}
          [] s = "UNKNOWN" -> {"SENT", "CLOSED"}
          [] s \in {"REJECTED", "FINAL"} -> {"CLOSED"}
          [] OTHER -> {}]

Side == {"base", "quote"}
FxRole == {"FX_SELL", "FX_BUY"}
Role == FxRole \cup {"PAYMENT_VALUE"}

\* A reservation is named by its reservation_intent_id and its currency.
FxReservation == Quote \X Side
Reservation == FxReservation \cup {<<Direct, "base">>}

\* The outbox events an order can have, by topic and aggregate.
Event ==
    {<<"payment.created">>, <<"payment.message.requested">>,
     <<"payment.value.requested">>, <<"payment.cancellation.requested">>,
     <<"payment.return.requested">>}
    \cup {<<"funding.reserve.requested", r[1], r[2]>> : r \in Reservation}
    \cup {<<"fx.accept.requested", q>> : q \in Quote}
    \cup {<<"settlement.submit.requested", role>> : role \in FxRole}

ReservationState == {"ABSENT", "PENDING", "RESERVED", "CONSUMED", "RELEASED"}
EventState == {"ABSENT", "PENDING", "PUBLISHED", "DEAD_LETTER"}

\* create_payment has committed: one row of everything it inserts.  The day's
\* limit counter holds this order's amount and as much of other payments.
NewPayment ==
    [order |-> [state |-> "CONTROL_CHECKS", outcome |-> "NONE", version |-> 1],
     compliance |-> "PENDING",
     res |-> [r \in Reservation |-> "ABSENT"],
     intent |-> [q \in Quote |-> "ABSENT"],
     leg |-> [role \in Role |->
                IF role = "PAYMENT_VALUE" THEN "PENDING" ELSE "ABSENT"],
     credited |-> FALSE,
     cancel |-> "ABSENT",
     ret |-> "ABSENT",
     journal |-> FALSE,
     case |-> FALSE,
     evt |-> [e \in Event |->
                IF e = <<"payment.created">> THEN "PENDING" ELSE "ABSENT"],
     limit |-> [reserved |-> 2, consumed |-> 0]]

------------------------------------------------------------------------------
(* Transactions.  t.db is what the session holds, t.ok is FALSE once the    *)
(* code has raised; nothing changes a transaction that has raised.          *)

Begin(d) == [ok |-> TRUE, db |-> d]

Raise(t) == [t EXCEPT !.ok = FALSE]

\* The topic, aggregate and sequence of an outbox row are a unique key.
Enqueue(t, e) ==
    IF t.db.evt[e] = "ABSENT" THEN [t EXCEPT !.db.evt[e] = "PENDING"]
                              ELSE Raise(t)

\* _has_event does not count dead letters.
HasEvent(d, e) == d.evt[e] \in {"PENDING", "PUBLISHED"}

EnqueueOnce(t, e) == IF HasEvent(t.db, e) THEN t ELSE Enqueue(t, e)

\* Variant for mutation testing: an unsuccessful close consumes the limit too.
FinalizeLimitAlways(t, consumed) ==
    IF t.db.limit.reserved < 1 THEN Raise(t)
    ELSE [t EXCEPT !.db.limit.reserved = @ - 1, !.db.limit.consumed = @ + 1]

\* LimitReservationService.finalize for the order's amount.
FinalizeLimit(t, consumed) ==
    LET l == t.db.limit IN
    IF l.reserved < 1 THEN Raise(t)
    ELSE [t EXCEPT !.db.limit =
            [reserved |-> l.reserved - 1,
             consumed |-> IF consumed THEN l.consumed + 1 ELSE l.consumed]]

\* set_order_state, called with the version the session has loaded; NONE keeps
\* the customer outcome.
SetOrderState(t, state, outcome) ==
    LET o == t.db.order
        moved == [t EXCEPT !.db.order =
                    [state |-> state,
                     outcome |-> IF outcome = "NONE" THEN o.outcome ELSE outcome,
                     version |-> o.version + 1]]
    IN  IF ~t.ok \/ (o.state \in Terminal /\ o.state = state) THEN t
        ELSE IF \/ o.state \in Terminal
                \/ state # o.state /\ state \notin AllowedOrderTransitions[o.state]
             THEN Raise(t)
        ELSE IF state \in Terminal
             THEN FinalizeLimit(moved, state = "OPERATIONALLY_CLOSED"
                                       /\ outcome = "COMPLETED")
        ELSE moved

------------------------------------------------------------------------------
(* Handlers.  `clean' is the verdict of the sanctions screening of the     *)
(* order's payload, `cross' whether its two currencies differ.             *)

\* Variant: the reservation goes ahead without waiting for the screening.
PaymentCreatedUnscreened(d, clean, cross) ==
    IF cross THEN SetOrderState(Begin(d), "FX_ACCEPTANCE_PENDING", "NONE")
    ELSE Enqueue([SetOrderState(Begin(d), "RESERVATION_PENDING", "NONE")
                    EXCEPT !.db.res[<<Direct, "base">>] = "PENDING"],
                 <<"funding.reserve.requested", Direct, "base">>)

PaymentCreated(d, clean, cross) ==
    LET screened == [Begin(d) EXCEPT !.db.compliance =
                        IF clean THEN "PASSED" ELSE "REJECTED"]
        reserve == <<Direct, "base">>
        t == SetOrderState(screened, "RESERVATION_PENDING", "NONE")
    IN  IF ~clean
        THEN SetOrderState(
               SetOrderState(screened, "COMPLIANCE_REJECTED", "REJECTED"),
               "OPERATIONALLY_CLOSED_UNSUCCESSFUL", "REJECTED")
        ELSE IF \E q \in Quote : d.intent[q] # "ABSENT" THEN screened
        ELSE IF cross THEN SetOrderState(screened, "FX_ACCEPTANCE_PENDING", "NONE")
        ELSE IF d.res[reserve] # "ABSENT" THEN t
        ELSE Enqueue([t EXCEPT !.db.res[reserve] = "PENDING"],
                     <<"funding.reserve.requested", Direct, "base">>)

\* The saga barrier: the last reservation of the intent lets the saga go on.
FundingReserve(d, r) ==
    LET t == [Begin(d) EXCEPT !.db.res[r] = "RESERVED"]
        barrier == \A s \in Reservation :
                      s[1] = r[1] /\ d.res[s] # "ABSENT"
                         => t.db.res[s] = "RESERVED"
    IN  IF d.res[r] = "RESERVED" THEN Begin(d)
        ELSE IF ~barrier THEN t
        ELSE IF r[1] = Direct THEN EnqueueOnce(t, <<"payment.message.requested">>)
        ELSE IF d.intent[r[1]] # "PREPARING" THEN t
        ELSE SetOrderState(
               Enqueue([t EXCEPT !.db.intent[r[1]] = "READY_TO_ACCEPT"],
                       <<"fx.accept.requested", r[1]>>),
               "FX_ACCEPTANCE_PENDING", "NONE")

\* Variant: legs without the unique key of the order's roles.
FxAcceptAgain(d, q) ==
    LET t == SetOrderState(
               [Begin(d) EXCEPT !.db.intent[q] = "TRADE_ACCEPTED"],
               "FX_ACCEPTED", "NONE")
        legs == [t EXCEPT !.db.leg["FX_SELL"] = "PENDING",
                          !.db.leg["FX_BUY"] = "PENDING"]
    IN  EnqueueOnce(
          EnqueueOnce(legs, <<"settlement.submit.requested", "FX_SELL">>),
          <<"settlement.submit.requested", "FX_BUY">>)

\* A second trade of the order fails on the unique (order_id, leg_role).
FxAccept(d, q) ==
    LET t == SetOrderState(
               [Begin(d) EXCEPT !.db.intent[q] = "TRADE_ACCEPTED"],
               "FX_ACCEPTED", "NONE")
        legs == [t EXCEPT !.db.leg["FX_SELL"] = "PENDING",
                          !.db.leg["FX_BUY"] = "PENDING"]
    IN  IF d.intent[q] = "TRADE_ACCEPTED" THEN Begin(d)
        ELSE IF \E role \in FxRole : d.leg[role] # "ABSENT" THEN Raise(t)
        ELSE Enqueue(Enqueue(legs, <<"settlement.submit.requested", "FX_SELL">>),
                     <<"settlement.submit.requested", "FX_BUY">>)

SettlementSubmit(d, role) ==
    LET t == [Begin(d) EXCEPT !.db.leg[role] = "FINAL"]
    IN  IF d.leg[role] = "FINAL" THEN Begin(d)
        ELSE IF \A fx \in FxRole : t.db.leg[fx] = "FINAL"
             THEN EnqueueOnce(t, <<"payment.message.requested">>)
        ELSE t

MessageSend(d) ==
    EnqueueOnce(SetOrderState(Begin(d), "MESSAGE_DELIVERED", "NONE"),
                <<"payment.value.requested">>)

\* Variant: the policy does not ask for a posted journal.
CompletionAllowedUnposted(d, cross) ==
    /\ cross => \A role \in FxRole : d.leg[role] = "FINAL"
    /\ \A r \in Reservation : d.res[r] \notin {"RESERVED", "PENDING"}
    /\ ~d.case
    /\ \A role \in Role : d.leg[role] \in {"ABSENT", "FINAL"}
    /\ d.credited

\* CompletionPolicyEvaluator.evaluate, on the rows the handler has flushed.
CompletionAllowed(d, cross) ==
    /\ cross => \A role \in FxRole : d.leg[role] = "FINAL"
    /\ \A r \in Reservation : d.res[r] \notin {"RESERVED", "PENDING"}
    /\ ~d.case
    /\ \A role \in Role : d.leg[role] \in {"ABSENT", "FINAL"}
    /\ d.credited
    /\ d.journal

CompletePayment(t, cross) ==
    LET consumed == [t EXCEPT
            !.db.res = [r \in Reservation |->
                           IF @[r] = "RESERVED" THEN "CONSUMED" ELSE @[r]],
            !.db.credited = TRUE]
        completed == SetOrderState(consumed, "CUSTOMER_COMPLETED", "COMPLETED")
    IN  IF CompletionAllowed(completed.db, cross)
        THEN SetOrderState(completed, "OPERATIONALLY_CLOSED", "COMPLETED")
        ELSE Raise(completed)

PaymentValue(d, cross) ==
    IF d.leg["PAYMENT_VALUE"] = "FINAL" THEN Begin(d)
    ELSE CompletePayment(
           SetOrderState([Begin(d) EXCEPT !.db.leg["PAYMENT_VALUE"] = "FINAL"],
                         "VALUE_SETTLEMENT", "NONE"),
           cross)

\* Variant: the reservations take the name of the order's end.
CancelReservations(d) ==
    LET t == [Begin(d) EXCEPT
            !.db.cancel = "ACCEPTED",
            !.db.res = [r \in Reservation |->
                           IF @[r] = "RESERVED" THEN "CANCELLED" ELSE @[r]]]
    IN  IF d.leg["PAYMENT_VALUE"] = "FINAL" THEN Begin(d)
        ELSE IF d.cancel # "REQUESTED" THEN Raise(Begin(d))
        ELSE SetOrderState(
               SetOrderState(t, "EXECUTION_CANCELLED", "CANCELLED"),
               "OPERATIONALLY_CLOSED_UNSUCCESSFUL", "CANCELLED")

\* The connector accepts; CancellationService.accept walks the request over
\* SENT to ACCEPTED, releases what is reserved and closes the order.
Cancel(d) ==
    LET t == [Begin(d) EXCEPT
            !.db.cancel = "ACCEPTED",
            !.db.res = [r \in Reservation |->
                           IF @[r] = "RESERVED" THEN "RELEASED" ELSE @[r]]]
    IN  IF d.leg["PAYMENT_VALUE"] = "FINAL" THEN Begin(d)
        ELSE IF d.cancel # "REQUESTED" THEN Raise(Begin(d))
        ELSE SetOrderState(
               SetOrderState(t, "EXECUTION_CANCELLED", "CANCELLED"),
               "OPERATIONALLY_CLOSED_UNSUCCESSFUL", "CANCELLED")

\* What the value connector answers to submit_return, at once.
ReturnAnswer == "FINAL"

\* The return's row takes the answer if ReturnService.transition allows it from
\* the row's state.
Return(d) ==
    IF ReturnAnswer = d.ret \/ ReturnAnswer \in RETURN_STATES[d.ret]
    THEN [Begin(d) EXCEPT !.db.ret = ReturnAnswer]
    ELSE Raise(Begin(d))

\* ProductionWorker._handle.
Handle(d, e, clean, cross) ==
    CASE e[1] = "payment.created" -> PaymentCreated(d, clean, cross)
      [] e[1] = "funding.reserve.requested" -> FundingReserve(d, <<e[2], e[3]>>)
      [] e[1] = "fx.accept.requested" -> FxAccept(d, e[2])
      [] e[1] = "settlement.submit.requested" -> SettlementSubmit(d, e[2])
      [] e[1] = "payment.message.requested" -> MessageSend(d)
      [] e[1] = "payment.value.requested" -> PaymentValue(d, cross)
      [] e[1] = "payment.cancellation.requested" -> Cancel(d)
      [] e[1] = "payment.return.requested" -> Return(d)
==============================================================================
