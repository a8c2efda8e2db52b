----------------------- MODULE ProductionPaymentProofs -----------------------
(***************************************************************************)
(* Proofs about ProductionPayment for every set of workers and quotes.     *)
(*                                                                         *)
(* The first part is about the order: the tables keep their types, a       *)
(* closed order never changes, and the order's share of the day's limit is *)
(* settled exactly once.  Alone, a handler that returns leaves the order   *)
(* as it read it, or moves an open order to a higher version, with the     *)
(* limit counter that belongs to the state it leaves (Result).  Next to    *)
(* others, a transaction that changed the order commits only on the        *)
(* version it read, and then on the very row it read (SnapshotIsPast).     *)
(*                                                                         *)
(* The second part is about the rows around the order: they agree with it  *)
(* and with each other.  An accepted cancellation excludes a credit, two   *)
(* intents never both become trades, a closed payment is complete, a       *)
(* same-currency payment is screened first.  A handler that returns has    *)
(* changed the rows it read in few ways (Wrote).  The rows it read are a   *)
(* past of the committed ones, in which every row only moves forward       *)
(* (Past).  The unique keys, the order's version and the receipt of the    *)
(* event then make its commit keep what the committed rows say of each     *)
(* other (Rows).                                                           *)
(***************************************************************************)
EXTENDS ProductionPayment, TLAPS

\* A transaction, raised or not.
Txn == [ok : BOOLEAN, db : Database]

\* The limit counter that belongs to an order's state.
LimitOf(o) ==
    IF o.state \notin Terminal THEN [reserved |-> 2, consumed |-> 0]
    ELSE IF o.state = "OPERATIONALLY_CLOSED" THEN [reserved |-> 1, consumed |-> 1]
    ELSE [reserved |-> 1, consumed |-> 0]

Settled(d) == d.limit = LimitOf(d.order)

\* What the rows left by a transaction may say of the order that was read.
Follows(d, n) ==
    /\ Settled(n)
    /\ \/ n.order = d.order
       \/ /\ d.order.state \notin Terminal
          /\ n.order.version > d.order.version

Result(d, t) == t \in Txn /\ (t.ok => Follows(d, t.db))

\* u differs from t in rows other than the order and the limit counter.
Beside(t, u) ==
    /\ u \in Txn
    /\ u.ok => t.ok
    /\ u.db.order = t.db.order
    /\ u.db.limit = t.db.limit

------------------------------------------------------------------------------
(* Building blocks of the handlers *)

\* A transaction that has not written anything yet is a result.
LEMMA BeginResult ==
    ASSUME NEW d \in Database, Settled(d)
    PROVE  Begin(d) \in Txn /\ Result(d, Begin(d))
  BY DEF Begin, Txn, Result, Follows

\* Writes beside the order keep a result.
LEMMA BesideResult ==
    ASSUME NEW d, NEW t, NEW u, Result(d, t), Beside(t, u)
    PROVE  Result(d, u)
  BY DEF Result, Beside, Follows, Settled, LimitOf

\* An exception rolls everything back: nothing is left to be a result of.
LEMMA RaiseResult ==
    ASSUME NEW d, NEW t \in Txn
    PROVE  Result(d, Raise(t)) /\ Beside(t, Raise(t))
  BY DEF Raise, Txn, Result, Beside

\* Rows other than the order's may take any value of their type.
LEMMA WriteRow ==
    ASSUME NEW t \in Txn
    PROVE  /\ \A x \in {"PENDING", "PASSED", "REJECTED"} :
                 Beside(t, [t EXCEPT !.db.compliance = x])
           /\ \A x \in [Reservation -> ReservationState] :
                 Beside(t, [t EXCEPT !.db.res = x])
           /\ \A q \in Quote, x \in {"READY_TO_ACCEPT", "TRADE_ACCEPTED"} :
                 Beside(t, [t EXCEPT !.db.intent[q] = x])
           /\ \A l \in Role, x \in {"PENDING", "FINAL"} :
                 Beside(t, [t EXCEPT !.db.leg[l] = x])
           /\ Beside(t, [t EXCEPT !.db.credited = TRUE])
           /\ Beside(t, [t EXCEPT !.db.cancel = "ACCEPTED"])
           /\ \A e \in Event : Beside(t, [t EXCEPT !.db.evt[e] = "PENDING"])
<1>1. ASSUME NEW x \in {"PENDING", "PASSED", "REJECTED"}
      PROVE  Beside(t, [t EXCEPT !.db.compliance = x])
  BY DEF Beside, Txn, Database
<1>2. ASSUME NEW x \in [Reservation -> ReservationState]
      PROVE  Beside(t, [t EXCEPT !.db.res = x])
  BY DEF Beside, Txn, Database
<1>3. ASSUME NEW q \in Quote, NEW x \in {"READY_TO_ACCEPT", "TRADE_ACCEPTED"}
      PROVE  Beside(t, [t EXCEPT !.db.intent[q] = x])
  BY DEF Beside, Txn, Database
<1>4. ASSUME NEW l \in Role, NEW x \in {"PENDING", "FINAL"}
      PROVE  Beside(t, [t EXCEPT !.db.leg[l] = x])
  BY DEF Beside, Txn, Database
<1>5. Beside(t, [t EXCEPT !.db.credited = TRUE])
  BY DEF Beside, Txn, Database
<1>6. Beside(t, [t EXCEPT !.db.cancel = "ACCEPTED"])
  BY DEF Beside, Txn, Database
<1>7. ASSUME NEW e \in Event
      PROVE  Beside(t, [t EXCEPT !.db.evt[e] = "PENDING"])
  BY DEF Beside, Txn, Database, EventState
<1> QED
  BY <1>1, <1>2, <1>3, <1>4, <1>5, <1>6, <1>7

\* Inserting an event, with or without the look for an earlier one.
LEMMA EnqueueBeside ==
    ASSUME NEW t \in Txn, NEW e \in Event
    PROVE  Beside(t, Enqueue(t, e)) /\ Beside(t, EnqueueOnce(t, e))
  BY WriteRow, RaiseResult DEF Enqueue, EnqueueOnce, Beside

\* The limit of an open order can always be settled.
LEMMA FinalizeOpen ==
    ASSUME NEW t \in Txn, NEW c \in BOOLEAN,
           t.db.limit = [reserved |-> 2, consumed |-> 0]
    PROVE  /\ FinalizeLimit(t, c) \in Txn
           /\ FinalizeLimit(t, c).ok = t.ok
           /\ FinalizeLimit(t, c).db.order = t.db.order
           /\ FinalizeLimit(t, c).db.limit =
                [reserved |-> 1, consumed |-> IF c THEN 1 ELSE 0]
<1> DEFINE l == [reserved |-> 1, consumed |-> IF c THEN 1 ELSE 0]
<1>1. FinalizeLimit(t, c) = [t EXCEPT !.db.limit = l]
  BY DEF FinalizeLimit
<1>2. l \in [reserved : Nat, consumed : Nat]
  OBVIOUS
<1> HIDE DEF l
<1>3. /\ [t EXCEPT !.db.limit = l] \in Txn
      /\ [t EXCEPT !.db.limit = l].ok = t.ok
      /\ [t EXCEPT !.db.limit = l].db.order = t.db.order
      /\ [t EXCEPT !.db.limit = l].db.limit = l
  BY <1>2 DEF Txn, Database
<1> QED
  BY <1>1, <1>3 DEF l

\* The order row set_order_state writes is well typed.
LEMMA OrderRecord ==
    ASSUME NEW s \in OrderState, NEW out \in Outcome, NEW v \in Nat
    PROVE  [state |-> s, outcome |-> out, version |-> v]
              \in [state : OrderState, outcome : Outcome, version : Nat]
  OBVIOUS

\* set_order_state moves an open order to a new version, and settles the limit
\* when and only when it closes it.
LEMMA SetOrderStateResult ==
    ASSUME NEW d \in Database, NEW t, Result(d, t),
           NEW s \in OrderState, NEW out \in Outcome,
           s = "OPERATIONALLY_CLOSED" => out = "COMPLETED"
    PROVE  Result(d, SetOrderState(t, s, out))
<1> DEFINE o == t.db.order
           next == [state |-> s,
                    outcome |-> IF out = "NONE" THEN o.outcome ELSE out,
                    version |-> o.version + 1]
           moved == [t EXCEPT !.db.order = next]
           closed == FinalizeLimit(moved, s = "OPERATIONALLY_CLOSED"
                                          /\ out = "COMPLETED")
<1>1. t \in Txn /\ o.state \in OrderState /\ o.outcome \in Outcome /\ o.version \in Nat
  BY DEF Result, Txn, Database
<1>2. /\ next \in [state : OrderState, outcome : Outcome, version : Nat]
      /\ next.state = s
      /\ next.version = o.version + 1
  <2> HIDE DEF o
  <2>1. o.version + 1 \in Nat
    BY <1>1
  <2>2. (IF out = "NONE" THEN o.outcome ELSE out) \in Outcome
    BY <1>1
  <2>3. next \in [state : OrderState, outcome : Outcome, version : Nat]
    BY <2>1, <2>2, OrderRecord
  <2> QED  BY <2>3
<1>3. /\ moved \in Txn
      /\ moved.ok = t.ok
      /\ moved.db.order = next
      /\ moved.db.limit = t.db.limit
  <2> HIDE DEF next
  <2> QED  BY <1>1, <1>2 DEF Txn, Database
<1>4. CASE ~t.ok \/ (o.state \in Terminal /\ o.state = s)
  BY <1>4 DEF SetOrderState
<1>5. CASE /\ t.ok /\ o.state \in Terminal
           /\ o.state # s
  BY <1>1, <1>5, RaiseResult DEF SetOrderState
<1>6. CASE t.ok /\ o.state \notin Terminal
  <2>1. /\ d.order.state \notin Terminal
        /\ next.version > d.order.version
        /\ t.db.limit = [reserved |-> 2, consumed |-> 0]
    <3>1. /\ t.db.limit = LimitOf(o)
          /\ \/ o = d.order
             \/ d.order.state \notin Terminal /\ o.version > d.order.version
      BY <1>6 DEF Result, Follows, Settled
    <3>2. d.order.version \in Nat
      BY DEF Database
    <3> HIDE DEF o, next
    <3> QED  BY <1>1, <1>2, <1>6, <3>1, <3>2 DEF LimitOf
  <2>2. CASE s # o.state /\ s \notin AllowedOrderTransitions[o.state]
    BY <1>1, <1>6, <2>2, RaiseResult DEF SetOrderState
  <2>3. CASE /\ ~(s # o.state /\ s \notin AllowedOrderTransitions[o.state])
             /\ s \notin Terminal
    <3>1. SetOrderState(t, s, out) = moved
      BY <1>6, <2>3 DEF SetOrderState
    <3>2. Follows(d, moved.db)
      <4> HIDE DEF next, moved
      <4> QED  BY <1>2, <1>3, <2>1, <2>3 DEF Follows, Settled, LimitOf
    <3> QED  BY <1>3, <3>1, <3>2 DEF Result
  <2>4. CASE /\ ~(s # o.state /\ s \notin AllowedOrderTransitions[o.state])
             /\ s \in Terminal
    <3>1. SetOrderState(t, s, out) = closed
      BY <1>6, <2>4 DEF SetOrderState
    <3>2. /\ closed \in Txn
          /\ closed.db.order = next
          /\ closed.db.limit =
               [reserved |-> 1,
                consumed |-> IF s = "OPERATIONALLY_CLOSED" THEN 1 ELSE 0]
      <4>1. moved.db.limit = [reserved |-> 2, consumed |-> 0]
        BY <1>3, <2>1
      <4> DEFINE paid == s = "OPERATIONALLY_CLOSED" /\ out = "COMPLETED"
      <4>2. paid \in BOOLEAN /\ (paid <=> s = "OPERATIONALLY_CLOSED")
        OBVIOUS
      <4> HIDE DEF next, moved, paid
      <4>3. /\ FinalizeLimit(moved, paid) \in Txn
            /\ FinalizeLimit(moved, paid).db.order = moved.db.order
            /\ FinalizeLimit(moved, paid).db.limit =
                 [reserved |-> 1, consumed |-> IF paid THEN 1 ELSE 0]
        BY <1>3, <4>1, <4>2, FinalizeOpen
      <4>4. closed = FinalizeLimit(moved, paid)
        BY DEF paid
      <4> HIDE DEF closed
      <4> QED  BY <1>3, <4>2, <4>3, <4>4
    <3>3. Follows(d, closed.db)
      <4> HIDE DEF next, closed
      <4> QED  BY <1>2, <2>1, <2>4, <3>2 DEF Follows, Settled, LimitOf, Terminal
    <3> QED  BY <3>1, <3>2, <3>3 DEF Result
  <2> QED  BY <2>2, <2>3, <2>4
<1> QED
  BY <1>4, <1>5, <1>6

------------------------------------------------------------------------------
(* The handlers *)

\* The states and outcomes the handlers name.
LEMMA StateNames ==
    /\ {"RESERVATION_PENDING", "FX_ACCEPTANCE_PENDING", "FX_ACCEPTED",
        "MESSAGE_DELIVERED", "VALUE_SETTLEMENT", "CUSTOMER_COMPLETED",
        "OPERATIONALLY_CLOSED", "COMPLIANCE_REJECTED", "EXECUTION_CANCELLED",
        "OPERATIONALLY_CLOSED_UNSUCCESSFUL"} \subseteq OrderState
    /\ {"NONE", "COMPLETED", "REJECTED", "CANCELLED"} \subseteq Outcome
  BY DEF OrderState, Terminal, Outcome

\* A step to a state other than OPERATIONALLY_CLOSED.
LEMMA MoveResult ==
    ASSUME NEW d \in Database, NEW t, Result(d, t), NEW s \in OrderState,
           NEW out \in Outcome, s # "OPERATIONALLY_CLOSED"
    PROVE  /\ Result(d, SetOrderState(t, s, out))
           /\ SetOrderState(t, s, out) \in Txn
  BY SetOrderStateResult DEF Result

\* A result is a transaction.
LEMMA ResultTxn == ASSUME NEW d, NEW t, Result(d, t) PROVE t \in Txn
  BY DEF Result

\* Inserting an event keeps a result.
LEMMA EnqueueResult ==
    ASSUME NEW d, NEW t, Result(d, t), NEW e \in Event
    PROVE  Result(d, Enqueue(t, e)) /\ Result(d, EnqueueOnce(t, e))
  BY ResultTxn, EnqueueBeside, BesideResult

\* The events that name a reservation, a quote or a leg.
LEMMA EventNames ==
    /\ \A r \in Reservation : <<"funding.reserve.requested", r[1], r[2]>> \in Event
    /\ \A q \in Quote : <<"fx.accept.requested", q>> \in Event
    /\ \A l \in FxRole : <<"settlement.submit.requested", l>> \in Event
    /\ <<"payment.message.requested">> \in Event
    /\ <<"payment.value.requested">> \in Event
    /\ <<Direct, "base">> \in Reservation
    /\ <<"funding.reserve.requested", Direct, "base">> \in Event
<1>1. ASSUME NEW r \in Reservation
      PROVE  <<"funding.reserve.requested", r[1], r[2]>> \in Event
  BY DEF Event
<1>2. ASSUME NEW q \in Quote PROVE <<"fx.accept.requested", q>> \in Event
  BY DEF Event
<1>3. ASSUME NEW l \in FxRole PROVE <<"settlement.submit.requested", l>> \in Event
  BY DEF Event
<1>4. <<"payment.message.requested">> \in Event /\ <<"payment.value.requested">> \in Event
  BY DEF Event
<1>5. <<Direct, "base">> \in Reservation
  BY DEF Reservation
<1>6. <<"funding.reserve.requested", Direct, "base">> \in Event
  <2>1. <<Direct, "base">>[1] = Direct /\ <<Direct, "base">>[2] = "base"
    OBVIOUS
  <2> QED  BY <1>1, <1>5, <2>1
<1> QED
  BY <1>1, <1>2, <1>3, <1>4, <1>5, <1>6

\* _payment_created: rejection, FX or the direct reservation.
LEMMA PaymentCreatedResult ==
    ASSUME NEW d \in Database, Settled(d), NEW c \in BOOLEAN, NEW x \in BOOLEAN
    PROVE  Result(d, PaymentCreated(d, c, x))
<1> DEFINE screened == [Begin(d) EXCEPT !.db.compliance =
                           IF c THEN "PASSED" ELSE "REJECTED"]
           reserve == <<Direct, "base">>
           t == SetOrderState(screened, "RESERVATION_PENDING", "NONE")
           u == SetOrderState(screened, "COMPLIANCE_REJECTED", "REJECTED")
           v == [t EXCEPT !.db.res[reserve] = "PENDING"]
<1>1. Result(d, screened)
  <2>1. (IF c THEN "PASSED" ELSE "REJECTED") \in {"PENDING", "PASSED", "REJECTED"}
    OBVIOUS
  <2>2. Result(d, Begin(d)) /\ Begin(d) \in Txn
    BY BeginResult
  <2>3. Beside(Begin(d), screened)
    BY <2>1, <2>2, WriteRow
  <2> QED  BY <2>2, <2>3, BesideResult
<1> HIDE DEF screened
<1>2. Result(d, t) /\ Result(d, SetOrderState(screened, "FX_ACCEPTANCE_PENDING", "NONE"))
  BY <1>1, MoveResult, StateNames
<1>3. Result(d, SetOrderState(u, "OPERATIONALLY_CLOSED_UNSUCCESSFUL", "REJECTED"))
  <2>1. Result(d, u)
    BY <1>1, MoveResult, StateNames
  <2> HIDE DEF u
  <2> QED  BY <2>1, MoveResult, StateNames
<1>4. Result(d, Enqueue(v, <<"funding.reserve.requested", Direct, "base">>))
  <2> HIDE DEF t
  <2>1. t \in Txn /\ t.db.res \in [Reservation -> ReservationState]
    BY <1>2, ResultTxn DEF Txn, Database
  <2>2. [t.db.res EXCEPT ![reserve] = "PENDING"] \in [Reservation -> ReservationState]
    BY <2>1, EventNames DEF ReservationState
  <2>3. Beside(t, v)
    BY <2>1, <2>2, WriteRow
  <2> HIDE DEF v
  <2> QED  BY <1>2, <2>3, BesideResult, EnqueueResult, EventNames
<1> QED
  BY <1>1, <1>2, <1>3, <1>4 DEF PaymentCreated, screened

\* _funding_reserve: the barrier of the order or of one intent.
LEMMA FundingReserveResult ==
    ASSUME NEW d \in Database, Settled(d), NEW r \in Reservation
    PROVE  Result(d, FundingReserve(d, r))
<1> DEFINE t == [Begin(d) EXCEPT !.db.res[r] = "RESERVED"]
           ready == [t EXCEPT !.db.intent[r[1]] = "READY_TO_ACCEPT"]
           asked == Enqueue(ready, <<"fx.accept.requested", r[1]>>)
<1>1. Result(d, Begin(d)) /\ Begin(d) \in Txn /\ Begin(d).db = d
  BY BeginResult DEF Begin
<1>2. Result(d, t)
  <2>1. [Begin(d).db.res EXCEPT ![r] = "RESERVED"] \in [Reservation -> ReservationState]
    BY <1>1 DEF ReservationState, Database
  <2> QED  BY <1>1, <2>1, WriteRow, BesideResult
<1> HIDE DEF t
<1>3. Result(d, EnqueueOnce(t, <<"payment.message.requested">>))
  BY <1>2, EnqueueResult, EventNames
<1>4. ASSUME r[1] # Direct
      PROVE  Result(d, SetOrderState(asked, "FX_ACCEPTANCE_PENDING", "NONE"))
  <2>1. r[1] \in Quote
    BY <1>4 DEF Reservation, FxReservation
  <2>2. Result(d, ready)
    BY <1>2, <2>1, ResultTxn, WriteRow, BesideResult
  <2> HIDE DEF ready
  <2>3. Result(d, asked)
    BY <2>1, <2>2, EnqueueResult, EventNames
  <2> HIDE DEF asked
  <2> QED  BY <2>3, MoveResult, StateNames
<1> QED
  BY <1>1, <1>2, <1>3, <1>4 DEF FundingReserve, t

\* _fx_accept: the trade and its two legs.
LEMMA FxAcceptResult ==
    ASSUME NEW d \in Database, Settled(d), NEW q \in Quote
    PROVE  Result(d, FxAccept(d, q))
<1> DEFINE i == [Begin(d) EXCEPT !.db.intent[q] = "TRADE_ACCEPTED"]
           t == SetOrderState(i, "FX_ACCEPTED", "NONE")
           sell == [t EXCEPT !.db.leg["FX_SELL"] = "PENDING"]
           legs == [sell EXCEPT !.db.leg["FX_BUY"] = "PENDING"]
<1>1. Result(d, Begin(d)) /\ Begin(d) \in Txn
  BY BeginResult
<1>2. Result(d, t)
  <2>1. Result(d, i)
    BY <1>1, WriteRow, BesideResult
  <2> HIDE DEF i
  <2> QED  BY <2>1, MoveResult, StateNames
<1> HIDE DEF i, t
<1>3. Result(d, Raise(t))
  BY <1>2, ResultTxn, RaiseResult
<1>4. "FX_SELL" \in Role /\ "FX_BUY" \in Role
      /\ "FX_SELL" \in FxRole /\ "FX_BUY" \in FxRole
  BY DEF Role, FxRole
<1>5. Result(d, sell)
  BY <1>2, <1>4, ResultTxn, WriteRow, BesideResult
<1> HIDE DEF sell
<1>6. Result(d, legs)
  BY <1>4, <1>5, ResultTxn, WriteRow, BesideResult
<1>7. Result(d, Enqueue(Enqueue(legs, <<"settlement.submit.requested", "FX_SELL">>),
                        <<"settlement.submit.requested", "FX_BUY">>))
  <2> HIDE DEF legs
  <2> QED  BY <1>4, <1>6, EnqueueResult, EventNames
<1> QED
  BY <1>1, <1>3, <1>7 DEF FxAccept, i, t, sell

\* _settlement_submit: one leg, and the message after the last one.
LEMMA SettlementSubmitResult ==
    ASSUME NEW d \in Database, Settled(d), NEW l \in FxRole
    PROVE  Result(d, SettlementSubmit(d, l))
<1> DEFINE t == [Begin(d) EXCEPT !.db.leg[l] = "FINAL"]
<1>1. Result(d, Begin(d)) /\ Begin(d) \in Txn
  BY BeginResult
<1>2. Result(d, t)
  <2>1. l \in Role
    BY DEF Role
  <2> QED  BY <1>1, <2>1, WriteRow, BesideResult
<1> HIDE DEF t
<1>3. Result(d, EnqueueOnce(t, <<"payment.message.requested">>))
  BY <1>2, EnqueueResult, EventNames
<1> QED
  BY <1>1, <1>2, <1>3 DEF SettlementSubmit, t

\* _message_send: delivery and the value event.
LEMMA MessageSendResult ==
    ASSUME NEW d \in Database, Settled(d)
    PROVE  Result(d, MessageSend(d))
<1> DEFINE t == SetOrderState(Begin(d), "MESSAGE_DELIVERED", "NONE")
<1>1. Result(d, t)
  BY BeginResult, MoveResult, StateNames
<1> HIDE DEF t
<1> QED
  BY <1>1, EnqueueResult, EventNames DEF MessageSend, t

\* complete_payment closes the order or raises.
LEMMA CompletePaymentResult ==
    ASSUME NEW d \in Database, NEW t, Result(d, t), NEW x \in BOOLEAN
    PROVE  Result(d, CompletePayment(t, x))
<1> DEFINE spent == [r \in Reservation |->
                        IF t.db.res[r] = "RESERVED" THEN "CONSUMED" ELSE t.db.res[r]]
           u == [t EXCEPT !.db.res = spent]
           consumed == [u EXCEPT !.db.credited = TRUE]
           completed == SetOrderState(consumed, "CUSTOMER_COMPLETED", "COMPLETED")
<1>1. t \in Txn /\ t.db.res \in [Reservation -> ReservationState]
  BY ResultTxn DEF Txn, Database
<1>2. spent \in [Reservation -> ReservationState]
  BY <1>1 DEF ReservationState
<1>3. Result(d, u)
  <2> HIDE DEF spent
  <2> QED  BY <1>1, <1>2, WriteRow, BesideResult
<1>4. Result(d, consumed)
  <2> HIDE DEF u
  <2> QED  BY <1>3, ResultTxn, WriteRow, BesideResult
<1>5. consumed = [t EXCEPT !.db.res = spent, !.db.credited = TRUE]
  OBVIOUS
<1>6. Result(d, completed)
  <2> HIDE DEF consumed
  <2> QED  BY <1>4, MoveResult, StateNames
<1>7. /\ Result(d, SetOrderState(completed, "OPERATIONALLY_CLOSED", "COMPLETED"))
      /\ Result(d, Raise(completed))
  <2> HIDE DEF completed
  <2> QED  BY <1>6, SetOrderStateResult, StateNames, ResultTxn, RaiseResult
<1>8. CompletePayment(t, x) \in {SetOrderState(completed, "OPERATIONALLY_CLOSED", "COMPLETED"),
                                Raise(completed)}
  BY DEF CompletePayment
<1> QED
  BY <1>7, <1>8

\* _payment_value: the settled value, then the completion policy.
LEMMA PaymentValueResult ==
    ASSUME NEW d \in Database, Settled(d), NEW x \in BOOLEAN
    PROVE  Result(d, PaymentValue(d, x))
<1> DEFINE t == [Begin(d) EXCEPT !.db.leg["PAYMENT_VALUE"] = "FINAL"]
           u == SetOrderState(t, "VALUE_SETTLEMENT", "NONE")
<1>1. Result(d, Begin(d)) /\ Begin(d) \in Txn
  BY BeginResult
<1>2. Result(d, t)
  <2>1. "PAYMENT_VALUE" \in Role
    BY DEF Role
  <2> QED  BY <1>1, <2>1, WriteRow, BesideResult
<1>3. Result(d, u)
  <2> HIDE DEF t
  <2> QED  BY <1>2, MoveResult, StateNames
<1>4. Result(d, CompletePayment(u, x))
  <2> HIDE DEF u
  <2> QED  BY <1>3, CompletePaymentResult
<1> QED
  BY <1>1, <1>4 DEF PaymentValue

\* _cancel: refused, ignored, or the order closed without success.
LEMMA CancelResult ==
    ASSUME NEW d \in Database, Settled(d)
    PROVE  Result(d, Cancel(d))
<1> DEFINE c == [Begin(d) EXCEPT !.db.cancel = "ACCEPTED"]
           freed == [r \in Reservation |->
                        IF c.db.res[r] = "RESERVED" THEN "RELEASED" ELSE c.db.res[r]]
           t == [c EXCEPT !.db.res = freed]
           u == SetOrderState(t, "EXECUTION_CANCELLED", "CANCELLED")
<1>1. Result(d, Begin(d)) /\ Begin(d) \in Txn /\ Result(d, Raise(Begin(d)))
  BY BeginResult, RaiseResult
<1>2. Result(d, c)
  BY <1>1, WriteRow, BesideResult
<1>3. Result(d, t)
  <2> HIDE DEF c
  <2>1. c \in Txn /\ c.db.res \in [Reservation -> ReservationState]
    BY <1>2, ResultTxn DEF Txn, Database
  <2>2. freed \in [Reservation -> ReservationState]
    BY <2>1 DEF ReservationState
  <2> HIDE DEF freed
  <2> QED  BY <1>2, <2>1, <2>2, WriteRow, BesideResult
<1>4. Result(d, u)
  <2> HIDE DEF t
  <2> QED  BY <1>3, MoveResult, StateNames
<1>5. Result(d, SetOrderState(u, "OPERATIONALLY_CLOSED_UNSUCCESSFUL", "CANCELLED"))
  <2> HIDE DEF u
  <2> QED  BY <1>4, MoveResult, StateNames
<1>6. Cancel(d) \in {Begin(d), Raise(Begin(d)),
                    SetOrderState(u, "OPERATIONALLY_CLOSED_UNSUCCESSFUL", "CANCELLED")}
  BY DEF Cancel
<1> QED
  BY <1>1, <1>5, <1>6

\* A return writes its own row or nothing.
LEMMA ReturnResult ==
    ASSUME NEW d \in Database, Settled(d)
    PROVE  Result(d, Return(d))
<1>1. Result(d, Begin(d)) /\ Result(d, Raise(Begin(d)))
  BY BeginResult, RaiseResult
<1>2. Beside(Begin(d), [Begin(d) EXCEPT !.db.ret = "FINAL"])
  BY DEF Beside, Begin, Txn, Database, ReturnState
<1>3. Result(d, [Begin(d) EXCEPT !.db.ret = "FINAL"])
  BY <1>1, <1>2, BesideResult
<1> QED
  BY <1>1, <1>3 DEF Return, ReturnAnswer

\* ProductionWorker._handle: whatever the event, a handler that returns leaves
\* the order as it read it or moves an open one to a higher version, with the
\* limit settled if and only if it closed it.
THEOREM HandlerResult ==
    ASSUME NEW d \in Database, Settled(d), NEW e \in Event,
           NEW c \in BOOLEAN, NEW x \in BOOLEAN
    PROVE  Result(d, Handle(d, e, c, x))
<1>1. CASE e = <<"payment.created">>
  <2>1. Handle(d, e, c, x) = PaymentCreated(d, c, x)
    BY <1>1 DEF Handle
  <2> QED  BY <2>1, PaymentCreatedResult
<1>2. ASSUME NEW r \in Reservation, e = <<"funding.reserve.requested", r[1], r[2]>>
      PROVE  Result(d, Handle(d, e, c, x))
  <2>1. Handle(d, e, c, x) = FundingReserve(d, <<r[1], r[2]>>)
    BY <1>2 DEF Handle
  <2>2. <<r[1], r[2]>> = r
    BY DEF Reservation, FxReservation
  <2> QED  BY <2>1, <2>2, FundingReserveResult
<1>3. ASSUME NEW q \in Quote, e = <<"fx.accept.requested", q>>
      PROVE  Result(d, Handle(d, e, c, x))
  <2>1. Handle(d, e, c, x) = FxAccept(d, q)
    BY <1>3 DEF Handle
  <2> QED  BY <2>1, FxAcceptResult
<1>4. ASSUME NEW l \in FxRole, e = <<"settlement.submit.requested", l>>
      PROVE  Result(d, Handle(d, e, c, x))
  <2>1. Handle(d, e, c, x) = SettlementSubmit(d, l)
    BY <1>4 DEF Handle
  <2> QED  BY <2>1, SettlementSubmitResult
<1>5. CASE e = <<"payment.message.requested">>
  <2>1. Handle(d, e, c, x) = MessageSend(d)
    BY <1>5 DEF Handle
  <2> QED  BY <2>1, MessageSendResult
<1>6. CASE e = <<"payment.value.requested">>
  <2>1. Handle(d, e, c, x) = PaymentValue(d, x)
    BY <1>6 DEF Handle
  <2> QED  BY <2>1, PaymentValueResult
<1>7. CASE e = <<"payment.cancellation.requested">>
  <2>1. Handle(d, e, c, x) = Cancel(d)
    BY <1>7 DEF Handle
  <2> QED  BY <2>1, CancelResult
<1>8. CASE e = <<"payment.return.requested">>
  <2>1. Handle(d, e, c, x) = Return(d)
    BY <1>8 DEF Handle
  <2> QED  BY <2>1, ReturnResult
<1> QED
  BY <1>1, <1>2, <1>3, <1>4, <1>5, <1>6, <1>7, <1>8 DEF Event

------------------------------------------------------------------------------
(* The invariant *)

\* A handler read a settled order, no newer than the committed one, and the
\* very committed one if its version is still the same.
SnapshotIsPast ==
    \A w \in Worker : job[w] # NoJob =>
        /\ Settled(job[w].base)
        /\ job[w].base.order.version <= db.order.version
        /\ job[w].base.order.version = db.order.version
              => job[w].base.order = db.order

IInv == TypeOK /\ Settled(db) /\ SnapshotIsPast

\* A new order is well typed, open, and its amount is reserved.
LEMMA NewPaymentTyped == NewPayment \in Database /\ Settled(NewPayment)
<1>1. [state |-> "CONTROL_CHECKS", outcome |-> "NONE", version |-> 1]
         \in [state : OrderState, outcome : Outcome, version : Nat]
  BY DEF OrderState, Outcome
<1>2. [r \in Reservation |-> "ABSENT"] \in [Reservation -> ReservationState]
  BY DEF ReservationState
<1>3. [role \in Role |-> IF role = "PAYMENT_VALUE" THEN "PENDING" ELSE "ABSENT"]
         \in [Role -> {"ABSENT", "PENDING", "FINAL"}]
  OBVIOUS
<1>4. [e \in Event |-> IF e = <<"payment.created">> THEN "PENDING" ELSE "ABSENT"]
         \in [Event -> EventState]
  BY DEF EventState
<1>5. NewPayment \in Database
  BY <1>1, <1>2, <1>3, <1>4 DEF NewPayment, Database, ReturnState
<1>6. "CONTROL_CHECKS" \notin Terminal
  BY DEF Terminal
<1> QED
  BY <1>5, <1>6 DEF NewPayment, Settled, LimitOf

\* A created payment satisfies the invariant.
LEMMA InitInv == Init => IInv
<1> SUFFICES ASSUME Init PROVE IInv
  OBVIOUS
<1>1. db \in Database /\ Settled(db)
  BY NewPaymentTyped DEF Init
<1>2. job \in [Worker -> {NoJob} \cup [event : Event, base : Database]]
  BY DEF Init
<1>3. SnapshotIsPast
  BY DEF Init, SnapshotIsPast
<1> QED
  BY <1>1, <1>2, <1>3 DEF Init, IInv, TypeOK

\* The commands of the API leave the order and the limit alone.
LEMMA CommandFollows ==
    ASSUME IInv,
           \/ \E q \in Quote : CreateFxAcceptance(q)
           \/ RequestCancellation \/ RequestReturn \/ PostJournal \/ OpenCase
    PROVE  db' \in Database /\ Follows(db, db')
<1>0. db \in Database /\ Settled(db)
  BY DEF IInv, TypeOK
<1>1. ASSUME NEW q \in Quote, CreateFxAcceptance(q)
      PROVE  db' \in Database /\ db'.order = db.order /\ db'.limit = db.limit
  <2> DEFINE i == [db.intent EXCEPT ![q] = "PREPARING"]
             f == [r \in Reservation |-> IF r[1] = q THEN "PENDING" ELSE db.res[r]]
             v == [e \in Event |->
                     IF e \in {<<"funding.reserve.requested", q, s>> : s \in Side}
                     THEN "PENDING" ELSE db.evt[e]]
  <2>1. db' = [db EXCEPT !.intent = i, !.res = f, !.evt = v]
    BY <1>1 DEF CreateFxAcceptance
  <2>2. i \in [Quote -> {"ABSENT", "PREPARING", "READY_TO_ACCEPT", "TRADE_ACCEPTED"}]
    BY <1>0 DEF Database
  <2>3. f \in [Reservation -> ReservationState]
    BY <1>0 DEF Database, ReservationState
  <2>4. v \in [Event -> EventState]
    BY <1>0 DEF Database, EventState
  <2> HIDE DEF i, f, v
  <2> QED  BY <1>0, <2>1, <2>2, <2>3, <2>4 DEF Database
<1>2. ASSUME RequestCancellation
      PROVE  db' \in Database /\ db'.order = db.order /\ db'.limit = db.limit
  <2> DEFINE v == [db.evt EXCEPT ![<<"payment.cancellation.requested">>] = "PENDING"]
  <2>1. db' = [db EXCEPT !.cancel = "REQUESTED", !.evt = v]
    BY <1>2 DEF RequestCancellation
  <2>2. v \in [Event -> EventState]
    BY <1>0 DEF Database, EventState
  <2> HIDE DEF v
  <2> QED  BY <1>0, <2>1, <2>2 DEF Database
<1>3. ASSUME RequestReturn
      PROVE  db' \in Database /\ db'.order = db.order /\ db'.limit = db.limit
  <2> DEFINE v == [db.evt EXCEPT ![<<"payment.return.requested">>] = "PENDING"]
  <2>1. db' = [db EXCEPT !.ret = "REQUESTED", !.evt = v]
    BY <1>3 DEF RequestReturn
  <2>2. v \in [Event -> EventState]
    BY <1>0 DEF Database, EventState
  <2> HIDE DEF v
  <2> QED  BY <1>0, <2>1, <2>2 DEF Database, ReturnState
<1>4. ASSUME PostJournal \/ OpenCase
      PROVE  db' \in Database /\ db'.order = db.order /\ db'.limit = db.limit
  BY <1>0, <1>4, ZenonT(40) DEF PostJournal, OpenCase, Database
<1> QED
  BY <1>0, <1>1, <1>2, <1>3, <1>4 DEF Follows, Settled

\* Flush on a table of rows keeps the table's type.
LEMMA FlushTyped ==
    ASSUME NEW S, NEW V, NEW f \in [S -> V], NEW g \in [S -> V], NEW h \in [S -> V]
    PROVE  Flush(f, g, h) \in [S -> V]
  BY DEF Flush

\* A handler's commit: its order is written only on the row it was read from.
LEMMA CommitFollows ==
    ASSUME IInv, NEW w \in Worker, CommitHandler(w)
    PROVE  db' \in Database /\ Follows(db, db')
<1> DEFINE e == job[w].event
           base == job[w].base
           t == Handle(base, e, clean, cross)
           new == t.db
<1>1. /\ db \in Database /\ Settled(db)
      /\ e \in Event
      /\ base \in Database /\ Settled(base)
      /\ clean \in BOOLEAN /\ cross \in BOOLEAN
  BY DEF IInv, TypeOK, CommitHandler, SnapshotIsPast
<1>2. base.order.version = db.order.version => base.order = db.order
  BY DEF IInv, SnapshotIsPast, CommitHandler
<1>3. /\ new.order = base.order \/ db.order.version = base.order.version
      /\ t.ok
      /\ db' = [Merge(base, new) EXCEPT !.evt[e] = "PUBLISHED"]
  BY DEF CommitHandler, OrderUnchanged
<1>4. new \in Database /\ Follows(base, new)
  <2> HIDE DEF base, e
  <2> QED  BY <1>1, <1>3, HandlerResult DEF Result, Txn
<1> HIDE DEF e, base, t, new
<1> DEFINE r == Flush(db.res, base.res, new.res)
           i == Flush(db.intent, base.intent, new.intent)
           l == Flush(db.leg, base.leg, new.leg)
           v == Flush(db.evt, base.evt, new.evt)
           m == [reserved |-> db.limit.reserved + new.limit.reserved - base.limit.reserved,
                 consumed |-> db.limit.consumed + new.limit.consumed - base.limit.consumed]
           x == Flush(db, base, new)
<1>5. /\ r \in [Reservation -> ReservationState]
      /\ i \in [Quote -> {"ABSENT", "PREPARING", "READY_TO_ACCEPT", "TRADE_ACCEPTED"}]
      /\ l \in [Role -> {"ABSENT", "PENDING", "FINAL"}]
      /\ v \in [Event -> EventState]
  <2>1. db \in Database /\ base \in Database /\ new \in Database
    BY <1>1, <1>4
  <2> QED  BY <2>1, FlushTyped DEF Database
<1>6. x \in Database /\ x.order = IF new.order # base.order THEN new.order ELSE db.order
  BY <1>1, <1>4 DEF Flush, Database
<1>7. /\ m = LimitOf(x.order)
      /\ \/ x.order = db.order
         \/ db.order.state \notin Terminal /\ x.order.version > db.order.version
  <2>1. CASE new.order = base.order
    <3>1. new.limit = base.limit
      BY <1>1, <1>4, <2>1 DEF Follows, Settled
    <3>2. /\ db.limit \in [reserved : Nat, consumed : Nat]
          /\ base.limit \in [reserved : Nat, consumed : Nat]
      BY <1>1 DEF Database
    <3>3. m = db.limit
      BY <3>1, <3>2
    <3> QED  BY <1>1, <1>6, <2>1, <3>3 DEF Settled
  <2>2. CASE new.order # base.order
    <3>1. base.order = db.order
      BY <1>2, <1>3, <2>2
    <3>2. base.limit = db.limit
      BY <1>1, <3>1 DEF Settled
    <3>3. /\ db.limit \in [reserved : Nat, consumed : Nat]
          /\ new.limit \in [reserved : Nat, consumed : Nat]
      BY <1>1, <1>4 DEF Database
    <3>4. m = new.limit
      BY <3>2, <3>3
    <3> QED  BY <1>4, <1>6, <2>2, <3>1, <3>4 DEF Follows, Settled
  <2> QED  BY <2>1, <2>2
<1>8. m \in [reserved : Nat, consumed : Nat]
  <2> HIDE DEF m, x
  <2> QED  BY <1>7 DEF LimitOf
<1>9. Merge(base, new) =
         [x EXCEPT !.res = r, !.intent = i, !.leg = l, !.evt = v, !.limit = m]
  BY DEF Merge
<1> DEFINE y == Merge(base, new)
<1>10. y \in Database /\ y.order = x.order /\ y.limit = m
  <2> DEFINE x1 == [x EXCEPT !.res = r]
             x2 == [x1 EXCEPT !.intent = i]
             x3 == [x2 EXCEPT !.leg = l]
             x4 == [x3 EXCEPT !.evt = v]
             x5 == [x4 EXCEPT !.limit = m]
  <2> HIDE DEF r, i, l, v, m, x, y
  <2>1. y = x5
    BY <1>9 DEF y
  <2>2. x1 \in Database /\ x1.order = x.order
    BY <1>5, <1>6 DEF Database
  <2> HIDE DEF x1
  <2>3. x2 \in Database /\ x2.order = x.order
    BY <1>5, <2>2 DEF Database
  <2> HIDE DEF x2
  <2>4. x3 \in Database /\ x3.order = x.order
    BY <1>5, <2>3 DEF Database
  <2> HIDE DEF x3
  <2>5. x4 \in Database /\ x4.order = x.order
    BY <1>5, <2>4 DEF Database
  <2> HIDE DEF x4
  <2>6. x5 \in Database /\ x5.order = x.order /\ x5.limit = m
    BY <1>8, <2>5 DEF Database
  <2> QED  BY <2>1, <2>6
<1>11. db' \in Database /\ db'.order = y.order /\ db'.limit = y.limit
  <2> HIDE DEF y
  <2> QED  BY <1>1, <1>3, <1>10 DEF Database, EventState, y
<1> HIDE DEF m, x, y
<1> QED
  BY <1>7, <1>10, <1>11 DEF Follows, Settled

\* A rollback leaves the tables alone but for the event that gives up.
LEMMA AbortFollows ==
    ASSUME IInv, NEW w \in Worker, AbortHandler(w)
    PROVE  db' \in Database /\ Follows(db, db')
<1>1. db \in Database /\ Settled(db) /\ job[w].event \in Event
  BY DEF IInv, TypeOK, AbortHandler
<1>2. db' = db \/ db' = [db EXCEPT !.evt[job[w].event] = "DEAD_LETTER"]
  BY DEF AbortHandler
<1>3. db' \in Database /\ db'.order = db.order /\ db'.limit = db.limit
  BY <1>1, <1>2 DEF Database, EventState
<1> QED
  BY <1>1, <1>3 DEF Follows, Settled

\* Every step leaves the order alone or moves an open one to a new version,
\* and keeps the limit counter that belongs to its state.
LEMMA NextFollows ==
    ASSUME IInv, [Next]_vars
    PROVE  db' \in Database /\ Follows(db, db')
<1>1. CASE \/ \E q \in Quote : CreateFxAcceptance(q)
           \/ RequestCancellation \/ RequestReturn \/ PostJournal \/ OpenCase
  BY <1>1, CommandFollows
<1>2. ASSUME NEW w \in Worker, NEW e \in Event, BeginHandler(w, e)
      PROVE  db' \in Database /\ Follows(db, db')
  BY <1>2 DEF BeginHandler, IInv, TypeOK, Follows
<1>3. ASSUME NEW w \in Worker, CommitHandler(w)
      PROVE  db' \in Database /\ Follows(db, db')
  BY <1>3, CommitFollows
<1>4. ASSUME NEW w \in Worker, AbortHandler(w)
      PROVE  db' \in Database /\ Follows(db, db')
  BY <1>4, AbortFollows
<1>5. CASE UNCHANGED vars
  BY <1>5 DEF vars, IInv, TypeOK, Follows
<1> QED
  BY <1>1, <1>2, <1>3, <1>4, <1>5 DEF Next

\* A handler that begins takes the committed rows; the others keep theirs.
LEMMA NextJobs ==
    ASSUME IInv, [Next]_vars
    PROVE  /\ job' \in [Worker -> {NoJob} \cup [event : Event, base : Database]]
           /\ \A w \in Worker :
                 job'[w] = job[w] \/ job'[w] = NoJob \/ (job'[w].base = db /\ db' = db)
           /\ valueSent' \in BOOLEAN /\ clean' \in BOOLEAN /\ cross' \in BOOLEAN
<1> USE DEF IInv, TypeOK
<1>1. CASE \/ \E q \in Quote : CreateFxAcceptance(q)
           \/ RequestCancellation \/ RequestReturn \/ PostJournal \/ OpenCase
           \/ UNCHANGED vars
  BY <1>1 DEF CreateFxAcceptance, RequestCancellation, RequestReturn, PostJournal,
              OpenCase, vars
<1>2. CASE \E w \in Worker, e \in Event : BeginHandler(w, e)
  <2>1. PICK w \in Worker, e \in Event : BeginHandler(w, e)
    BY <1>2
  <2>2. [event |-> e, base |-> db] \in [event : Event, base : Database]
    OBVIOUS
  <2>3. /\ job' = [job EXCEPT ![w] = [event |-> e, base |-> db]]
        /\ UNCHANGED <<db, valueSent, clean, cross>>
    BY <2>1 DEF BeginHandler
  <2> QED  BY <2>2, <2>3
<1>3. CASE \E w \in Worker : CommitHandler(w) \/ AbortHandler(w)
  <2>1. PICK w \in Worker : CommitHandler(w) \/ AbortHandler(w)
    BY <1>3
  <2>2. /\ job' = [job EXCEPT ![w] = NoJob]
        /\ UNCHANGED <<clean, cross>>
    BY <2>1 DEF CommitHandler, AbortHandler
  <2>3. valueSent' \in BOOLEAN
    BY <2>1 DEF CommitHandler, AbortHandler, Submits
  <2> QED  BY <2>2, <2>3
<1> QED
  BY <1>1, <1>2, <1>3 DEF Next

\* Every step keeps the invariant.
LEMMA NextInv == IInv /\ [Next]_vars => IInv'
<1> SUFFICES ASSUME IInv, [Next]_vars PROVE IInv'
  OBVIOUS
<1>1. db' \in Database /\ Follows(db, db')
  BY NextFollows
<1>2. TypeOK' /\ Settled(db')
  BY <1>1, NextJobs DEF TypeOK, Follows
<1>3. SnapshotIsPast'
  <2> SUFFICES ASSUME NEW w \in Worker, job'[w] # NoJob
               PROVE  /\ Settled(job'[w].base)
                      /\ job'[w].base.order.version <= db'.order.version
                      /\ job'[w].base.order.version = db'.order.version
                            => job'[w].base.order = db'.order
    BY DEF SnapshotIsPast
  <2>1. CASE job'[w].base = db /\ db' = db
    <3>1. Settled(db) /\ db.order.version \in Nat
      BY DEF IInv, TypeOK, Database
    <3> QED  BY <2>1, <3>1
  <2>2. CASE job'[w] = job[w]
    <3> DEFINE b == job[w].base
    <3>1. /\ Settled(b)
          /\ b.order.version <= db.order.version
          /\ b.order.version = db.order.version => b.order = db.order
      BY <2>2 DEF IInv, SnapshotIsPast
    <3>2. /\ b.order.version \in Nat
          /\ db.order.version \in Nat
          /\ db'.order.version \in Nat
      BY <1>1, <2>2 DEF IInv, TypeOK, Database
    <3>3. db'.order = db.order \/ db'.order.version > db.order.version
      BY <1>1 DEF Follows
    <3> HIDE DEF b
    <3>4. /\ b.order.version <= db'.order.version
          /\ b.order.version = db'.order.version => b.order = db'.order
      BY <3>1, <3>2, <3>3
    <3> QED  BY <2>2, <3>1, <3>4 DEF b
  <2> QED  BY <2>1, <2>2, NextJobs
<1> QED
  BY <1>2, <1>3 DEF IInv

------------------------------------------------------------------------------
(* The theorems *)

\* Along every behaviour the rows are typed, the limit is the one of the order's
\* state, and every snapshot is of the past.
THEOREM Invariance == Spec => []IInv
  BY InitInv, NextInv, PTL DEF Spec

\* The tables and the snapshots keep their types: no commit leaves the limit
\* counter negative, no return leaves REQUESTED.
THEOREM TypeCorrect == Spec => []TypeOK
<1>1. IInv => TypeOK
  BY DEF IInv
<1> QED
  BY <1>1, Invariance, PTL

\* set_order_state settles the order's share of the day's limit exactly once.
THEOREM LimitIsSettledOnceHolds == Spec => []LimitIsSettledOnce
<1>1. IInv => LimitIsSettledOnce
  BY DEF IInv, Settled, LimitOf, LimitIsSettledOnce
<1> QED
  BY <1>1, Invariance, PTL

\* A closed order never changes again, whatever was read before it closed.
THEOREM TerminalIsImmutableHolds == Spec => TerminalIsImmutable
<1>1. IInv /\ [Next]_vars => [db.order.state \in Terminal => db'.order = db.order]_vars
  BY NextFollows DEF Follows
<1> QED
  BY <1>1, Invariance, PTL DEF Spec, TerminalIsImmutable
-----------------------------------------------------------------------------
(* The rows around the order *)

\* The outbox events of the order by name.
Created == <<"payment.created">>
Message == <<"payment.message.requested">>
Value == <<"payment.value.requested">>
Cancellation == <<"payment.cancellation.requested">>
Reserve(r) == <<"funding.reserve.requested", r[1], r[2]>>
Accept(q) == <<"fx.accept.requested", q>>
Submit(l) == <<"settlement.submit.requested", l>>

DirectReservation == <<Direct, "base">>

\* States of a reservation once its funds were held, and of an intent once its
\* quote may be accepted.
Held == {"RESERVED", "CONSUMED", "RELEASED"}
Concluded == {"READY_TO_ACCEPT", "TRADE_ACCEPTED"}

------------------------------------------------------------------------------
(* What the committed rows say of each other *)

\* Funds are consumed, released and credited only when the order closes.
FundsFollowOrder(d) ==
    /\ d.credited \/ (\E r \in Reservation : d.res[r] = "CONSUMED")
          => d.order.state = "OPERATIONALLY_CLOSED"
    /\ (\E r \in Reservation : d.res[r] = "RELEASED")
          => d.order.state = "OPERATIONALLY_CLOSED_UNSUCCESSFUL"
    /\ d.cancel = "ACCEPTED"
          => /\ d.order.state = "OPERATIONALLY_CLOSED_UNSUCCESSFUL"
             /\ d.order.outcome = "CANCELLED"

\* A reservation has its event, an FX reservation its intent, and the event is
\* published exactly when the funds have been held.
ReservationsHaveEvents(d) ==
    \A r \in Reservation :
        /\ d.res[r] = "ABSENT" <=> d.evt[Reserve(r)] = "ABSENT"
        /\ d.res[r] \in Held <=> d.evt[Reserve(r)] = "PUBLISHED"
        /\ r[1] \in Quote => (d.res[r] = "ABSENT" <=> d.intent[r[1]] = "ABSENT")

\* The acceptance of a quote is requested when both its funds are held.
IntentsAreFunded(d) ==
    \A q \in Quote :
        /\ d.evt[Accept(q)] # "ABSENT" <=> d.intent[q] \in Concluded
        /\ d.intent[q] \in Concluded => \A r \in Funds(q) : d.res[r] \in Held

\* One intent at most is a trade, and exactly then the FX legs exist.
OneTrade(d) ==
    /\ \A p, q \in Quote :
          d.intent[p] = "TRADE_ACCEPTED" /\ d.intent[q] = "TRADE_ACCEPTED" => p = q
    /\ \A l \in FxRole :
          /\ d.leg[l] # "ABSENT" <=> \E q \in Quote : d.intent[q] = "TRADE_ACCEPTED"
          /\ d.leg[l] # "ABSENT" <=> d.evt[Submit(l)] # "ABSENT"
    /\ d.leg["PAYMENT_VALUE"] # "ABSENT"

\* A message goes out before the value.
ValueFollowsMessage(d) ==
    /\ d.evt[Value] # "ABSENT" => d.evt[Message] # "ABSENT"
    /\ d.order.state = "MESSAGE_DELIVERED" => d.evt[Message] # "ABSENT"

\* A same-currency order has no FX rows, and its one reservation waits for the
\* screening and its message for the reservation.
DirectOnly(d, c, x) ==
    /\ d.compliance \in {"PENDING", IF c THEN "PASSED" ELSE "REJECTED"}
    /\ ~x => /\ \A q \in Quote : d.intent[q] = "ABSENT"
             /\ d.res[DirectReservation] # "ABSENT" => d.compliance = "PASSED"
             /\ d.evt[Message] # "ABSENT" => d.res[DirectReservation] \in Held

\* CloseIsComplete as a formula about one database.
Paid(d, x) ==
    \E i \in IF x THEN {q \in Quote : d.intent[q] = "TRADE_ACCEPTED"} ELSE {Direct} :
        \A r \in Funds(i) : d.res[r] = "CONSUMED"

Complete(d, x) ==
    d.order.state = "OPERATIONALLY_CLOSED" =>
        /\ d.order.outcome = "COMPLETED"
        /\ d.credited /\ d.journal
        /\ \A role \in Role : d.leg[role] \in {"ABSENT", "FINAL"}
        /\ Paid(d, x)

Rows(d, c, x) ==
    /\ FundsFollowOrder(d)
    /\ ReservationsHaveEvents(d)
    /\ IntentsAreFunded(d)
    /\ OneTrade(d)
    /\ ValueFollowsMessage(d)
    /\ DirectOnly(d, c, x)
    /\ Complete(d, x)

\* Rows b were committed before rows d: no row moves back, and the FX legs are
\* inserted under a new version of the order.
Past(b, d) ==
    /\ \A r \in Reservation : b.res[r] \in Held => d.res[r] \in Held
    /\ \A q \in Quote : b.intent[q] = "TRADE_ACCEPTED" => d.intent[q] = "TRADE_ACCEPTED"
    /\ \A l \in Role : /\ b.leg[l] # "ABSENT" => d.leg[l] # "ABSENT"
                       /\ b.leg[l] = "FINAL" => d.leg[l] = "FINAL"
    /\ b.journal => d.journal
    /\ b.compliance # "PENDING" => d.compliance # "PENDING"
    /\ \A k \in Event : b.evt[k] # "ABSENT" => d.evt[k] # "ABSENT"
    /\ b.order.version = d.order.version
          => \A l \in Role : d.leg[l] # "ABSENT" => b.leg[l] # "ABSENT"

\* A handler's event is pending, its alone, and was so in the rows it read,
\* which were good and are a past of the committed ones.
Jobs ==
    \A w \in Worker : job[w] # NoJob =>
        /\ Rows(job[w].base, clean, cross)
        /\ Past(job[w].base, db)
        /\ job[w].base.evt[job[w].event] = "PENDING"
        /\ db.evt[job[w].event] = "PENDING"
        /\ \A v \in Worker : job[v] # NoJob /\ v # w => job[v].event # job[w].event

ValueIsAsked == valueSent => db.evt[Value] # "ABSENT"

Saga == Rows(db, clean, cross) /\ Jobs /\ ValueIsAsked

------------------------------------------------------------------------------
(* What a handler writes: n is what it leaves of the rows d, for event e *)

WroteOrder(d, n, e, x) ==
    n.order # d.order =>
        /\ n.order.state = "MESSAGE_DELIVERED" => e = Message
        /\ n.order.state = "OPERATIONALLY_CLOSED" =>
              /\ e = Value
              /\ n.order.outcome = "COMPLETED"
              /\ n.credited /\ n.journal
              /\ \A l \in Role : n.leg[l] \in {"ABSENT", "FINAL"}
              /\ x => \A l \in FxRole : n.leg[l] = "FINAL"
              /\ \A r \in Reservation : d.res[r] = "RESERVED" => n.res[r] = "CONSUMED"

WroteReservation(d, n, e, c, x) ==
    \A r \in Reservation :
        \/ n.res[r] = d.res[r]
        \/ /\ r = DirectReservation /\ d.res[r] = "ABSENT" /\ n.res[r] = "PENDING"
           /\ d.evt[Reserve(r)] = "ABSENT" /\ n.evt[Reserve(r)] = "PENDING"
           /\ c /\ n.compliance = "PASSED"
        \/ e = Reserve(r) /\ n.res[r] = "RESERVED"
        \/ /\ d.res[r] = "RESERVED" /\ n.res[r] = "CONSUMED"
           /\ n.order # d.order /\ n.order.state = "OPERATIONALLY_CLOSED"
        \/ /\ d.res[r] = "RESERVED" /\ n.res[r] = "RELEASED"
           /\ n.order # d.order
           /\ n.order.state = "OPERATIONALLY_CLOSED_UNSUCCESSFUL"

WroteIntent(d, n, e) ==
    \A q \in Quote :
        \/ n.intent[q] = d.intent[q]
        \/ /\ d.intent[q] = "PREPARING" /\ n.intent[q] = "READY_TO_ACCEPT"
           /\ d.evt[Accept(q)] = "ABSENT" /\ n.evt[Accept(q)] = "PENDING"
           /\ \E r \in Funds(q) : e = Reserve(r)
           /\ \A r \in Funds(q) : d.res[r] # "ABSENT" => n.res[r] = "RESERVED"
        \/ /\ e = Accept(q) /\ n.intent[q] = "TRADE_ACCEPTED"
           /\ n.order # d.order
           /\ \A l \in FxRole : /\ d.leg[l] = "ABSENT" /\ n.leg[l] = "PENDING"
                                /\ n.evt[Submit(l)] # "ABSENT"

WroteLeg(d, n, e) ==
    \A l \in Role :
        \/ n.leg[l] = d.leg[l]
        \/ /\ l \in FxRole /\ d.leg[l] = "ABSENT" /\ n.leg[l] = "PENDING"
           /\ d.evt[Submit(l)] = "ABSENT" /\ n.evt[Submit(l)] = "PENDING"
           /\ \E q \in Quote : e = Accept(q) /\ n.intent[q] = "TRADE_ACCEPTED"
           /\ n.order # d.order
        \/ n.leg[l] = "FINAL" /\ l \in FxRole /\ e = Submit(l)
        \/ n.leg[l] = "FINAL" /\ l = "PAYMENT_VALUE" /\ e = Value

WroteEvent(d, n, e) ==
    \A k \in Event :
        \/ n.evt[k] = d.evt[k]
        \/ /\ d.evt[k] = "ABSENT" /\ n.evt[k] = "PENDING"
           /\ \/ /\ k = Reserve(DirectReservation)
                 /\ n.res[DirectReservation] # d.res[DirectReservation]
              \/ \E q \in Quote : k = Accept(q) /\ n.intent[q] # d.intent[q]
              \/ \E l \in FxRole : k = Submit(l) /\ n.leg[l] # d.leg[l]
              \/ /\ k = Message
                 /\ \/ e = Reserve(DirectReservation)
                    \/ \E l \in FxRole : e = Submit(l)
              \/ k = Value /\ e = Message

WroteBeside(d, n, e, c) ==
    /\ n.compliance = d.compliance \/ n.compliance = IF c THEN "PASSED" ELSE "REJECTED"
    /\ \/ n.credited = d.credited
       \/ n.credited /\ n.order # d.order /\ n.order.state = "OPERATIONALLY_CLOSED"
    /\ \/ n.cancel = d.cancel
       \/ /\ n.cancel = "ACCEPTED" /\ n.order # d.order
          /\ n.order.state = "OPERATIONALLY_CLOSED_UNSUCCESSFUL"
          /\ n.order.outcome = "CANCELLED"
    /\ n.journal = d.journal

Wrote(d, n, e, c, x) ==
    /\ WroteOrder(d, n, e, x)
    /\ WroteReservation(d, n, e, c, x)
    /\ WroteIntent(d, n, e)
    /\ WroteLeg(d, n, e)
    /\ WroteEvent(d, n, e)
    /\ WroteBeside(d, n, e, c)

------------------------------------------------------------------------------
(* Building blocks *)

\* The names are different for different topics, and tell their aggregate.
LEMMA EventKinds ==
    /\ Created[1] = "payment.created"
    /\ Message[1] = "payment.message.requested"
    /\ Value[1] = "payment.value.requested"
    /\ Cancellation[1] = "payment.cancellation.requested"
    /\ Refund[1] = "payment.return.requested"
    /\ \A r : Reserve(r)[1] = "funding.reserve.requested"
    /\ \A q : Accept(q)[1] = "fx.accept.requested" /\ Accept(q)[2] = q
    /\ \A l : Submit(l)[1] = "settlement.submit.requested" /\ Submit(l)[2] = l
  BY DEF Created, Message, Value, Cancellation, Refund, Reserve, Accept, Submit

\* A reservation's event names it.
LEMMA ReserveInjective ==
    ASSUME NEW r \in Reservation, NEW s \in Reservation, Reserve(r) = Reserve(s)
    PROVE  r = s
<1>1. Reserve(r)[2] = r[1] /\ Reserve(r)[3] = r[2]
      /\ Reserve(s)[2] = s[1] /\ Reserve(s)[3] = s[2]
  BY DEF Reserve
<1>2. r[1] = s[1] /\ r[2] = s[2]
  BY <1>1
<1>3. r = <<r[1], r[2]>> /\ s = <<s[1], s[2]>>
  BY DEF Reservation, FxReservation
<1> QED
  BY <1>2, <1>3

\* All of them are events, and there are no others.
LEMMA EventCases ==
    /\ Created \in Event /\ Message \in Event /\ Value \in Event
    /\ Cancellation \in Event /\ Refund \in Event
    /\ \A r \in Reservation : Reserve(r) \in Event
    /\ \A q \in Quote : Accept(q) \in Event
    /\ \A l \in FxRole : Submit(l) \in Event
    /\ \A e \in Event :
          \/ e \in {Created, Message, Value, Cancellation, Refund}
          \/ \E r \in Reservation : e = Reserve(r)
          \/ \E q \in Quote : e = Accept(q)
          \/ \E l \in FxRole : e = Submit(l)
<1>1. Created \in Event /\ Message \in Event /\ Value \in Event
      /\ Cancellation \in Event /\ Refund \in Event
  BY DEF Event, Created, Message, Value, Cancellation, Refund
<1>2. /\ \A r \in Reservation : Reserve(r) \in Event
      /\ \A q \in Quote : Accept(q) \in Event
      /\ \A l \in FxRole : Submit(l) \in Event
  BY EventNames DEF Reserve, Accept, Submit
<1>3. ASSUME NEW e \in Event
      PROVE  \/ e \in {Created, Message, Value, Cancellation, Refund}
             \/ \E r \in Reservation : e = Reserve(r)
             \/ \E q \in Quote : e = Accept(q)
             \/ \E l \in FxRole : e = Submit(l)
  BY DEF Event, Created, Message, Value, Cancellation, Refund, Reserve, Accept, Submit
<1> QED
  BY <1>1, <1>2, <1>3

\* The reservations are the two of each quote and the direct one.
LEMMA ReservationCases ==
    /\ DirectReservation \in Reservation
    /\ DirectReservation[1] = Direct
    /\ \A r \in Reservation : r[1] \in Quote \/ r = DirectReservation
    /\ \A r \in Reservation : r[1] = Direct <=> r = DirectReservation
    /\ Direct \notin Quote
  BY DirectAssumption DEF DirectReservation, Reservation, FxReservation

\* The rows of two databases agree but for the order, its limit and its events.
Untouched(a, b) ==
    /\ b.compliance = a.compliance
    /\ b.res = a.res
    /\ b.intent = a.intent
    /\ b.leg = a.leg
    /\ b.credited = a.credited
    /\ b.cancel = a.cancel
    /\ b.journal = a.journal

\* u is t after set_order_state to s.
StateSet(t, s, out, u) ==
    u.ok =>
        /\ t.ok
        /\ Untouched(t.db, u.db)
        /\ u.db.evt = t.db.evt
        /\ \/ u.db.order = t.db.order /\ t.db.order.state = s /\ s \in Terminal
           \/ /\ t.db.order.state \notin Terminal
              /\ u.db.order.state = s
              /\ out # "NONE" => u.db.order.outcome = out
              /\ u.db.order.version = t.db.order.version + 1

\* u is t after the insertion of event e, or after the look for an earlier one.
Enqueued(t, e, u) ==
    u.ok =>
        /\ t.ok
        /\ Untouched(t.db, u.db)
        /\ u.db.order = t.db.order
        /\ t.db.evt[e] = "ABSENT"
        /\ \A k \in Event : u.db.evt[k] = IF k = e THEN "PENDING" ELSE t.db.evt[k]

EnqueuedOnce(t, e, u) == (u = t) \/ Enqueued(t, e, u)

\* set_order_state is typed, and writes nothing but the order and the limit.
LEMMA SetOrderStateWrites ==
    ASSUME NEW t \in Txn, NEW s \in OrderState, NEW out \in Outcome
    PROVE  /\ SetOrderState(t, s, out) \in Txn
           /\ StateSet(t, s, out, SetOrderState(t, s, out))
<1> SUFFICES ASSUME NEW u, u = SetOrderState(t, s, out)
             PROVE  u \in Txn /\ StateSet(t, s, out, u)
  OBVIOUS
<1> DEFINE o == t.db.order
           next == [state |-> s,
                    outcome |-> IF out = "NONE" THEN o.outcome ELSE out,
                    version |-> o.version + 1]
           moved == [t EXCEPT !.db.order = next]
           paid == s = "OPERATIONALLY_CLOSED" /\ out = "COMPLETED"
           l == [reserved |-> moved.db.limit.reserved - 1,
                 consumed |-> IF paid THEN moved.db.limit.consumed + 1
                                      ELSE moved.db.limit.consumed]
           closed == [moved EXCEPT !.db.limit = l]
<1>1. o.outcome \in Outcome /\ o.version \in Nat
  BY DEF Txn, Database
<1>2. /\ next \in [state : OrderState, outcome : Outcome, version : Nat]
      /\ next.state = s /\ next.version = o.version + 1
      /\ out # "NONE" => next.outcome = out
  <2> HIDE DEF o
  <2>1. o.version + 1 \in Nat /\ (IF out = "NONE" THEN o.outcome ELSE out) \in Outcome
    BY <1>1
  <2> QED  BY <2>1, OrderRecord
<1> HIDE DEF next
<1>3. /\ moved \in Txn /\ moved.ok = t.ok /\ moved.db.order = next
      /\ Untouched(t.db, moved.db) /\ moved.db.evt = t.db.evt
  BY <1>2 DEF Txn, Database, Untouched
<1> HIDE DEF moved
<1>4. Raise(t) \in Txn /\ ~Raise(t).ok /\ Raise(moved) \in Txn /\ ~Raise(moved).ok
  BY <1>3 DEF Raise, Txn
<1>5. moved.db.limit.reserved >= 1 =>
        /\ closed \in Txn /\ closed.ok = t.ok /\ closed.db.order = next
        /\ Untouched(t.db, closed.db) /\ closed.db.evt = t.db.evt
  <2> SUFFICES ASSUME moved.db.limit.reserved >= 1
               PROVE  /\ closed \in Txn /\ closed.ok = t.ok /\ closed.db.order = next
                      /\ Untouched(t.db, closed.db) /\ closed.db.evt = t.db.evt
    OBVIOUS
  <2>1. moved.db.limit \in [reserved : Nat, consumed : Nat]
    BY <1>3 DEF Txn, Database
  <2>2. l \in [reserved : Nat, consumed : Nat]
    BY <2>1
  <2> HIDE DEF l
  <2> QED  BY <1>3, <2>2 DEF Txn, Database, Untouched
<1>6. FinalizeLimit(moved, paid) \in {Raise(moved), closed}
      /\ (moved.db.limit.reserved < 1 => FinalizeLimit(moved, paid) = Raise(moved))
  BY DEF FinalizeLimit
<1>7. moved.db.limit.reserved \in Nat
  BY <1>3 DEF Txn, Database
<1> DEFINE f == FinalizeLimit(moved, paid)
<1>8. f \in Txn /\ (f.ok => /\ t.ok /\ f.db.order = next
                            /\ Untouched(t.db, f.db) /\ f.db.evt = t.db.evt)
  <2> HIDE DEF closed, f
  <2>1. f \in {Raise(moved), closed} /\ (moved.db.limit.reserved < 1 => f = Raise(moved))
    BY <1>6 DEF f
  <2>2. moved.db.limit.reserved < 1 \/ moved.db.limit.reserved >= 1
    BY <1>7
  <2> QED  BY <1>4, <1>5, <2>1, <2>2
<1>9. u = IF ~t.ok \/ (o.state \in Terminal /\ o.state = s) THEN t
          ELSE IF \/ o.state \in Terminal
                  \/ s # o.state /\ s \notin AllowedOrderTransitions[o.state]
               THEN Raise(t)
          ELSE IF s \in Terminal THEN f ELSE moved
  BY DEF SetOrderState, moved, next
<1>10. Untouched(t.db, t.db)
  BY DEF Untouched
<1> HIDE DEF f
<1> QED
  BY <1>2, <1>3, <1>4, <1>8, <1>9, <1>10 DEF StateSet

\* An insertion of an event that returns found its key free.
LEMMA EnqueueWrites ==
    ASSUME NEW t \in Txn, NEW e \in Event
    PROVE  /\ Enqueue(t, e) \in Txn
           /\ Enqueued(t, e, Enqueue(t, e))
           /\ EnqueueOnce(t, e) \in Txn
           /\ EnqueuedOnce(t, e, EnqueueOnce(t, e))
<1> DEFINE i == [t EXCEPT !.db.evt[e] = "PENDING"]
<1>1. /\ i \in Txn /\ i.ok = t.ok
      /\ Untouched(t.db, i.db) /\ i.db.order = t.db.order
      /\ \A k \in Event : i.db.evt[k] = IF k = e THEN "PENDING" ELSE t.db.evt[k]
  BY DEF Txn, Database, EventState, Untouched
<1>2. Raise(t) \in Txn /\ ~Raise(t).ok
  BY DEF Raise, Txn
<1>3. Enqueue(t, e) = IF t.db.evt[e] = "ABSENT" THEN i ELSE Raise(t)
  BY DEF Enqueue
<1> HIDE DEF i
<1>4. Enqueue(t, e) \in Txn /\ Enqueued(t, e, Enqueue(t, e))
  BY <1>1, <1>2, <1>3 DEF Enqueued
<1>5. EnqueueOnce(t, e) \in {t, Enqueue(t, e)}
  BY DEF EnqueueOnce
<1> QED
  BY <1>4, <1>5 DEF EnqueuedOnce

\* A handler that returns at once has written nothing.
LEMMA NothingWrote ==
    ASSUME NEW d, NEW e, NEW c \in BOOLEAN, NEW x \in BOOLEAN
    PROVE  Wrote(d, d, e, c, x)
  BY DEF Wrote, WroteOrder, WroteReservation, WroteIntent, WroteLeg, WroteEvent,
         WroteBeside

------------------------------------------------------------------------------
(* The handlers *)

\* payment.created: the screening's verdict and perhaps the direct reservation.
LEMMA PaymentCreatedWrote ==
    ASSUME NEW d \in Database, NEW c \in BOOLEAN, NEW x \in BOOLEAN,
           NEW t, t = PaymentCreated(d, c, x), t.ok
    PROVE  Wrote(d, t.db, Created, c, x)
<1> DEFINE verdict == IF c THEN "PASSED" ELSE "REJECTED"
           screened == [Begin(d) EXCEPT !.db.compliance = verdict]
           moved == SetOrderState(screened, "RESERVATION_PENDING", "NONE")
           fx == SetOrderState(screened, "FX_ACCEPTANCE_PENDING", "NONE")
           rejected == SetOrderState(screened, "COMPLIANCE_REJECTED", "REJECTED")
           shut == SetOrderState(rejected, "OPERATIONALLY_CLOSED_UNSUCCESSFUL", "REJECTED")
           pending == [moved EXCEPT !.db.res[DirectReservation] = "PENDING"]
           asked == Enqueue(pending, Reserve(DirectReservation))
<1>1. /\ screened \in Txn /\ screened.db.order = d.order
      /\ screened.db.compliance = verdict
      /\ screened.db.res = d.res /\ screened.db.intent = d.intent
      /\ screened.db.leg = d.leg /\ screened.db.credited = d.credited
      /\ screened.db.cancel = d.cancel /\ screened.db.journal = d.journal
      /\ screened.db.evt = d.evt
  BY DEF Begin, Txn, Database
<1>2. Reserve(DirectReservation) = <<"funding.reserve.requested", Direct, "base">>
  BY DEF Reserve, DirectReservation
<1>3. t = IF ~c THEN shut
          ELSE IF \E q \in Quote : d.intent[q] # "ABSENT" THEN screened
          ELSE IF x THEN fx
          ELSE IF d.res[DirectReservation] # "ABSENT" THEN moved
          ELSE asked
  BY <1>2 DEF PaymentCreated, DirectReservation
<1>4. "OPERATIONALLY_CLOSED_UNSUCCESSFUL" \in Terminal
      /\ "COMPLIANCE_REJECTED" \notin Terminal
  BY DEF Terminal
<1> HIDE DEF screened
<1>5. CASE t = screened
  BY <1>1, <1>5 DEF Wrote, WroteOrder, WroteReservation, WroteIntent, WroteLeg,
                    WroteEvent, WroteBeside
<1>6. CASE t = moved
  <2> HIDE DEF moved
  <2>1. StateSet(screened, "RESERVATION_PENDING", "NONE", moved)
    BY <1>1, StateNames, SetOrderStateWrites DEF moved
  <2> QED
    BY <1>1, <1>6, <2>1
    DEF StateSet, Untouched, Wrote, WroteOrder, WroteReservation, WroteIntent,
        WroteLeg, WroteEvent, WroteBeside
<1>7. CASE t = fx
  <2> HIDE DEF fx
  <2>1. StateSet(screened, "FX_ACCEPTANCE_PENDING", "NONE", fx)
    BY <1>1, StateNames, SetOrderStateWrites DEF fx
  <2> QED
    BY <1>1, <1>7, <2>1
    DEF StateSet, Untouched, Wrote, WroteOrder, WroteReservation, WroteIntent,
        WroteLeg, WroteEvent, WroteBeside
<1>8. CASE t = shut
  <2> HIDE DEF rejected, shut
  <2>1. /\ rejected \in Txn
        /\ StateSet(screened, "COMPLIANCE_REJECTED", "REJECTED", rejected)
    BY <1>1, StateNames, SetOrderStateWrites DEF rejected
  <2>2. StateSet(rejected, "OPERATIONALLY_CLOSED_UNSUCCESSFUL", "REJECTED", shut)
    BY <2>1, StateNames, SetOrderStateWrites DEF shut
  <2> QED
    BY <1>1, <1>4, <1>8, <2>1, <2>2
    DEF StateSet, Untouched, Wrote, WroteOrder, WroteReservation, WroteIntent,
        WroteLeg, WroteEvent, WroteBeside
<1>9. CASE t = asked /\ c /\ d.res[DirectReservation] = "ABSENT"
  <2> DEFINE direct == DirectReservation
  <2>0. direct \in Reservation /\ Reserve(direct) \in Event
    BY ReservationCases, EventCases
  <2> HIDE DEF moved, asked, pending, direct
  <2>1. moved \in Txn /\ StateSet(screened, "RESERVATION_PENDING", "NONE", moved)
    BY <1>1, StateNames, SetOrderStateWrites DEF moved
  <2>2. /\ pending \in Txn /\ pending.ok = moved.ok
        /\ pending.db.order = moved.db.order /\ pending.db.evt = moved.db.evt
        /\ pending.db.compliance = moved.db.compliance
        /\ \A r \in Reservation : pending.db.res[r] =
              IF r = direct THEN "PENDING" ELSE moved.db.res[r]
        /\ pending.db.intent = moved.db.intent /\ pending.db.leg = moved.db.leg
        /\ pending.db.credited = moved.db.credited
        /\ pending.db.cancel = moved.db.cancel /\ pending.db.journal = moved.db.journal
    BY <2>0, <2>1, ZenonT(40) DEF pending, direct, Txn, Database, ReservationState
  <2>3. Enqueued(pending, Reserve(direct), asked)
    BY <2>0, <2>2, EnqueueWrites DEF asked, direct
  <2>4. moved.ok /\ pending.ok /\ asked.ok
    BY <1>9, <2>2, <2>3 DEF Enqueued
  <2>5. verdict = "PASSED"
    BY <1>9
  <2> HIDE DEF verdict
  <2>6. asked.db.order = d.order \/ asked.db.order.state = "RESERVATION_PENDING"
    BY <1>1, <2>1, <2>2, <2>3, <2>4 DEF StateSet, Enqueued
  <2>7. /\ asked.db.compliance = "PASSED"
        /\ asked.db.intent = d.intent /\ asked.db.leg = d.leg
        /\ asked.db.credited = d.credited /\ asked.db.cancel = d.cancel
        /\ asked.db.journal = d.journal
    BY <1>1, <2>1, <2>2, <2>3, <2>4, <2>5 DEF StateSet, Enqueued, Untouched
  <2>8. \A r \in Reservation :
           asked.db.res[r] = IF r = direct THEN "PENDING" ELSE d.res[r]
    BY <1>1, <2>1, <2>2, <2>3, <2>4 DEF StateSet, Enqueued, Untouched
  <2>9. /\ \A k \in Event : asked.db.evt[k] =
              IF k = Reserve(direct) THEN "PENDING" ELSE d.evt[k]
        /\ d.evt[Reserve(direct)] = "ABSENT"
    BY <1>1, <2>1, <2>2, <2>3, <2>4 DEF StateSet, Enqueued
  <2>10. direct = DirectReservation
    BY DEF direct
  <2>11. c /\ d.res[direct] = "ABSENT"
    BY <1>9, <2>10
  <2> HIDE DEF direct
  <2>12. WroteReservation(d, asked.db, Created, c, x)
    BY <2>0, <2>7, <2>8, <2>9, <2>10, <2>11 DEF WroteReservation
  <2>13. WroteEvent(d, asked.db, Created)
    <3>1. asked.db.res[direct] # d.res[direct]
      BY <2>0, <2>8, <2>11
    <3> QED
      BY <2>9, <2>10, <3>1 DEF WroteEvent
  <2>14. WroteOrder(d, asked.db, Created, x)
    BY <2>6 DEF WroteOrder
  <2>15. /\ WroteIntent(d, asked.db, Created) /\ WroteLeg(d, asked.db, Created)
         /\ WroteBeside(d, asked.db, Created, c)
    BY <2>7, <2>11 DEF WroteIntent, WroteLeg, WroteBeside
  <2> QED
    BY <1>9, <2>12, <2>13, <2>14, <2>15 DEF Wrote
<1> HIDE DEF moved, fx, shut, asked
<1> QED
  BY <1>3, <1>5, <1>6, <1>7, <1>8, <1>9

\* funding.reserve.requested: the hold, and perhaps the intent it completes.
LEMMA FundingReserveWrote ==
    ASSUME NEW d \in Database, NEW c \in BOOLEAN, NEW x \in BOOLEAN,
           NEW r \in Reservation, NEW t, t = FundingReserve(d, r), t.ok
    PROVE  Wrote(d, t.db, Reserve(r), c, x)
<1> DEFINE held == [Begin(d) EXCEPT !.db.res[r] = "RESERVED"]
           barrier == \A s \in Reservation :
                         s[1] = r[1] /\ d.res[s] # "ABSENT" => held.db.res[s] = "RESERVED"
           message == EnqueueOnce(held, Message)
           ready == [held EXCEPT !.db.intent[r[1]] = "READY_TO_ACCEPT"]
           asked == Enqueue(ready, Accept(r[1]))
           moved == SetOrderState(asked, "FX_ACCEPTANCE_PENDING", "NONE")
<1>1. /\ held \in Txn /\ held.db.order = d.order /\ held.db.evt = d.evt
      /\ held.db.compliance = d.compliance /\ held.db.intent = d.intent
      /\ \A s \in Reservation : held.db.res[s] = IF s = r THEN "RESERVED" ELSE d.res[s]
      /\ held.db.leg = d.leg /\ held.db.credited = d.credited
      /\ held.db.cancel = d.cancel /\ held.db.journal = d.journal
  BY ZenonT(40) DEF Begin, Txn, Database, ReservationState
<1>2. t = IF d.res[r] = "RESERVED" THEN Begin(d)
          ELSE IF ~barrier THEN held
          ELSE IF r[1] = Direct THEN message
          ELSE IF d.intent[r[1]] # "PREPARING" THEN held
          ELSE moved
  BY DEF FundingReserve, Message, Accept
<1>3. d.res \in [Reservation -> ReservationState] /\ d.evt \in [Event -> EventState]
      /\ d.intent \in [Quote -> {"ABSENT", "PREPARING", "READY_TO_ACCEPT", "TRADE_ACCEPTED"}]
  BY DEF Database
<1> HIDE DEF held
<1>4. CASE t = Begin(d)
  BY <1>4, NothingWrote DEF Begin
<1>5. CASE t = held
  BY <1>1, <1>3, <1>5 DEF Wrote, WroteOrder, WroteReservation, WroteIntent, WroteLeg,
                          WroteEvent, WroteBeside
<1>6. CASE t = message /\ r[1] = Direct
  <2>1. r = DirectReservation /\ Message \in Event
    BY <1>6, ReservationCases, EventCases
  <2> HIDE DEF message
  <2>2. EnqueuedOnce(held, Message, message)
    BY <1>1, <2>1, EnqueueWrites DEF message
  <2> QED
    BY <1>1, <1>3, <1>6, <2>1, <2>2
    DEF EnqueuedOnce, Enqueued, Untouched, Wrote, WroteOrder, WroteReservation,
        WroteIntent, WroteLeg, WroteEvent, WroteBeside
<1>7. CASE t = moved /\ barrier /\ r[1] # Direct /\ d.intent[r[1]] = "PREPARING"
  <2> DEFINE q == r[1]
  <2>1. q \in Quote /\ r \in Funds(q) /\ Accept(q) \in Event
    BY <1>7, ReservationCases, EventCases DEF Funds
  <2> HIDE DEF ready, asked, moved, q
  <2>2. /\ ready \in Txn /\ ready.ok = held.ok
        /\ ready.db.order = held.db.order /\ ready.db.evt = held.db.evt
        /\ ready.db.compliance = held.db.compliance /\ ready.db.res = held.db.res
        /\ \A p \in Quote : ready.db.intent[p] =
              IF p = q THEN "READY_TO_ACCEPT" ELSE d.intent[p]
        /\ ready.db.leg = held.db.leg /\ ready.db.credited = held.db.credited
        /\ ready.db.cancel = held.db.cancel /\ ready.db.journal = held.db.journal
    BY <1>1, <2>1, SMTT(30) DEF ready, q, Txn, Database
  <2>3. asked \in Txn /\ Enqueued(ready, Accept(q), asked)
    BY <2>1, <2>2, EnqueueWrites DEF asked, q
  <2>4. StateSet(asked, "FX_ACCEPTANCE_PENDING", "NONE", moved)
    BY <2>3, StateNames, SetOrderStateWrites DEF moved
  <2>5. /\ \A p \in Quote : t.db.intent[p] =
              IF p = q THEN "READY_TO_ACCEPT" ELSE d.intent[p]
        /\ t.db.res = held.db.res
        /\ \A k \in Event : t.db.evt[k] =
              IF k = Accept(q) THEN "PENDING" ELSE d.evt[k]
        /\ d.evt[Accept(q)] = "ABSENT"
        /\ t.db.compliance = d.compliance /\ t.db.leg = d.leg
        /\ t.db.credited = d.credited /\ t.db.cancel = d.cancel
        /\ t.db.journal = d.journal
        /\ (t.db.order = d.order \/ t.db.order.state = "FX_ACCEPTANCE_PENDING")
    BY <1>1, <1>7, <2>2, <2>3, <2>4 DEF StateSet, Enqueued, Untouched
  <2>6. d.intent[q] = "PREPARING"
        /\ \A s \in Funds(q) : d.res[s] # "ABSENT" => t.db.res[s] = "RESERVED"
    BY <1>7, <2>5 DEF q, Funds
  <2> QED
    BY <1>1, <2>1, <2>5, <2>6
    DEF Wrote, WroteOrder, WroteReservation, WroteIntent, WroteLeg, WroteEvent, WroteBeside
<1> HIDE DEF message, moved, barrier
<1> QED
  BY <1>2, <1>4, <1>5, <1>6, <1>7

\* A leg of the order becomes PENDING, and nothing else changes.
LegOpened(t, role, u) ==
    /\ u \in Txn /\ u.ok = t.ok
    /\ u.db.order = t.db.order /\ u.db.evt = t.db.evt
    /\ u.db.compliance = t.db.compliance /\ u.db.res = t.db.res
    /\ u.db.intent = t.db.intent
    /\ \A l \in Role : u.db.leg[l] = IF l = role THEN "PENDING" ELSE t.db.leg[l]
    /\ u.db.credited = t.db.credited
    /\ u.db.cancel = t.db.cancel /\ u.db.journal = t.db.journal

LEMMA LegOpens ==
    ASSUME NEW t \in Txn, NEW role \in Role, NEW u, u = [t EXCEPT !.db.leg[role] = "PENDING"]
    PROVE  LegOpened(t, role, u)
<1>1. PICK n : n = [t.db EXCEPT !.leg = [t.db.leg EXCEPT ![role] = "PENDING"]]
  OBVIOUS
<1>2. t.db \in Database
  BY DEF Txn
<1>3. t.db.leg \in [Role -> {"ABSENT", "PENDING", "FINAL"}]
  BY <1>2 DEF Database
<1>4. [t.db.leg EXCEPT ![role] = "PENDING"] \in [Role -> {"ABSENT", "PENDING", "FINAL"}]
  BY <1>3
<1>5. n \in Database
  BY <1>1, <1>2, <1>4 DEF Database
<1>6. u = [t EXCEPT !.db = n]
  BY <1>1
<1>7. u \in Txn /\ u.ok = t.ok /\ u.db = n
  BY <1>5, <1>6 DEF Txn
<1>8. /\ n.order = t.db.order /\ n.evt = t.db.evt
      /\ n.compliance = t.db.compliance /\ n.res = t.db.res
      /\ n.intent = t.db.intent
      /\ n.leg = [t.db.leg EXCEPT ![role] = "PENDING"]
      /\ n.credited = t.db.credited
      /\ n.cancel = t.db.cancel /\ n.journal = t.db.journal
  BY <1>1, <1>2 DEF Database
<1> QED
  BY <1>3, <1>7, <1>8 DEF LegOpened

\* fx.accept.requested: the trade with its two legs, or the unique key raises.
LEMMA FxAcceptWrote ==
    ASSUME NEW d \in Database, NEW c \in BOOLEAN, NEW x \in BOOLEAN,
           NEW q \in Quote, NEW t, t = FxAccept(d, q), t.ok
    PROVE  Wrote(d, t.db, Accept(q), c, x)
<1> DEFINE trade == [Begin(d) EXCEPT !.db.intent[q] = "TRADE_ACCEPTED"]
           moved == SetOrderState(trade, "FX_ACCEPTED", "NONE")
           legs == [moved EXCEPT !.db.leg["FX_SELL"] = "PENDING",
                                 !.db.leg["FX_BUY"] = "PENDING"]
           sell == Enqueue(legs, Submit("FX_SELL"))
           both == Enqueue(sell, Submit("FX_BUY"))
<1>1. /\ trade \in Txn /\ trade.ok /\ trade.db.order = d.order /\ trade.db.evt = d.evt
      /\ trade.db.compliance = d.compliance /\ trade.db.res = d.res
      /\ \A p \in Quote : trade.db.intent[p] =
            IF p = q THEN "TRADE_ACCEPTED" ELSE d.intent[p]
      /\ trade.db.leg = d.leg /\ trade.db.credited = d.credited
      /\ trade.db.cancel = d.cancel /\ trade.db.journal = d.journal
  BY ZenonT(40) DEF Begin, Txn, Database
<1>2. t = IF d.intent[q] = "TRADE_ACCEPTED" THEN Begin(d)
          ELSE IF \E l \in FxRole : d.leg[l] # "ABSENT" THEN Raise(moved)
          ELSE both
  BY DEF FxAccept, Submit
<1>3. /\ "FX_SELL" \in Role /\ "FX_BUY" \in Role
      /\ FxRole = {"FX_SELL", "FX_BUY"} /\ FxRole \subseteq Role
      /\ Submit("FX_SELL") \in Event /\ Submit("FX_BUY") \in Event
      /\ Submit("FX_SELL") # Submit("FX_BUY")
  <2>1. "FX_SELL" \in FxRole /\ "FX_BUY" \in FxRole /\ FxRole \subseteq Role
        /\ FxRole = {"FX_SELL", "FX_BUY"}
    BY DEF FxRole, Role
  <2>2. Submit("FX_SELL")[2] = "FX_SELL" /\ Submit("FX_BUY")[2] = "FX_BUY"
    BY EventKinds
  <2> QED  BY <2>1, <2>2, EventCases
<1> HIDE DEF trade
<1>4. CASE t = Begin(d)
  BY <1>4, NothingWrote DEF Begin
<1>5. CASE t = Raise(moved)
  <2>1. moved \in Txn
    BY <1>1, StateNames, SetOrderStateWrites
  <2> HIDE DEF moved
  <2>2. ~Raise(moved).ok
    BY <2>1 DEF Raise, Txn
  <2> QED  BY <1>5, <2>2
<1>6. CASE t = both /\ \A l \in FxRole : d.leg[l] = "ABSENT"
  <2> HIDE DEF moved, legs, sell, both
  <2>1. moved \in Txn /\ StateSet(trade, "FX_ACCEPTED", "NONE", moved)
    BY <1>1, StateNames, SetOrderStateWrites DEF moved
  <2>2. /\ legs \in Txn /\ legs.ok = moved.ok
        /\ legs.db.order = moved.db.order /\ legs.db.evt = moved.db.evt
        /\ legs.db.compliance = moved.db.compliance /\ legs.db.res = moved.db.res
        /\ legs.db.intent = moved.db.intent
        /\ \A l \in Role : legs.db.leg[l] =
              IF l \in FxRole THEN "PENDING" ELSE moved.db.leg[l]
        /\ legs.db.credited = moved.db.credited
        /\ legs.db.cancel = moved.db.cancel /\ legs.db.journal = moved.db.journal
    <3>1. PICK one : one = [moved EXCEPT !.db.leg["FX_SELL"] = "PENDING"]
      OBVIOUS
    <3>2. legs = [one EXCEPT !.db.leg["FX_BUY"] = "PENDING"]
      BY <3>1 DEF legs
    <3>3. LegOpened(moved, "FX_SELL", one)
      BY <1>3, <2>1, <3>1, LegOpens
    <3>4. one \in Txn
      BY <3>3 DEF LegOpened
    <3>5. LegOpened(one, "FX_BUY", legs)
      BY <1>3, <3>2, <3>4, LegOpens
    <3> QED
      BY <1>3, <3>3, <3>5 DEF LegOpened
  <2>3. sell \in Txn /\ Enqueued(legs, Submit("FX_SELL"), sell)
    BY <1>3, <2>2, EnqueueWrites DEF sell
  <2>4. Enqueued(sell, Submit("FX_BUY"), both)
    BY <1>3, <2>3, EnqueueWrites DEF both
  <2>5. both.ok /\ sell.ok /\ legs.ok /\ moved.ok
    BY <1>6, <2>2, <2>3, <2>4 DEF Enqueued
  <2>6. both.db.order # d.order /\ both.db.order.state = "FX_ACCEPTED"
    <3>1. d.order.version \in Nat
      BY DEF Database
    <3>2. moved.db.order.state = "FX_ACCEPTED"
          /\ moved.db.order.version = d.order.version + 1
      BY <1>1, <2>1, <2>5 DEF StateSet, Terminal
    <3> QED  BY <2>2, <2>3, <2>4, <2>5, <3>1, <3>2 DEF Enqueued
  <2>7. /\ both.db.compliance = d.compliance /\ both.db.res = d.res
        /\ both.db.credited = d.credited
        /\ both.db.cancel = d.cancel /\ both.db.journal = d.journal
    BY <1>1, <2>1, <2>2, <2>3, <2>4, <2>5 DEF StateSet, Enqueued, Untouched
  <2>8. /\ \A p \in Quote : both.db.intent[p] =
              IF p = q THEN "TRADE_ACCEPTED" ELSE d.intent[p]
        /\ \A l \in Role : both.db.leg[l] =
              IF l \in FxRole THEN "PENDING" ELSE d.leg[l]
    BY <1>1, <2>1, <2>2, <2>3, <2>4, <2>5 DEF StateSet, Enqueued, Untouched
  <2>9. /\ \A k \in Event : both.db.evt[k] =
              IF k \in {Submit("FX_SELL"), Submit("FX_BUY")} THEN "PENDING" ELSE d.evt[k]
        /\ d.evt[Submit("FX_SELL")] = "ABSENT" /\ d.evt[Submit("FX_BUY")] = "ABSENT"
    BY <1>1, <1>3, <2>1, <2>2, <2>3, <2>4, <2>5 DEF StateSet, Enqueued
  <2> QED
    BY <1>3, <1>6, <2>6, <2>7, <2>8, <2>9
    DEF Wrote, WroteOrder, WroteReservation, WroteIntent, WroteLeg, WroteEvent, WroteBeside
<1> HIDE DEF moved, both
<1> QED
  BY <1>2, <1>4, <1>5, <1>6

\* settlement.submit.requested: one final leg, and the message after the last.
LEMMA SettlementSubmitWrote ==
    ASSUME NEW d \in Database, NEW c \in BOOLEAN, NEW x \in BOOLEAN,
           NEW l \in FxRole, NEW t, t = SettlementSubmit(d, l), t.ok
    PROVE  Wrote(d, t.db, Submit(l), c, x)
<1> DEFINE final == [Begin(d) EXCEPT !.db.leg[l] = "FINAL"]
           message == EnqueueOnce(final, Message)
<1>0. l \in Role /\ Message \in Event
  BY EventCases DEF Role
<1>1. /\ final \in Txn /\ final.db.order = d.order /\ final.db.evt = d.evt
      /\ final.db.compliance = d.compliance /\ final.db.res = d.res
      /\ final.db.intent = d.intent
      /\ \A m \in Role : final.db.leg[m] = IF m = l THEN "FINAL" ELSE d.leg[m]
      /\ final.db.credited = d.credited
      /\ final.db.cancel = d.cancel /\ final.db.journal = d.journal
  BY <1>0, ZenonT(40) DEF Begin, Txn, Database
<1>2. t \in {Begin(d), message, final}
  BY DEF SettlementSubmit, Message
<1> HIDE DEF final
<1>3. CASE t = Begin(d)
  BY <1>3, NothingWrote DEF Begin
<1>4. CASE t = final
  BY <1>1, <1>4 DEF Wrote, WroteOrder, WroteReservation, WroteIntent, WroteLeg,
                    WroteEvent, WroteBeside
<1>5. CASE t = message
  <2> HIDE DEF message
  <2>1. EnqueuedOnce(final, Message, message)
    BY <1>0, <1>1, EnqueueWrites DEF message
  <2> QED
    BY <1>1, <1>5, <2>1
    DEF EnqueuedOnce, Enqueued, Untouched, Wrote, WroteOrder, WroteReservation,
        WroteIntent, WroteLeg, WroteEvent, WroteBeside
<1> HIDE DEF message
<1> QED
  BY <1>2, <1>3, <1>4, <1>5

\* payment.message.requested: delivery and the value event.
LEMMA MessageSendWrote ==
    ASSUME NEW d \in Database, NEW c \in BOOLEAN, NEW x \in BOOLEAN,
           NEW t, t = MessageSend(d), t.ok
    PROVE  Wrote(d, t.db, Message, c, x)
<1> DEFINE sent == SetOrderState(Begin(d), "MESSAGE_DELIVERED", "NONE")
           value == EnqueueOnce(sent, Value)
<1>1. Begin(d) \in Txn /\ Begin(d).db = d
  BY DEF Begin, Txn
<1>2. t = value
  BY DEF MessageSend, Value
<1> HIDE DEF sent, value
<1>3. sent \in Txn /\ StateSet(Begin(d), "MESSAGE_DELIVERED", "NONE", sent)
  BY <1>1, StateNames, SetOrderStateWrites DEF sent
<1>4. EnqueuedOnce(sent, Value, value)
  BY <1>3, EventCases, EnqueueWrites DEF value
<1>5. /\ value.db.order = d.order \/ value.db.order.state = "MESSAGE_DELIVERED"
      /\ Untouched(d, value.db)
      /\ \A k \in Event :
            \/ value.db.evt[k] = d.evt[k]
            \/ k = Value /\ d.evt[k] = "ABSENT" /\ value.db.evt[k] = "PENDING"
  BY <1>1, <1>2, <1>3, <1>4 DEF StateSet, EnqueuedOnce, Enqueued, Untouched
<1> QED
  BY <1>2, <1>5
  DEF Untouched, Wrote, WroteOrder, WroteReservation, WroteIntent, WroteLeg,
      WroteEvent, WroteBeside

\* payment.value.requested: the credit and the closed order, or nothing.
LEMMA PaymentValueWrote ==
    ASSUME NEW d \in Database, NEW c \in BOOLEAN, NEW x \in BOOLEAN,
           NEW t, t = PaymentValue(d, x), t.ok
    PROVE  Wrote(d, t.db, Value, c, x)
<1> DEFINE final == [Begin(d) EXCEPT !.db.leg["PAYMENT_VALUE"] = "FINAL"]
           moved == SetOrderState(final, "VALUE_SETTLEMENT", "NONE")
           spent == [r \in Reservation |->
                        IF moved.db.res[r] = "RESERVED" THEN "CONSUMED"
                                                        ELSE moved.db.res[r]]
           consumed == [moved EXCEPT !.db.res = spent, !.db.credited = TRUE]
           completed == SetOrderState(consumed, "CUSTOMER_COMPLETED", "COMPLETED")
           closed == SetOrderState(completed, "OPERATIONALLY_CLOSED", "COMPLETED")
<1>0. "PAYMENT_VALUE" \in Role /\ "PAYMENT_VALUE" \notin FxRole /\ FxRole \subseteq Role
  BY DEF Role, FxRole
<1>1. /\ final \in Txn /\ final.db.order = d.order /\ final.db.evt = d.evt
      /\ final.db.compliance = d.compliance /\ final.db.res = d.res
      /\ final.db.intent = d.intent
      /\ \A m \in Role : final.db.leg[m] = IF m = "PAYMENT_VALUE" THEN "FINAL" ELSE d.leg[m]
      /\ final.db.credited = d.credited
      /\ final.db.cancel = d.cancel /\ final.db.journal = d.journal
  BY <1>0, ZenonT(40) DEF Begin, Txn, Database
<1>2. t = IF d.leg["PAYMENT_VALUE"] = "FINAL" THEN Begin(d)
          ELSE IF CompletionAllowed(completed.db, x) THEN closed ELSE Raise(completed)
  BY DEF PaymentValue, CompletePayment
<1> HIDE DEF final
<1>3. CASE t = Begin(d)
  BY <1>3, NothingWrote DEF Begin
<1> HIDE DEF moved, completed, closed
<1>4. moved \in Txn /\ StateSet(final, "VALUE_SETTLEMENT", "NONE", moved)
  BY <1>1, StateNames, SetOrderStateWrites DEF moved
<1>5. /\ spent \in [Reservation -> ReservationState]
      /\ \A r \in Reservation : spent[r] =
            IF moved.db.res[r] = "RESERVED" THEN "CONSUMED" ELSE moved.db.res[r]
  BY <1>4 DEF Txn, Database, ReservationState
<1> HIDE DEF spent, consumed
<1>6. /\ consumed \in Txn /\ consumed.ok = moved.ok
      /\ consumed.db.order = moved.db.order /\ consumed.db.evt = moved.db.evt
      /\ consumed.db.compliance = moved.db.compliance /\ consumed.db.res = spent
      /\ consumed.db.intent = moved.db.intent /\ consumed.db.leg = moved.db.leg
      /\ consumed.db.credited = TRUE
      /\ consumed.db.cancel = moved.db.cancel /\ consumed.db.journal = moved.db.journal
  BY <1>4, <1>5 DEF consumed, Txn, Database
<1>7. completed \in Txn /\ StateSet(consumed, "CUSTOMER_COMPLETED", "COMPLETED", completed)
  BY <1>6, StateNames, SetOrderStateWrites DEF completed
<1>8. StateSet(completed, "OPERATIONALLY_CLOSED", "COMPLETED", closed)
  BY <1>7, StateNames, SetOrderStateWrites DEF closed
<1>9. CASE t = Raise(completed)
  <2>1. ~Raise(completed).ok
    BY <1>7 DEF Raise, Txn
  <2> QED  BY <1>9, <2>1
<1>10. CASE t = closed /\ CompletionAllowed(completed.db, x)
  <2>1. closed.ok /\ completed.ok /\ consumed.ok /\ moved.ok
    BY <1>6, <1>7, <1>8, <1>10 DEF StateSet
  <2>2. /\ closed.db.order # d.order
        /\ closed.db.order.state = "OPERATIONALLY_CLOSED"
        /\ closed.db.order.outcome = "COMPLETED"
    <3>1. /\ d.order.version \in Nat
          /\ "VALUE_SETTLEMENT" \notin Terminal /\ "CUSTOMER_COMPLETED" \notin Terminal
      BY DEF Database, Terminal
    <3>2. moved.db.order.version = d.order.version + 1
      BY <1>1, <1>4, <2>1, <3>1 DEF StateSet
    <3>3. completed.db.order.version = moved.db.order.version + 1
          /\ completed.db.order.state = "CUSTOMER_COMPLETED"
      BY <1>6, <1>7, <2>1, <3>1 DEF StateSet
    <3>4. /\ closed.db.order.version = completed.db.order.version + 1
          /\ closed.db.order.state = "OPERATIONALLY_CLOSED"
          /\ closed.db.order.outcome = "COMPLETED"
      BY <1>8, <2>1, <3>1, <3>3 DEF StateSet
    <3> QED  BY <3>1, <3>2, <3>3, <3>4
  <2>3. /\ closed.db.compliance = d.compliance /\ closed.db.evt = d.evt
        /\ closed.db.credited = TRUE /\ closed.db.intent = d.intent
        /\ closed.db.cancel = d.cancel /\ closed.db.journal = d.journal
    BY <1>1, <1>4, <1>6, <1>7, <1>8, <2>1 DEF StateSet, Untouched
  <2>4. /\ closed.db.leg = completed.db.leg /\ closed.db.journal = completed.db.journal
        /\ closed.db.res = spent /\ moved.db.res = d.res
        /\ \A m \in Role : closed.db.leg[m] =
              IF m = "PAYMENT_VALUE" THEN "FINAL" ELSE d.leg[m]
    BY <1>1, <1>4, <1>6, <1>7, <1>8, <2>1 DEF StateSet, Untouched
  <2>5. /\ \A l \in Role : closed.db.leg[l] \in {"ABSENT", "FINAL"}
        /\ x => \A l \in FxRole : closed.db.leg[l] = "FINAL"
        /\ closed.db.journal
    BY <1>10, <2>4 DEF CompletionAllowed
  <2> QED
    BY <1>0, <1>5, <1>10, <2>2, <2>3, <2>4, <2>5
    DEF Wrote, WroteOrder, WroteReservation, WroteIntent, WroteLeg, WroteEvent, WroteBeside
<1> QED
  BY <1>2, <1>3, <1>9, <1>10

\* payment.cancellation.requested: the release and the closed order, or nothing.
LEMMA CancelWrote ==
    ASSUME NEW d \in Database, NEW c \in BOOLEAN, NEW x \in BOOLEAN,
           NEW t, t = Cancel(d), t.ok
    PROVE  Wrote(d, t.db, Cancellation, c, x)
<1> DEFINE freed == [r \in Reservation |->
                        IF d.res[r] = "RESERVED" THEN "RELEASED" ELSE d.res[r]]
           accepted == [Begin(d) EXCEPT !.db.cancel = "ACCEPTED", !.db.res = freed]
           cancelled == SetOrderState(accepted, "EXECUTION_CANCELLED", "CANCELLED")
           closed == SetOrderState(cancelled, "OPERATIONALLY_CLOSED_UNSUCCESSFUL", "CANCELLED")
<1>1. /\ freed \in [Reservation -> ReservationState]
      /\ \A r \in Reservation : freed[r] =
            IF d.res[r] = "RESERVED" THEN "RELEASED" ELSE d.res[r]
  BY DEF Database, ReservationState
<1>2. t = IF d.leg["PAYMENT_VALUE"] = "FINAL" THEN Begin(d)
          ELSE IF d.cancel # "REQUESTED" THEN Raise(Begin(d)) ELSE closed
  BY DEF Cancel, Begin
<1> HIDE DEF freed, accepted, cancelled, closed
<1>3. /\ accepted \in Txn /\ accepted.db.order = d.order /\ accepted.db.evt = d.evt
      /\ accepted.db.compliance = d.compliance /\ accepted.db.res = freed
      /\ accepted.db.intent = d.intent /\ accepted.db.leg = d.leg
      /\ accepted.db.credited = d.credited
      /\ accepted.db.cancel = "ACCEPTED" /\ accepted.db.journal = d.journal
  BY <1>1 DEF accepted, Begin, Txn, Database
<1>4. /\ cancelled \in Txn
      /\ StateSet(accepted, "EXECUTION_CANCELLED", "CANCELLED", cancelled)
  BY <1>3, StateNames, SetOrderStateWrites DEF cancelled
<1>5. StateSet(cancelled, "OPERATIONALLY_CLOSED_UNSUCCESSFUL", "CANCELLED", closed)
  BY <1>4, StateNames, SetOrderStateWrites DEF closed
<1>6. CASE t = Begin(d)
  BY <1>6, NothingWrote DEF Begin
<1>7. CASE t = Raise(Begin(d))
  <2>1. ~Raise(Begin(d)).ok
    BY DEF Raise, Begin
  <2> QED  BY <1>7, <2>1
<1>8. CASE t = closed
  <2>1. closed.ok /\ cancelled.ok /\ accepted.ok
    BY <1>4, <1>5, <1>8 DEF StateSet
  <2>2. /\ closed.db.order # d.order
        /\ closed.db.order.state = "OPERATIONALLY_CLOSED_UNSUCCESSFUL"
        /\ closed.db.order.outcome = "CANCELLED"
    <3>1. d.order.version \in Nat /\ "EXECUTION_CANCELLED" \notin Terminal
      BY DEF Database, Terminal
    <3>2. cancelled.db.order.version = d.order.version + 1
          /\ cancelled.db.order.state = "EXECUTION_CANCELLED"
      BY <1>3, <1>4, <2>1, <3>1 DEF StateSet
    <3>3. /\ closed.db.order.version = cancelled.db.order.version + 1
          /\ closed.db.order.state = "OPERATIONALLY_CLOSED_UNSUCCESSFUL"
          /\ closed.db.order.outcome = "CANCELLED"
      BY <1>5, <2>1, <3>1, <3>2 DEF StateSet
    <3> QED  BY <3>1, <3>2, <3>3
  <2>3. /\ closed.db.compliance = d.compliance /\ closed.db.evt = d.evt
        /\ closed.db.credited = d.credited /\ closed.db.intent = d.intent
        /\ closed.db.leg = d.leg /\ closed.db.journal = d.journal
        /\ closed.db.cancel = "ACCEPTED" /\ closed.db.res = freed
    BY <1>3, <1>4, <1>5, <2>1 DEF StateSet, Untouched
  <2> QED
    BY <1>1, <1>8, <2>2, <2>3
    DEF Wrote, WroteOrder, WroteReservation, WroteIntent, WroteLeg, WroteEvent, WroteBeside
<1> QED
  BY <1>2, <1>6, <1>7, <1>8

\* payment.return.requested: only the return's own row.
LEMMA ReturnWrote ==
    ASSUME NEW d \in Database, NEW c \in BOOLEAN, NEW x \in BOOLEAN,
           NEW t, t = Return(d), t.ok
    PROVE  Wrote(d, t.db, Refund, c, x)
<1>1. t = [Begin(d) EXCEPT !.db.ret = "FINAL"]
  BY DEF Return, ReturnAnswer, Raise, Begin
<1>2. /\ t.db.order = d.order /\ t.db.compliance = d.compliance
      /\ t.db.res = d.res /\ t.db.intent = d.intent /\ t.db.leg = d.leg
      /\ t.db.credited = d.credited /\ t.db.cancel = d.cancel
      /\ t.db.journal = d.journal /\ t.db.evt = d.evt
  BY <1>1 DEF Begin, Database
<1> QED
  BY <1>2 DEF Wrote, WroteOrder, WroteReservation, WroteIntent, WroteLeg,
             WroteEvent, WroteBeside

\* ProductionWorker._handle: whatever the event, a handler that returns has
\* written no more than Wrote allows.
THEOREM HandlerWrote ==
    ASSUME NEW d \in Database, NEW e \in Event, NEW c \in BOOLEAN,
           NEW x \in BOOLEAN, NEW t, t = Handle(d, e, c, x), t.ok
    PROVE  Wrote(d, t.db, e, c, x)
<1>1. CASE e = Created
  <2>1. t = PaymentCreated(d, c, x)
    BY <1>1 DEF Handle, Created
  <2> QED  BY <1>1, <2>1, PaymentCreatedWrote
<1>2. ASSUME NEW r \in Reservation, e = Reserve(r)
      PROVE  Wrote(d, t.db, e, c, x)
  <2>1. t = FundingReserve(d, <<r[1], r[2]>>)
    BY <1>2 DEF Handle, Reserve
  <2>2. <<r[1], r[2]>> = r
    BY DEF Reservation, FxReservation
  <2> QED  BY <1>2, <2>1, <2>2, FundingReserveWrote
<1>3. ASSUME NEW q \in Quote, e = Accept(q)
      PROVE  Wrote(d, t.db, e, c, x)
  <2>1. t = FxAccept(d, q)
    BY <1>3 DEF Handle, Accept
  <2> QED  BY <1>3, <2>1, FxAcceptWrote
<1>4. ASSUME NEW l \in FxRole, e = Submit(l)
      PROVE  Wrote(d, t.db, e, c, x)
  <2>1. t = SettlementSubmit(d, l)
    BY <1>4 DEF Handle, Submit
  <2> QED  BY <1>4, <2>1, SettlementSubmitWrote
<1>5. CASE e = Message
  <2>1. t = MessageSend(d)
    BY <1>5 DEF Handle, Message
  <2> QED  BY <1>5, <2>1, MessageSendWrote
<1>6. CASE e = Value
  <2>1. t = PaymentValue(d, x)
    BY <1>6 DEF Handle, Value
  <2> QED  BY <1>6, <2>1, PaymentValueWrote
<1>7. CASE e = Cancellation
  <2>1. t = Cancel(d)
    BY <1>7 DEF Handle, Cancellation
  <2> QED  BY <1>7, <2>1, CancelWrote
<1>8. CASE e = Refund
  <2>1. t = Return(d)
    BY <1>8 DEF Handle, Refund
  <2> QED  BY <1>8, <2>1, ReturnWrote
<1> QED
  BY <1>1, <1>2, <1>3, <1>4, <1>5, <1>6, <1>7, <1>8, EventCases

\* A reservation's handler that returns has held the funds.
LEMMA FundingReserveHolds ==
    ASSUME NEW d \in Database, NEW c \in BOOLEAN, NEW x \in BOOLEAN,
           NEW r \in Reservation, NEW t, t = Handle(d, Reserve(r), c, x), t.ok
    PROVE  t.db.res[r] = "RESERVED"
<1> DEFINE held == [Begin(d) EXCEPT !.db.res[r] = "RESERVED"]
           message == EnqueueOnce(held, Message)
           ready == [held EXCEPT !.db.intent[r[1]] = "READY_TO_ACCEPT"]
           asked == Enqueue(ready, Accept(r[1]))
           moved == SetOrderState(asked, "FX_ACCEPTANCE_PENDING", "NONE")
<1>1. t = FundingReserve(d, r)
  <2>1. t = FundingReserve(d, <<r[1], r[2]>>)
    BY DEF Handle, Reserve
  <2>2. <<r[1], r[2]>> = r
    BY DEF Reservation, FxReservation
  <2> QED  BY <2>1, <2>2
<1>2. held \in Txn /\ held.db.res[r] = "RESERVED"
  BY ZenonT(40) DEF Begin, Txn, Database, ReservationState
<1>3. \/ t = Begin(d) /\ d.res[r] = "RESERVED"
      \/ t = held
      \/ t = message
      \/ t = moved /\ r[1] # Direct
  BY <1>1 DEF FundingReserve, Message, Accept
<1> HIDE DEF held
<1>4. CASE t = Begin(d) /\ d.res[r] = "RESERVED"
  BY <1>4 DEF Begin
<1>5. CASE t = message
  <2> HIDE DEF message
  <2>1. EnqueuedOnce(held, Message, message)
    BY <1>2, EventCases, EnqueueWrites DEF message
  <2> QED
    BY <1>2, <1>5, <2>1 DEF EnqueuedOnce, Enqueued, Untouched
<1>6. CASE t = moved /\ r[1] # Direct
  <2>0. r[1] \in Quote /\ Accept(r[1]) \in Event
    BY <1>6, ReservationCases, EventCases
  <2>1. ready \in Txn /\ ready.db.res = held.db.res
    BY <1>2, <2>0, SMTT(30) DEF Txn, Database
  <2> HIDE DEF ready, asked, moved
  <2>2. asked \in Txn /\ Enqueued(ready, Accept(r[1]), asked)
    BY <2>0, <2>1, EnqueueWrites DEF asked
  <2>3. StateSet(asked, "FX_ACCEPTANCE_PENDING", "NONE", moved)
    BY <2>2, StateNames, SetOrderStateWrites DEF moved
  <2>4. moved.ok /\ asked.ok
    BY <1>6, <2>3 DEF StateSet
  <2>5. moved.db.res = held.db.res
    BY <2>1, <2>2, <2>3, <2>4 DEF StateSet, Enqueued, Untouched
  <2> QED
    BY <1>2, <1>6, <2>5
<1> QED
  BY <1>2, <1>3, <1>4, <1>5, <1>6

------------------------------------------------------------------------------
(* A commit *)

\* Rows d2 are rows d after the commit of a handler of event e that read rows b
\* and left rows n in its session.
Merged(b, n, e, d, d2) ==
    /\ \/ n.order = b.order /\ d2.order = d.order
       \/ /\ n.order # b.order /\ d2.order = n.order
          /\ d.order = b.order /\ b.order.state \notin Terminal
          /\ d2.order.version > d.order.version
    /\ d2.compliance = IF n.compliance # b.compliance THEN n.compliance ELSE d.compliance
    /\ d2.credited = IF n.credited # b.credited THEN n.credited ELSE d.credited
    /\ d2.cancel = IF n.cancel # b.cancel THEN n.cancel ELSE d.cancel
    /\ d2.journal = IF n.journal # b.journal THEN n.journal ELSE d.journal
    /\ \A r \in Reservation :
          d2.res[r] = IF n.res[r] # b.res[r] THEN n.res[r] ELSE d.res[r]
    /\ \A q \in Quote :
          d2.intent[q] = IF n.intent[q] # b.intent[q] THEN n.intent[q] ELSE d.intent[q]
    /\ \A l \in Role :
          /\ d2.leg[l] = IF n.leg[l] # b.leg[l] THEN n.leg[l] ELSE d.leg[l]
          /\ b.leg[l] = "ABSENT" /\ n.leg[l] # "ABSENT" => d.leg[l] = "ABSENT"
    /\ \A k \in Event :
          /\ d2.evt[k] = IF k = e THEN "PUBLISHED"
                         ELSE IF n.evt[k] # b.evt[k] THEN n.evt[k] ELSE d.evt[k]
          /\ b.evt[k] = "ABSENT" /\ n.evt[k] # "ABSENT" => d.evt[k] = "ABSENT"

\* The columns of the database after CommitHandler.
LEMMA CommitMerged ==
    ASSUME IInv, NEW w \in Worker, CommitHandler(w),
           NEW b, b = job[w].base, NEW e, e = job[w].event,
           NEW t, t = Handle(b, e, clean, cross)
    PROVE  /\ b \in Database /\ e \in Event /\ t.ok /\ t.db \in Database
           /\ Wrote(b, t.db, e, clean, cross)
           /\ Merged(b, t.db, e, db, db')
           /\ valueSent' = (valueSent \/ Submits(e, b))
           /\ job' = [job EXCEPT ![w] = NoJob]
<1> DEFINE n == t.db
<1>1. /\ db \in Database /\ b \in Database /\ Settled(b) /\ e \in Event
      /\ clean \in BOOLEAN /\ cross \in BOOLEAN
  BY DEF IInv, TypeOK, CommitHandler, SnapshotIsPast
<1>2. /\ t.ok
      /\ OrderUnchanged(b, n) /\ KeysFree(b, n)
      /\ db' = [Merge(b, n) EXCEPT !.evt[e] = "PUBLISHED"]
      /\ valueSent' = (valueSent \/ Submits(e, b))
      /\ job' = [job EXCEPT ![w] = NoJob]
  BY DEF CommitHandler
<1>3. Result(b, t)
  BY <1>1, HandlerResult
<1>4. t.db \in Database /\ Follows(b, n)
  BY <1>2, <1>3 DEF Result, Txn
<1>5. Wrote(b, n, e, clean, cross)
  BY <1>1, <1>2, HandlerWrote
<1> HIDE DEF n
<1>6. b.order.version = db.order.version => b.order = db.order
  BY DEF IInv, SnapshotIsPast, CommitHandler
<1> DEFINE written == Flush(db, b, n)
           res == Flush(db.res, b.res, n.res)
           intent == Flush(db.intent, b.intent, n.intent)
           leg == Flush(db.leg, b.leg, n.leg)
           evt == Flush(db.evt, b.evt, n.evt)
           limit == [reserved |-> db.limit.reserved + n.limit.reserved - b.limit.reserved,
                     consumed |-> db.limit.consumed + n.limit.consumed - b.limit.consumed]
           merged == [written EXCEPT !.res = res, !.intent = intent, !.leg = leg,
                                     !.evt = evt, !.limit = limit]
<1>7. db' = [merged EXCEPT !.evt[e] = "PUBLISHED"]
  BY <1>2 DEF Merge
<1>8. n \in Database
  BY <1>4 DEF n
<1>9. /\ DOMAIN written = DOMAIN db
      /\ written.order = IF n.order # b.order THEN n.order ELSE db.order
      /\ written.compliance =
            IF n.compliance # b.compliance THEN n.compliance ELSE db.compliance
      /\ written.credited = IF n.credited # b.credited THEN n.credited ELSE db.credited
      /\ written.cancel = IF n.cancel # b.cancel THEN n.cancel ELSE db.cancel
      /\ written.journal = IF n.journal # b.journal THEN n.journal ELSE db.journal
  BY <1>1, <1>8 DEF Flush, Database
<1>10. /\ \A r \in Reservation :
             res[r] = IF n.res[r] # b.res[r] THEN n.res[r] ELSE db.res[r]
       /\ \A q \in Quote :
             intent[q] = IF n.intent[q] # b.intent[q] THEN n.intent[q] ELSE db.intent[q]
       /\ \A l \in Role :
             leg[l] = IF n.leg[l] # b.leg[l] THEN n.leg[l] ELSE db.leg[l]
  BY <1>1, <1>8 DEF Flush, Database
<1>11. DOMAIN evt = Event
       /\ \A k \in Event : evt[k] = IF n.evt[k] # b.evt[k] THEN n.evt[k] ELSE db.evt[k]
  BY <1>1, <1>8 DEF Flush, Database
<1>12. DOMAIN written = DOMAIN db
       /\ {"order", "compliance", "res", "intent", "leg", "credited", "cancel",
           "journal", "evt", "limit"} \subseteq DOMAIN db
  BY <1>1, <1>9 DEF Database
<1> HIDE DEF written, res, intent, leg, evt, limit
<1>13. /\ merged.order = written.order /\ merged.compliance = written.compliance
       /\ merged.credited = written.credited /\ merged.cancel = written.cancel
       /\ merged.journal = written.journal /\ merged.res = res
       /\ merged.intent = intent /\ merged.leg = leg /\ merged.evt = evt
       /\ "evt" \in DOMAIN merged
  BY <1>12
<1> HIDE DEF merged
<1>14. /\ db'.order = written.order /\ db'.compliance = written.compliance
       /\ db'.credited = written.credited /\ db'.cancel = written.cancel
       /\ db'.journal = written.journal /\ db'.res = res
       /\ db'.intent = intent /\ db'.leg = leg
       /\ db'.evt = [evt EXCEPT ![e] = "PUBLISHED"]
  BY <1>7, <1>13
<1>15. \A k \in Event : db'.evt[k] = IF k = e THEN "PUBLISHED" ELSE evt[k]
  BY <1>1, <1>11, <1>14, SMTT(30)
<1>16. \/ n.order = b.order /\ db'.order = db.order
       \/ /\ n.order # b.order /\ db'.order = n.order
          /\ db.order = b.order /\ b.order.state \notin Terminal
          /\ db'.order.version > db.order.version
  BY <1>2, <1>4, <1>6, <1>9, <1>14 DEF OrderUnchanged, Follows, n
<1>17. Merged(b, n, e, db, db')
  <2>1. /\ db'.compliance =
               IF n.compliance # b.compliance THEN n.compliance ELSE db.compliance
        /\ db'.credited = IF n.credited # b.credited THEN n.credited ELSE db.credited
        /\ db'.cancel = IF n.cancel # b.cancel THEN n.cancel ELSE db.cancel
        /\ db'.journal = IF n.journal # b.journal THEN n.journal ELSE db.journal
    BY <1>9, <1>14
  <2>2. /\ \A r \in Reservation :
              db'.res[r] = IF n.res[r] # b.res[r] THEN n.res[r] ELSE db.res[r]
        /\ \A q \in Quote :
              db'.intent[q] = IF n.intent[q] # b.intent[q] THEN n.intent[q] ELSE db.intent[q]
        /\ \A l \in Role :
              db'.leg[l] = IF n.leg[l] # b.leg[l] THEN n.leg[l] ELSE db.leg[l]
    BY <1>10, <1>14
  <2>3. \A k \in Event :
           db'.evt[k] = IF k = e THEN "PUBLISHED"
                        ELSE IF n.evt[k] # b.evt[k] THEN n.evt[k] ELSE db.evt[k]
    BY <1>11, <1>15
  <2>4. /\ \A l \in Role :
              b.leg[l] = "ABSENT" /\ n.leg[l] # "ABSENT" => db.leg[l] = "ABSENT"
        /\ \A k \in Event :
              b.evt[k] = "ABSENT" /\ n.evt[k] # "ABSENT" => db.evt[k] = "ABSENT"
    BY <1>2 DEF KeysFree
  <2> HIDE DEF n
  <2> QED
    BY <1>16, <2>1, <2>2, <2>3, <2>4 DEF Merged
<1> QED
  BY <1>1, <1>2, <1>4, <1>5, <1>17 DEF n

\* Rows b, a past of rows d, are read by a handler of event e that leaves rows n
\* and turns d into d2 by its commit.
CommitOf(b, n, e, d, d2, c, x) ==
    /\ Rows(d, c, x) /\ Rows(b, c, x) /\ Past(b, d)
    /\ b.evt[e] = "PENDING" /\ d.evt[e] = "PENDING"
    /\ Wrote(b, n, e, c, x) /\ Merged(b, n, e, d, d2)
    /\ \A r \in Reservation : e = Reserve(r) => n.res[r] = "RESERVED"

\* A commit that changes the order found it open, with nothing spent.
WasOpen(b, n, d) ==
    n.order # b.order =>
        /\ d.order = b.order /\ b.order.state \notin Terminal
        /\ ~d.credited /\ ~b.credited /\ d.cancel # "ACCEPTED"
        /\ \A r \in Reservation : d.res[r] \in Held => d.res[r] = "RESERVED"
        /\ \A r \in Reservation : b.res[r] \in Held => b.res[r] = "RESERVED"

\* What a commit does to a reservation and to its event.
ReservationMoves(b, n, e, d, d2, c, r) ==
    \/ d2.res[r] = d.res[r] /\ e # Reserve(r) /\ d2.evt[Reserve(r)] = d.evt[Reserve(r)]
    \/ /\ r = DirectReservation
       /\ d.res[r] = "ABSENT" /\ d2.res[r] = "PENDING" /\ d2.evt[Reserve(r)] = "PENDING"
       /\ c /\ n.compliance = "PASSED"
    \/ /\ e = Reserve(r)
       /\ d.res[r] = "PENDING" /\ d2.res[r] = "RESERVED" /\ d2.evt[Reserve(r)] = "PUBLISHED"
    \/ /\ d.res[r] = "RESERVED" /\ d2.res[r] = "CONSUMED" /\ d2.evt[Reserve(r)] = "PUBLISHED"
       /\ n.order # b.order /\ n.order.state = "OPERATIONALLY_CLOSED"
    \/ /\ d.res[r] = "RESERVED" /\ d2.res[r] = "RELEASED" /\ d2.evt[Reserve(r)] = "PUBLISHED"
       /\ n.order # b.order /\ n.order.state = "OPERATIONALLY_CLOSED_UNSUCCESSFUL"

\* ... to an intent and to the event of its acceptance.
IntentMoves(b, n, e, d, d2, q) ==
    \/ /\ d2.intent[q] = d.intent[q]
       /\ d2.evt[Accept(q)] = "ABSENT" <=> d.evt[Accept(q)] = "ABSENT"
    \/ /\ d.intent[q] = "PREPARING" /\ d2.intent[q] = "READY_TO_ACCEPT"
       /\ d2.evt[Accept(q)] = "PENDING"
       /\ \A r \in Funds(q) : d2.res[r] \in Held
    \/ /\ e = Accept(q) /\ n.order # b.order
       /\ d.intent[q] = "READY_TO_ACCEPT" /\ d2.intent[q] = "TRADE_ACCEPTED"
       /\ d2.evt[Accept(q)] = "PUBLISHED"
       /\ \A l \in FxRole : /\ d.leg[l] = "ABSENT" /\ d2.leg[l] = "PENDING"
                            /\ d2.evt[Submit(l)] # "ABSENT"

\* ... and to a leg and to the event of its submission.
LegMoves(b, n, e, d, d2, l) ==
    \/ /\ d2.leg[l] = d.leg[l]
       /\ l \in FxRole => (d2.evt[Submit(l)] = "ABSENT" <=> d.evt[Submit(l)] = "ABSENT")
    \/ /\ l \in FxRole /\ n.order # b.order
       /\ d.leg[l] = "ABSENT" /\ d2.leg[l] = "PENDING" /\ d2.evt[Submit(l)] = "PENDING"
       /\ \E q \in Quote : d2.intent[q] = "TRADE_ACCEPTED"
    \/ /\ l \in FxRole
       /\ d.leg[l] # "ABSENT" /\ d2.leg[l] = "FINAL" /\ d2.evt[Submit(l)] # "ABSENT"
    \/ l = "PAYMENT_VALUE" /\ d2.leg[l] = "FINAL"

\* Nothing has been spent or settled by an open order.
LEMMA CommitWasOpen ==
    ASSUME NEW d \in Database, NEW b \in Database, NEW n \in Database,
           NEW d2 \in Database, NEW e \in Event,
           NEW c \in BOOLEAN, NEW x \in BOOLEAN,
           CommitOf(b, n, e, d, d2, c, x)
    PROVE  WasOpen(b, n, d)
  BY DEF CommitOf, WasOpen, Merged, Rows, FundsFollowOrder, Terminal, Held

\* Every reservation moves along its life, whatever rows the handler has read.
LEMMA CommitMovesReservation ==
    ASSUME NEW d \in Database, NEW b \in Database, NEW n \in Database,
           NEW d2 \in Database, NEW e \in Event,
           NEW c \in BOOLEAN, NEW x \in BOOLEAN,
           CommitOf(b, n, e, d, d2, c, x),
           NEW r \in Reservation
    PROVE  ReservationMoves(b, n, e, d, d2, c, r)
<1> USE EventCases, ReservationCases
<1> DEFINE k == Reserve(r)
<1>1. /\ k \in Event
      /\ d.res[r] \in ReservationState /\ b.res[r] \in ReservationState
      /\ d.evt[k] \in EventState /\ b.evt[k] \in EventState
  BY DEF Database
<1>2. /\ d.res[r] = "ABSENT" <=> d.evt[k] = "ABSENT"
      /\ d.res[r] \in Held <=> d.evt[k] = "PUBLISHED"
      /\ b.res[r] = "ABSENT" <=> b.evt[k] = "ABSENT"
      /\ b.res[r] \in Held <=> b.evt[k] = "PUBLISHED"
      /\ b.res[r] \in Held => d.res[r] \in Held
      /\ b.evt[k] # "ABSENT" => d.evt[k] # "ABSENT"
  BY <1>1 DEF CommitOf, Rows, ReservationsHaveEvents, Past
<1>3. /\ d2.res[r] = IF n.res[r] # b.res[r] THEN n.res[r] ELSE d.res[r]
      /\ d2.evt[k] = IF k = e THEN "PUBLISHED"
                     ELSE IF n.evt[k] # b.evt[k] THEN n.evt[k] ELSE d.evt[k]
      /\ b.evt[k] = "ABSENT" /\ n.evt[k] # "ABSENT" => d.evt[k] = "ABSENT"
  BY <1>1 DEF CommitOf, Merged
<1>4. \/ n.evt[k] = b.evt[k]
      \/ /\ b.evt[k] = "ABSENT" /\ n.evt[k] = "PENDING"
         /\ r = DirectReservation /\ n.res[r] # b.res[r]
  <2>1. /\ \A q : k # Accept(q)
        /\ \A l : k # Submit(l)
        /\ k # Message /\ k # Value
        /\ k = Reserve(DirectReservation) => r = DirectReservation
    BY EventKinds, ReserveInjective
  <2> QED  BY <1>1, <2>1 DEF CommitOf, Wrote, WroteEvent
<1>5. \/ n.res[r] = b.res[r]
      \/ /\ r = DirectReservation /\ b.res[r] = "ABSENT" /\ n.res[r] = "PENDING"
         /\ b.evt[k] = "ABSENT" /\ n.evt[k] = "PENDING"
         /\ c /\ n.compliance = "PASSED"
      \/ e = k /\ n.res[r] = "RESERVED"
      \/ /\ b.res[r] = "RESERVED" /\ n.res[r] = "CONSUMED"
         /\ n.order # b.order /\ n.order.state = "OPERATIONALLY_CLOSED"
      \/ /\ b.res[r] = "RESERVED" /\ n.res[r] = "RELEASED"
         /\ n.order # b.order
         /\ n.order.state = "OPERATIONALLY_CLOSED_UNSUCCESSFUL"
  BY DEF CommitOf, Wrote, WroteReservation
<1> HIDE DEF k
<1>6. CASE e = k
  <2>1. b.res[r] = "PENDING" /\ d.res[r] = "PENDING" /\ n.res[r] = "RESERVED"
    BY <1>1, <1>2, <1>6 DEF CommitOf, Held, ReservationState, k
  <2> QED  BY <1>3, <1>6, <2>1 DEF k, ReservationMoves
<1>7. CASE e # k /\ n.res[r] = b.res[r]
  BY <1>3, <1>4, <1>7 DEF k, ReservationMoves
<1>8. CASE e # k /\ n.res[r] = "PENDING" /\ n.res[r] # b.res[r]
  BY <1>2, <1>3, <1>5, <1>8 DEF k, Held, ReservationMoves
<1>9. CASE e # k /\ n.res[r] # b.res[r] /\ n.res[r] \in {"CONSUMED", "RELEASED"}
  <2>1. b.res[r] = "RESERVED" /\ n.order # b.order
    BY <1>5, <1>9
  <2>2. d.res[r] = "RESERVED" /\ d.evt[k] = "PUBLISHED" /\ b.evt[k] = "PUBLISHED"
    BY CommitWasOpen, <1>2, <2>1 DEF WasOpen, Held
  <2>3. d2.evt[k] = "PUBLISHED"
    BY <1>3, <1>4, <2>2
  <2> QED  BY <1>3, <1>5, <1>9, <2>1, <2>2, <2>3 DEF k, ReservationMoves
<1> QED
  BY <1>5, <1>6, <1>7, <1>8, <1>9

\* Every intent moves along its life: READY_TO_ACCEPT once, under the key of
\* its event, TRADE_ACCEPTED once for all intents, under the keys of the legs.
LEMMA CommitMovesIntent ==
    ASSUME NEW d \in Database, NEW b \in Database, NEW n \in Database,
           NEW d2 \in Database, NEW e \in Event,
           NEW c \in BOOLEAN, NEW x \in BOOLEAN,
           CommitOf(b, n, e, d, d2, c, x),
           NEW q \in Quote
    PROVE  IntentMoves(b, n, e, d, d2, q)
<1> USE EventCases
<1> DEFINE k == Accept(q)
<1>0. k \in Event /\ FxRole \subseteq Role
  BY DEF Role, FxRole
<1>1. d.intent[q] \in {"ABSENT", "PREPARING", "READY_TO_ACCEPT", "TRADE_ACCEPTED"}
      /\ b.intent[q] \in {"ABSENT", "PREPARING", "READY_TO_ACCEPT", "TRADE_ACCEPTED"}
  BY DEF Database
<1>2. /\ d.evt[k] # "ABSENT" <=> d.intent[q] \in Concluded
      /\ b.evt[k] # "ABSENT" <=> b.intent[q] \in Concluded
  BY DEF CommitOf, Rows, IntentsAreFunded
<1>3. /\ d2.intent[q] = IF n.intent[q] # b.intent[q] THEN n.intent[q] ELSE d.intent[q]
      /\ d2.evt[k] = IF k = e THEN "PUBLISHED"
                     ELSE IF n.evt[k] # b.evt[k] THEN n.evt[k] ELSE d.evt[k]
      /\ b.evt[k] = "ABSENT" /\ n.evt[k] # "ABSENT" => d.evt[k] = "ABSENT"
  BY <1>0 DEF CommitOf, Merged
<1>4. n.evt[k] = b.evt[k] \/ n.intent[q] # b.intent[q]
  <2>1. /\ k # Reserve(DirectReservation)
        /\ \A p : k = Accept(p) => p = q
        /\ \A l : k # Submit(l)
        /\ k # Message /\ k # Value
    BY EventKinds
  <2> QED  BY <1>0, <2>1 DEF CommitOf, Wrote, WroteEvent
<1>5. \/ n.intent[q] = b.intent[q]
      \/ /\ b.intent[q] = "PREPARING" /\ n.intent[q] = "READY_TO_ACCEPT"
         /\ b.evt[k] = "ABSENT" /\ n.evt[k] = "PENDING"
         /\ \E r \in Funds(q) : e = Reserve(r)
         /\ \A r \in Funds(q) : b.res[r] # "ABSENT" => n.res[r] = "RESERVED"
      \/ /\ e = k /\ n.intent[q] = "TRADE_ACCEPTED"
         /\ n.order # b.order
         /\ \A l \in FxRole : /\ b.leg[l] = "ABSENT" /\ n.leg[l] = "PENDING"
                              /\ n.evt[Submit(l)] # "ABSENT"
  BY DEF CommitOf, Wrote, WroteIntent
<1>6. CASE n.intent[q] = b.intent[q]
  BY <1>3, <1>4, <1>6 DEF CommitOf, IntentMoves
<1>7. CASE b.intent[q] = "PREPARING" /\ n.intent[q] = "READY_TO_ACCEPT"
  <2>1. /\ b.evt[k] = "ABSENT" /\ n.evt[k] = "PENDING" /\ d.evt[k] = "ABSENT"
        /\ \A r \in Funds(q) : b.res[r] # "ABSENT" => n.res[r] = "RESERVED"
    BY <1>3, <1>5, <1>7
  <2>2. PICK s \in Funds(q) : e = Reserve(s)
    BY <1>5, <1>7
  <2>3. s \in Reservation /\ s[1] = q
    BY <2>2 DEF Funds
  <2>4. d.intent[q] = "PREPARING"
    <3>1. d.res[s] # "ABSENT"
      BY <2>2, <2>3 DEF CommitOf, Rows, ReservationsHaveEvents
    <3>2. d.intent[q] # "ABSENT"
      BY <2>3, <3>1 DEF CommitOf, Rows, ReservationsHaveEvents
    <3> QED  BY <1>1, <1>2, <2>1, <3>2 DEF Concluded
  <2>5. d2.intent[q] = "READY_TO_ACCEPT" /\ d2.evt[k] = "PENDING"
    BY <1>3, <1>7, <2>1, <2>2, EventKinds
  <2>6. ASSUME NEW r \in Funds(q)
        PROVE  d2.res[r] \in Held
    <3>1. r \in Reservation /\ r[1] = q
      BY DEF Funds
    <3>2. b.res[r] # "ABSENT"
      BY <1>7, <3>1 DEF CommitOf, Rows, ReservationsHaveEvents
    <3>3. n.res[r] = "RESERVED"
      BY <2>1, <3>2
    <3>4. b.res[r] \in Held => d.res[r] \in Held
      BY <3>1 DEF CommitOf, Past
    <3>5. d2.res[r] = IF n.res[r] # b.res[r] THEN n.res[r] ELSE d.res[r]
      BY <3>1 DEF CommitOf, Merged
    <3> QED  BY <3>3, <3>4, <3>5 DEF Held
  <2> HIDE DEF k
  <2> QED  BY <2>4, <2>5, <2>6 DEF IntentMoves, k
<1>8. CASE e = k /\ n.intent[q] = "TRADE_ACCEPTED" /\ n.order # b.order /\ n.intent[q] # b.intent[q]
  <2>1. \A l \in FxRole : /\ b.leg[l] = "ABSENT" /\ n.leg[l] = "PENDING"
                          /\ n.evt[Submit(l)] # "ABSENT"
    BY <1>5, <1>8
  <2>2. ASSUME NEW l \in FxRole
        PROVE  /\ d.leg[l] = "ABSENT" /\ d2.leg[l] = "PENDING"
               /\ d2.evt[Submit(l)] # "ABSENT"
    <3>1. d.leg[l] = "ABSENT" /\ d2.leg[l] = "PENDING"
      BY <1>0, <2>1 DEF CommitOf, Merged
    <3>2. b.evt[Submit(l)] = "ABSENT" /\ Submit(l) \in Event
      BY <2>1 DEF CommitOf, Rows, OneTrade
    <3>3. Submit(l) # e
      BY <1>8, EventKinds
    <3> QED  BY <2>1, <3>1, <3>2, <3>3 DEF CommitOf, Merged
  <2>3. d.intent[q] = "READY_TO_ACCEPT"
    <3>1. "FX_SELL" \in FxRole /\ d.leg["FX_SELL"] = "ABSENT"
      BY <2>2 DEF FxRole
    <3>2. d.intent[q] # "TRADE_ACCEPTED"
      BY <3>1 DEF CommitOf, Rows, OneTrade
    <3>3. d.evt[k] # "ABSENT"
      BY <1>8 DEF CommitOf
    <3> QED  BY <1>2, <3>2, <3>3 DEF Concluded
  <2>4. d2.intent[q] = "TRADE_ACCEPTED" /\ d2.evt[k] = "PUBLISHED"
    BY <1>3, <1>8
  <2> HIDE DEF k
  <2> QED  BY <1>8, <2>2, <2>3, <2>4 DEF IntentMoves, k
<1> HIDE DEF k
<1> QED
  BY <1>5, <1>6, <1>7, <1>8

\* Every leg moves along its life, and the FX legs are inserted by a trade.
LEMMA CommitMovesLeg ==
    ASSUME NEW d \in Database, NEW b \in Database, NEW n \in Database,
           NEW d2 \in Database, NEW e \in Event,
           NEW c \in BOOLEAN, NEW x \in BOOLEAN,
           CommitOf(b, n, e, d, d2, c, x),
           NEW l \in Role
    PROVE  LegMoves(b, n, e, d, d2, l)
<1> USE EventCases
<1> DEFINE k == Submit(l)
<1>0. "PAYMENT_VALUE" \notin FxRole
  BY DEF FxRole
<1>1. /\ d2.leg[l] = IF n.leg[l] # b.leg[l] THEN n.leg[l] ELSE d.leg[l]
      /\ b.leg[l] = "ABSENT" /\ n.leg[l] # "ABSENT" => d.leg[l] = "ABSENT"
      /\ b.leg[l] = "FINAL" => d.leg[l] = "FINAL"
  BY DEF CommitOf, Merged, Past
<1>2. ASSUME l \in FxRole
      PROVE  /\ k \in Event
             /\ d2.evt[k] = IF k = e THEN "PUBLISHED"
                            ELSE IF n.evt[k] # b.evt[k] THEN n.evt[k] ELSE d.evt[k]
             /\ d.leg[l] # "ABSENT" <=> d.evt[k] # "ABSENT"
             /\ n.evt[k] = b.evt[k] \/ n.leg[l] # b.leg[l]
  <2>1. /\ k # Reserve(DirectReservation)
        /\ \A p : k # Accept(p)
        /\ \A m : k = Submit(m) => m = l
        /\ k # Message /\ k # Value
    BY EventKinds
  <2>2. k \in Event
    BY <1>2
  <2>3. n.evt[k] = b.evt[k] \/ n.leg[l] # b.leg[l]
    BY <2>1, <2>2 DEF CommitOf, Wrote, WroteEvent
  <2>4. d.leg[l] # "ABSENT" <=> d.evt[k] # "ABSENT"
    BY <1>2 DEF CommitOf, Rows, OneTrade
  <2>5. d2.evt[k] = IF k = e THEN "PUBLISHED"
                    ELSE IF n.evt[k] # b.evt[k] THEN n.evt[k] ELSE d.evt[k]
    BY <2>2 DEF CommitOf, Merged
  <2> QED  BY <2>2, <2>3, <2>4, <2>5
<1>3. \/ n.leg[l] = b.leg[l]
      \/ /\ l \in FxRole /\ b.leg[l] = "ABSENT" /\ n.leg[l] = "PENDING"
         /\ b.evt[k] = "ABSENT" /\ n.evt[k] = "PENDING"
         /\ \E q \in Quote : e = Accept(q) /\ n.intent[q] = "TRADE_ACCEPTED"
         /\ n.order # b.order
      \/ n.leg[l] = "FINAL" /\ l \in FxRole /\ e = k
      \/ n.leg[l] = "FINAL" /\ l = "PAYMENT_VALUE" /\ e = Value
  BY DEF CommitOf, Wrote, WroteLeg
<1>4. d.evt[e] = "PENDING"
  BY DEF CommitOf
<1>5. CASE n.leg[l] = b.leg[l]
  <2> HIDE DEF k
  <2> QED  BY <1>1, <1>2, <1>4, <1>5 DEF LegMoves, k
<1>6. CASE /\ l \in FxRole /\ b.leg[l] = "ABSENT" /\ n.leg[l] = "PENDING"
           /\ b.evt[k] = "ABSENT" /\ n.evt[k] = "PENDING"
           /\ \E q \in Quote : e = Accept(q) /\ n.intent[q] = "TRADE_ACCEPTED"
           /\ n.order # b.order
  <2>1. PICK q \in Quote : e = Accept(q) /\ n.intent[q] = "TRADE_ACCEPTED"
    BY <1>6
  <2>2. k # e
    BY <2>1, EventKinds
  <2>3. d2.intent[q] = "TRADE_ACCEPTED"
    <3>1. d2.intent[q] = IF n.intent[q] # b.intent[q] THEN n.intent[q] ELSE d.intent[q]
      BY DEF CommitOf, Merged
    <3>2. b.intent[q] = "TRADE_ACCEPTED" => d.intent[q] = "TRADE_ACCEPTED"
      BY DEF CommitOf, Past
    <3> QED  BY <2>1, <3>1, <3>2
  <2> HIDE DEF k
  <2> QED  BY <1>1, <1>2, <1>6, <2>2, <2>3 DEF LegMoves, k
<1>7. CASE n.leg[l] = "FINAL" /\ l \in FxRole /\ e = k
  <2>1. d2.leg[l] = "FINAL" /\ d2.evt[k] # "ABSENT" /\ d.leg[l] # "ABSENT"
    <3> HIDE DEF k
    <3> QED  BY <1>1, <1>2, <1>4, <1>7
  <2> HIDE DEF k
  <2> QED  BY <1>7, <2>1 DEF LegMoves, k
<1>8. CASE n.leg[l] = "FINAL" /\ l = "PAYMENT_VALUE"
  BY <1>1, <1>8 DEF LegMoves
<1> HIDE DEF k
<1> QED
  BY <1>3, <1>5, <1>6, <1>7, <1>8

\* The message is requested by the last of the funds or of the legs, the value
\* by the message.
LEMMA CommitMovesMessage ==
    ASSUME NEW d \in Database, NEW b \in Database, NEW n \in Database,
           NEW d2 \in Database, NEW e \in Event,
           NEW c \in BOOLEAN, NEW x \in BOOLEAN,
           CommitOf(b, n, e, d, d2, c, x)
    PROVE  /\ d2.evt[e] = "PUBLISHED"
           /\ d2.evt[Value] # "ABSENT" => d.evt[Value] # "ABSENT" \/ e = Message
           /\ d2.evt[Message] # "ABSENT" =>
                 \/ d.evt[Message] # "ABSENT"
                 \/ e = Reserve(DirectReservation)
                 \/ \E l \in FxRole : e = Submit(l)
<1>1. Message \in Event /\ Value \in Event
  BY EventCases
<1>2. \A k \in Event : d2.evt[k] = IF k = e THEN "PUBLISHED"
                                   ELSE IF n.evt[k] # b.evt[k] THEN n.evt[k] ELSE d.evt[k]
  BY DEF CommitOf, Merged
<1>3. d.evt[e] # "ABSENT"
  BY DEF CommitOf
<1>4. n.evt[Value] = b.evt[Value] \/ e = Message
  <2>1. /\ \A r : Value # Reserve(r)
        /\ \A q : Value # Accept(q)
        /\ \A l : Value # Submit(l)
        /\ Value # Message
    BY EventKinds
  <2> QED  BY <1>1, <2>1 DEF CommitOf, Wrote, WroteEvent
<1>5. \/ n.evt[Message] = b.evt[Message]
      \/ e = Reserve(DirectReservation)
      \/ \E l \in FxRole : e = Submit(l)
  <2>1. /\ \A r : Message # Reserve(r)
        /\ \A q : Message # Accept(q)
        /\ \A l : Message # Submit(l)
        /\ Message # Value
    BY EventKinds
  <2> QED  BY <1>1, <2>1 DEF CommitOf, Wrote, WroteEvent
<1> QED
  BY <1>1, <1>2, <1>3, <1>4, <1>5

\* A commit only moves rows forward.
LEMMA CommitIsForward ==
    ASSUME NEW d \in Database, NEW b \in Database, NEW n \in Database,
           NEW d2 \in Database, NEW e \in Event,
           NEW c \in BOOLEAN, NEW x \in BOOLEAN,
           CommitOf(b, n, e, d, d2, c, x)
    PROVE  Past(d, d2)
<1>1. \A r \in Reservation : d.res[r] \in Held => d2.res[r] \in Held
  BY CommitMovesReservation, SMTT(30) DEF ReservationMoves, Held
<1>2. \A q \in Quote : d.intent[q] = "TRADE_ACCEPTED" => d2.intent[q] = "TRADE_ACCEPTED"
  BY CommitMovesIntent DEF IntentMoves
<1>3. \A l \in Role : /\ d.leg[l] # "ABSENT" => d2.leg[l] # "ABSENT"
                      /\ d.leg[l] = "FINAL" => d2.leg[l] = "FINAL"
  BY CommitMovesLeg DEF LegMoves
<1>4. d.journal => d2.journal
  BY DEF CommitOf, Merged, Wrote, WroteBeside
<1>5. d.compliance # "PENDING" => d2.compliance # "PENDING"
  BY DEF CommitOf, Merged, Wrote, WroteBeside
<1>6. \A k \in Event : d.evt[k] # "ABSENT" => d2.evt[k] # "ABSENT"
  BY DEF CommitOf, Merged, Wrote, WroteEvent
<1>7. ASSUME d.order.version = d2.order.version, NEW l \in Role, d2.leg[l] # "ABSENT"
      PROVE  d.leg[l] # "ABSENT"
  <2>1. d.order.version \in Nat /\ d2.order.version \in Nat
    BY DEF Database
  <2>2. n.order = b.order
    BY <1>7, <2>1 DEF CommitOf, Merged
  <2>3. d.leg["PAYMENT_VALUE"] # "ABSENT"
    BY DEF CommitOf, Rows, OneTrade
  <2> QED  BY <1>7, <2>2, <2>3, CommitMovesLeg DEF LegMoves
<1> QED
  BY <1>1, <1>2, <1>3, <1>4, <1>5, <1>6, <1>7 DEF Past

\* The commit that closes a payment finds every leg it did not read absent, and
\* the funds of the payment's own intent held.
LEMMA ClosingIsComplete ==
    ASSUME NEW d \in Database, NEW b \in Database, NEW n \in Database,
           NEW d2 \in Database, NEW e \in Event,
           NEW c \in BOOLEAN, NEW x \in BOOLEAN,
           CommitOf(b, n, e, d, d2, c, x),
           n.order # b.order, n.order.state = "OPERATIONALLY_CLOSED"
    PROVE  /\ n.order.outcome = "COMPLETED"
           /\ d2.credited /\ d2.journal
           /\ \A l \in Role : d2.leg[l] \in {"ABSENT", "FINAL"}
           /\ Paid(d2, x)
<1>1. /\ e = Value
      /\ n.order.outcome = "COMPLETED"
      /\ n.credited /\ n.journal
      /\ \A l \in Role : n.leg[l] \in {"ABSENT", "FINAL"}
      /\ x => \A l \in FxRole : n.leg[l] = "FINAL"
      /\ \A r \in Reservation : b.res[r] = "RESERVED" => n.res[r] = "CONSUMED"
  BY DEF CommitOf, Wrote, WroteOrder
<1>2. /\ d.order = b.order /\ ~b.credited
      /\ \A r \in Reservation : b.res[r] \in Held => b.res[r] = "RESERVED"
  BY CommitWasOpen DEF WasOpen
<1>3. d2.credited
  BY <1>1, <1>2 DEF CommitOf, Merged
<1>4. d2.journal
  BY <1>1 DEF CommitOf, Merged, Wrote, WroteBeside, Past
<1>5. ASSUME NEW l \in Role
      PROVE  d2.leg[l] \in {"ABSENT", "FINAL"}
  <2>1. /\ d.leg[l] # "ABSENT" => b.leg[l] # "ABSENT"
        /\ b.leg[l] = "FINAL" => d.leg[l] = "FINAL"
    BY <1>2 DEF CommitOf, Past
  <2>2. d2.leg[l] = IF n.leg[l] # b.leg[l] THEN n.leg[l] ELSE d.leg[l]
    BY DEF CommitOf, Merged
  <2> QED  BY <1>1, <2>1, <2>2
<1>6. ASSUME NEW r \in Reservation, b.res[r] \in Held
      PROVE  d2.res[r] = "CONSUMED"
  <2>1. b.res[r] = "RESERVED" /\ n.res[r] = "CONSUMED"
    BY <1>1, <1>2, <1>6
  <2> QED  BY <2>1 DEF CommitOf, Merged
<1>7. CASE x
  <2>0. "FX_SELL" \in FxRole /\ "FX_SELL" \in Role
    BY DEF FxRole, Role
  <2>1. b.leg["FX_SELL"] = "FINAL"
    <3>1. n.leg["FX_SELL"] = "FINAL"
      BY <1>1, <1>7, <2>0
    <3>2. /\ \A l : e # Submit(l)
          /\ "FX_SELL" # "PAYMENT_VALUE"
      BY <1>1, EventKinds
    <3> QED  BY <2>0, <3>1, <3>2 DEF CommitOf, Wrote, WroteLeg
  <2>2. PICK q \in Quote : b.intent[q] = "TRADE_ACCEPTED"
    BY <2>0, <2>1 DEF CommitOf, Rows, OneTrade
  <2>3. d2.intent[q] = "TRADE_ACCEPTED"
    <3>1. d.intent[q] = "TRADE_ACCEPTED"
      BY <2>2 DEF CommitOf, Past
    <3> QED  BY <3>1, CommitIsForward DEF Past
  <2>4. \A r \in Funds(q) : r \in Reservation /\ b.res[r] \in Held
    BY <2>2 DEF CommitOf, Rows, IntentsAreFunded, Concluded, Funds
  <2>5. \A r \in Funds(q) : d2.res[r] = "CONSUMED"
    BY <1>6, <2>4
  <2> QED  BY <1>1, <1>3, <1>4, <1>5, <1>7, <2>3, <2>5 DEF Paid
<1>8. CASE ~x
  <2>1. b.res[DirectReservation] \in Held
    BY <1>1, <1>8 DEF CommitOf, Rows, ValueFollowsMessage, DirectOnly
  <2>2. \A r \in Funds(Direct) : r = DirectReservation /\ r \in Reservation
    BY ReservationCases DEF Funds
  <2>3. \A r \in Funds(Direct) : d2.res[r] = "CONSUMED"
    BY <1>6, <2>1, <2>2
  <2> QED  BY <1>1, <1>3, <1>4, <1>5, <1>8, <2>3 DEF Paid
<1> QED
  BY <1>7, <1>8

\* A commit keeps what the rows say of each other.
THEOREM CommitKeepsRows ==
    ASSUME NEW d \in Database, NEW b \in Database, NEW n \in Database,
           NEW d2 \in Database, NEW e \in Event,
           NEW c \in BOOLEAN, NEW x \in BOOLEAN,
           CommitOf(b, n, e, d, d2, c, x)
    PROVE  Rows(d2, c, x)
<1>0. Past(d, d2)
  BY CommitIsForward
<1>1. FundsFollowOrder(d2)
  <2>1. CASE n.order = b.order
    <3>1. d2.order = d.order /\ d2.credited = d.credited /\ d2.cancel = d.cancel
      BY <2>1 DEF CommitOf, Merged, Wrote, WroteBeside
    <3>2. \A r \in Reservation : d2.res[r] \in {"CONSUMED", "RELEASED"} => d2.res[r] = d.res[r]
      BY <2>1, CommitMovesReservation DEF ReservationMoves
    <3>3. FundsFollowOrder(d)
      BY DEF CommitOf, Rows
    <3> QED  BY <3>1, <3>2, <3>3 DEF FundsFollowOrder
  <2>2. CASE n.order # b.order
    <3>1. /\ ~d.credited /\ ~b.credited /\ d.cancel # "ACCEPTED"
          /\ \A r \in Reservation : d.res[r] \in Held => d.res[r] = "RESERVED"
      BY <2>2, CommitWasOpen DEF WasOpen
    <3>2. d2.order = n.order
      BY <2>2 DEF CommitOf, Merged
    <3>3. /\ d2.credited => n.order.state = "OPERATIONALLY_CLOSED"
          /\ d2.cancel = "ACCEPTED" =>
                /\ n.order.state = "OPERATIONALLY_CLOSED_UNSUCCESSFUL"
                /\ n.order.outcome = "CANCELLED"
      BY <3>1 DEF CommitOf, Merged, Wrote, WroteBeside
    <3>4. ASSUME NEW r \in Reservation
          PROVE  /\ d2.res[r] = "CONSUMED" => n.order.state = "OPERATIONALLY_CLOSED"
                 /\ d2.res[r] = "RELEASED" => n.order.state = "OPERATIONALLY_CLOSED_UNSUCCESSFUL"
      <4>1. ReservationMoves(b, n, e, d, d2, c, r)
        BY CommitMovesReservation
      <4> QED  BY <3>1, <4>1 DEF ReservationMoves, Held
    <3> QED  BY <3>2, <3>3, <3>4 DEF FundsFollowOrder
  <2> QED  BY <2>1, <2>2
<1>2. ReservationsHaveEvents(d2)
  <2> SUFFICES ASSUME NEW r \in Reservation
               PROVE  /\ d2.res[r] = "ABSENT" <=> d2.evt[Reserve(r)] = "ABSENT"
                      /\ d2.res[r] \in Held <=> d2.evt[Reserve(r)] = "PUBLISHED"
                      /\ r[1] \in Quote => (d2.res[r] = "ABSENT" <=> d2.intent[r[1]] = "ABSENT")
    BY DEF ReservationsHaveEvents
  <2>1. /\ d.res[r] = "ABSENT" <=> d.evt[Reserve(r)] = "ABSENT"
        /\ d.res[r] \in Held <=> d.evt[Reserve(r)] = "PUBLISHED"
        /\ r[1] \in Quote => (d.res[r] = "ABSENT" <=> d.intent[r[1]] = "ABSENT")
    BY DEF CommitOf, Rows, ReservationsHaveEvents
  <2>2. ReservationMoves(b, n, e, d, d2, c, r)
    BY CommitMovesReservation
  <2>3. ASSUME r[1] \in Quote
        PROVE  /\ d2.res[r] = "ABSENT" <=> d.res[r] = "ABSENT"
               /\ d2.intent[r[1]] = "ABSENT" <=> d.intent[r[1]] = "ABSENT"
    <3>1. r # DirectReservation
      BY <2>3, ReservationCases
    <3>2. d2.res[r] = "ABSENT" <=> d.res[r] = "ABSENT"
      BY <2>2, <3>1 DEF ReservationMoves
    <3>3. IntentMoves(b, n, e, d, d2, r[1])
      BY <2>3, CommitMovesIntent
    <3> QED  BY <3>2, <3>3 DEF IntentMoves
  <2>4. /\ d2.res[r] = "ABSENT" <=> d2.evt[Reserve(r)] = "ABSENT"
        /\ d2.res[r] \in Held <=> d2.evt[Reserve(r)] = "PUBLISHED"
    BY <2>1, <2>2 DEF ReservationMoves, Held
  <2> QED  BY <2>1, <2>3, <2>4
<1>3. IntentsAreFunded(d2)
  <2> SUFFICES ASSUME NEW q \in Quote
               PROVE  /\ d2.evt[Accept(q)] # "ABSENT" <=> d2.intent[q] \in Concluded
                      /\ d2.intent[q] \in Concluded => \A r \in Funds(q) : d2.res[r] \in Held
    BY DEF IntentsAreFunded
  <2>1. /\ d.evt[Accept(q)] # "ABSENT" <=> d.intent[q] \in Concluded
        /\ d.intent[q] \in Concluded => \A r \in Funds(q) : d.res[r] \in Held
    BY DEF CommitOf, Rows, IntentsAreFunded
  <2>2. IntentMoves(b, n, e, d, d2, q)
    BY CommitMovesIntent
  <2>3. (\A r \in Funds(q) : d.res[r] \in Held) => \A r \in Funds(q) : d2.res[r] \in Held
    BY <1>0 DEF Past, Funds
  <2> QED  BY <2>1, <2>2, <2>3 DEF IntentMoves, Concluded
<1>4. OneTrade(d2)
  <2>1. OneTrade(d)
    BY DEF CommitOf, Rows
  <2>2. ASSUME NEW q \in Quote, d2.intent[q] = "TRADE_ACCEPTED"
        PROVE  /\ d.intent[q] = "TRADE_ACCEPTED" \/ (e = Accept(q) /\ d.leg["FX_SELL"] = "ABSENT")
               /\ \A l \in FxRole : d2.leg[l] # "ABSENT"
    <3>1. IntentMoves(b, n, e, d, d2, q)
      BY CommitMovesIntent
    <3>2. "FX_SELL" \in FxRole /\ FxRole \subseteq Role
      BY DEF FxRole, Role
    <3>3. d.intent[q] = "TRADE_ACCEPTED" => \A l \in FxRole : d2.leg[l] # "ABSENT"
      BY <1>0, <2>1, <3>2 DEF OneTrade, Past
    <3> QED  BY <2>2, <3>1, <3>2, <3>3 DEF IntentMoves
  <2>3. ASSUME NEW p \in Quote, NEW q \in Quote,
               d2.intent[p] = "TRADE_ACCEPTED", d2.intent[q] = "TRADE_ACCEPTED"
        PROVE  p = q
    <3>1. "FX_SELL" \in FxRole
      BY DEF FxRole
    <3>2. e = Accept(p) /\ e = Accept(q) => p = q
      <4>1. Accept(p)[2] = p /\ Accept(q)[2] = q
        BY EventKinds
      <4> QED  BY <4>1
    <3> QED  BY <2>1, <2>2, <2>3, <3>1, <3>2 DEF OneTrade
  <2>4. ASSUME NEW l \in FxRole, d2.leg[l] # "ABSENT"
        PROVE  \E q \in Quote : d2.intent[q] = "TRADE_ACCEPTED"
    <3>1. l \in Role /\ l # "PAYMENT_VALUE"
      BY DEF FxRole, Role
    <3>2. LegMoves(b, n, e, d, d2, l)
      BY <3>1, CommitMovesLeg
    <3>3. d.leg[l] # "ABSENT" => \E q \in Quote : d2.intent[q] = "TRADE_ACCEPTED"
      BY <1>0, <2>1 DEF OneTrade, Past
    <3> QED  BY <2>4, <3>1, <3>2, <3>3 DEF LegMoves
  <2>5. ASSUME NEW l \in FxRole
        PROVE  d2.leg[l] # "ABSENT" <=> d2.evt[Submit(l)] # "ABSENT"
    <3>1. l \in Role /\ l # "PAYMENT_VALUE"
      BY DEF FxRole, Role
    <3>2. LegMoves(b, n, e, d, d2, l)
      BY <3>1, CommitMovesLeg
    <3>3. d.leg[l] # "ABSENT" <=> d.evt[Submit(l)] # "ABSENT"
      BY <2>1 DEF OneTrade
    <3> QED  BY <3>1, <3>2, <3>3 DEF LegMoves
  <2>6. d2.leg["PAYMENT_VALUE"] # "ABSENT"
    BY <1>0, <2>1 DEF OneTrade, Past, Role
  <2> QED  BY <2>2, <2>3, <2>4, <2>5, <2>6 DEF OneTrade
<1>5. ValueFollowsMessage(d2)
  <2>1. ValueFollowsMessage(d) /\ Message \in Event
    BY EventCases DEF CommitOf, Rows
  <2>2. d.evt[Message] # "ABSENT" \/ e = Message => d2.evt[Message] # "ABSENT"
    BY <1>0, <2>1, CommitMovesMessage DEF Past
  <2>3. d2.order.state = "MESSAGE_DELIVERED" =>
           d.order.state = "MESSAGE_DELIVERED" \/ e = Message
    BY DEF CommitOf, Merged, Wrote, WroteOrder
  <2> QED  BY <2>1, <2>2, <2>3, CommitMovesMessage DEF ValueFollowsMessage
<1>6. DirectOnly(d2, c, x)
  <2>1. DirectOnly(d, c, x)
    BY DEF CommitOf, Rows
  <2>2. /\ d2.compliance = IF n.compliance # b.compliance THEN n.compliance ELSE d.compliance
        /\ n.compliance = b.compliance \/ n.compliance = IF c THEN "PASSED" ELSE "REJECTED"
        /\ b.compliance # "PENDING" => d.compliance # "PENDING"
    BY DEF CommitOf, Merged, Wrote, WroteBeside, Past
  <2>3. d2.compliance \in {"PENDING", IF c THEN "PASSED" ELSE "REJECTED"}
    BY <2>1, <2>2 DEF DirectOnly
  <2> SUFFICES ASSUME ~x
               PROVE  /\ \A q \in Quote : d2.intent[q] = "ABSENT"
                      /\ d2.res[DirectReservation] # "ABSENT" => d2.compliance = "PASSED"
                      /\ d2.evt[Message] # "ABSENT" => d2.res[DirectReservation] \in Held
    BY <2>3 DEF DirectOnly
  <2>4. \A q \in Quote : d2.intent[q] = "ABSENT"
    <3> SUFFICES ASSUME NEW q \in Quote
                 PROVE  d2.intent[q] = "ABSENT"
      OBVIOUS
    <3>1. d.intent[q] = "ABSENT"
      BY <2>1 DEF DirectOnly
    <3> QED  BY <3>1, CommitMovesIntent DEF IntentMoves
  <2>5. ReservationMoves(b, n, e, d, d2, c, DirectReservation)
    BY CommitMovesReservation, ReservationCases
  <2>6. d2.res[DirectReservation] # "ABSENT" => d2.compliance = "PASSED"
    <3>1. d.compliance = "PASSED" => d2.compliance = "PASSED"
      BY <2>1, <2>2 DEF DirectOnly
    <3>2. c /\ n.compliance = "PASSED" => d2.compliance = "PASSED"
      BY <2>1, <2>2 DEF DirectOnly
    <3>3. d.res[DirectReservation] # "ABSENT" => d.compliance = "PASSED"
      BY <2>1 DEF DirectOnly
    <3> QED  BY <2>5, <3>1, <3>2, <3>3 DEF ReservationMoves
  <2>7. d2.evt[Message] # "ABSENT" => d2.res[DirectReservation] \in Held
    <3>1. d.evt[Message] # "ABSENT" => d2.res[DirectReservation] \in Held
      BY <1>0, <2>1, ReservationCases DEF DirectOnly, Past
    <3>2. ASSUME e = Reserve(DirectReservation)
          PROVE  d2.res[DirectReservation] \in Held
      <4>1. d.res[DirectReservation] # "ABSENT"
        BY <3>2, ReservationCases DEF CommitOf, Rows, ReservationsHaveEvents
      <4> QED  BY <2>5, <3>2, <4>1 DEF ReservationMoves, Held
    <3>3. ASSUME NEW l \in FxRole
          PROVE  e # Submit(l)
      <4>1. d.leg[l] = "ABSENT"
        BY <2>1 DEF CommitOf, Rows, OneTrade, DirectOnly
      <4>2. d.evt[Submit(l)] = "ABSENT"
        BY <4>1 DEF CommitOf, Rows, OneTrade
      <4> QED  BY <4>2 DEF CommitOf
    <3> QED  BY <3>1, <3>2, <3>3, CommitMovesMessage
  <2> QED  BY <2>4, <2>6, <2>7
<1>7. Complete(d2, x)
  <2> SUFFICES ASSUME d2.order.state = "OPERATIONALLY_CLOSED"
               PROVE  /\ d2.order.outcome = "COMPLETED"
                      /\ d2.credited /\ d2.journal
                      /\ \A role \in Role : d2.leg[role] \in {"ABSENT", "FINAL"}
                      /\ Paid(d2, x)
    BY DEF Complete
  <2>1. CASE n.order # b.order
    <3>1. d2.order = n.order
      BY <2>1 DEF CommitOf, Merged
    <3> QED  BY <2>1, <3>1, ClosingIsComplete
  <2>2. CASE n.order = b.order
    <3>1. d2.order = d.order /\ d2.credited = d.credited
      BY <2>2 DEF CommitOf, Merged, Wrote, WroteBeside
    <3>2. /\ d.order.outcome = "COMPLETED"
          /\ d.credited /\ d.journal
          /\ \A role \in Role : d.leg[role] \in {"ABSENT", "FINAL"}
          /\ Paid(d, x)
      BY <3>1 DEF CommitOf, Rows, Complete
    <3>3. \A l \in Role : d2.leg[l] \in {"ABSENT", "FINAL"}
      BY <2>2, <3>2, CommitMovesLeg DEF LegMoves
    <3>4. ASSUME NEW r \in Reservation, d.res[r] = "CONSUMED"
          PROVE  d2.res[r] = "CONSUMED"
      <4>1. ReservationMoves(b, n, e, d, d2, c, r)
        BY CommitMovesReservation
      <4> QED  BY <3>4, <4>1 DEF ReservationMoves
    <3>5. Paid(d2, x)
      BY <1>0, <3>2, <3>4 DEF Paid, Past, Funds
    <3> QED  BY <1>0, <3>1, <3>2, <3>3, <3>5 DEF Past
  <2> QED  BY <2>1, <2>2
<1> QED
  BY <1>1, <1>2, <1>3, <1>4, <1>5, <1>6, <1>7 DEF Rows

------------------------------------------------------------------------------
(* The steps *)

LEMMA PastReflexive == ASSUME NEW d PROVE Past(d, d)
  BY DEF Past

\* The version only grows, so that an equal one was equal in between.
LEMMA PastTransitive ==
    ASSUME NEW b \in Database, NEW d \in Database, NEW d2 \in Database,
           Past(b, d), Past(d, d2),
           b.order.version <= d.order.version, d.order.version <= d2.order.version
    PROVE  Past(b, d2)
<1>1. b.order.version \in Nat /\ d.order.version \in Nat /\ d2.order.version \in Nat
  BY DEF Database
<1>2. b.order.version = d2.order.version =>
         b.order.version = d.order.version /\ d.order.version = d2.order.version
  BY <1>1
<1> QED
  BY <1>2 DEF Past

\* Rows d2 are rows d but for the rows no other row depends on.
Aside(d, d2) ==
    /\ d2.order = d.order /\ d2.compliance = d.compliance /\ d2.res = d.res
    /\ d2.intent = d.intent /\ d2.leg = d.leg /\ d2.credited = d.credited
    /\ d2.cancel \in {d.cancel, "REQUESTED"}
    /\ d.journal => d2.journal
    /\ \A k \in Event :
          \/ d2.evt[k] = d.evt[k]
          \/ k \in {Cancellation, Refund} /\ d.evt[k] = "ABSENT" /\ d2.evt[k] = "PENDING"
          \/ d.evt[k] = "PENDING" /\ d2.evt[k] = "DEAD_LETTER"

\* They change nothing that is said of the rows.
LEMMA AsideKeepsRows ==
    ASSUME NEW d \in Database, NEW d2 \in Database, NEW c, NEW x,
           Aside(d, d2), Rows(d, c, x)
    PROVE  Rows(d2, c, x) /\ Past(d, d2)
<1>1. \A k \in Event : d.evt[k] # "ABSENT" => d2.evt[k] # "ABSENT"
  BY DEF Aside
<1>2. ASSUME NEW k \in Event, k \notin {Cancellation, Refund}
      PROVE  /\ d2.evt[k] = "ABSENT" <=> d.evt[k] = "ABSENT"
             /\ d2.evt[k] = "PUBLISHED" <=> d.evt[k] = "PUBLISHED"
  BY <1>2 DEF Aside
<1>3. Past(d, d2)
  BY <1>1 DEF Past, Aside
<1>4. FundsFollowOrder(d2)
  BY DEF Rows, Aside, FundsFollowOrder
<1>5. ReservationsHaveEvents(d2)
  <2>1. \A r \in Reservation : Reserve(r) \in Event /\ Reserve(r) \notin {Cancellation, Refund}
    BY EventCases, EventKinds
  <2> QED  BY <1>2, <2>1 DEF Rows, Aside, ReservationsHaveEvents
<1>6. IntentsAreFunded(d2)
  <2>1. \A q \in Quote : Accept(q) \in Event /\ Accept(q) \notin {Cancellation, Refund}
    BY EventCases, EventKinds
  <2> QED  BY <1>2, <2>1 DEF Rows, Aside, IntentsAreFunded
<1>7. OneTrade(d2)
  <2>1. \A l \in FxRole : Submit(l) \in Event /\ Submit(l) \notin {Cancellation, Refund}
    BY EventCases, EventKinds
  <2> QED  BY <1>2, <2>1 DEF Rows, Aside, OneTrade
<1>8. ValueFollowsMessage(d2) /\ DirectOnly(d2, c, x)
  <2>1. /\ Message \in Event /\ Message \notin {Cancellation, Refund}
        /\ Value \in Event /\ Value \notin {Cancellation, Refund}
    BY EventCases, EventKinds
  <2>2. /\ d2.evt[Message] = "ABSENT" <=> d.evt[Message] = "ABSENT"
        /\ d2.evt[Value] = "ABSENT" <=> d.evt[Value] = "ABSENT"
    BY <1>2, <2>1
  <2> QED  BY <2>2 DEF Rows, Aside, ValueFollowsMessage, DirectOnly
<1>9. Complete(d2, x)
  <2>1. Paid(d2, x) <=> Paid(d, x)
    BY DEF Aside, Paid
  <2> QED  BY <2>1 DEF Rows, Aside, Complete
<1> QED
  BY <1>3, <1>4, <1>5, <1>6, <1>7, <1>8, <1>9 DEF Rows

\* The commands that only ask, post or open something.
LEMMA CommandAside ==
    ASSUME IInv, RequestCancellation \/ RequestReturn \/ PostJournal \/ OpenCase
    PROVE  /\ Aside(db, db')
           /\ \A k \in Event : db.evt[k] = "PENDING" => db'.evt[k] = "PENDING"
           /\ UNCHANGED <<job, valueSent, clean, cross>>
<1>1. db \in Database /\ Cancellation \in Event /\ Refund \in Event
  BY EventCases DEF IInv, TypeOK
<1>2. CASE RequestCancellation
  <2>1. /\ db.evt[Cancellation] = "ABSENT"
        /\ db' = [db EXCEPT !.cancel = "REQUESTED", !.evt[Cancellation] = "PENDING"]
        /\ UNCHANGED <<job, valueSent, clean, cross>>
    BY <1>2 DEF RequestCancellation, Cancellation
  <2>2. /\ db'.order = db.order /\ db'.compliance = db.compliance /\ db'.res = db.res
        /\ db'.intent = db.intent /\ db'.leg = db.leg /\ db'.credited = db.credited
        /\ db'.cancel = "REQUESTED" /\ db'.journal = db.journal
        /\ \A k \in Event :
              db'.evt[k] = IF k = Cancellation THEN "PENDING" ELSE db.evt[k]
    BY <1>1, <2>1 DEF Database
  <2> QED  BY <2>1, <2>2 DEF Aside
<1>3. CASE RequestReturn
  <2>1. /\ db.evt[Refund] = "ABSENT"
        /\ db' = [db EXCEPT !.ret = "REQUESTED", !.evt[Refund] = "PENDING"]
        /\ UNCHANGED <<job, valueSent, clean, cross>>
    BY <1>3 DEF RequestReturn, Refund
  <2>2. /\ db'.order = db.order /\ db'.compliance = db.compliance /\ db'.res = db.res
        /\ db'.intent = db.intent /\ db'.leg = db.leg /\ db'.credited = db.credited
        /\ db'.cancel = db.cancel /\ db'.journal = db.journal
        /\ \A k \in Event : db'.evt[k] = IF k = Refund THEN "PENDING" ELSE db.evt[k]
    BY <1>1, <2>1 DEF Database
  <2> QED  BY <2>1, <2>2 DEF Aside
<1>4. CASE PostJournal
  BY <1>1, <1>4 DEF PostJournal, Aside, Database
<1>5. CASE OpenCase
  BY <1>1, <1>5 DEF OpenCase, Aside, Database
<1> QED
  BY <1>2, <1>3, <1>4, <1>5

\* create_fx_acceptance inserts an intent, its two reservations and their events.
LEMMA CreateFxAcceptanceKeeps ==
    ASSUME IInv, Rows(db, clean, cross), NEW q \in Quote, CreateFxAcceptance(q),
           db' \in Database
    PROVE  /\ Rows(db', clean, cross) /\ Past(db, db')
           /\ \A k \in Event : db.evt[k] = "PENDING" => db'.evt[k] = "PENDING"
           /\ UNCHANGED <<job, valueSent, clean, cross>>
<1>1. db \in Database
  BY DEF IInv, TypeOK
<1> DEFINE asked == {<<"funding.reserve.requested", q, s>> : s \in Side}
<1>2. /\ cross /\ db.intent[q] = "ABSENT"
      /\ db' = [db EXCEPT
            !.intent[q] = "PREPARING",
            !.res = [r \in Reservation |-> IF r[1] = q THEN "PENDING" ELSE @[r]],
            !.evt = [k \in Event |-> IF k \in asked THEN "PENDING" ELSE @[k]]]
      /\ UNCHANGED <<job, valueSent, clean, cross>>
  BY DEF CreateFxAcceptance
<1>3. ASSUME NEW r \in Reservation
      PROVE  Reserve(r) \in asked <=> r[1] = q
  <2>1. q # Direct
    BY DirectAssumption
  <2>2. Reserve(r)[2] = r[1]
    BY DEF Reserve
  <2>3. r[1] = q => r[2] \in Side
    BY <2>1 DEF Reservation, FxReservation
  <2>4. r[2] \in Side /\ r[1] = q => Reserve(r) \in asked
    BY DEF Reserve
  <2>5. \A k \in asked : k[2] = q
    OBVIOUS
  <2> HIDE DEF asked
  <2> QED  BY <2>2, <2>3, <2>4, <2>5
<1>4. \A k \in asked : k[1] = "funding.reserve.requested"
  OBVIOUS
<1> HIDE DEF asked
<1>5. /\ db'.order = db.order /\ db'.compliance = db.compliance /\ db'.leg = db.leg
      /\ db'.credited = db.credited /\ db'.cancel = db.cancel /\ db'.journal = db.journal
      /\ \A p \in Quote : db'.intent[p] = IF p = q THEN "PREPARING" ELSE db.intent[p]
      /\ \A r \in Reservation : db'.res[r] = IF r[1] = q THEN "PENDING" ELSE db.res[r]
      /\ \A k \in Event : db'.evt[k] = IF k \in asked THEN "PENDING" ELSE db.evt[k]
  <2> DEFINE res == [r \in Reservation |-> IF r[1] = q THEN "PENDING" ELSE db.res[r]]
             evt == [k \in Event |-> IF k \in asked THEN "PENDING" ELSE db.evt[k]]
  <2>1. db' = [db EXCEPT !.intent[q] = "PREPARING", !.res = res, !.evt = evt]
    BY <1>2
  <2>2. /\ \A r \in Reservation : res[r] = IF r[1] = q THEN "PENDING" ELSE db.res[r]
        /\ \A k \in Event : evt[k] = IF k \in asked THEN "PENDING" ELSE db.evt[k]
    OBVIOUS
  <2> HIDE DEF res, evt
  <2>3. /\ db'.order = db.order /\ db'.compliance = db.compliance /\ db'.leg = db.leg
        /\ db'.credited = db.credited /\ db'.cancel = db.cancel /\ db'.journal = db.journal
        /\ db'.res = res /\ db'.evt = evt
    BY <1>1, <2>1 DEF Database
  <2>4. \A p \in Quote : db'.intent[p] = IF p = q THEN "PREPARING" ELSE db.intent[p]
    BY <1>1, <2>1 DEF Database
  <2> QED  BY <2>2, <2>3, <2>4
<1>6. /\ \A p : Accept(p) \notin asked
      /\ \A l : Submit(l) \notin asked
      /\ Message \notin asked /\ Value \notin asked
  BY <1>4, EventKinds
<1>7. ASSUME NEW r \in Reservation
      PROVE  /\ Reserve(r) \in Event
             /\ r[1] = q => db.res[r] = "ABSENT" /\ db.evt[Reserve(r)] = "ABSENT"
             /\ db'.evt[Reserve(r)] = IF r[1] = q THEN "PENDING" ELSE db.evt[Reserve(r)]
  BY <1>2, <1>3, <1>5, EventCases DEF Rows, ReservationsHaveEvents
<1>8. \A p \in Quote : db'.evt[Accept(p)] = db.evt[Accept(p)]
  BY <1>5, <1>6, EventCases
<1>9. \A l \in FxRole : db'.evt[Submit(l)] = db.evt[Submit(l)]
  BY <1>5, <1>6, EventCases
<1>10. db'.evt[Message] = db.evt[Message] /\ db'.evt[Value] = db.evt[Value]
  BY <1>5, <1>6, EventCases
<1>11. Past(db, db')
  <2>1. \A r \in Reservation : db.res[r] \in Held => db'.res[r] \in Held
    BY <1>5, <1>7 DEF Held
  <2>2. \A p \in Quote : db.intent[p] = "TRADE_ACCEPTED" => db'.intent[p] = "TRADE_ACCEPTED"
    BY <1>2, <1>5
  <2>3. \A k \in Event : db.evt[k] # "ABSENT" => db'.evt[k] # "ABSENT"
    BY <1>5
  <2> QED  BY <1>5, <2>1, <2>2, <2>3 DEF Past
<1>12. \A r \in Reservation : db'.res[r] \in Held <=> db.res[r] \in Held
  BY <1>5, <1>7 DEF Held
<1>13. \A p \in Quote : /\ db'.intent[p] \in Concluded <=> db.intent[p] \in Concluded
                        /\ db'.intent[p] = "TRADE_ACCEPTED" <=> db.intent[p] = "TRADE_ACCEPTED"
  BY <1>2, <1>5 DEF Concluded
<1>14. FundsFollowOrder(db')
  BY <1>5 DEF Rows, FundsFollowOrder
<1>15. ReservationsHaveEvents(db')
  <2> SUFFICES ASSUME NEW r \in Reservation
               PROVE  /\ db'.res[r] = "ABSENT" <=> db'.evt[Reserve(r)] = "ABSENT"
                      /\ db'.res[r] \in Held <=> db'.evt[Reserve(r)] = "PUBLISHED"
                      /\ r[1] \in Quote =>
                            (db'.res[r] = "ABSENT" <=> db'.intent[r[1]] = "ABSENT")
    BY DEF ReservationsHaveEvents
  <2> QED  BY <1>5, <1>7 DEF Rows, ReservationsHaveEvents, Held
<1>16. IntentsAreFunded(db')
  BY <1>8, <1>12, <1>13 DEF Rows, IntentsAreFunded, Funds
<1>17. OneTrade(db')
  BY <1>5, <1>9, <1>13 DEF Rows, OneTrade
<1>18. ValueFollowsMessage(db') /\ DirectOnly(db', clean, cross)
  BY <1>2, <1>5, <1>10 DEF Rows, ValueFollowsMessage, DirectOnly
<1>19. Complete(db', cross)
  <2>1. ASSUME Paid(db, cross)
        PROVE  Paid(db', cross)
    <3>1. PICK p \in Quote : /\ db.intent[p] = "TRADE_ACCEPTED"
                             /\ \A r \in Funds(p) : db.res[r] = "CONSUMED"
      BY <1>2, <2>1 DEF Paid
    <3>2. \A r \in Funds(p) : db'.res[r] = "CONSUMED"
      BY <1>2, <1>5, <3>1 DEF Funds
    <3> QED  BY <1>2, <1>13, <3>1, <3>2 DEF Paid
  <2> QED  BY <1>5, <2>1 DEF Rows, Complete
<1> QED
  BY <1>2, <1>5, <1>11, <1>14, <1>15, <1>16, <1>17, <1>18, <1>19 DEF Rows

\* A rolled back handler leaves the rows as they are, or gives its event up.
LEMMA AbortAside ==
    ASSUME IInv, Jobs, NEW w \in Worker, AbortHandler(w)
    PROVE  /\ Aside(db, db')
           /\ \A k \in Event : k # job[w].event /\ db.evt[k] = "PENDING"
                                 => db'.evt[k] = "PENDING"
           /\ valueSent' => valueSent \/ job[w].event = Value
           /\ job' = [job EXCEPT ![w] = NoJob] /\ UNCHANGED <<clean, cross>>
<1>1. db \in Database /\ job[w] # NoJob /\ job[w].event \in Event
  BY DEF IInv, TypeOK, AbortHandler
<1>2. db.evt[job[w].event] = "PENDING"
  BY <1>1 DEF Jobs
<1>3. /\ db' = db \/ db' = [db EXCEPT !.evt[job[w].event] = "DEAD_LETTER"]
      /\ valueSent' => valueSent \/ job[w].event = Value
      /\ job' = [job EXCEPT ![w] = NoJob] /\ UNCHANGED <<clean, cross>>
  BY DEF AbortHandler, Submits, Value
<1>4. /\ db'.order = db.order /\ db'.compliance = db.compliance /\ db'.res = db.res
      /\ db'.intent = db.intent /\ db'.leg = db.leg /\ db'.credited = db.credited
      /\ db'.cancel = db.cancel /\ db'.journal = db.journal
      /\ \A k \in Event : \/ db'.evt[k] = db.evt[k]
                          \/ k = job[w].event /\ db'.evt[k] = "DEAD_LETTER"
  BY <1>1, <1>3 DEF Database
<1> QED
  BY <1>2, <1>3, <1>4 DEF Aside

\* A commit merges what the handler wrote, and leaves the other handlers' events.
LEMMA CommitKeeps ==
    ASSUME IInv, Saga, NEW w \in Worker, CommitHandler(w)
    PROVE  /\ Rows(db', clean, cross) /\ Past(db, db')
           /\ \A k \in Event : k # job[w].event /\ db.evt[k] = "PENDING"
                                 => db'.evt[k] = "PENDING"
           /\ valueSent' => valueSent \/ job[w].event = Value
           /\ job' = [job EXCEPT ![w] = NoJob] /\ UNCHANGED <<clean, cross>>
<1> DEFINE b == job[w].base
           e == job[w].event
           t == Handle(b, e, clean, cross)
<1>1. /\ b \in Database /\ e \in Event /\ t.ok /\ t.db \in Database
      /\ Wrote(b, t.db, e, clean, cross)
      /\ Merged(b, t.db, e, db, db')
      /\ valueSent' = (valueSent \/ Submits(e, b))
      /\ job' = [job EXCEPT ![w] = NoJob]
  BY CommitMerged
<1>2. job[w] # NoJob /\ UNCHANGED <<clean, cross>>
  BY DEF CommitHandler
<1>3. /\ db \in Database /\ db' \in Database /\ clean \in BOOLEAN /\ cross \in BOOLEAN
  BY CommitFollows DEF IInv, TypeOK
<1>4. /\ Rows(b, clean, cross) /\ Rows(db, clean, cross) /\ Past(b, db)
      /\ b.evt[e] = "PENDING" /\ db.evt[e] = "PENDING"
  BY <1>2 DEF Saga, Jobs
<1>5. \A r \in Reservation : e = Reserve(r) => t.db.res[r] = "RESERVED"
  <2> SUFFICES ASSUME NEW r \in Reservation, e = Reserve(r)
               PROVE  t.db.res[r] = "RESERVED"
    OBVIOUS
  <2>1. t = Handle(b, Reserve(r), clean, cross)
    OBVIOUS
  <2> HIDE DEF b, e, t
  <2> QED  BY <1>1, <1>3, <2>1, FundingReserveHolds
<1> HIDE DEF b, e, t
<1>6. CommitOf(b, t.db, e, db, db', clean, cross)
  BY <1>1, <1>4, <1>5 DEF CommitOf
<1>7. Rows(db', clean, cross) /\ Past(db, db')
  BY <1>1, <1>3, <1>6, CommitKeepsRows, CommitIsForward
<1>8. \A k \in Event : k # e /\ db.evt[k] = "PENDING" => db'.evt[k] = "PENDING"
  BY <1>1 DEF Merged, Wrote, WroteEvent
<1>9. valueSent' => valueSent \/ e = Value
  BY <1>1 DEF Submits, Value
<1> QED
  BY <1>1, <1>2, <1>7, <1>8, <1>9 DEF e

\* Every step keeps the rows and moves them forward.
LEMMA NextKeeps ==
    ASSUME IInv, Saga, [Next]_vars
    PROVE  Rows(db', clean, cross) /\ Past(db, db') /\ UNCHANGED <<clean, cross>>
<1>0. Rows(db, clean, cross) /\ db \in Database /\ db' \in Database
  BY NextFollows DEF Saga, IInv, TypeOK
<1>1. ASSUME NEW q \in Quote, CreateFxAcceptance(q)
      PROVE  Rows(db', clean, cross) /\ Past(db, db') /\ UNCHANGED <<clean, cross>>
  BY <1>0, <1>1, CreateFxAcceptanceKeeps
<1>2. CASE RequestCancellation \/ RequestReturn \/ PostJournal \/ OpenCase
  BY <1>0, <1>2, CommandAside, AsideKeepsRows
<1>3. ASSUME NEW w \in Worker, NEW e \in Event, BeginHandler(w, e)
      PROVE  Rows(db', clean, cross) /\ Past(db, db') /\ UNCHANGED <<clean, cross>>
  BY <1>0, <1>3, PastReflexive DEF BeginHandler
<1>4. ASSUME NEW w \in Worker, CommitHandler(w)
      PROVE  Rows(db', clean, cross) /\ Past(db, db') /\ UNCHANGED <<clean, cross>>
  BY <1>4, CommitKeeps
<1>5. ASSUME NEW w \in Worker, AbortHandler(w)
      PROVE  Rows(db', clean, cross) /\ Past(db, db') /\ UNCHANGED <<clean, cross>>
  BY <1>0, <1>5, AbortAside, AsideKeepsRows DEF Saga
<1>6. CASE UNCHANGED vars
  BY <1>0, <1>6, PastReflexive DEF vars
<1> QED
  BY <1>1, <1>2, <1>3, <1>4, <1>5, <1>6 DEF Next

\* A handler that goes on keeps its snapshot and its event through every step;
\* one that begins has an event no other handler has.
LEMMA NextKeepsJobs ==
    ASSUME IInv, Saga, [Next]_vars
    PROVE  Jobs'
<1>0. /\ Rows(db, clean, cross) /\ db \in Database /\ db' \in Database
      /\ Jobs /\ Past(db, db') /\ UNCHANGED <<clean, cross>>
  BY NextFollows, NextKeeps DEF Saga, IInv, TypeOK
<1>1. ASSUME NEW w \in Worker, job[w] # NoJob
      PROVE  Past(job[w].base, db')
  <2>1. /\ job[w].base \in Database /\ Past(job[w].base, db)
        /\ job[w].base.order.version <= db.order.version
    BY <1>0, <1>1 DEF Jobs, IInv, TypeOK, SnapshotIsPast
  <2>2. db.order.version <= db'.order.version
    <3>1. db'.order = db.order \/ db'.order.version > db.order.version
      BY NextFollows DEF Follows
    <3>2. db.order.version \in Nat /\ db'.order.version \in Nat
      BY <1>0 DEF Database
    <3> QED  BY <3>1, <3>2
  <2> QED  BY <1>0, <2>1, <2>2, PastTransitive
<1>2. ASSUME job' = job,
             \A k \in Event : db.evt[k] = "PENDING" => db'.evt[k] = "PENDING"
      PROVE  Jobs'
  <2>1. \A w \in Worker : job[w] # NoJob => job[w].event \in Event
    BY DEF IInv, TypeOK
  <2> QED  BY <1>0, <1>1, <1>2, <2>1 DEF Jobs
<1>3. ASSUME NEW v \in Worker, job[v] # NoJob, job' = [job EXCEPT ![v] = NoJob],
             \A k \in Event : k # job[v].event /\ db.evt[k] = "PENDING"
                                 => db'.evt[k] = "PENDING"
      PROVE  Jobs'
  <2>1. \A w \in Worker : job'[w] = IF w = v THEN NoJob ELSE job[w]
    BY <1>3 DEF IInv, TypeOK
  <2>2. ASSUME NEW w \in Worker, job'[w] # NoJob
        PROVE  /\ Rows(job'[w].base, clean', cross')
               /\ Past(job'[w].base, db')
               /\ job'[w].base.evt[job'[w].event] = "PENDING"
               /\ db'.evt[job'[w].event] = "PENDING"
               /\ \A u \in Worker : job'[u] # NoJob /\ u # w
                                       => job'[u].event # job'[w].event
    <3>1. w # v /\ job'[w] = job[w] /\ job[w] # NoJob
      BY <2>1, <2>2
    <3>2. /\ job[w].event # job[v].event /\ job[w].event \in Event
          /\ db.evt[job[w].event] = "PENDING"
      BY <1>0, <1>3, <3>1 DEF Jobs, IInv, TypeOK
    <3>3. db'.evt[job[w].event] = "PENDING"
      BY <1>3, <3>2
    <3>4. /\ Rows(job[w].base, clean, cross)
          /\ job[w].base.evt[job[w].event] = "PENDING"
          /\ \A u \in Worker : job[u] # NoJob /\ u # w => job[u].event # job[w].event
      BY <1>0, <3>1 DEF Jobs
    <3> QED  BY <1>0, <1>1, <2>1, <3>1, <3>3, <3>4
  <2> QED  BY <2>2 DEF Jobs
<1>4. ASSUME NEW q \in Quote, CreateFxAcceptance(q)
      PROVE  Jobs'
  BY <1>0, <1>2, <1>4, CreateFxAcceptanceKeeps
<1>5. CASE RequestCancellation \/ RequestReturn \/ PostJournal \/ OpenCase
  BY <1>2, <1>5, CommandAside
<1>6. ASSUME NEW v \in Worker, NEW e \in Event, BeginHandler(v, e)
      PROVE  Jobs'
  <2>1. /\ job[v] = NoJob /\ db.evt[e] = "PENDING" /\ db' = db
        /\ \A u \in Worker : job[u] # NoJob => job[u].event # e
        /\ job' = [job EXCEPT ![v] = [event |-> e, base |-> db]]
    BY <1>6 DEF BeginHandler
  <2>2. \A w \in Worker : job'[w] = IF w = v THEN [event |-> e, base |-> db] ELSE job[w]
    BY <2>1 DEF IInv, TypeOK
  <2>3. ASSUME NEW w \in Worker, job'[w] # NoJob
        PROVE  /\ Rows(job'[w].base, clean', cross')
               /\ Past(job'[w].base, db')
               /\ job'[w].base.evt[job'[w].event] = "PENDING"
               /\ db'.evt[job'[w].event] = "PENDING"
               /\ \A u \in Worker : job'[u] # NoJob /\ u # w
                                       => job'[u].event # job'[w].event
    <3>1. CASE w = v
      <4>1. job'[w].base = db /\ job'[w].event = e
        BY <2>2, <3>1
      <4>2. \A u \in Worker : job'[u] # NoJob /\ u # w => job'[u].event # e
        BY <2>1, <2>2, <3>1
      <4> QED  BY <1>0, <2>1, <4>1, <4>2
    <3>2. CASE w # v
      <4>1. job'[w] = job[w] /\ job[w] # NoJob
        BY <2>2, <2>3, <3>2
      <4>2. /\ Rows(job[w].base, clean, cross)
            /\ job[w].base.evt[job[w].event] = "PENDING"
            /\ db.evt[job[w].event] = "PENDING"
            /\ \A u \in Worker : job[u] # NoJob /\ u # w => job[u].event # job[w].event
        BY <1>0, <4>1 DEF Jobs
      <4>3. \A u \in Worker : job'[u] # NoJob /\ u # w => job'[u].event # job[w].event
        BY <2>1, <2>2, <4>1, <4>2
      <4> QED  BY <1>0, <1>1, <2>1, <4>1, <4>2, <4>3
    <3> QED  BY <3>1, <3>2
  <2> QED  BY <2>3 DEF Jobs
<1>7. ASSUME NEW w \in Worker, CommitHandler(w)
      PROVE  Jobs'
  <2>1. job[w] # NoJob
    BY <1>7 DEF CommitHandler
  <2> QED  BY <1>3, <1>7, <2>1, CommitKeeps
<1>8. ASSUME NEW w \in Worker, AbortHandler(w)
      PROVE  Jobs'
  <2>1. job[w] # NoJob
    BY <1>8 DEF AbortHandler
  <2> QED  BY <1>0, <1>3, <1>8, <2>1, AbortAside
<1>9. CASE UNCHANGED vars
  BY <1>2, <1>9 DEF vars
<1> QED
  BY <1>4, <1>5, <1>6, <1>7, <1>8, <1>9 DEF Next

\* The connector is told of a value only by the handler of its event.
LEMMA NextKeepsValue ==
    ASSUME IInv, Saga, [Next]_vars
    PROVE  ValueIsAsked'
<1>0. Value \in Event /\ Past(db, db')
  BY NextKeeps, EventCases
<1>1. valueSent' => valueSent \/ \E w \in Worker : job[w] # NoJob /\ job[w].event = Value
  <2>1. CASE \E w \in Worker : CommitHandler(w)
    BY <2>1, CommitKeeps DEF CommitHandler
  <2>2. CASE \E w \in Worker : AbortHandler(w)
    BY <2>2, AbortAside DEF AbortHandler, Saga
  <2> QED
    BY <2>1, <2>2, ZenonT(40) DEF Next, vars, CreateFxAcceptance, RequestCancellation, RequestReturn,
                      PostJournal, OpenCase, BeginHandler
<1>2. valueSent' => db.evt[Value] # "ABSENT"
  BY <1>1 DEF Saga, Jobs, ValueIsAsked
<1> QED
  BY <1>0, <1>2 DEF ValueIsAsked, Past

\* A new payment says nothing wrong.
LEMMA InitSaga == Init => Saga
<1> SUFFICES ASSUME Init PROVE Saga
  OBVIOUS
<1>1. db = NewPayment /\ job = [w \in Worker |-> NoJob] /\ valueSent = FALSE
  BY DEF Init
<1>2. /\ db.order.state = "CONTROL_CHECKS" /\ db.compliance = "PENDING"
      /\ ~db.credited /\ db.cancel = "ABSENT"
      /\ \A r \in Reservation : db.res[r] = "ABSENT"
      /\ \A q \in Quote : db.intent[q] = "ABSENT"
      /\ \A l \in Role : db.leg[l] = IF l = "PAYMENT_VALUE" THEN "PENDING" ELSE "ABSENT"
      /\ \A k \in Event : db.evt[k] = IF k = Created THEN "PENDING" ELSE "ABSENT"
  BY <1>1 DEF NewPayment, Created
<1>3. /\ \A k \in Event : k # Created => db.evt[k] = "ABSENT"
      /\ \A r \in Reservation : Reserve(r) # Created
      /\ \A q \in Quote : Accept(q) # Created
      /\ \A l \in FxRole : Submit(l) # Created
      /\ Message # Created /\ Value # Created
  BY <1>2, EventKinds
<1>4. /\ \A r \in Reservation : db.evt[Reserve(r)] = "ABSENT"
      /\ \A q \in Quote : db.evt[Accept(q)] = "ABSENT"
      /\ \A l \in FxRole : db.evt[Submit(l)] = "ABSENT"
      /\ db.evt[Message] = "ABSENT" /\ db.evt[Value] = "ABSENT"
  BY <1>3, EventCases
<1>5. FundsFollowOrder(db) /\ ReservationsHaveEvents(db)
  BY <1>2, <1>4 DEF FundsFollowOrder, ReservationsHaveEvents, Held
<1>6. IntentsAreFunded(db) /\ ValueFollowsMessage(db)
  BY <1>2, <1>4 DEF IntentsAreFunded, ValueFollowsMessage, Concluded
<1>7. OneTrade(db)
  BY <1>2, <1>4 DEF OneTrade, Role, FxRole
<1>8. DirectOnly(db, clean, cross) /\ Complete(db, cross)
  BY <1>2, <1>4, ReservationCases DEF DirectOnly, Complete
<1>9. Jobs /\ ValueIsAsked
  BY <1>1 DEF Jobs, ValueIsAsked
<1> QED
  BY <1>5, <1>6, <1>7, <1>8, <1>9 DEF Saga, Rows

------------------------------------------------------------------------------
(* The theorems *)

\* Along every behaviour the committed rows, and those every handler has read,
\* say of each other what Rows says, and the latter are a past of the former.
THEOREM SagaInvariance == Spec => [](IInv /\ Saga)
<1>1. Init => IInv /\ Saga
  BY InitInv, InitSaga
<1>2. IInv /\ Saga /\ [Next]_vars => (IInv /\ Saga)'
  <2> SUFFICES ASSUME IInv, Saga, [Next]_vars PROVE IInv' /\ Saga'
    OBVIOUS
  <2>1. IInv'
    BY NextInv
  <2>2. Rows(db', clean', cross')
    BY NextKeeps
  <2> QED  BY <2>1, <2>2, NextKeepsJobs, NextKeepsValue DEF Saga
<1> QED
  BY <1>1, <1>2, PTL DEF Spec

\* A cancellation that was accepted excludes a credit, a consumed reservation
\* and any outcome but CANCELLED, whichever handlers raced with it.
THEOREM CancelExcludesCreditHolds == Spec => []CancelExcludesCredit
<1>1. Saga => CancelExcludesCredit
  BY DEF Saga, Rows, FundsFollowOrder, CancelExcludesCredit
<1> QED
  BY <1>1, SagaInvariance, PTL

\* Two intents of one order never both become a trade.
THEOREM AtMostOneTradeHolds == Spec => []AtMostOneTrade
<1>1. Saga => AtMostOneTrade
  BY DEF Saga, Rows, OneTrade, AtMostOneTrade
<1> QED
  BY <1>1, SagaInvariance, PTL

\* A payment closed as completed was credited, is final on every leg, has its
\* journal and was paid from the funds of exactly its own intent.
THEOREM CloseIsCompleteHolds == Spec => []CloseIsComplete
<1>1. Saga => CloseIsComplete
  BY DEF Saga, Rows, Complete, Paid, CloseIsComplete
<1> QED
  BY <1>1, SagaInvariance, PTL

\* A same-currency payment holds funds, delivers a message and sends its value
\* only after its screening has passed.
THEOREM DirectPaymentIsScreenedHolds == Spec => []DirectPaymentIsScreened
<1>1. ASSUME Saga PROVE DirectPaymentIsScreened
  <2> SUFFICES ASSUME ~cross,
                      valueSent \/ db.order.state = "MESSAGE_DELIVERED"
                                \/ \E r \in Reservation : db.res[r] # "ABSENT"
               PROVE  db.compliance = "PASSED"
    BY DEF DirectPaymentIsScreened
  <2>1. \A r \in Reservation : db.res[r] # "ABSENT" => db.res[DirectReservation] # "ABSENT"
    BY <1>1, ReservationCases DEF Saga, Rows, ReservationsHaveEvents, DirectOnly
  <2>2. valueSent \/ db.order.state = "MESSAGE_DELIVERED"
           => db.res[DirectReservation] # "ABSENT"
    BY <1>1 DEF Saga, Rows, ValueIsAsked, ValueFollowsMessage, DirectOnly, Held
  <2> QED  BY <1>1, <2>1, <2>2 DEF Saga, Rows, DirectOnly
<1> QED
  BY <1>1, SagaInvariance, PTL
=============================================================================
