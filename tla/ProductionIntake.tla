-------------------------- MODULE ProductionIntake --------------------------
(***************************************************************************)
(* The API side of the production backend (service.py, runtime.py,         *)
(* limit_reservation.py, router.py): payments, quotes, acceptances and     *)
(* cancellations, each under an Idempotency-Key, and the limits a payment  *)
(* reserves when it is created and settles when its order is closed.  The  *)
(* key, its response and the effect are inserted by one transaction, so    *)
(* other requests see a COMPLETED record or none; one that inserts the     *)
(* same key or instruction, or locks the same counter, position or order,  *)
(* waits for the end of the first.                                         *)
(***************************************************************************)
EXTENDS OpenRequests, SequencesExt

CONSTANTS
    Key,          \* values of the Idempotency-Key header
    Body,         \* request bodies, as their digests tell them apart
    Instruction,  \* instruction ids of payments
    LastDay,      \* bound: business dates are 1 .. LastDay
    MaxQuote,     \* bound: quotes
    MaxProfile    \* bound: limit profiles

ASSUME LastDayAssumption == LastDay \in Nat \ {0}

VARIABLES
    record,    \* COMPLETED IdempotencyKey rows: the digest, by <<scope, target, key>>
    effects,   \* history: how often each of them has had its effect
    orders,    \* PaymentOrder rows, in order of their id
    today,     \* the UTC date
    counter,   \* LimitCounter rows of the participant, by business date
    position,  \* ExposurePosition.exposure_minor, or None
    profiles,  \* ACTIVE LimitProfile rows, the latest last
    quotes,    \* FxQuote rows: "QUOTED", or "late" once expires_at has passed
    intents,   \* FxTradeIntent rows: quote -> order
    cancels    \* CancellationRequest rows: how many each order has

intakeVars == <<record, effects, orders, today, counter, position, profiles, quotes, intents, cancels>>

None == -1     \* NULL in a column of amounts

IntakeInit(initial) ==
    /\ record = <<>> /\ effects = <<>> /\ orders = <<>> /\ counter = <<>>
    /\ quotes = <<>> /\ intents = <<>> /\ cancels = <<>>
    /\ today = 1
    /\ position = None
    /\ profiles = initial

Keyed == {"payment", "reserved", "quote", "acceptance", "cancellation"}

\* begin() on a table without its unique key.
NotRecorded(id) == id \notin DOMAIN record

\* begin(): the key is new, and no open request is inserting it.  A call that
\* finds the record replays its response, or is refused if the body differs.
NewKey(id) ==
    /\ id \notin DOMAIN record
    /\ \A d \in Client : req[d].op \in Keyed => req[d].id # id

\* complete() and the commit.
Complete(id, body) ==
    /\ record' = Put(OneRow(id, body), record)
    /\ effects' = Put(OneRow(id, IF id \in DOMAIN effects THEN effects[id] + 1 ELSE 1), effects)

\* assert_limit(): the latest profile, if there is one (a sandbox needs none).
WithinProfile(n) == profiles # <<>> =>
    LET p == Last(profiles) IN
    /\ p.max # None => n <= p.max
    /\ p.exposure # None => n <= p.exposure

\* The unique instruction of a participant.
InstructionFree(x) ==
    /\ \A i \in DOMAIN orders : orders[i].instruction # x
    /\ \A d \in Client : req[d].op \in {"payment", "reserved"} => req[d].instruction # x

(* POST /payments: the key is inserted, entitlement, limit profile and account
   are read, and the order is inserted ... *)
BeginPayment(c, k, body, x, n) ==
    LET id == <<"payment", 0, k>> IN
    /\ NewKey(id)
    /\ InstructionFree(x)
    /\ n > 0
    /\ WithinProfile(n)
    /\ Open(c, [op |-> "payment", id |-> id, body |-> body, instruction |-> x, amount |-> n,
                limited |-> profiles # <<>>, profile |-> IF profiles = <<>> THEN <<>> ELSE <<Last(profiles)>>])
    /\ UNCHANGED intakeVars

Counter(day) == IF day \in DOMAIN counter THEN counter[day] ELSE [reserved |-> 0, consumed |-> 0]

\* Limit rows that nobody locks.
LimitsFreeAlways(day, exposed) == TRUE

\* No open request has locked the counter of the day, or the position.
LimitsFree(day, exposed) == \A d \in Client : req[d].op \in {"reserved", "close"} =>
    /\ req[d].day # day
    /\ ~(exposed /\ req[d].exposed)

(* ... the limits of the day are locked, checked and reserved ... *)
ReserveLimit(c) ==
    LET r == req[c]
        p == r.profile[1]
        exposed == p.exposure # None
        raised == IF position = None THEN r.amount ELSE position + r.amount
    IN
    /\ r.op = "payment" /\ r.limited
    /\ LimitsFree(today, exposed)
    /\ p.daily # None => Counter(today).reserved + Counter(today).consumed + r.amount <= p.daily
    /\ exposed => raised <= p.exposure
    /\ ReadOn(c, [op |-> "reserved", id |-> r.id, body |-> r.body, instruction |-> r.instruction,
                  amount |-> r.amount, day |-> today, exposed |-> exposed,
                  loaded |-> Counter(today), was |-> position,
                  new |-> [Counter(today) EXCEPT !.reserved = @ + r.amount],
                  raised |-> IF exposed THEN raised ELSE position])
    /\ UNCHANGED intakeVars

\* The rows of the limits, as the request c writes them.
WriteLimits(c) ==
    LET r == req[c] IN
    /\ counter' = Put(OneRow(r.day, Flush(Counter(r.day), r.loaded, r.new)), counter)
    /\ position' = IF r.raised # r.was THEN r.raised ELSE position

Order(r, day) == [instruction |-> r.instruction, amount |-> r.amount, day |-> day, state |-> "open"]

(* ... and order, facts, leg, event, record and response are committed.  An
   order without a profile is linked to no counter (day 0). *)
CommitPayment(c) ==
    LET r == req[c] IN
    /\ \/ /\ r.op = "payment" /\ ~r.limited
          /\ orders' = Append(orders, Order(r, 0))
          /\ UNCHANGED <<counter, position>>
       \/ /\ r.op = "reserved"
          /\ orders' = Append(orders, Order(r, r.day))
          /\ WriteLimits(c)
    /\ Complete(r.id, r.body)
    /\ cancels' = Append(cancels, 0)
    /\ Commit(c, TRUE)
    /\ UNCHANGED <<today, profiles, quotes, intents>>

\* A finalization that forgets what the order had reserved.
ConsumedOnly(row, n, completed) ==
    [reserved |-> IF completed THEN row.reserved - n ELSE row.reserved,
     consumed |-> IF completed THEN row.consumed + n ELSE row.consumed]

\* finalize()
Finalized(row, n, completed) ==
    [reserved |-> row.reserved - n,
     consumed |-> IF completed THEN row.consumed + n ELSE row.consumed]

(* set_order_state() of a worker, to a terminal state: the update takes the
   order row at the version read, then counter and position are locked.  A
   position that exists is lowered whether or not this order raised it; one
   that is too low raises, and the order stays open. *)
BeginClose(c, i, completed) ==
    LET order == orders[i]
        linked == order.day # 0
        exposed == linked /\ position # None
    IN
    /\ i \in DOMAIN orders
    /\ order.state = "open"
    /\ \A d \in Client : req[d].op = "close" => req[d].order # i
    /\ LimitsFree(order.day, exposed)
    /\ linked => Counter(order.day).reserved >= order.amount
    /\ exposed => position >= order.amount
    /\ Open(c, [op |-> "close", order |-> i, completed |-> completed,
                day |-> IF linked THEN order.day ELSE None, exposed |-> exposed,
                loaded |-> Counter(order.day), was |-> position,
                new |-> Finalized(Counter(order.day), order.amount, completed),
                raised |-> IF exposed THEN position - order.amount ELSE position])
    /\ UNCHANGED intakeVars

CommitClose(c) ==
    LET r == req[c] IN
    /\ r.op = "close"
    /\ orders' = [orders EXCEPT ![r.order].state = IF r.completed THEN "completed" ELSE "ended"]
    /\ IF r.day = None THEN UNCHANGED <<counter, position>> ELSE WriteLimits(c)
    /\ Commit(c, TRUE)
    /\ UNCHANGED <<record, effects, today, profiles, quotes, intents, cancels>>

NewDay ==
    /\ today < LastDay
    /\ today' = today + 1
    /\ UNCHANGED <<requestVars, record, effects, orders, counter, position, profiles, quotes, intents, cancels>>

\* A profile is provisioned: no registered route writes the table.
ProvisionLimitProfile(profile) ==
    /\ Len(profiles) < MaxProfile
    /\ profiles' = Append(profiles, profile)
    /\ UNCHANGED <<requestVars, record, effects, orders, today, counter, position, quotes, intents, cancels>>

\* POST /fx-quotes
BeginQuote(c, k, body) ==
    LET id == <<"quote", 0, k>> IN
    /\ NewKey(id)
    /\ Len(quotes) < MaxQuote
    /\ Open(c, [op |-> "quote", id |-> id, body |-> body])
    /\ UNCHANGED intakeVars

CommitQuote(c) ==
    /\ req[c].op = "quote"
    /\ quotes' = Append(quotes, "QUOTED")
    /\ Complete(req[c].id, req[c].body)
    /\ Commit(c, TRUE)
    /\ UNCHANGED <<orders, today, counter, position, profiles, intents, cancels>>

PassQuoteExpiry(q) ==
    /\ q \in DOMAIN quotes /\ quotes[q] = "QUOTED"
    /\ quotes' = [quotes EXCEPT ![q] = "late"]
    /\ UNCHANGED <<requestVars, record, effects, orders, today, counter, position, profiles, intents, cancels>>

(* POST /payments/{id}/fx-acceptance-intents: the quote is checked before the
   key is looked up, the state of the order not at all; a quote has one intent. *)
BeginAcceptance(c, i, q, k) ==
    LET id == <<"acceptance", i, k>> IN
    /\ i \in DOMAIN orders /\ q \in DOMAIN quotes
    /\ quotes[q] = "QUOTED"
    /\ NewKey(id)
    /\ q \notin DOMAIN intents
    /\ \A d \in Client : req[d].op = "acceptance" => req[d].quote # q
    /\ Open(c, [op |-> "acceptance", id |-> id, order |-> i, quote |-> q])
    /\ UNCHANGED intakeVars

CommitAcceptance(c) ==
    LET r == req[c] IN
    /\ r.op = "acceptance"
    /\ intents' = Put(OneRow(r.quote, r.order), intents)
    /\ Complete(r.id, "quote")
    /\ Commit(c, quotes[r.quote] = "QUOTED")
    /\ UNCHANGED <<orders, today, counter, position, profiles, quotes, cancels>>

(* POST /payments/{id}/cancellation-requests: refused when the order is
   terminal, before the key is looked up; the order row is not locked. *)
BeginCancellation(c, i, k, reason) ==
    LET id == <<"cancellation", i, k>> IN
    /\ i \in DOMAIN orders
    /\ orders[i].state = "open"
    /\ NewKey(id)
    /\ Open(c, [op |-> "cancellation", id |-> id, order |-> i, body |-> reason])
    /\ UNCHANGED intakeVars

CommitCancellation(c) ==
    LET r == req[c] IN
    /\ r.op = "cancellation"
    /\ cancels' = [cancels EXCEPT ![r.order] = @ + 1]
    /\ Complete(r.id, r.body)
    /\ Commit(c, orders[r.order].state = "open")
    /\ UNCHANGED <<orders, today, counter, position, profiles, quotes, intents>>

RollBackIntake(c) ==
    /\ req[c].op \in Keyed \cup {"close"}
    /\ RollBack(c)
    /\ UNCHANGED intakeVars

\* The orders of a day in one of these states, and what they come to.
Sum(day, states) ==
    LET of == {i \in DOMAIN orders : orders[i].day = day /\ orders[i].state \in states}
    IN SumFunctionOnSet([i \in of |-> orders[i].amount], of)
-----------------------------------------------------------------------------
\* COMPLETED rows: scope, target and key; a request's body is its digest.
IdempotencyRow == Keyed \X Nat \X Key
OrderRow == [instruction : Instruction, amount : Nat \ {0}, day : 0 .. LastDay,
             state : {"open", "completed", "ended"}]
CounterRow == [reserved : Nat, consumed : Nat]
PositionRow == Nat \cup {None}
ProfileRow == [max : Nat \cup {None}, daily : Nat \cup {None}, exposure : Nat \cup {None}]
QuoteRow == {"QUOTED", "late"}
IntentRows == [DOMAIN intents -> DOMAIN orders]
CancellationRows == [DOMAIN orders -> Nat]

\* The API and the workers that close orders, for callers that may ask for
\* anything.
IntakeNext ==
    \/ \E c \in Client :
         \/ \E k \in Key, body \in Body, x \in Instruction, n \in Nat : BeginPayment(c, k, body, x, n)
         \/ ReserveLimit(c)
         \/ CommitPayment(c)
         \/ \E i \in DOMAIN orders, completed \in BOOLEAN : BeginClose(c, i, completed)
         \/ CommitClose(c)
         \/ \E k \in Key, body \in Body : BeginQuote(c, k, body)
         \/ CommitQuote(c)
         \/ \E i \in DOMAIN orders, q \in DOMAIN quotes, k \in Key : BeginAcceptance(c, i, q, k)
         \/ CommitAcceptance(c)
         \/ \E i \in DOMAIN orders, k \in Key, reason \in Body : BeginCancellation(c, i, k, reason)
         \/ CommitCancellation(c)
         \/ RollBackIntake(c)
    \/ NewDay
    \/ \E profile \in ProfileRow : ProvisionLimitProfile(profile)
    \/ \E q \in DOMAIN quotes : PassQuoteExpiry(q)

IntakeSpec ==
    /\ \E initial \in Seq(ProfileRow) : IntakeInit(initial)
    /\ \E allowed \in Nat : RequestsInit(allowed)
    /\ [][IntakeNext]_<<requestVars, intakeVars>>

IntakeTypeOK ==
    /\ DOMAIN record \subseteq IdempotencyRow
    /\ \A i \in DOMAIN orders : orders[i] \in OrderRow
    /\ DOMAIN counter \subseteq 1 .. LastDay
    /\ \A day \in DOMAIN counter : counter[day] \in CounterRow
    /\ position \in PositionRow
    /\ \A i \in DOMAIN profiles : profiles[i] \in ProfileRow
    /\ \A q \in DOMAIN quotes : quotes[q] \in QuoteRow
    /\ DOMAIN intents \subseteq DOMAIN quotes /\ intents \in IntentRows
    /\ cancels \in CancellationRows

(* limit_reservation.py: the counter of a day has reserved what the open orders
   created under a profile that day come to, and consumed what the completed
   ones do, whichever day they are closed on and whatever overlaps: no order is
   settled twice, none is forgotten, and no row overwrites another's update. *)
LimitsMatchOrders == \A day \in 1 .. LastDay :
    Counter(day) = [reserved |-> Sum(day, {"open"}), consumed |-> Sum(day, {"completed"})]

(* limit_reservation.py, reserve(): the orders of a day that are open or have
   been completed stay within the daily limit, although creation reads the
   profile, inserts the order and only then locks the counter. *)
DailyLimitHolds == \A day \in 1 .. LastDay :
    Sum(day, {"open", "completed"}) > 0 =>
      \E i \in DOMAIN profiles :
        profiles[i].daily = None \/ Sum(day, {"open", "completed"}) <= profiles[i].daily

(* runtime.py, begin() and complete(): a key has its effect exactly once, when
   its record is there, however requests with it overlap, fail and retry; two
   keys never make two orders of one instruction. *)
CreatedOncePerKey ==
    /\ DOMAIN effects = DOMAIN record
    /\ \A id \in DOMAIN effects : effects[id] = 1
    /\ \A i, j \in DOMAIN orders : i # j => orders[i].instruction # orders[j].instruction
=============================================================================
