----------------------- MODULE ProductionIntakeProofs -----------------------
(***************************************************************************)
(* Proofs about ProductionIntake for every set of clients, keys and        *)
(* instructions, and every number of days: a key has its effect once, two  *)
(* orders never have one instruction, the limit rows of a day follow its   *)
(* orders step by step and come to what those are, and the orders of a day *)
(* to no more than the limit they were checked against.                    *)
(*                                                                         *)
(* The invariant says what an open request relies on (Relies): the row it  *)
(* has inserted under a unique key is not there yet, and a row that it has *)
(* locked is as it was read; and that two open requests have not inserted  *)
(* the same key nor locked the same row (Apart).  A commit therefore       *)
(* writes the limits from the rows it replaces, although Flush would let   *)
(* it overwrite others.                                                    *)
(***************************************************************************)
EXTENDS ProductionIntake, SumTheorems, FiniteSetTheorems, TLAPS

------------------------------------------------------------------------------
(* Tuples and rows *)

LEMMA AppendRow ==
    ASSUME NEW S, NEW s \in Seq(S), NEW e \in S
    PROVE  /\ Append(s, e) \in Seq(S)
           /\ Len(s) \in Nat /\ DOMAIN s = 1 .. Len(s)
           /\ DOMAIN Append(s, e) = 1 .. Len(s) + 1
           /\ \A i \in 1 .. Len(s) : Append(s, e)[i] = s[i] /\ s[i] \in S
           /\ Append(s, e)[Len(s) + 1] = e
  OBVIOUS

LEMMA ReplaceRow ==
    ASSUME NEW S, NEW s \in Seq(S), NEW i \in DOMAIN s, NEW e \in S
    PROVE  /\ [s EXCEPT ![i] = e] \in Seq(S)
           /\ DOMAIN [s EXCEPT ![i] = e] = DOMAIN s
           /\ Len([s EXCEPT ![i] = e]) = Len(s)
           /\ [s EXCEPT ![i] = e][i] = e
           /\ \A j \in DOMAIN s : j # i => [s EXCEPT ![i] = e][j] = s[j]
  OBVIOUS

LEMMA EmptyRows == ASSUME NEW S PROVE <<>> \in Seq(S) /\ DOMAIN <<>> = {} /\ Len(<<>>) = 0
  OBVIOUS

\* An update of a row that is still as it was loaded writes the new row.
LEMMA FlushFresh ==
    ASSUME NEW current \in CounterRow, NEW new \in CounterRow
    PROVE  Flush(current, current, new) = new
<1>1. DOMAIN current = {"reserved", "consumed"} /\ DOMAIN new = {"reserved", "consumed"}
  BY DEF CounterRow
<1>2. new = [col \in {"reserved", "consumed"} |-> new[col]]
  BY DEF CounterRow
<1>3. \A col \in {"reserved", "consumed"} :
        (IF new[col] # current[col] THEN new[col] ELSE current[col]) = new[col]
  OBVIOUS
<1> QED
  BY <1>1, <1>2, <1>3, Zenon DEF Flush

------------------------------------------------------------------------------
(* The invariant *)

Held == {"payment", "reserved"}
Locking == {"reserved", "close"}

\* The record of its key is not there yet.
KeyFree(c) == req[c].op \in Keyed => req[c].id \in IdempotencyRow \ DOMAIN record

\* No order has its instruction.
InstructionNew(c) == req[c].op \in Held =>
    /\ req[c].instruction \in Instruction
    /\ req[c].amount \in Nat \ {0}
    /\ \A i \in DOMAIN orders : orders[i].instruction # req[c].instruction

\* The profile it has read was provisioned.
ProfileRead(c) == req[c].op = "payment" /\ req[c].limited =>
    \E i \in DOMAIN profiles : req[c].profile = <<profiles[i]>>

\* It raises the rows it has locked, within a profile.
Reserves(c) == LET r == req[c] IN r.op = "reserved" =>
    /\ r.day \in 1 .. LastDay
    /\ r.exposed \in BOOLEAN
    /\ r.loaded = Counter(r.day)
    /\ r.new = [reserved |-> r.loaded.reserved + r.amount, consumed |-> r.loaded.consumed]
    /\ r.exposed => /\ r.was = position
                    /\ r.raised = IF position = None THEN r.amount ELSE position + r.amount
    /\ ~r.exposed => r.raised = r.was
    /\ \E i \in DOMAIN profiles :
         /\ profiles[i].daily # None =>
              r.loaded.reserved + r.loaded.consumed + r.amount <= profiles[i].daily
         /\ r.exposed => profiles[i].exposure # None /\ r.raised <= profiles[i].exposure

\* It lowers the rows it has locked, by the amount of an open order.
Closes(c) == LET r == req[c] IN r.op = "close" =>
    /\ r.order \in DOMAIN orders
    /\ orders[r.order].state = "open"
    /\ r.completed \in BOOLEAN
    /\ r.exposed \in BOOLEAN
    /\ r.day = IF orders[r.order].day # 0 THEN orders[r.order].day ELSE None
    /\ r.day # None =>
         /\ r.loaded = Counter(r.day)
         /\ r.loaded.reserved >= orders[r.order].amount
         /\ r.new = Finalized(r.loaded, orders[r.order].amount, r.completed)
    /\ r.exposed => /\ r.day # None
                    /\ r.was = position
                    /\ position # None /\ position >= orders[r.order].amount
                    /\ r.raised = position - orders[r.order].amount
    /\ ~r.exposed => r.raised = r.was

\* The quote it accepts has no intent, and the order it cancels is there.
Refers(c) ==
    /\ req[c].op = "acceptance" =>
         /\ req[c].order \in DOMAIN orders
         /\ req[c].quote \in DOMAIN quotes \ DOMAIN intents
    /\ req[c].op = "cancellation" => req[c].order \in DOMAIN orders

Relies(c) == KeyFree(c) /\ InstructionNew(c) /\ ProfileRead(c) /\ Reserves(c) /\ Closes(c) /\ Refers(c)

\* Two open requests that the database keeps apart.
Apart(c, d) ==
    /\ req[c].op \in Keyed /\ req[d].op \in Keyed => req[c].id # req[d].id
    /\ req[c].op \in Held /\ req[d].op \in Held => req[c].instruction # req[d].instruction
    /\ req[c].op \in Locking /\ req[d].op \in Locking =>
         /\ req[c].day = req[d].day => req[c].day = None
         /\ ~(req[c].exposed /\ req[d].exposed)
    /\ req[c].op = "close" /\ req[d].op = "close" => req[c].order # req[d].order
    /\ req[c].op = "acceptance" /\ req[d].op = "acceptance" => req[c].quote # req[d].quote

IntakeRequests ==
    /\ DOMAIN req = Client
    /\ \A c \in Client : Relies(c)
    /\ \A c, d \in Client : c # d => Apart(c, d)

Tables ==
    /\ today \in 1 .. LastDay
    /\ orders \in Seq(OrderRow) /\ profiles \in Seq(ProfileRow)
    /\ quotes \in Seq(QuoteRow) /\ cancels \in Seq(Nat) /\ Len(cancels) = Len(orders)
    /\ IntakeTypeOK

(* limit_reservation.py, reserve(): what a counter holds is within the daily
   limit, and what a position holds within the exposure limit, of a profile. *)
LimitsAreKept ==
    /\ \A day \in DOMAIN counter :
         counter[day].reserved + counter[day].consumed > 0 =>
           \E i \in DOMAIN profiles :
             profiles[i].daily # None => counter[day].reserved + counter[day].consumed <= profiles[i].daily
    /\ position # None /\ position > 0 =>
         \E i \in DOMAIN profiles : profiles[i].exposure # None /\ position <= profiles[i].exposure

IInv == Tables /\ IntakeRequests /\ CreatedOncePerKey /\ LimitsAreKept

ivars == <<requestVars, intakeVars>>

------------------------------------------------------------------------------
(* Initial states *)

LEMMA InitIntake ==
    ASSUME NEW initial \in Seq(ProfileRow), IntakeInit(initial),
           NEW allowed \in Nat, RequestsInit(allowed)
    PROVE  IInv
<1>1. /\ record = <<>> /\ effects = <<>> /\ orders = <<>> /\ counter = <<>>
      /\ quotes = <<>> /\ intents = <<>> /\ cancels = <<>>
      /\ today = 1 /\ position = None /\ profiles = initial
      /\ req = [c \in Client |-> Idle]
  BY DEF IntakeInit, RequestsInit
<1>2. DOMAIN <<>> = {} /\ Len(<<>>) = 0
  OBVIOUS
<1>3. orders \in Seq(OrderRow) /\ quotes \in Seq(QuoteRow) /\ cancels \in Seq(Nat)
  BY <1>1, EmptyRows
<1>4. IntakeTypeOK
  <2>1. intents \in IntentRows
    BY <1>1, <1>2 DEF IntentRows
  <2>2. cancels \in CancellationRows
    BY <1>1, <1>2 DEF CancellationRows
  <2>3. position \in PositionRow
    BY <1>1 DEF PositionRow
  <2>4. \A i \in DOMAIN profiles : profiles[i] \in ProfileRow
    BY <1>1
  <2> QED  BY <1>1, <1>2, <2>1, <2>2, <2>3, <2>4 DEF IntakeTypeOK
<1>5. Tables
  <2>1. today \in 1 .. LastDay
    BY <1>1, LastDayAssumption
  <2> QED  BY <1>1, <1>2, <1>3, <1>4, <2>1 DEF Tables
<1>6. IntakeRequests
  <2>1. \A c \in Client : req[c].op = "idle"
    BY <1>1 DEF Idle
  <2> QED
    BY <1>1, <2>1 DEF IntakeRequests, Relies, Apart, KeyFree, InstructionNew, ProfileRead, Reserves,
       Closes, Refers, Keyed, Held, Locking
<1>7. CreatedOncePerKey
  BY <1>1, <1>2 DEF CreatedOncePerKey
<1>8. LimitsAreKept
  BY <1>1, <1>2 DEF LimitsAreKept
<1> QED
  BY <1>5, <1>6, <1>7, <1>8 DEF IInv

------------------------------------------------------------------------------
(* Steps that only read *)

\* What a request relies on, when neither it nor the tables change.
LEMMA ReadsStay ==
    ASSUME NEW d \in Client, Relies(d), req'[d] = req[d], UNCHANGED intakeVars
    PROVE  Relies(d)'
<1>1. /\ record' = record /\ orders' = orders /\ profiles' = profiles /\ counter' = counter
      /\ position' = position /\ quotes' = quotes /\ intents' = intents
  BY DEF intakeVars
<1>2. KeyFree(d)'
  BY <1>1 DEF Relies, KeyFree
<1>3. InstructionNew(d)'
  BY <1>1 DEF Relies, InstructionNew
<1>4. ProfileRead(d)'
  BY <1>1 DEF Relies, ProfileRead
<1>5. Reserves(d)'
  BY <1>1 DEF Relies, Reserves, Counter
<1>6. Closes(d)'
  BY <1>1 DEF Relies, Closes, Counter
<1>7. Refers(d)'
  BY <1>1 DEF Relies, Refers
<1> QED
  BY <1>2, <1>3, <1>4, <1>5, <1>6, <1>7 DEF Relies

\* Requests that have not changed stay apart.
LEMMA ApartStays ==
    ASSUME NEW c \in Client, NEW d \in Client, Apart(c, d),
           req'[c] = req[c], req'[d] = req[d]
    PROVE  Apart(c, d)'
  BY DEF Apart

\* Tables and history, when none of them changes.
LEMMA TablesStay ==
    ASSUME Tables, CreatedOncePerKey, LimitsAreKept, UNCHANGED intakeVars
    PROVE  Tables' /\ CreatedOncePerKey' /\ LimitsAreKept'
<1>1. /\ record' = record /\ effects' = effects /\ orders' = orders /\ profiles' = profiles
      /\ counter' = counter /\ position' = position /\ quotes' = quotes /\ intents' = intents
      /\ cancels' = cancels /\ today' = today
  BY DEF intakeVars
<1>2. IntakeTypeOK'
  BY <1>1 DEF Tables, IntakeTypeOK, IntentRows, CancellationRows
<1>3. Tables'
  BY <1>1, <1>2 DEF Tables
<1>4. CreatedOncePerKey'
  BY <1>1 DEF IInv, CreatedOncePerKey
<1>5. LimitsAreKept'
  BY <1>1 DEF IInv, LimitsAreKept
<1> QED
  BY <1>3, <1>4, <1>5

\* A request has read what it relies on, and is kept apart from the others.
LEMMA ReadStep ==
    ASSUME IInv, NEW c \in Client, NEW r, req' = [req EXCEPT ![c] = r],
           UNCHANGED intakeVars, Relies(c)',
           \A d \in Client : d # c => Apart(c, d)'
    PROVE  IInv'
<1>1. DOMAIN req = Client /\ DOMAIN req' = Client /\ \A d \in Client : d # c => req'[d] = req[d]
  BY DEF IInv, IntakeRequests
<1>2. \A d \in Client : Relies(d)'
  <2>1. TAKE d \in Client
  <2>2. CASE d = c
    BY <2>2
  <2>3. CASE d # c
    BY <1>1, <2>3, ReadsStay DEF IInv, IntakeRequests
  <2> QED  BY <2>2, <2>3
<1>3. \A d, e \in Client : d # e => Apart(d, e)'
  <2>1. SUFFICES ASSUME NEW d \in Client, NEW e \in Client, d # e PROVE Apart(d, e)'
    OBVIOUS
  <2>2. CASE d = c
    BY <2>1, <2>2
  <2>3. CASE e = c
    <3>1. Apart(e, d)'
      BY <2>1, <2>3
    <3> QED  BY <3>1 DEF Apart
  <2>4. CASE d # c /\ e # c
    BY <1>1, <2>1, <2>4, ApartStays DEF IInv, IntakeRequests
  <2> QED  BY <2>2, <2>3, <2>4
<1>4. IntakeRequests'
  BY <1>1, <1>2, <1>3 DEF IntakeRequests
<1> QED
  BY <1>4, TablesStay DEF IInv

\* A rollback leaves nothing behind.
LEMMA RollBackKeeps ==
    ASSUME IInv, NEW c \in Client, RollBackIntake(c)
    PROVE  IInv'
<1>1. req' = [req EXCEPT ![c] = Idle] /\ UNCHANGED intakeVars
  BY DEF RollBackIntake, RollBack
<1>2. req'[c].op = "idle"
  BY <1>1 DEF Idle, IInv, IntakeRequests
<1>3. Relies(c)'
  BY <1>2 DEF Relies, KeyFree, InstructionNew, ProfileRead, Reserves, Closes, Refers, Keyed, Held
<1>4. \A d \in Client : d # c => Apart(c, d)'
  BY <1>2 DEF Apart, Keyed, Held, Locking
<1> QED
  BY <1>1, <1>3, <1>4, ReadStep

LEMMA BeginPaymentKeeps ==
    ASSUME IInv, NEW c \in Client, NEW k \in Key, NEW body \in Body, NEW x \in Instruction,
           NEW n \in Nat, BeginPayment(c, k, body, x, n)
    PROVE  IInv'
<1> DEFINE id == <<"payment", 0, k>>
           r == [op |-> "payment", id |-> id, body |-> body, instruction |-> x, amount |-> n,
                 limited |-> profiles # <<>>, profile |-> IF profiles = <<>> THEN <<>> ELSE <<Last(profiles)>>]
<1>1. /\ NewKey(id) /\ InstructionFree(x) /\ n > 0
      /\ req' = [req EXCEPT ![c] = r] /\ UNCHANGED intakeVars
  BY Zenon DEF BeginPayment, Open
<1>2. record' = record /\ orders' = orders /\ profiles' = profiles
  BY <1>1 DEF intakeVars
<1>3. DOMAIN req = Client /\ req'[c] = r /\ \A d \in Client : d # c => req'[d] = req[d]
  BY <1>1 DEF IInv, IntakeRequests
<1>4. r.op = "payment" /\ r.id = id /\ r.instruction = x /\ r.amount = n
      /\ r.limited = (profiles # <<>>)
      /\ r.profile = IF profiles = <<>> THEN <<>> ELSE <<Last(profiles)>>
  OBVIOUS
<1>5. id \in IdempotencyRow
  BY DEF IdempotencyRow, Keyed
<1> HIDE DEF id, r
<1>6. Relies(c)'
  <2>1. KeyFree(c)'
    BY <1>1, <1>2, <1>3, <1>4, <1>5 DEF KeyFree, NewKey
  <2>2. InstructionNew(c)'
    BY <1>1, <1>2, <1>3, <1>4 DEF InstructionNew, InstructionFree
  <2>3. ProfileRead(c)'
    <3>1. SUFFICES ASSUME profiles # <<>> PROVE \E i \in DOMAIN profiles : r.profile = <<profiles[i]>>
      BY <1>2, <1>3, <1>4 DEF ProfileRead
    <3>2. profiles \in Seq(ProfileRow)
      BY DEF IInv, Tables
    <3>3. Len(profiles) \in DOMAIN profiles
      BY <3>1, <3>2
    <3> QED  BY <1>4, <3>1, <3>3 DEF Last
  <2>4. Reserves(c)' /\ Closes(c)' /\ Refers(c)'
    BY <1>3, <1>4 DEF Reserves, Closes, Refers
  <2> QED  BY <2>1, <2>2, <2>3, <2>4 DEF Relies
<1>7. \A d \in Client : d # c => Apart(c, d)'
  BY <1>1, <1>3, <1>4 DEF Apart, NewKey, InstructionFree, Held, Locking
<1> QED
  BY <1>1, <1>6, <1>7, ReadStep

\* Before it locks, a request has read a profile.
LEMMA ReserveLimitKeeps ==
    ASSUME IInv, NEW c \in Client, ReserveLimit(c)
    PROVE  IInv'
<1> DEFINE q == req[c]
           p == q.profile[1]
           exposed == p.exposure # None
           raised == IF position = None THEN q.amount ELSE position + q.amount
           r == [op |-> "reserved", id |-> q.id, body |-> q.body, instruction |-> q.instruction,
                 amount |-> q.amount, day |-> today, exposed |-> exposed,
                 loaded |-> Counter(today), was |-> position,
                 new |-> [Counter(today) EXCEPT !.reserved = @ + q.amount],
                 raised |-> IF exposed THEN raised ELSE position]
<1>1. /\ q.op = "payment" /\ q.limited
      /\ LimitsFree(today, exposed)
      /\ p.daily # None => Counter(today).reserved + Counter(today).consumed + q.amount <= p.daily
      /\ exposed => raised <= p.exposure
      /\ req' = [req EXCEPT ![c] = r] /\ UNCHANGED intakeVars
  BY Zenon DEF ReserveLimit, ReadOn
<1>2. /\ record' = record /\ orders' = orders /\ profiles' = profiles /\ counter' = counter
      /\ position' = position
  BY <1>1 DEF intakeVars
<1>3. DOMAIN req = Client /\ req'[c] = r /\ \A d \in Client : d # c => req'[d] = req[d]
  BY <1>1 DEF IInv, IntakeRequests
<1>4. PICK i \in DOMAIN profiles : q.profile = <<profiles[i]>>
  BY <1>1 DEF IInv, IntakeRequests, Relies, ProfileRead
<1>5. p = profiles[i]
  BY <1>4
<1>6. Counter(today) \in CounterRow
  BY DEF IInv, Tables, IntakeTypeOK, Counter, CounterRow
<1>7. /\ r.op = "reserved" /\ r.id = q.id /\ r.instruction = q.instruction /\ r.amount = q.amount
      /\ r.day = today /\ r.exposed = exposed /\ r.loaded = Counter(today) /\ r.was = position
      /\ r.new = [Counter(today) EXCEPT !.reserved = @ + q.amount]
      /\ r.raised = IF exposed THEN raised ELSE position
  OBVIOUS
<1>8. [Counter(today) EXCEPT !.reserved = @ + q.amount]
        = [reserved |-> Counter(today).reserved + q.amount, consumed |-> Counter(today).consumed]
  BY <1>6 DEF CounterRow
<1> HIDE DEF r
<1>10. Relies(c)'
  <2>1. KeyFree(c) /\ InstructionNew(c)
    BY DEF IInv, IntakeRequests, Relies
  <2>2. KeyFree(c)'
    BY <1>1, <1>2, <1>3, <1>7, <2>1 DEF KeyFree, Keyed
  <2>3. InstructionNew(c)'
    BY <1>1, <1>2, <1>3, <1>7, <2>1 DEF InstructionNew, Held
  <2>4. Reserves(c)'
    <3>1. req'[c].day \in 1 .. LastDay /\ req'[c].exposed \in BOOLEAN
      BY <1>3, <1>7 DEF IInv, Tables
    <3>2. \A day : (Counter(day) = IF day \in DOMAIN counter THEN counter[day] ELSE [reserved |-> 0, consumed |-> 0])
      BY DEF Counter
    <3>3. req'[c].loaded = IF req'[c].day \in DOMAIN counter' THEN counter'[req'[c].day]
                                                              ELSE [reserved |-> 0, consumed |-> 0]
      BY <1>2, <1>3, <1>7, <3>2
    <3>4. req'[c].new = [reserved |-> req'[c].loaded.reserved + req'[c].amount, consumed |-> req'[c].loaded.consumed]
      BY <1>3, <1>7, <1>8
    <3>5. /\ req'[c].exposed =>
               /\ req'[c].was = position'
               /\ req'[c].raised = IF position' = None THEN req'[c].amount ELSE position' + req'[c].amount
          /\ ~req'[c].exposed => req'[c].raised = req'[c].was
      BY <1>2, <1>3, <1>7
    <3>6. \E j \in DOMAIN profiles' :
             /\ profiles'[j].daily # None =>
                  req'[c].loaded.reserved + req'[c].loaded.consumed + req'[c].amount <= profiles'[j].daily
             /\ req'[c].exposed => profiles'[j].exposure # None /\ req'[c].raised <= profiles'[j].exposure
      <4>1. profiles[i].daily # None =>
              Counter(today).reserved + Counter(today).consumed + q.amount <= profiles[i].daily
        BY <1>1, <1>5
      <4>2. exposed => profiles[i].exposure # None /\ raised <= profiles[i].exposure
        BY <1>1, <1>5
      <4>3. /\ req'[c].loaded = Counter(today) /\ req'[c].amount = q.amount
        BY <1>3, <1>7
      <4>4. req'[c].exposed => exposed /\ req'[c].raised = raised
        BY <1>3, <1>7
      <4>5. req'[c].exposed => profiles[i].exposure # None /\ req'[c].raised <= profiles[i].exposure
        BY <4>2, <4>4
      <4> QED  BY <1>2, <4>1, <4>3, <4>5
    <3> QED  BY <3>1, <3>3, <3>4, <3>5, <3>6 DEF Reserves, Counter
  <2>5. ProfileRead(c)' /\ Closes(c)' /\ Refers(c)'
    BY <1>3, <1>7 DEF ProfileRead, Closes, Refers
  <2> QED  BY <2>2, <2>3, <2>4, <2>5 DEF Relies
<1>11. ASSUME NEW d \in Client, d # c PROVE Apart(c, d)'
  <2>1. Apart(c, d)
    BY <1>11 DEF IInv, IntakeRequests
  <2>2. req[d].op \in Locking => req[d].day # today /\ ~(exposed /\ req[d].exposed)
    BY <1>1 DEF LimitsFree, Locking
  <2> QED  BY <1>1, <1>3, <1>7, <1>11, <2>1, <2>2 DEF Apart, Keyed, Held, Locking
<1> QED
  BY <1>1, <1>10, <1>11, ReadStep

LEMMA BeginCloseKeeps ==
    ASSUME IInv, NEW c \in Client, NEW i \in DOMAIN orders, NEW completed \in BOOLEAN,
           BeginClose(c, i, completed)
    PROVE  IInv'
<1> DEFINE order == orders[i]
           linked == order.day # 0
           exposed == linked /\ position # None
           r == [op |-> "close", order |-> i, completed |-> completed,
                 day |-> IF linked THEN order.day ELSE None, exposed |-> exposed,
                 loaded |-> Counter(order.day), was |-> position,
                 new |-> Finalized(Counter(order.day), order.amount, completed),
                 raised |-> IF exposed THEN position - order.amount ELSE position]
<1>1. /\ order.state = "open"
      /\ \A d \in Client : req[d].op = "close" => req[d].order # i
      /\ LimitsFree(order.day, exposed)
      /\ linked => Counter(order.day).reserved >= order.amount
      /\ exposed => position >= order.amount
      /\ req' = [req EXCEPT ![c] = r] /\ UNCHANGED intakeVars
  BY Zenon DEF BeginClose, Open
<1>2. /\ record' = record /\ orders' = orders /\ profiles' = profiles /\ counter' = counter
      /\ position' = position
  BY <1>1 DEF intakeVars
<1>3. DOMAIN req = Client /\ req'[c] = r /\ \A d \in Client : d # c => req'[d] = req[d]
  BY <1>1 DEF IInv, IntakeRequests
<1>4. /\ r.op = "close" /\ r.order = i /\ r.completed = completed
      /\ r.day = (IF linked THEN order.day ELSE None) /\ r.exposed = exposed
      /\ r.loaded = Counter(order.day) /\ r.was = position
      /\ r.new = Finalized(Counter(order.day), order.amount, completed)
      /\ r.raised = IF exposed THEN position - order.amount ELSE position
  OBVIOUS
<1>5. order.day \in 0 .. LastDay
  BY DEF IInv, Tables, IntakeTypeOK, OrderRow
<1> HIDE DEF r
<1>6. Relies(c)'
  <2>1. Closes(c)'
    <3>1. /\ req'[c].order \in DOMAIN orders' /\ orders'[req'[c].order].state = "open"
          /\ req'[c].completed \in BOOLEAN /\ req'[c].exposed \in BOOLEAN
          /\ req'[c].day = IF orders'[req'[c].order].day # 0 THEN orders'[req'[c].order].day ELSE None
      BY <1>1, <1>2, <1>3, <1>4
    <3>2. ASSUME req'[c].day # None
          PROVE  /\ linked
                 /\ req'[c].loaded = Counter(order.day)
                 /\ req'[c].day = order.day
                 /\ req'[c].loaded.reserved >= orders'[req'[c].order].amount
                 /\ req'[c].new = Finalized(req'[c].loaded, orders'[req'[c].order].amount, req'[c].completed)
      BY <1>1, <1>2, <1>3, <1>4, <3>2
    <3>3. ASSUME req'[c].day # None
          PROVE  req'[c].loaded = IF req'[c].day \in DOMAIN counter' THEN counter'[req'[c].day]
                                                                     ELSE [reserved |-> 0, consumed |-> 0]
      BY <1>2, <3>2, <3>3 DEF Counter
    <3>4. /\ req'[c].exposed => /\ req'[c].day # None
                                /\ req'[c].was = position'
                                /\ position' # None /\ position' >= orders'[req'[c].order].amount
                                /\ req'[c].raised = position' - orders'[req'[c].order].amount
          /\ ~req'[c].exposed => req'[c].raised = req'[c].was
      <4>1. /\ req'[c].exposed = exposed /\ req'[c].was = position /\ req'[c].order = i
            /\ req'[c].day = IF linked THEN order.day ELSE None
            /\ req'[c].raised = IF exposed THEN position - order.amount ELSE position
        BY <1>3, <1>4
      <4>2. linked => order.day # None
        BY <1>5 DEF None
      <4> QED  BY <1>1, <1>2, <4>1, <4>2
    <3> QED  BY <3>1, <3>2, <3>3, <3>4 DEF Closes, Counter
  <2>2. KeyFree(c)' /\ InstructionNew(c)' /\ ProfileRead(c)' /\ Reserves(c)' /\ Refers(c)'
    BY <1>3, <1>4 DEF KeyFree, InstructionNew, ProfileRead, Reserves, Refers, Keyed, Held
  <2> QED  BY <2>1, <2>2 DEF Relies
<1>7. ASSUME NEW d \in Client, d # c PROVE Apart(c, d)'
  <2>1. req[d].op \in Locking => req[d].day # order.day /\ ~(exposed /\ req[d].exposed)
    BY <1>1 DEF LimitsFree, Locking
  <2> QED  BY <1>1, <1>3, <1>4, <1>7, <2>1 DEF Apart, Keyed, Held, Locking
<1> QED
  BY <1>1, <1>6, <1>7, ReadStep

LEMMA BeginQuoteKeeps ==
    ASSUME IInv, NEW c \in Client, NEW k \in Key, NEW body \in Body, BeginQuote(c, k, body)
    PROVE  IInv'
<1> DEFINE id == <<"quote", 0, k>>
           r == [op |-> "quote", id |-> id, body |-> body]
<1>1. NewKey(id) /\ req' = [req EXCEPT ![c] = r] /\ UNCHANGED intakeVars
  BY Zenon DEF BeginQuote, Open
<1>2. record' = record
  BY <1>1 DEF intakeVars
<1>3. DOMAIN req = Client /\ req'[c] = r /\ \A d \in Client : d # c => req'[d] = req[d]
  BY <1>1 DEF IInv, IntakeRequests
<1>4. r.op = "quote" /\ r.id = id /\ id \in IdempotencyRow
  BY DEF IdempotencyRow, Keyed
<1> HIDE DEF id, r
<1>5. Relies(c)'
  BY <1>1, <1>2, <1>3, <1>4
     DEF Relies, KeyFree, NewKey, InstructionNew, ProfileRead, Reserves, Closes, Refers, Held
<1>6. \A d \in Client : d # c => Apart(c, d)'
  BY <1>1, <1>3, <1>4 DEF Apart, NewKey, Held, Locking
<1> QED
  BY <1>1, <1>5, <1>6, ReadStep

LEMMA BeginAcceptanceKeeps ==
    ASSUME IInv, NEW c \in Client, NEW i \in DOMAIN orders, NEW q \in DOMAIN quotes, NEW k \in Key,
           BeginAcceptance(c, i, q, k)
    PROVE  IInv'
<1> DEFINE id == <<"acceptance", i, k>>
           r == [op |-> "acceptance", id |-> id, order |-> i, quote |-> q]
<1>1. /\ NewKey(id) /\ q \notin DOMAIN intents
      /\ \A d \in Client : req[d].op = "acceptance" => req[d].quote # q
      /\ req' = [req EXCEPT ![c] = r] /\ UNCHANGED intakeVars
  BY Zenon DEF BeginAcceptance, Open
<1>2. record' = record /\ orders' = orders /\ quotes' = quotes /\ intents' = intents
  BY <1>1 DEF intakeVars
<1>3. DOMAIN req = Client /\ req'[c] = r /\ \A d \in Client : d # c => req'[d] = req[d]
  BY <1>1 DEF IInv, IntakeRequests
<1>4. i \in Nat
  <2>1. orders \in Seq(OrderRow)
    BY DEF IInv, Tables
  <2> QED  BY <2>1
<1>5. r.op = "acceptance" /\ r.id = id /\ r.order = i /\ r.quote = q /\ id \in IdempotencyRow
  BY <1>4 DEF IdempotencyRow, Keyed
<1> HIDE DEF id, r
<1>6. Relies(c)'
  BY <1>1, <1>2, <1>3, <1>5
     DEF Relies, KeyFree, NewKey, InstructionNew, ProfileRead, Reserves, Closes, Refers, Held
<1>7. \A d \in Client : d # c => Apart(c, d)'
  BY <1>1, <1>3, <1>5 DEF Apart, NewKey, Held, Locking
<1> QED
  BY <1>1, <1>6, <1>7, ReadStep

LEMMA BeginCancellationKeeps ==
    ASSUME IInv, NEW c \in Client, NEW i \in DOMAIN orders, NEW k \in Key, NEW reason \in Body,
           BeginCancellation(c, i, k, reason)
    PROVE  IInv'
<1> DEFINE id == <<"cancellation", i, k>>
           r == [op |-> "cancellation", id |-> id, order |-> i, body |-> reason]
<1>1. NewKey(id) /\ req' = [req EXCEPT ![c] = r] /\ UNCHANGED intakeVars
  BY Zenon DEF BeginCancellation, Open
<1>2. record' = record /\ orders' = orders
  BY <1>1 DEF intakeVars
<1>3. DOMAIN req = Client /\ req'[c] = r /\ \A d \in Client : d # c => req'[d] = req[d]
  BY <1>1 DEF IInv, IntakeRequests
<1>4. i \in Nat
  <2>1. orders \in Seq(OrderRow)
    BY DEF IInv, Tables
  <2> QED  BY <2>1
<1>5. r.op = "cancellation" /\ r.id = id /\ r.order = i /\ id \in IdempotencyRow
  BY <1>4 DEF IdempotencyRow, Keyed
<1> HIDE DEF id, r
<1>6. Relies(c)'
  BY <1>1, <1>2, <1>3, <1>5
     DEF Relies, KeyFree, NewKey, InstructionNew, ProfileRead, Reserves, Closes, Refers, Held
<1>7. \A d \in Client : d # c => Apart(c, d)'
  BY <1>1, <1>3, <1>5 DEF Apart, NewKey, Held, Locking
<1> QED
  BY <1>1, <1>6, <1>7, ReadStep

------------------------------------------------------------------------------
(* Steps that commit *)

\* The end of a request, when the others keep what they rely on.
LEMMA CommitStep ==
    ASSUME IInv, NEW c \in Client, req' = [req EXCEPT ![c] = Idle],
           \A d \in Client : d # c => Relies(d)'
    PROVE  IntakeRequests'
<1>1. DOMAIN req = Client /\ DOMAIN req' = Client /\ \A d \in Client : d # c => req'[d] = req[d]
  BY DEF IInv, IntakeRequests
<1>2. req'[c].op = "idle"
  BY <1>1 DEF Idle
<1>3. Relies(c)'
  BY <1>2 DEF Relies, KeyFree, InstructionNew, ProfileRead, Reserves, Closes, Refers, Keyed, Held
<1>4. \A d \in Client : Relies(d)'
  BY <1>3
<1>5. ASSUME NEW d \in Client, NEW e \in Client, d # e PROVE Apart(d, e)'
  <2>1. CASE d = c \/ e = c
    BY <1>2, <2>1 DEF Apart, Keyed, Held, Locking
  <2>2. CASE d # c /\ e # c
    BY <1>1, <1>5, <2>2, ApartStays DEF IInv, IntakeRequests
  <2> QED  BY <2>1, <2>2
<1> QED
  BY <1>1, <1>4, <1>5 DEF IntakeRequests

\* complete(): the key of c gets its record, and one effect.
LEMMA CompleteKey ==
    ASSUME IInv, NEW c \in Client, req[c].op \in Keyed, NEW body, Complete(req[c].id, body)
    PROVE  /\ DOMAIN record' = DOMAIN record \cup {req[c].id}
           /\ DOMAIN record' \subseteq IdempotencyRow
           /\ DOMAIN effects' = DOMAIN record'
           /\ \A id \in DOMAIN effects' : effects'[id] = 1
<1>1. req[c].id \in IdempotencyRow \ DOMAIN record
  BY DEF IInv, IntakeRequests, Relies, KeyFree
<1>2. DOMAIN effects = DOMAIN record /\ \A id \in DOMAIN effects : effects[id] = 1
  BY DEF IInv, CreatedOncePerKey
<1>3. DOMAIN record \subseteq IdempotencyRow
  BY DEF IInv, Tables, IntakeTypeOK
<1>4. record' = Put(OneRow(req[c].id, body), record) /\ effects' = Put(OneRow(req[c].id, 1), effects)
  BY <1>1, <1>2 DEF Complete
<1>5. DOMAIN record' = DOMAIN record \cup {req[c].id}
  BY <1>4 DEF Put, OneRow
<1>6. /\ DOMAIN effects' = DOMAIN effects \cup {req[c].id}
      /\ effects'[req[c].id] = 1
      /\ \A id \in DOMAIN effects : id # req[c].id => effects'[id] = effects[id]
  BY <1>4 DEF Put, OneRow
<1> QED
  BY <1>1, <1>2, <1>3, <1>5, <1>6

\* The others keep their keys ...
LEMMA KeyStays ==
    ASSUME IInv, NEW c \in Client, NEW d \in Client, d # c, req'[d] = req[d],
           DOMAIN record' \subseteq DOMAIN record \cup (IF req[c].op \in Keyed THEN {req[c].id} ELSE {})
    PROVE  KeyFree(d)'
<1>1. Apart(c, d) /\ KeyFree(d)
  BY DEF IInv, IntakeRequests, Relies
<1> QED
  BY <1>1 DEF KeyFree, Apart

\* ... and the rows they have locked, if the limits of one day at most are
\* written, none of theirs.
LEMMA LocksStay ==
    ASSUME NEW d \in Client, Relies(d), req'[d] = req[d], NEW X,
           \A day : day # X => /\ day \in DOMAIN counter' <=> day \in DOMAIN counter
                               /\ day \in DOMAIN counter => counter'[day] = counter[day],
           req[d].op \in Locking => req[d].day # X \/ req[d].day = None,
           req[d].op \in Locking /\ req[d].exposed => position' = position,
           \A i \in DOMAIN profiles : i \in DOMAIN profiles' /\ profiles'[i] = profiles[i],
           req[d].op = "close" => /\ req[d].order \in DOMAIN orders'
                                  /\ orders'[req[d].order] = orders[req[d].order]
    PROVE  ProfileRead(d)' /\ Reserves(d)' /\ Closes(d)'
<1>1. ProfileRead(d)'
  BY DEF Relies, ProfileRead
<1>2. Reserves(d)'
  <2>1. SUFFICES ASSUME req[d].op = "reserved" PROVE Reserves(d)'
    BY DEF Reserves
  <2>2. Reserves(d)
    BY DEF Relies
  <2>3. req[d].day \in 1 .. LastDay
    BY <2>1, <2>2 DEF Reserves
  <2>4. req[d].day # X /\ (req[d].exposed => position' = position)
    BY <2>1, <2>3, LastDayAssumption DEF Locking, None
  <2>5. req'[d].loaded = IF req'[d].day \in DOMAIN counter' THEN counter'[req'[d].day]
                                                            ELSE [reserved |-> 0, consumed |-> 0]
    BY <2>1, <2>2, <2>4 DEF Reserves, Counter
  <2> QED  BY <2>1, <2>2, <2>4, <2>5 DEF Reserves, Counter
<1>3. Closes(d)'
  <2>1. SUFFICES ASSUME req[d].op = "close" PROVE Closes(d)'
    BY DEF Closes
  <2>2. Closes(d)
    BY DEF Relies
  <2>3. req[d].exposed => position' = position
    BY <2>1 DEF Locking
  <2>4. req'[d].day # None => req'[d].loaded = IF req'[d].day \in DOMAIN counter' THEN counter'[req'[d].day]
                                                            ELSE [reserved |-> 0, consumed |-> 0]
    BY <2>1, <2>2 DEF Closes, Counter, Locking
  <2> QED  BY <2>1, <2>2, <2>3, <2>4 DEF Closes, Counter
<1> QED
  BY <1>1, <1>2, <1>3

\* The rows of the limits, written by the request that has locked them.
LEMMA LimitsWritten ==
    ASSUME IInv, NEW c \in Client, req[c].op \in Locking, req[c].day \in 1 .. LastDay,
           req[c].loaded = Counter(req[c].day), req[c].new \in CounterRow,
           req[c].exposed \in BOOLEAN,
           req[c].exposed => req[c].was = position,
           ~req[c].exposed => req[c].raised = req[c].was,
           WriteLimits(c)
    PROVE  /\ DOMAIN counter' = DOMAIN counter \cup {req[c].day}
           /\ counter'[req[c].day] = req[c].new
           /\ \A day \in DOMAIN counter : day # req[c].day => counter'[day] = counter[day]
           /\ position' = IF req[c].exposed THEN req[c].raised ELSE position
<1>1. Counter(req[c].day) \in CounterRow
  BY DEF IInv, Tables, IntakeTypeOK, Counter, CounterRow
<1>2. Flush(Counter(req[c].day), req[c].loaded, req[c].new) = req[c].new
  BY <1>1, FlushFresh
<1>3. counter' = Put(OneRow(req[c].day, req[c].new), counter)
  BY <1>2 DEF WriteLimits
<1>4. position' = IF req[c].raised # req[c].was THEN req[c].raised ELSE position
  BY DEF WriteLimits
<1>5. /\ DOMAIN counter' = DOMAIN counter \cup {req[c].day}
      /\ counter'[req[c].day] = req[c].new
      /\ \A day \in DOMAIN counter : day # req[c].day => counter'[day] = counter[day]
  BY <1>3 DEF Put, OneRow
<1>6. position' = IF req[c].exposed THEN req[c].raised ELSE position
  BY <1>4
<1> QED
  BY <1>5, <1>6

\* The order of c, inserted with its (empty) list of cancellations.
LEMMA OrderInserted ==
    ASSUME IInv, NEW c \in Client, req[c].op \in Held, NEW day \in 0 .. LastDay,
           orders' = Append(orders, Order(req[c], day)), cancels' = Append(cancels, 0),
           UNCHANGED intents
    PROVE  /\ orders' \in Seq(OrderRow) /\ cancels' \in Seq(Nat) /\ Len(cancels') = Len(orders')
           /\ \A i \in DOMAIN orders : i \in DOMAIN orders' /\ orders'[i] = orders[i]
           /\ \A i \in DOMAIN orders' \ DOMAIN orders : orders'[i] = Order(req[c], day)
           /\ \A i, j \in DOMAIN orders' : i # j => orders'[i].instruction # orders'[j].instruction
           /\ \A i \in DOMAIN orders' : orders'[i] \in OrderRow
           /\ cancels' \in CancellationRows' /\ intents' \in IntentRows'
<1> DEFINE row == Order(req[c], day)
<1>1. /\ req[c].instruction \in Instruction /\ req[c].amount \in Nat \ {0}
      /\ \A i \in DOMAIN orders : orders[i].instruction # req[c].instruction
  BY DEF IInv, IntakeRequests, Relies, InstructionNew
<1>2. row \in OrderRow /\ row.instruction = req[c].instruction
  BY <1>1 DEF Order, OrderRow
<1>3. orders \in Seq(OrderRow) /\ cancels \in Seq(Nat) /\ Len(cancels) = Len(orders)
  BY DEF IInv, Tables
<1> HIDE DEF row
<1>4. /\ orders' \in Seq(OrderRow) /\ Len(orders) \in Nat /\ DOMAIN orders = 1 .. Len(orders)
      /\ DOMAIN orders' = 1 .. Len(orders) + 1
      /\ \A i \in 1 .. Len(orders) : orders'[i] = orders[i]
      /\ orders'[Len(orders) + 1] = row
  BY <1>2, <1>3, AppendRow DEF row
<1>5. cancels' \in Seq(Nat) /\ DOMAIN cancels' = 1 .. Len(orders) + 1
  BY <1>3, AppendRow
<1>6. Len(orders') = Len(orders) + 1 /\ Len(cancels') = Len(orders) + 1
  BY <1>4, <1>5
<1>7. \A i \in DOMAIN orders : i \in DOMAIN orders' /\ orders'[i] = orders[i]
  BY <1>4
<1>8. \A i \in DOMAIN orders' : i \in DOMAIN orders \/ i = Len(orders) + 1
  BY <1>4
<1>9. \A i, j \in DOMAIN orders' : i # j => orders'[i].instruction # orders'[j].instruction
  BY <1>1, <1>2, <1>4, <1>7, <1>8 DEF IInv, CreatedOncePerKey
<1>10. \A i \in DOMAIN orders' : orders'[i] \in OrderRow
  BY <1>4
<1>11. cancels' \in CancellationRows'
  <2>1. DOMAIN cancels' = DOMAIN orders'
    BY <1>4, <1>5
  <2>2. \A S, T, s : s \in Seq(S) /\ DOMAIN s = T => s \in [T -> S]
    OBVIOUS
  <2> QED  BY <1>5, <2>1, <2>2 DEF CancellationRows
<1>12. intents' \in IntentRows'
  BY <1>7 DEF IInv, Tables, IntakeTypeOK, IntentRows
<1> QED
  BY <1>4, <1>5, <1>6, <1>7, <1>8, <1>9, <1>10, <1>11, <1>12 DEF row

\* What a commit of c leaves of the limits: it writes the day X at most, which
\* no other request has locked, and keeps them within their profiles.
LimitsLeft(c, X) ==
    /\ \A day : day # X => /\ day \in DOMAIN counter' <=> day \in DOMAIN counter
                           /\ day \in DOMAIN counter => counter'[day] = counter[day]
    /\ \A d \in Client \ {c} : req[d].op \in Locking =>
         /\ req[d].day # X \/ req[d].day = None
         /\ req[d].exposed => position' = position
    /\ DOMAIN counter' \subseteq 1 .. LastDay
    /\ \A day \in DOMAIN counter' : counter'[day] \in CounterRow
    /\ position' \in PositionRow
    /\ LimitsAreKept'

LEMMA LimitsUntouched ==
    ASSUME IInv, NEW c \in Client, counter' = counter, position' = position, profiles' = profiles
    PROVE  LimitsLeft(c, None)
<1>1. LimitsAreKept'
  BY DEF IInv, LimitsAreKept
<1> QED
  BY <1>1 DEF LimitsLeft, IInv, Tables, IntakeTypeOK

LEMMA LimitsRaised ==
    ASSUME IInv, NEW c \in Client, req[c].op = "reserved", WriteLimits(c), profiles' = profiles
    PROVE  LimitsLeft(c, req[c].day)
<1>1. Reserves(c) /\ req[c].amount \in Nat \ {0}
  BY DEF IInv, IntakeRequests, Relies, InstructionNew, Held
<1>2. /\ req[c].day \in 1 .. LastDay /\ req[c].exposed \in BOOLEAN
      /\ req[c].loaded = Counter(req[c].day)
      /\ req[c].new = [reserved |-> req[c].loaded.reserved + req[c].amount, consumed |-> req[c].loaded.consumed]
      /\ req[c].exposed => req[c].was = position
      /\ ~req[c].exposed => req[c].raised = req[c].was
  BY <1>1 DEF Reserves
<1>3. PICK i \in DOMAIN profiles :
        /\ profiles[i].daily # None =>
             req[c].loaded.reserved + req[c].loaded.consumed + req[c].amount <= profiles[i].daily
        /\ req[c].exposed => profiles[i].exposure # None /\ req[c].raised <= profiles[i].exposure
  BY <1>1 DEF Reserves
<1>4. Counter(req[c].day) \in CounterRow
  BY DEF IInv, Tables, IntakeTypeOK, Counter, CounterRow
<1>5. req[c].new \in CounterRow
  BY <1>1, <1>2, <1>4 DEF CounterRow
<1>6. /\ DOMAIN counter' = DOMAIN counter \cup {req[c].day}
      /\ counter'[req[c].day] = req[c].new
      /\ \A day \in DOMAIN counter : day # req[c].day => counter'[day] = counter[day]
      /\ position' = IF req[c].exposed THEN req[c].raised ELSE position
  BY <1>2, <1>5, LimitsWritten DEF Locking
<1>7. ASSUME NEW d \in Client \ {c}, req[d].op \in Locking
      PROVE  /\ req[d].day # req[c].day \/ req[d].day = None
             /\ req[d].exposed => position' = position
  <2>1. Apart(c, d)
    BY <1>7 DEF IInv, IntakeRequests
  <2> QED  BY <1>2, <1>6, <1>7, <2>1 DEF Apart, Locking
<1>8. DOMAIN counter' \subseteq 1 .. LastDay /\ \A day \in DOMAIN counter' : counter'[day] \in CounterRow
  BY <1>2, <1>5, <1>6 DEF IInv, Tables, IntakeTypeOK
<1>9. position \in PositionRow
  BY DEF IInv, Tables, IntakeTypeOK
<1>10. req[c].exposed => req[c].raised \in Nat
  BY <1>1, <1>9 DEF Reserves, PositionRow
<1>11. position' \in PositionRow
  BY <1>6, <1>9, <1>10 DEF PositionRow
<1>12. LimitsAreKept'
  <2>1. ASSUME NEW day \in DOMAIN counter', counter'[day].reserved + counter'[day].consumed > 0
        PROVE  \E j \in DOMAIN profiles' : profiles'[j].daily # None =>
                 counter'[day].reserved + counter'[day].consumed <= profiles'[j].daily
    <3>1. CASE day = req[c].day
      <4>1. profiles[i].daily # None =>
              req[c].new.reserved + req[c].new.consumed <= profiles[i].daily
        <5>1. /\ req[c].new.reserved = req[c].loaded.reserved + req[c].amount
              /\ req[c].new.consumed = req[c].loaded.consumed
          BY <1>2
        <5>2. req[c].loaded.reserved \in Nat /\ req[c].loaded.consumed \in Nat
          BY <1>2, <1>4 DEF CounterRow
        <5> QED  BY <1>1, <1>3, <5>1, <5>2
      <4> QED  BY <1>6, <3>1, <4>1
    <3>2. CASE day # req[c].day
      BY <1>6, <2>1, <3>2 DEF IInv, LimitsAreKept
    <3> QED  BY <3>1, <3>2
  <2>2. ASSUME position' # None, position' > 0
        PROVE  \E j \in DOMAIN profiles' : profiles'[j].exposure # None /\ position' <= profiles'[j].exposure
    <3>1. CASE req[c].exposed
      BY <1>3, <1>6, <3>1
    <3>2. CASE ~req[c].exposed
      BY <1>6, <2>2, <3>2 DEF IInv, LimitsAreKept
    <3> QED  BY <3>1, <3>2
  <2> QED  BY <2>1, <2>2 DEF LimitsAreKept
<1> QED
  BY <1>6, <1>7, <1>8, <1>11, <1>12 DEF LimitsLeft

LEMMA LimitsLowered ==
    ASSUME IInv, NEW c \in Client, req[c].op = "close", req[c].day # None,
           WriteLimits(c), profiles' = profiles
    PROVE  LimitsLeft(c, req[c].day)
<1> DEFINE n == orders[req[c].order].amount
<1>1. Closes(c)
  BY DEF IInv, IntakeRequests, Relies
<1>2. /\ req[c].order \in DOMAIN orders
      /\ req[c].completed \in BOOLEAN /\ req[c].exposed \in BOOLEAN
      /\ req[c].day = orders[req[c].order].day
      /\ req[c].loaded = Counter(req[c].day) /\ req[c].loaded.reserved >= n
      /\ req[c].new = Finalized(req[c].loaded, n, req[c].completed)
      /\ req[c].exposed => /\ req[c].was = position /\ position # None /\ position >= n
                           /\ req[c].raised = position - n
      /\ ~req[c].exposed => req[c].raised = req[c].was
  BY <1>1 DEF Closes
<1>3. n \in Nat \ {0} /\ orders[req[c].order].day \in 0 .. LastDay
  BY <1>2 DEF IInv, Tables, IntakeTypeOK, OrderRow
<1>4. req[c].day \in 1 .. LastDay
  BY <1>1, <1>2, <1>3, LastDayAssumption DEF Closes
<1>5. Counter(req[c].day) \in CounterRow
  BY DEF IInv, Tables, IntakeTypeOK, Counter, CounterRow
<1>6. req[c].loaded.reserved \in Nat /\ req[c].loaded.consumed \in Nat
  BY <1>2, <1>5 DEF CounterRow
<1>7. /\ req[c].new \in CounterRow
      /\ req[c].new.reserved + req[c].new.consumed <= req[c].loaded.reserved + req[c].loaded.consumed
  BY <1>2, <1>3, <1>6 DEF Finalized, CounterRow
<1> HIDE DEF n
<1>8. /\ DOMAIN counter' = DOMAIN counter \cup {req[c].day}
      /\ counter'[req[c].day] = req[c].new
      /\ \A day \in DOMAIN counter : day # req[c].day => counter'[day] = counter[day]
      /\ position' = IF req[c].exposed THEN req[c].raised ELSE position
  BY <1>2, <1>4, <1>7, LimitsWritten DEF Locking
<1>9. ASSUME NEW d \in Client \ {c}, req[d].op \in Locking
      PROVE  /\ req[d].day # req[c].day \/ req[d].day = None
             /\ req[d].exposed => position' = position
  <2>1. Apart(c, d)
    BY <1>9 DEF IInv, IntakeRequests
  <2> QED  BY <1>2, <1>8, <1>9, <2>1 DEF Apart, Locking
<1>10. DOMAIN counter' \subseteq 1 .. LastDay /\ \A day \in DOMAIN counter' : counter'[day] \in CounterRow
  BY <1>4, <1>7, <1>8 DEF IInv, Tables, IntakeTypeOK
<1>11. position \in PositionRow
  BY DEF IInv, Tables, IntakeTypeOK
<1>12. req[c].exposed => req[c].raised \in Nat /\ position \in Nat /\ req[c].raised <= position
  BY <1>2, <1>3, <1>11 DEF PositionRow
<1>13. position' \in PositionRow
  BY <1>8, <1>11, <1>12 DEF PositionRow
<1>14. LimitsAreKept'
  <2>1. ASSUME NEW day \in DOMAIN counter', counter'[day].reserved + counter'[day].consumed > 0
        PROVE  \E j \in DOMAIN profiles' : profiles'[j].daily # None =>
                 counter'[day].reserved + counter'[day].consumed <= profiles'[j].daily
    <3>1. CASE day = req[c].day
      <4>1. counter'[day] = req[c].new /\ req[c].new.reserved \in Nat /\ req[c].new.consumed \in Nat
        BY <1>7, <1>8, <3>1 DEF CounterRow
      <4>2. req[c].loaded.reserved + req[c].loaded.consumed > 0
        BY <1>6, <1>7, <2>1, <4>1
      <4>3. day \in DOMAIN counter /\ counter[day] = req[c].loaded
        BY <1>2, <3>1, <4>2 DEF Counter
      <4>4. PICK j \in DOMAIN profiles : profiles[j].daily # None =>
                 req[c].loaded.reserved + req[c].loaded.consumed <= profiles[j].daily
        BY <4>2, <4>3 DEF IInv, LimitsAreKept
      <4>5. profiles[j].daily # None => profiles[j].daily \in Nat
        BY DEF IInv, Tables, IntakeTypeOK, ProfileRow
      <4>6. profiles[j].daily # None => counter'[day].reserved + counter'[day].consumed <= profiles[j].daily
        BY <1>6, <1>7, <4>1, <4>4, <4>5
      <4> QED  BY <4>6
    <3>2. CASE day # req[c].day
      BY <1>8, <2>1, <3>2 DEF IInv, LimitsAreKept
    <3> QED  BY <3>1, <3>2
  <2>2. ASSUME position' # None, position' > 0
        PROVE  \E j \in DOMAIN profiles' : profiles'[j].exposure # None /\ position' <= profiles'[j].exposure
    <3>1. CASE req[c].exposed
      <4>1. position' = req[c].raised /\ position > 0 /\ position # None
        BY <1>2, <1>8, <1>12, <2>2, <3>1
      <4>2. PICK j \in DOMAIN profiles : profiles[j].exposure # None /\ position <= profiles[j].exposure
        BY <4>1 DEF IInv, LimitsAreKept
      <4>3. profiles[j].exposure \in Nat
        BY <4>2 DEF IInv, Tables, IntakeTypeOK, ProfileRow
      <4> QED  BY <1>12, <3>1, <4>1, <4>2, <4>3
    <3>2. CASE ~req[c].exposed
      BY <1>8, <2>2, <3>2 DEF IInv, LimitsAreKept
    <3> QED  BY <3>1, <3>2
  <2> QED  BY <2>1, <2>2 DEF LimitsAreKept
<1> QED
  BY <1>8, <1>9, <1>10, <1>13, <1>14 DEF LimitsLeft

\* What another request relies on is left alone by a commit that leaves its
\* key, its order, its instruction and its quote alone.
LEMMA OthersKeep ==
    ASSUME IInv, NEW c \in Client, NEW d \in Client, d # c, req'[d] = req[d],
           NEW X, LimitsLeft(c, X), profiles' = profiles,
           DOMAIN record' \subseteq DOMAIN record \cup (IF req[c].op \in Keyed THEN {req[c].id} ELSE {}),
           \A i \in DOMAIN orders : i \in DOMAIN orders',
           req[d].op = "close" => orders'[req[d].order] = orders[req[d].order],
           req[d].op \in Held => \A i \in DOMAIN orders' : orders'[i].instruction # req[d].instruction,
           \A q \in DOMAIN quotes : q \in DOMAIN quotes',
           req[d].op = "acceptance" => req[d].quote \notin DOMAIN intents'
    PROVE  Relies(d)'
<1>1. Relies(d)
  BY DEF IInv, IntakeRequests
<1>2. KeyFree(d)'
  BY KeyStays
<1>3. InstructionNew(d)'
  BY <1>1 DEF Relies, InstructionNew
<1>4. req[d].op = "close" => req[d].order \in DOMAIN orders
  BY <1>1 DEF Relies, Closes
<1>5. ProfileRead(d)' /\ Reserves(d)' /\ Closes(d)'
  <2>1. d \in Client \ {c}
    OBVIOUS
  <2>2. \A day : day # X => /\ day \in DOMAIN counter' <=> day \in DOMAIN counter
                            /\ day \in DOMAIN counter => counter'[day] = counter[day]
    BY DEF LimitsLeft
  <2>3. /\ req[d].op \in Locking => req[d].day # X \/ req[d].day = None
        /\ req[d].op \in Locking /\ req[d].exposed => position' = position
    BY <2>1 DEF LimitsLeft
  <2>4. \A i \in DOMAIN profiles : i \in DOMAIN profiles' /\ profiles'[i] = profiles[i]
    OBVIOUS
  <2>5. req[d].op = "close" => req[d].order \in DOMAIN orders'
    BY <1>4
  <2> QED  BY <1>1, <2>2, <2>3, <2>4, <2>5, LocksStay
<1>6. Refers(d)'
  BY <1>1 DEF Relies, Refers
<1> QED
  BY <1>2, <1>3, <1>5, <1>6 DEF Relies

LEMMA CommitPaymentKeeps ==
    ASSUME IInv, NEW c \in Client, CommitPayment(c)
    PROVE  IInv'
<1>1. /\ req[c].op \in Held
      /\ Complete(req[c].id, req[c].body)
      /\ cancels' = Append(cancels, 0)
      /\ req' = [req EXCEPT ![c] = Idle]
      /\ today' = today /\ profiles' = profiles /\ quotes' = quotes /\ intents' = intents
  BY DEF CommitPayment, Commit, Held
<1>2. PICK day \in 0 .. LastDay, X \in (0 .. LastDay) \cup {None} :
        orders' = Append(orders, Order(req[c], day)) /\ LimitsLeft(c, X)
  <2>1. CASE req[c].op = "payment"
    <3>1. orders' = Append(orders, Order(req[c], 0)) /\ counter' = counter /\ position' = position
      BY <2>1 DEF CommitPayment
    <3>2. LimitsLeft(c, None)
      BY <1>1, <3>1, LimitsUntouched
    <3>3. 0 \in 0 .. LastDay
      BY LastDayAssumption
    <3> QED  BY <3>1, <3>2, <3>3
  <2>2. CASE req[c].op = "reserved"
    <3>1. orders' = Append(orders, Order(req[c], req[c].day)) /\ WriteLimits(c)
      BY <2>2 DEF CommitPayment
    <3>2. LimitsLeft(c, req[c].day)
      BY <1>1, <2>2, <3>1, LimitsRaised
    <3>3. req[c].day \in 0 .. LastDay
      <4>1. Reserves(c)
        BY DEF IInv, IntakeRequests, Relies
      <4>2. req[c].day \in 1 .. LastDay
        BY <2>2, <4>1 DEF Reserves
      <4> QED  BY <4>2, LastDayAssumption
    <3> QED  BY <3>1, <3>2, <3>3
  <2> QED  BY <1>1, <2>1, <2>2 DEF Held
<1>3. req[c].op \in Keyed
  BY <1>1 DEF Held, Keyed
<1>4. /\ DOMAIN record' = DOMAIN record \cup {req[c].id}
      /\ DOMAIN record' \subseteq IdempotencyRow
      /\ DOMAIN effects' = DOMAIN record'
      /\ \A id \in DOMAIN effects' : effects'[id] = 1
  BY <1>1, <1>3, CompleteKey
<1>5. /\ orders' \in Seq(OrderRow) /\ cancels' \in Seq(Nat) /\ Len(cancels') = Len(orders')
      /\ \A i \in DOMAIN orders : i \in DOMAIN orders' /\ orders'[i] = orders[i]
      /\ \A i \in DOMAIN orders' \ DOMAIN orders : orders'[i] = Order(req[c], day)
      /\ \A i, j \in DOMAIN orders' : i # j => orders'[i].instruction # orders'[j].instruction
      /\ \A i \in DOMAIN orders' : orders'[i] \in OrderRow
      /\ cancels' \in CancellationRows' /\ intents' \in IntentRows'
  BY <1>1, <1>2, OrderInserted
<1>6. \A d \in Client : d # c => Relies(d)'
  <2>1. SUFFICES ASSUME NEW d \in Client, d # c PROVE Relies(d)'
    OBVIOUS
  <2>2. Apart(c, d) /\ Relies(d) /\ req'[d] = req[d]
    BY <1>1, <2>1 DEF IInv, IntakeRequests
  <2>3. req[d].op = "close" => orders'[req[d].order] = orders[req[d].order]
    BY <1>5, <2>2 DEF Relies, Closes
  <2>4. req[d].op \in Held => \A i \in DOMAIN orders' : orders'[i].instruction # req[d].instruction
    <3>1. Order(req[c], day).instruction = req[c].instruction
      BY DEF Order
    <3> QED  BY <1>1, <1>5, <2>2, <3>1 DEF Relies, InstructionNew, Apart
  <2>5. req[d].op = "acceptance" => req[d].quote \notin DOMAIN intents'
    BY <1>1, <2>2 DEF Relies, Refers
  <2> QED  BY <1>1, <1>2, <1>3, <1>4, <1>5, <2>1, <2>2, <2>3, <2>4, <2>5, OthersKeep
<1>7. IntakeRequests'
  BY <1>1, <1>6, CommitStep
<1>8. IntakeTypeOK'
  <2>1. IntakeTypeOK
    BY DEF IInv, Tables
  <2>2. /\ DOMAIN counter' \subseteq 1 .. LastDay
        /\ \A x \in DOMAIN counter' : counter'[x] \in CounterRow
        /\ position' \in PositionRow
    BY <1>2 DEF LimitsLeft
  <2> QED  BY <1>1, <1>4, <1>5, <2>1, <2>2 DEF IntakeTypeOK
<1>9. Tables'
  BY <1>1, <1>5, <1>8 DEF IInv, Tables
<1>10. CreatedOncePerKey'
  BY <1>4, <1>5 DEF CreatedOncePerKey
<1>11. LimitsAreKept'
  BY <1>2 DEF LimitsLeft
<1> QED
  BY <1>7, <1>9, <1>10, <1>11 DEF IInv

LEMMA CommitCloseKeeps ==
    ASSUME IInv, NEW c \in Client, CommitClose(c)
    PROVE  IInv'
<1> DEFINE i == req[c].order
           row == [orders[i] EXCEPT !.state = IF req[c].completed THEN "completed" ELSE "ended"]
<1>1. /\ req[c].op = "close"
      /\ orders' = [orders EXCEPT ![i].state = IF req[c].completed THEN "completed" ELSE "ended"]
      /\ IF req[c].day = None THEN UNCHANGED <<counter, position>> ELSE WriteLimits(c)
      /\ req' = [req EXCEPT ![c] = Idle]
      /\ record' = record /\ effects' = effects /\ today' = today /\ profiles' = profiles
      /\ quotes' = quotes /\ intents' = intents /\ cancels' = cancels
  BY DEF CommitClose, Commit
<1>2. PICK X : LimitsLeft(c, X)
  <2>1. CASE req[c].day = None
    BY <1>1, <2>1, LimitsUntouched
  <2>2. CASE req[c].day # None
    BY <1>1, <2>2, LimitsLowered
  <2> QED  BY <2>1, <2>2
<1>3. i \in DOMAIN orders /\ req[c].completed \in BOOLEAN
  BY <1>1 DEF IInv, IntakeRequests, Relies, Closes
<1>4. orders \in Seq(OrderRow)
  BY DEF IInv, Tables
<1>5. orders[i] \in OrderRow
  BY <1>3 DEF IInv, Tables, IntakeTypeOK
<1>6. row \in OrderRow /\ row.instruction = orders[i].instruction
  BY <1>5 DEF OrderRow
<1>7. orders' = [orders EXCEPT ![i] = row]
  BY <1>1
<1> HIDE DEF i, row
<1>8. /\ orders' \in Seq(OrderRow) /\ DOMAIN orders' = DOMAIN orders /\ Len(orders') = Len(orders)
      /\ orders'[i] = row
      /\ \A j \in DOMAIN orders : j # i => orders'[j] = orders[j]
  BY <1>3, <1>4, <1>6, <1>7, ReplaceRow
<1>9. \A j \in DOMAIN orders' : orders'[j].instruction = orders[j].instruction /\ orders'[j] \in OrderRow
  BY <1>6, <1>8 DEF IInv, Tables, IntakeTypeOK
<1>10. \A d \in Client : d # c => Relies(d)'
  <2>1. SUFFICES ASSUME NEW d \in Client, d # c PROVE Relies(d)'
    OBVIOUS
  <2>2. Apart(c, d) /\ Relies(d) /\ req'[d] = req[d]
    BY <1>1, <2>1 DEF IInv, IntakeRequests
  <2>3. req[d].op = "close" => orders'[req[d].order] = orders[req[d].order]
    BY <1>1, <1>8, <2>2 DEF Relies, Closes, Apart, i
  <2>4. req[d].op \in Held => \A j \in DOMAIN orders' : orders'[j].instruction # req[d].instruction
    BY <1>8, <1>9, <2>2 DEF Relies, InstructionNew
  <2>5. req[d].op = "acceptance" => req[d].quote \notin DOMAIN intents'
    BY <1>1, <2>2 DEF Relies, Refers
  <2> QED  BY <1>1, <1>2, <1>8, <2>1, <2>2, <2>3, <2>4, <2>5, OthersKeep
<1>11. IntakeRequests'
  BY <1>1, <1>10, CommitStep
<1>12. IntakeTypeOK'
  <2>1. IntakeTypeOK
    BY DEF IInv, Tables
  <2>2. /\ DOMAIN counter' \subseteq 1 .. LastDay
        /\ \A x \in DOMAIN counter' : counter'[x] \in CounterRow
        /\ position' \in PositionRow
    BY <1>2 DEF LimitsLeft
  <2>3. cancels' \in CancellationRows' /\ intents' \in IntentRows'
    BY <1>1, <1>8, <2>1 DEF IntakeTypeOK, CancellationRows, IntentRows
  <2> QED  BY <1>1, <1>9, <2>1, <2>2, <2>3 DEF IntakeTypeOK
<1>13. Tables'
  BY <1>1, <1>8, <1>12 DEF IInv, Tables
<1>14. CreatedOncePerKey'
  BY <1>1, <1>8, <1>9 DEF IInv, CreatedOncePerKey
<1>15. LimitsAreKept'
  BY <1>2 DEF LimitsLeft
<1> QED
  BY <1>11, <1>13, <1>14, <1>15 DEF IInv

\* A commit that leaves orders, profiles and limits as they are.
LEMMA SideCommit ==
    ASSUME IInv, NEW c \in Client, req[c].op \in Keyed, req[c].op \notin Held,
           NEW body, Complete(req[c].id, body), req' = [req EXCEPT ![c] = Idle],
           UNCHANGED <<orders, today, counter, position, profiles>>,
           quotes' \in Seq(QuoteRow), \A q \in DOMAIN quotes : q \in DOMAIN quotes',
           \A q \in DOMAIN quotes' : quotes'[q] \in QuoteRow,
           intents' \in IntentRows', DOMAIN intents' \subseteq DOMAIN quotes',
           DOMAIN intents' \subseteq DOMAIN intents \cup (IF req[c].op = "acceptance" THEN {req[c].quote} ELSE {}),
           cancels' \in Seq(Nat), Len(cancels') = Len(cancels), cancels' \in CancellationRows'
    PROVE  IInv'
<1>1. LimitsLeft(c, None)
  BY LimitsUntouched
<1>2. /\ DOMAIN record' = DOMAIN record \cup {req[c].id}
      /\ DOMAIN record' \subseteq IdempotencyRow
      /\ DOMAIN effects' = DOMAIN record'
      /\ \A id \in DOMAIN effects' : effects'[id] = 1
  BY CompleteKey
<1>3. \A d \in Client : d # c => Relies(d)'
  <2>1. SUFFICES ASSUME NEW d \in Client, d # c PROVE Relies(d)'
    OBVIOUS
  <2>2. Apart(c, d) /\ Relies(d) /\ req'[d] = req[d]
    BY <2>1 DEF IInv, IntakeRequests
  <2>3. req[d].op \in Held => \A j \in DOMAIN orders' : orders'[j].instruction # req[d].instruction
    BY <2>2 DEF Relies, InstructionNew
  <2>4. req[d].op = "acceptance" => req[d].quote \notin DOMAIN intents'
    BY <2>2 DEF Relies, Refers, Apart
  <2> QED  BY <1>1, <1>2, <2>1, <2>2, <2>3, <2>4, OthersKeep
<1>4. IntakeRequests'
  BY <1>3, CommitStep
<1>5. IntakeTypeOK'
  BY <1>2 DEF IInv, Tables, IntakeTypeOK
<1>6. Tables'
  BY <1>5 DEF IInv, Tables
<1>7. CreatedOncePerKey'
  BY <1>2 DEF IInv, CreatedOncePerKey
<1>8. LimitsAreKept'
  BY <1>1 DEF LimitsLeft
<1> QED
  BY <1>4, <1>6, <1>7, <1>8 DEF IInv

LEMMA CommitQuoteKeeps ==
    ASSUME IInv, NEW c \in Client, CommitQuote(c)
    PROVE  IInv'
<1>1. /\ req[c].op = "quote" /\ quotes' = Append(quotes, "QUOTED")
      /\ Complete(req[c].id, req[c].body)
      /\ req' = [req EXCEPT ![c] = Idle]
      /\ UNCHANGED <<orders, today, counter, position, profiles>>
      /\ intents' = intents /\ cancels' = cancels
  BY DEF CommitQuote, Commit
<1>2. quotes \in Seq(QuoteRow) /\ "QUOTED" \in QuoteRow
  BY DEF IInv, Tables, QuoteRow
<1>3. /\ quotes' \in Seq(QuoteRow)
      /\ \A q \in DOMAIN quotes : q \in DOMAIN quotes'
      /\ \A q \in DOMAIN quotes' : quotes'[q] \in QuoteRow
  BY <1>1, <1>2, AppendRow
<1>4. intents' \in IntentRows' /\ DOMAIN intents' \subseteq DOMAIN quotes'
  BY <1>1, <1>3 DEF IInv, Tables, IntakeTypeOK, IntentRows
<1>5. cancels' \in Seq(Nat) /\ Len(cancels') = Len(cancels) /\ cancels' \in CancellationRows'
  BY <1>1 DEF IInv, Tables, IntakeTypeOK, CancellationRows
<1>6. req[c].op \in Keyed /\ req[c].op \notin Held
  BY <1>1 DEF Keyed, Held
<1> QED
  BY <1>1, <1>3, <1>4, <1>5, <1>6, SideCommit

LEMMA CommitAcceptanceKeeps ==
    ASSUME IInv, NEW c \in Client, CommitAcceptance(c)
    PROVE  IInv'
<1>1. /\ req[c].op = "acceptance" /\ intents' = Put(OneRow(req[c].quote, req[c].order), intents)
      /\ Complete(req[c].id, "quote")
      /\ req' = [req EXCEPT ![c] = Idle]
      /\ UNCHANGED <<orders, today, counter, position, profiles>>
      /\ quotes' = quotes /\ cancels' = cancels
  BY DEF CommitAcceptance, Commit
<1>2. req[c].order \in DOMAIN orders /\ req[c].quote \in DOMAIN quotes
  BY <1>1 DEF IInv, IntakeRequests, Relies, Refers
<1>3. DOMAIN intents \subseteq DOMAIN quotes /\ intents \in [DOMAIN intents -> DOMAIN orders]
  BY DEF IInv, Tables, IntakeTypeOK, IntentRows
<1>4. DOMAIN intents' = DOMAIN intents \cup {req[c].quote}
  BY <1>1 DEF Put, OneRow
<1>5. intents' \in IntentRows'
  <2>1. intents' \in [DOMAIN intents' -> DOMAIN orders]
    BY <1>1, <1>2, <1>3, <1>4 DEF Put, OneRow
  <2> QED  BY <1>1, <2>1 DEF IntentRows
<1>6. DOMAIN intents' \subseteq DOMAIN quotes'
  BY <1>1, <1>2, <1>3, <1>4
<1>7. /\ quotes' \in Seq(QuoteRow)
      /\ \A q \in DOMAIN quotes' : quotes'[q] \in QuoteRow
  BY <1>1 DEF IInv, Tables, IntakeTypeOK
<1>8. cancels' \in Seq(Nat) /\ Len(cancels') = Len(cancels) /\ cancels' \in CancellationRows'
  BY <1>1 DEF IInv, Tables, IntakeTypeOK, CancellationRows
<1>9. req[c].op \in Keyed /\ req[c].op \notin Held
  BY <1>1 DEF Keyed, Held
<1> QED
  BY <1>1, <1>4, <1>5, <1>6, <1>7, <1>8, <1>9, SideCommit

LEMMA CommitCancellationKeeps ==
    ASSUME IInv, NEW c \in Client, CommitCancellation(c)
    PROVE  IInv'
<1> DEFINE i == req[c].order
<1>1. /\ req[c].op = "cancellation" /\ cancels' = [cancels EXCEPT ![i] = @ + 1]
      /\ Complete(req[c].id, req[c].body)
      /\ req' = [req EXCEPT ![c] = Idle]
      /\ UNCHANGED <<orders, today, counter, position, profiles>>
      /\ quotes' = quotes /\ intents' = intents
  BY DEF CommitCancellation, Commit
<1>2. i \in DOMAIN orders
  BY <1>1 DEF IInv, IntakeRequests, Relies, Refers
<1>3. cancels \in Seq(Nat) /\ cancels \in [DOMAIN orders -> Nat]
  BY DEF IInv, Tables, IntakeTypeOK, CancellationRows
<1>4. i \in DOMAIN cancels /\ cancels[i] + 1 \in Nat
  BY <1>2, <1>3
<1> HIDE DEF i
<1>5. cancels' \in Seq(Nat) /\ Len(cancels') = Len(cancels)
  BY <1>1, <1>3, <1>4, ReplaceRow
<1>6. cancels' \in CancellationRows'
  BY <1>1, <1>2, <1>3 DEF CancellationRows
<1>7. /\ quotes' \in Seq(QuoteRow)
      /\ \A q \in DOMAIN quotes' : quotes'[q] \in QuoteRow
  BY <1>1 DEF IInv, Tables, IntakeTypeOK
<1>8. intents' \in IntentRows' /\ DOMAIN intents' \subseteq DOMAIN quotes'
  BY <1>1 DEF IInv, Tables, IntakeTypeOK, IntentRows
<1>9. req[c].op \in Keyed /\ req[c].op \notin Held
  BY <1>1 DEF Keyed, Held
<1> QED
  BY <1>1, <1>5, <1>6, <1>7, <1>8, <1>9, SideCommit

------------------------------------------------------------------------------
(* Steps of nobody's request *)

\* The day, the quotes and the profiles that open requests do not rely on.
LEMMA BesideRequests ==
    ASSUME IInv, UNCHANGED <<requestVars, record, effects, orders, counter, position, intents, cancels>>,
           today' \in 1 .. LastDay,
           profiles' \in Seq(ProfileRow),
           \A i \in DOMAIN profiles : i \in DOMAIN profiles' /\ profiles'[i] = profiles[i],
           \A i \in DOMAIN profiles' : profiles'[i] \in ProfileRow,
           quotes' \in Seq(QuoteRow), DOMAIN quotes' = DOMAIN quotes,
           \A q \in DOMAIN quotes' : quotes'[q] \in QuoteRow
    PROVE  IInv'
<1>1. req' = req
  BY DEF requestVars
<1>2. \A d \in Client : Relies(d)'
  <2>1. TAKE d \in Client
  <2>2. Relies(d)
    BY DEF IInv, IntakeRequests
  <2>3. KeyFree(d)' /\ InstructionNew(d)' /\ Refers(d)'
    BY <1>1, <2>2 DEF Relies, KeyFree, InstructionNew, Refers
  <2>4. req[d].op = "close" => req[d].order \in DOMAIN orders'
    BY <2>2 DEF Relies, Closes
  <2>5. ProfileRead(d)' /\ Reserves(d)' /\ Closes(d)'
    <3>1. \A day : day # 0 => /\ day \in DOMAIN counter' <=> day \in DOMAIN counter
                              /\ day \in DOMAIN counter => counter'[day] = counter[day]
      OBVIOUS
    <3>2. req[d].op \in Locking => req[d].day # 0 \/ req[d].day = None
      <4>1. Reserves(d) /\ Closes(d)
        BY <2>2 DEF Relies
      <4>2. req[d].op = "reserved" => req[d].day \in 1 .. LastDay
        BY <4>1 DEF Reserves
      <4>3. req[d].op = "close" => req[d].day # 0
        BY <4>1 DEF Closes, None
      <4> QED  BY <4>2, <4>3 DEF Locking
    <3> QED  BY <1>1, <2>2, <2>4, <3>1, <3>2, LocksStay
  <2> QED  BY <2>3, <2>5 DEF Relies
<1>3. IntakeRequests'
  BY <1>1, <1>2 DEF IInv, IntakeRequests, Apart
<1>4. IntakeTypeOK'
  BY DEF IInv, Tables, IntakeTypeOK, IntentRows, CancellationRows
<1>5. Tables'
  BY <1>4 DEF IInv, Tables
<1>6. CreatedOncePerKey'
  BY DEF IInv, CreatedOncePerKey
<1>7. LimitsAreKept'
  BY DEF IInv, LimitsAreKept
<1> QED
  BY <1>3, <1>5, <1>6, <1>7 DEF IInv

LEMMA NewDayKeeps ==
    ASSUME IInv, NewDay
    PROVE  IInv'
<1>1. /\ today' \in 1 .. LastDay
      /\ profiles' = profiles /\ quotes' = quotes
      /\ UNCHANGED <<requestVars, record, effects, orders, counter, position, intents, cancels>>
  BY LastDayAssumption DEF NewDay, IInv, Tables
<1>2. /\ profiles \in Seq(ProfileRow) /\ \A i \in DOMAIN profiles : profiles[i] \in ProfileRow
      /\ quotes \in Seq(QuoteRow) /\ \A q \in DOMAIN quotes : quotes[q] \in QuoteRow
  BY DEF IInv, Tables, IntakeTypeOK
<1> QED
  BY <1>1, <1>2, BesideRequests

LEMMA ProvisionKeeps ==
    ASSUME IInv, NEW profile \in ProfileRow, ProvisionLimitProfile(profile)
    PROVE  IInv'
<1>1. /\ profiles' = Append(profiles, profile)
      /\ today' = today /\ quotes' = quotes
      /\ UNCHANGED <<requestVars, record, effects, orders, counter, position, intents, cancels>>
  BY DEF ProvisionLimitProfile
<1>2. /\ profiles' \in Seq(ProfileRow)
      /\ \A i \in DOMAIN profiles : i \in DOMAIN profiles' /\ profiles'[i] = profiles[i]
      /\ \A i \in DOMAIN profiles' : profiles'[i] \in ProfileRow
  BY <1>1, AppendRow DEF IInv, Tables
<1>3. /\ today \in 1 .. LastDay
      /\ quotes \in Seq(QuoteRow) /\ \A q \in DOMAIN quotes : quotes[q] \in QuoteRow
  BY DEF IInv, Tables, IntakeTypeOK
<1> QED
  BY <1>1, <1>2, <1>3, BesideRequests

LEMMA PassQuoteExpiryKeeps ==
    ASSUME IInv, NEW q \in DOMAIN quotes, PassQuoteExpiry(q)
    PROVE  IInv'
<1>1. /\ quotes' = [quotes EXCEPT ![q] = "late"]
      /\ today' = today /\ profiles' = profiles
      /\ UNCHANGED <<requestVars, record, effects, orders, counter, position, intents, cancels>>
  BY DEF PassQuoteExpiry
<1>2. quotes \in Seq(QuoteRow) /\ "late" \in QuoteRow
  BY DEF IInv, Tables, QuoteRow
<1>3. /\ quotes' \in Seq(QuoteRow) /\ DOMAIN quotes' = DOMAIN quotes
      /\ \A p \in DOMAIN quotes' : quotes'[p] \in QuoteRow
  BY <1>1, <1>2, ReplaceRow
<1>4. /\ today \in 1 .. LastDay
      /\ profiles \in Seq(ProfileRow) /\ \A i \in DOMAIN profiles : profiles[i] \in ProfileRow
  BY DEF IInv, Tables, IntakeTypeOK
<1> QED
  BY <1>1, <1>3, <1>4, BesideRequests

LEMMA NextIntake ==
    ASSUME IInv, [IntakeNext]_ivars
    PROVE  IInv'
<1>1. CASE UNCHANGED ivars
  <2>1. req' = req /\ UNCHANGED intakeVars
    BY <1>1 DEF ivars, requestVars
  <2>2. IntakeRequests'
    BY <2>1, ReadsStay, ApartStays DEF IInv, IntakeRequests
  <2> QED  BY <2>1, <2>2, TablesStay DEF IInv
<1>2. CASE IntakeNext
  <2>1. CASE \E c \in Client :
         \/ \E k \in Key, body \in Body, x \in Instruction, n \in Nat : BeginPayment(c, k, body, x, n)
         \/ ReserveLimit(c)
         \/ CommitPayment(c)
         \/ \E i \in DOMAIN orders, completed \in BOOLEAN : BeginClose(c, i, completed)
         \/ CommitClose(c)
         \/ \E k \in Key, body \in Body : BeginQuote(c, k, body)
         \/ CommitQuote(c)
         \/ \E i \in DOMAIN orders, q \in DOMAIN quotes, k \in Key : BeginAcceptance(c, i, q, k)
         \/ CommitAcceptance(c)
         \/ \E i \in DOMAIN orders, k \in Key, reason \in Body : BeginCancellation(c, i, k, reason)
         \/ CommitCancellation(c)
         \/ RollBackIntake(c)
    BY <2>1, BeginPaymentKeeps, ReserveLimitKeeps, CommitPaymentKeeps, BeginCloseKeeps, CommitCloseKeeps,
       BeginQuoteKeeps, CommitQuoteKeeps, BeginAcceptanceKeeps, CommitAcceptanceKeeps,
       BeginCancellationKeeps, CommitCancellationKeeps, RollBackKeeps
  <2>2. CASE NewDay
    BY <2>2, NewDayKeeps
  <2>3. CASE \E profile \in ProfileRow : ProvisionLimitProfile(profile)
    BY <2>3, ProvisionKeeps
  <2>4. CASE \E q \in DOMAIN quotes : PassQuoteExpiry(q)
    BY <2>4, PassQuoteExpiryKeeps
  <2> QED  BY <1>2, <2>1, <2>2, <2>3, <2>4 DEF IntakeNext
<1> QED
  BY <1>1, <1>2

------------------------------------------------------------------------------
(* What a step does to the limits of a day *)

\* Nothing: neither the counter nor an order of the day.
DayStays(day) ==
    /\ Counter(day)' = Counter(day)
    /\ \A i \in DOMAIN orders : orders[i].day = day => i \in DOMAIN orders' /\ orders'[i] = orders[i]
    /\ \A i \in DOMAIN orders' : orders'[i].day = day => i \in DOMAIN orders /\ orders'[i] = orders[i]

\* An order is created, and its amount reserved.
OrderOpens(day) == \E x \in Instruction, n \in Nat \ {0} :
    /\ orders' = Append(orders, [instruction |-> x, amount |-> n, day |-> day, state |-> "open"])
    /\ Counter(day)' = [reserved |-> Counter(day).reserved + n, consumed |-> Counter(day).consumed]

\* An open order is closed, and its amount consumed or released.
OrderCloses(day) == \E i \in DOMAIN orders, completed \in BOOLEAN :
    /\ orders[i].day = day /\ orders[i].state = "open"
    /\ orders' = [orders EXCEPT ![i].state = IF completed THEN "completed" ELSE "ended"]
    /\ Counter(day)' = Finalized(Counter(day), orders[i].amount, completed)

LimitsFollow == \A day \in 1 .. LastDay : DayStays(day) \/ OrderOpens(day) \/ OrderCloses(day)

LEMMA StepStays ==
    ASSUME NEW day, orders' = orders, counter' = counter PROVE DayStays(day)
  BY DEF DayStays, Counter

LEMMA PaymentFollows ==
    ASSUME IInv, NEW c \in Client, CommitPayment(c), NEW day \in 1 .. LastDay
    PROVE  DayStays(day) \/ OrderOpens(day)
<1>1. /\ req[c].op \in Held /\ cancels' = Append(cancels, 0) /\ intents' = intents
  BY DEF CommitPayment, Commit, Held
<1>2. req[c].instruction \in Instruction /\ req[c].amount \in Nat \ {0}
  BY <1>1 DEF IInv, IntakeRequests, Relies, InstructionNew
<1>3. ASSUME NEW at \in 0 .. LastDay, at # day, orders' = Append(orders, Order(req[c], at)),
             Counter(day)' = Counter(day)
      PROVE  DayStays(day)
  <2>1. /\ \A i \in DOMAIN orders : i \in DOMAIN orders' /\ orders'[i] = orders[i]
        /\ \A i \in DOMAIN orders' \ DOMAIN orders : orders'[i] = Order(req[c], at)
    BY <1>1, <1>3, OrderInserted
  <2>2. Order(req[c], at).day = at
    BY DEF Order
  <2> QED  BY <1>3, <2>1, <2>2 DEF DayStays
<1>4. CASE req[c].op = "payment"
  <2>1. orders' = Append(orders, Order(req[c], 0)) /\ counter' = counter
    BY <1>4 DEF CommitPayment
  <2>2. 0 \in 0 .. LastDay /\ 0 # day
    BY LastDayAssumption
  <2>3. Counter(day)' = Counter(day)
    BY <2>1 DEF Counter
  <2> QED  BY <1>3, <2>1, <2>2, <2>3
<1>5. CASE req[c].op = "reserved"
  <2>1. orders' = Append(orders, Order(req[c], req[c].day)) /\ WriteLimits(c) /\ profiles' = profiles
    BY <1>5 DEF CommitPayment
  <2>2. Reserves(c)
    BY DEF IInv, IntakeRequests, Relies
  <2>3. /\ req[c].day \in 1 .. LastDay /\ req[c].exposed \in BOOLEAN
        /\ req[c].loaded = Counter(req[c].day)
        /\ req[c].new = [reserved |-> req[c].loaded.reserved + req[c].amount, consumed |-> req[c].loaded.consumed]
        /\ req[c].exposed => req[c].was = position
        /\ ~req[c].exposed => req[c].raised = req[c].was
    BY <1>5, <2>2 DEF Reserves
  <2>4. Counter(req[c].day) \in CounterRow
    BY DEF IInv, Tables, IntakeTypeOK, Counter, CounterRow
  <2>5. req[c].new \in CounterRow
    BY <1>2, <2>3, <2>4 DEF CounterRow
  <2>6. /\ DOMAIN counter' = DOMAIN counter \cup {req[c].day}
        /\ counter'[req[c].day] = req[c].new
        /\ \A x \in DOMAIN counter : x # req[c].day => counter'[x] = counter[x]
    BY <1>5, <2>1, <2>3, <2>5, LimitsWritten DEF Locking
  <2>7. CASE day = req[c].day
    <3>1. Counter(day)' = [reserved |-> Counter(day).reserved + req[c].amount, consumed |-> Counter(day).consumed]
      BY <2>3, <2>6, <2>7 DEF Counter
    <3>2. Order(req[c], req[c].day) = [instruction |-> req[c].instruction, amount |-> req[c].amount,
                                       day |-> day, state |-> "open"]
      BY <2>7 DEF Order
    <3> QED  BY <1>2, <2>1, <3>1, <3>2 DEF OrderOpens
  <2>8. CASE day # req[c].day
    <3>1. Counter(day)' = Counter(day)
      BY <2>6, <2>8 DEF Counter
    <3>2. req[c].day \in 0 .. LastDay
      BY <2>3, LastDayAssumption
    <3> QED  BY <1>3, <2>1, <2>8, <3>1, <3>2
  <2> QED  BY <2>7, <2>8
<1> QED
  BY <1>1, <1>4, <1>5 DEF Held

LEMMA CloseFollows ==
    ASSUME IInv, NEW c \in Client, CommitClose(c), NEW day \in 1 .. LastDay
    PROVE  DayStays(day) \/ OrderCloses(day)
<1> DEFINE i == req[c].order
<1>1. /\ req[c].op = "close" /\ profiles' = profiles
      /\ orders' = [orders EXCEPT ![i].state = IF req[c].completed THEN "completed" ELSE "ended"]
      /\ IF req[c].day = None THEN UNCHANGED <<counter, position>> ELSE WriteLimits(c)
  BY DEF CommitClose
<1>2. Closes(c)
  BY DEF IInv, IntakeRequests, Relies
<1>3. /\ i \in DOMAIN orders /\ orders[i].state = "open"
      /\ req[c].completed \in BOOLEAN /\ req[c].exposed \in BOOLEAN
      /\ req[c].day = IF orders[i].day # 0 THEN orders[i].day ELSE None
      /\ req[c].day # None => /\ req[c].loaded = Counter(req[c].day)
                              /\ req[c].loaded.reserved >= orders[i].amount
                              /\ req[c].new = Finalized(req[c].loaded, orders[i].amount, req[c].completed)
      /\ req[c].exposed => req[c].was = position
      /\ ~req[c].exposed => req[c].raised = req[c].was
  BY <1>1, <1>2 DEF Closes
<1>4. orders \in Seq(OrderRow) /\ orders[i] \in OrderRow
  BY <1>3 DEF IInv, Tables, IntakeTypeOK
<1>5. orders[i].day \in 0 .. LastDay /\ orders[i].amount \in Nat
  BY <1>4 DEF OrderRow
<1>6. /\ DOMAIN orders' = DOMAIN orders
      /\ orders'[i].day = orders[i].day
      /\ \A j \in DOMAIN orders : j # i => orders'[j] = orders[j]
  BY <1>1, <1>3, <1>4 DEF OrderRow
<1>7. ASSUME orders[i].day # day, Counter(day)' = Counter(day) PROVE DayStays(day)
  BY <1>6, <1>7 DEF DayStays
<1>8. CASE orders[i].day = 0
  <2>1. counter' = counter /\ orders[i].day # day
    BY <1>1, <1>3, <1>8
  <2> QED  BY <1>7, <2>1 DEF Counter
<1>9. CASE orders[i].day # 0
  <2>1. req[c].day = orders[i].day /\ req[c].day # None /\ req[c].day \in 1 .. LastDay
    BY <1>3, <1>5, <1>9, LastDayAssumption DEF None
  <2>2. WriteLimits(c)
    BY <1>1, <2>1
  <2>3. Counter(req[c].day) \in CounterRow
    BY DEF IInv, Tables, IntakeTypeOK, Counter, CounterRow
  <2>4. req[c].new \in CounterRow
    BY <1>3, <1>5, <2>1, <2>3 DEF CounterRow, Finalized
  <2>5. /\ DOMAIN counter' = DOMAIN counter \cup {req[c].day}
        /\ counter'[req[c].day] = req[c].new
        /\ \A x \in DOMAIN counter : x # req[c].day => counter'[x] = counter[x]
    BY <1>1, <1>3, <2>1, <2>2, <2>4, LimitsWritten DEF Locking
  <2>6. CASE day = req[c].day
    <3>1. Counter(day)' = Finalized(Counter(day), orders[i].amount, req[c].completed)
      BY <1>3, <2>1, <2>5, <2>6 DEF Counter
    <3> QED  BY <1>1, <1>3, <2>1, <2>6, <3>1 DEF OrderCloses
  <2>7. CASE day # req[c].day
    BY <1>7, <2>1, <2>5, <2>7 DEF Counter
  <2> QED  BY <2>6, <2>7
<1> QED
  BY <1>8, <1>9

LEMMA StepFollows ==
    ASSUME IInv, [IntakeNext]_ivars
    PROVE  LimitsFollow
<1>1. CASE \E c \in Client : CommitPayment(c)
  BY <1>1, PaymentFollows DEF LimitsFollow
<1>2. CASE \E c \in Client : CommitClose(c)
  BY <1>2, CloseFollows DEF LimitsFollow
<1>3. CASE orders' = orders /\ counter' = counter
  BY <1>3, StepStays DEF LimitsFollow
<1>4. ASSUME NEW c \in Client,
             \/ \E k \in Key, body \in Body, x \in Instruction, n \in Nat : BeginPayment(c, k, body, x, n)
             \/ ReserveLimit(c)
             \/ \E i \in DOMAIN orders, completed \in BOOLEAN : BeginClose(c, i, completed)
             \/ \E k \in Key, body \in Body : BeginQuote(c, k, body)
             \/ \E i \in DOMAIN orders, q \in DOMAIN quotes, k \in Key : BeginAcceptance(c, i, q, k)
             \/ \E i \in DOMAIN orders, k \in Key, reason \in Body : BeginCancellation(c, i, k, reason)
             \/ RollBackIntake(c)
      PROVE  orders' = orders /\ counter' = counter
  BY <1>4 DEF BeginPayment, ReserveLimit, BeginClose, BeginQuote, BeginAcceptance, BeginCancellation,
              RollBackIntake, intakeVars
<1>5. ASSUME NEW c \in Client, CommitQuote(c) \/ CommitAcceptance(c) \/ CommitCancellation(c)
      PROVE  orders' = orders /\ counter' = counter
  BY <1>5 DEF CommitQuote, CommitAcceptance, CommitCancellation
<1>6. ASSUME NewDay \/ (\E profile \in ProfileRow : ProvisionLimitProfile(profile))
                    \/ (\E q \in DOMAIN quotes : PassQuoteExpiry(q)) \/ UNCHANGED ivars
      PROVE  orders' = orders /\ counter' = counter
  BY <1>6 DEF NewDay, ProvisionLimitProfile, PassQuoteExpiry, ivars, intakeVars
<1>7. CASE UNCHANGED ivars
  BY <1>3, <1>6, <1>7
<1>8. CASE IntakeNext
  BY <1>1, <1>2, <1>3, <1>4, <1>5, <1>6, <1>8 DEF IntakeNext
<1> QED
  BY <1>7, <1>8

------------------------------------------------------------------------------
(* What the orders of a day come to *)

\* The orders of a day in one of these states, and their sum, in a table.
OrdersOf(t, day, states) == {i \in DOMAIN t : t[i].day = day /\ t[i].state \in states}
SumOf(t, day, states) ==
    LET of == OrdersOf(t, day, states) IN SumFunctionOnSet([i \in of |-> t[i].amount], of)

LEMMA OrdersFinite ==
    ASSUME NEW t \in Seq(OrderRow), NEW day, NEW states
    PROVE  /\ IsFiniteSet(OrdersOf(t, day, states))
           /\ \A i \in OrdersOf(t, day, states) : t[i].amount \in Nat
<1>1. DOMAIN t = 1 .. Len(t) /\ Len(t) \in Nat /\ \A i \in DOMAIN t : t[i] \in OrderRow
  OBVIOUS
<1>2. IsFiniteSet(DOMAIN t)
  <2>1. IsFiniteSet(1 .. Len(t))
    BY <1>1, FS_Interval
  <2> QED
    BY <1>1, <2>1
<1>3. OrdersOf(t, day, states) \in SUBSET DOMAIN t
  BY DEF OrdersOf
<1>4. IsFiniteSet(OrdersOf(t, day, states))
  BY <1>2, <1>3, FS_Subset
<1>5. \A i \in OrdersOf(t, day, states) : t[i].amount \in Nat
  BY <1>1, <1>3 DEF OrderRow
<1> QED
  BY <1>4, <1>5

LEMMA SumOfType ==
    ASSUME NEW t \in Seq(OrderRow), NEW day, NEW states
    PROVE  SumOf(t, day, states) \in Nat
<1> DEFINE of == OrdersOf(t, day, states)
           f == [i \in of |-> t[i].amount]
<1>1. IsFiniteSet(of) /\ \A i \in of : f[i] \in Nat
  BY OrdersFinite
<1> HIDE DEF f, of
<1>2. SumFunctionOnSet(f, of) \in Nat
  BY <1>1, SumIsNat
<1> QED
  BY <1>2 DEF SumOf, f, of

\* Tables with the same orders of the day in these states.
LEMMA SumOfSame ==
    ASSUME NEW t, NEW u, NEW day, NEW states, OrdersOf(t, day, states) = OrdersOf(u, day, states),
           \A i \in OrdersOf(t, day, states) : t[i].amount = u[i].amount
    PROVE  SumOf(t, day, states) = SumOf(u, day, states)
<1>1. PICK of : of = OrdersOf(t, day, states)
  OBVIOUS
<1>2. [i \in of |-> t[i].amount] = [i \in of |-> u[i].amount]
  BY <1>1
<1>3. /\ SumOf(t, day, states) = SumFunctionOnSet([i \in of |-> t[i].amount], of)
      /\ SumOf(u, day, states) = SumFunctionOnSet([i \in of |-> u[i].amount], of)
  BY <1>1 DEF SumOf
<1> QED
  BY <1>2, <1>3

\* One order more.
LEMMA SumOfOneMore ==
    ASSUME NEW t \in Seq(OrderRow), NEW u \in Seq(OrderRow), NEW day, NEW states, NEW k,
           k \notin OrdersOf(t, day, states),
           OrdersOf(u, day, states) = OrdersOf(t, day, states) \cup {k},
           \A i \in OrdersOf(t, day, states) : t[i].amount = u[i].amount
    PROVE  SumOf(u, day, states) = SumOf(t, day, states) + u[k].amount
<1> DEFINE of == OrdersOf(t, day, states)
           more == OrdersOf(u, day, states)
           f == [i \in of |-> t[i].amount]
           g == [i \in more |-> u[i].amount]
<1>1. /\ IsFiniteSet(of) /\ IsFiniteSet(more) /\ more = of \cup {k} /\ k \notin of
      /\ \A i \in of : f[i] \in Int
      /\ \A i \in more : g[i] \in Int
  <2>1. IsFiniteSet(of) /\ \A i \in of : f[i] \in Int
    <3>1. IsFiniteSet(OrdersOf(t, day, states)) /\ \A i \in OrdersOf(t, day, states) : t[i].amount \in Nat
      BY OrdersFinite
    <3> QED
      BY <3>1
  <2>2. IsFiniteSet(more) /\ \A i \in more : g[i] \in Int
    <3>1. IsFiniteSet(OrdersOf(u, day, states)) /\ \A i \in OrdersOf(u, day, states) : u[i].amount \in Nat
      BY OrdersFinite
    <3> QED
      BY <3>1
  <2>3. more = of \cup {k} /\ k \notin of
    OBVIOUS
  <2> QED
    BY <2>1, <2>2, <2>3
<1>2. g[k] = u[k].amount /\ \A i \in of : f[i] = g[i]
  OBVIOUS
<1>3. SumOf(t, day, states) = SumFunctionOnSet(f, of) /\ SumOf(u, day, states) = SumFunctionOnSet(g, more)
  BY DEF SumOf
<1> HIDE DEF f, g, of, more
<1>4. SumFunctionOnSet(g, of \cup {k}) = g[k] + SumFunctionOnSet(g, of)
  BY <1>1, SumAdd
<1>5. SumFunctionOnSet(f, of) = SumFunctionOnSet(g, of)
  BY <1>1, <1>2, SumSame
<1>6. SumFunctionOnSet(g, of) \in Int /\ g[k] \in Int
  <2>1. \A i \in of : g[i] \in Int
    BY <1>1
  <2> QED
    BY <1>1, <2>1, SumType
<1>7. SumFunctionOnSet(g, more) = SumFunctionOnSet(g, of \cup {k})
  BY <1>1, Zenon
<1> QED
  BY <1>2, <1>3, <1>4, <1>5, <1>6, <1>7

\* Open and completed orders together.
LEMMA SumOfBothStates ==
    ASSUME NEW t \in Seq(OrderRow), NEW day
    PROVE  SumOf(t, day, {"open", "completed"}) = SumOf(t, day, {"open"}) + SumOf(t, day, {"completed"})
<1> DEFINE all == OrdersOf(t, day, {"open", "completed"})
           open == OrdersOf(t, day, {"open"})
           done == OrdersOf(t, day, {"completed"})
           f == [i \in all |-> t[i].amount]
           g == [i \in open |-> t[i].amount]
           h == [i \in done |-> t[i].amount]
<1>1. IsFiniteSet(open) /\ IsFiniteSet(done) /\ \A i \in all : f[i] \in Int
  BY OrdersFinite
<1>2. all = open \cup done /\ open \cap done = {}
  BY DEF OrdersOf
<1>3. (\A i \in open : f[i] = g[i]) /\ (\A i \in done : f[i] = h[i])
  BY <1>2
<1>4. /\ SumOf(t, day, {"open", "completed"}) = SumFunctionOnSet(f, all)
      /\ SumOf(t, day, {"open"}) = SumFunctionOnSet(g, open)
      /\ SumOf(t, day, {"completed"}) = SumFunctionOnSet(h, done)
  BY DEF SumOf
<1> HIDE DEF f, g, h, all, open, done
<1>5. \A i \in open \cup done : f[i] \in Int
  BY <1>1, <1>2
<1>6. SumFunctionOnSet(f, open \cup done) = SumFunctionOnSet(f, open) + SumFunctionOnSet(f, done)
  BY <1>1, <1>2, <1>5, SumUnion
<1>7. SumFunctionOnSet(f, open) = SumFunctionOnSet(g, open) /\ SumFunctionOnSet(f, done) = SumFunctionOnSet(h, done)
  BY <1>1, <1>3, SumSame
<1>8. SumFunctionOnSet(f, all) = SumFunctionOnSet(f, open \cup done)
  BY <1>2, Zenon
<1> QED
  BY <1>4, <1>6, <1>7, <1>8

LEMMA SumIsSumOf == \A day, states : Sum(day, states) = SumOf(orders, day, states)
  BY DEF Sum, SumOf, OrdersOf

\* What a counter must say, on a table of orders.
Tallies(row, t, day) == row = [reserved |-> SumOf(t, day, {"open"}), consumed |-> SumOf(t, day, {"completed"})]

LEMMA StayMatches ==
    ASSUME NEW t, NEW u, NEW day, NEW row, Tallies(row, t, day),
           \A i \in DOMAIN t : t[i].day = day => i \in DOMAIN u /\ u[i] = t[i],
           \A i \in DOMAIN u : u[i].day = day => i \in DOMAIN t /\ u[i] = t[i]
    PROVE  Tallies(row, u, day)
<1>1. \A states : OrdersOf(t, day, states) = OrdersOf(u, day, states)
                  /\ \A i \in OrdersOf(t, day, states) : t[i].amount = u[i].amount
  BY DEF OrdersOf
<1>2. \A states : SumOf(t, day, states) = SumOf(u, day, states)
  BY <1>1, SumOfSame
<1> QED
  BY <1>2 DEF Tallies

LEMMA OpenMatches ==
    ASSUME NEW t \in Seq(OrderRow), NEW u \in Seq(OrderRow), NEW day, NEW n, NEW k, k \notin DOMAIN t,
           DOMAIN u = DOMAIN t \cup {k}, \A i \in DOMAIN t : u[i] = t[i],
           u[k].day = day, u[k].state = "open", u[k].amount = n,
           NEW row, Tallies(row, t, day)
    PROVE  Tallies([reserved |-> row.reserved + n, consumed |-> row.consumed], u, day)
<1>7. /\ OrdersOf(u, day, {"open"}) = OrdersOf(t, day, {"open"}) \cup {k}
      /\ k \notin OrdersOf(t, day, {"open"})
      /\ OrdersOf(u, day, {"completed"}) = OrdersOf(t, day, {"completed"})
      /\ \A states : \A i \in OrdersOf(t, day, states) : t[i].amount = u[i].amount
  BY DEF OrdersOf
<1>8. SumOf(u, day, {"open"}) = SumOf(t, day, {"open"}) + u[k].amount
  <2>1. PICK states : states = {"open"}
    OBVIOUS
  <2>2. /\ OrdersOf(u, day, states) = OrdersOf(t, day, states) \cup {k}
        /\ k \notin OrdersOf(t, day, states)
        /\ \A i \in OrdersOf(t, day, states) : t[i].amount = u[i].amount
    BY <1>7, <2>1
  <2>3. SumOf(u, day, states) = SumOf(t, day, states) + u[k].amount
    BY <2>2, SumOfOneMore
  <2> QED
    BY <2>1, <2>3
<1>9. SumOf(u, day, {"completed"}) = SumOf(t, day, {"completed"})
  <2>1. PICK states : states = {"completed"}
    OBVIOUS
  <2>2. /\ OrdersOf(u, day, states) = OrdersOf(t, day, states)
        /\ \A i \in OrdersOf(u, day, states) : u[i].amount = t[i].amount
    BY <1>7, <2>1
  <2>3. SumOf(u, day, states) = SumOf(t, day, states)
    BY <2>2, SumOfSame
  <2> QED
    BY <2>1, <2>3
<1> QED
  BY <1>8, <1>9 DEF Tallies

LEMMA CloseMatches ==
    ASSUME NEW t \in Seq(OrderRow), NEW u \in Seq(OrderRow), NEW day, NEW k, NEW completed \in BOOLEAN,
           k \in DOMAIN t, DOMAIN u = DOMAIN t, \A i \in DOMAIN t : i # k => u[i] = t[i],
           t[k].day = day, t[k].state = "open", u[k].day = day, u[k].amount = t[k].amount,
           u[k].state = IF completed THEN "completed" ELSE "ended",
           NEW row, Tallies(row, t, day)
    PROVE  Tallies(Finalized(row, t[k].amount, completed), u, day)
<1>6. \A states : \A i \in DOMAIN t : t[i].amount = u[i].amount
  OBVIOUS
<1>7. /\ OrdersOf(t, day, {"open"}) = OrdersOf(u, day, {"open"}) \cup {k}
      /\ k \notin OrdersOf(u, day, {"open"})
      /\ \A i \in OrdersOf(u, day, {"open"}) : u[i].amount = t[i].amount
  BY <1>6 DEF OrdersOf
<1>8. SumOf(t, day, {"open"}) = SumOf(u, day, {"open"}) + t[k].amount
  <2>1. PICK states : states = {"open"}
    OBVIOUS
  <2>2. /\ OrdersOf(t, day, states) = OrdersOf(u, day, states) \cup {k}
        /\ k \notin OrdersOf(u, day, states)
        /\ \A i \in OrdersOf(u, day, states) : u[i].amount = t[i].amount
    BY <1>7, <2>1
  <2>3. SumOf(t, day, states) = SumOf(u, day, states) + t[k].amount
    BY <2>2, SumOfOneMore
  <2> QED
    BY <2>1, <2>3
<1>9. SumOf(u, day, {"open"}) \in Nat /\ SumOf(t, day, {"completed"}) \in Nat /\ t[k].amount \in Nat
  <2>1. SumOf(u, day, {"open"}) \in Nat
    BY SumOfType
  <2>2. SumOf(t, day, {"completed"}) \in Nat
    BY SumOfType
  <2>3. t[k] \in OrderRow
    OBVIOUS
  <2> QED
    BY <2>1, <2>2, <2>3 DEF OrderRow
<1>10. CASE completed
  <2>1. /\ OrdersOf(u, day, {"completed"}) = OrdersOf(t, day, {"completed"}) \cup {k}
        /\ k \notin OrdersOf(t, day, {"completed"})
        /\ \A i \in OrdersOf(t, day, {"completed"}) : t[i].amount = u[i].amount
    BY <1>6, <1>10 DEF OrdersOf
  <2>2. SumOf(u, day, {"completed"}) = SumOf(t, day, {"completed"}) + u[k].amount
    <3>1. PICK states : states = {"completed"}
      OBVIOUS
    <3>2. /\ OrdersOf(u, day, states) = OrdersOf(t, day, states) \cup {k}
          /\ k \notin OrdersOf(t, day, states)
          /\ \A i \in OrdersOf(t, day, states) : t[i].amount = u[i].amount
      BY <2>1, <3>1
    <3>3. SumOf(u, day, states) = SumOf(t, day, states) + u[k].amount
      BY <3>2, SumOfOneMore
    <3> QED
      BY <3>1, <3>3
  <2>3. u[k].amount = t[k].amount
    OBVIOUS
  <2> QED
    BY <1>8, <1>9, <1>10, <2>2, <2>3 DEF Tallies, Finalized
<1>11. CASE ~completed
  <2>1. /\ OrdersOf(u, day, {"completed"}) = OrdersOf(t, day, {"completed"})
        /\ \A i \in OrdersOf(u, day, {"completed"}) : u[i].amount = t[i].amount
    BY <1>6, <1>11 DEF OrdersOf
  <2>2. SumOf(u, day, {"completed"}) = SumOf(t, day, {"completed"})
    <3>1. PICK states : states = {"completed"}
      OBVIOUS
    <3>2. /\ OrdersOf(u, day, states) = OrdersOf(t, day, states)
          /\ \A i \in OrdersOf(u, day, states) : u[i].amount = t[i].amount
      BY <2>1, <3>1
    <3>3. SumOf(u, day, states) = SumOf(t, day, states)
      BY <3>2, SumOfSame
    <3> QED
      BY <3>1, <3>3
  <2> QED
    BY <1>8, <1>9, <1>11, <2>2 DEF Tallies, Finalized
<1> QED
  BY <1>10, <1>11

LEMMA LimitsMatchAfter ==
    ASSUME IInv, LimitsMatchOrders, LimitsFollow
    PROVE  LimitsMatchOrders'
<1> SUFFICES ASSUME NEW day \in 1 .. LastDay
             PROVE  Counter(day)' = [reserved |-> Sum(day, {"open"})', consumed |-> Sum(day, {"completed"})']
  BY DEF LimitsMatchOrders
<1>1. PICK t : t = orders
  OBVIOUS
<1>2. PICK u : u = orders'
  OBVIOUS
<1>3. PICK row : row = Counter(day)
  OBVIOUS
<1>4. \A states : Sum(day, states) = SumOf(t, day, states) /\ Sum(day, states)' = SumOf(u, day, states)
  BY <1>1, <1>2 DEF Sum, SumOf, OrdersOf
<1>5. Tallies(row, t, day)
  BY <1>3, <1>4 DEF LimitsMatchOrders, Tallies
<1>6. t \in Seq(OrderRow)
  BY <1>1 DEF IInv, Tables
<1>7. SUFFICES Tallies(Counter(day)', u, day)
  BY <1>4 DEF Tallies
<1>8. CASE DayStays(day)
  <2>1. Counter(day)' = row
    BY <1>3, <1>8 DEF DayStays
  <2>2. /\ \A i \in DOMAIN t : t[i].day = day => i \in DOMAIN u /\ u[i] = t[i]
        /\ \A i \in DOMAIN u : u[i].day = day => i \in DOMAIN t /\ u[i] = t[i]
    BY <1>1, <1>2, <1>8 DEF DayStays
  <2>3. Tallies(row, u, day)
    BY <1>5, <2>2, StayMatches
  <2> QED
    BY <2>1, <2>3
<1>9. CASE OrderOpens(day)
  <2>1. PICK x \in Instruction, n \in Nat \ {0} :
          /\ u = Append(t, [instruction |-> x, amount |-> n, day |-> day, state |-> "open"])
          /\ Counter(day)' = [reserved |-> row.reserved + n, consumed |-> row.consumed]
    BY <1>1, <1>2, <1>3, <1>9 DEF OrderOpens
  <2>2. PICK o : o = [instruction |-> x, amount |-> n, day |-> day, state |-> "open"]
    OBVIOUS
  <2>3. PICK k : k = Len(t) + 1
    OBVIOUS
  <2>4. o \in OrderRow /\ o.day = day /\ o.state = "open" /\ o.amount = n
    BY <2>2, LastDayAssumption DEF OrderRow
  <2>5. u = Append(t, o)
    BY <2>1, <2>2
  <2>6. /\ u \in Seq(OrderRow) /\ u[k] = o /\ \A i \in DOMAIN t : u[i] = t[i]
        /\ DOMAIN u = DOMAIN t \cup {k} /\ k \notin DOMAIN t
    BY <1>6, <2>3, <2>4, <2>5, AppendRow
  <2>7. u[k].day = day /\ u[k].state = "open" /\ u[k].amount = n
    BY <2>4, <2>6
  <2>8. Tallies([reserved |-> row.reserved + n, consumed |-> row.consumed], u, day)
    BY <1>5, <1>6, <2>6, <2>7, OpenMatches
  <2> QED
    BY <2>1, <2>8
<1>10. CASE OrderCloses(day)
  <2>1. PICK i \in DOMAIN t, completed \in BOOLEAN :
          /\ t[i].day = day /\ t[i].state = "open"
          /\ u = [t EXCEPT ![i].state = IF completed THEN "completed" ELSE "ended"]
          /\ Counter(day)' = Finalized(row, t[i].amount, completed)
    BY <1>1, <1>2, <1>3, <1>10 DEF OrderCloses
  <2>2. PICK o : o = [t[i] EXCEPT !.state = IF completed THEN "completed" ELSE "ended"]
    OBVIOUS
  <2>3. t[i] \in OrderRow
    BY <1>6
  <2>4. /\ o \in OrderRow /\ o.day = day /\ o.amount = t[i].amount
        /\ o.state = IF completed THEN "completed" ELSE "ended"
    BY <2>1, <2>2, <2>3 DEF OrderRow
  <2>5. u = [t EXCEPT ![i] = o]
    BY <2>1, <2>2
  <2>6. u \in Seq(OrderRow) /\ DOMAIN u = DOMAIN t /\ u[i] = o /\ \A j \in DOMAIN t : j # i => u[j] = t[j]
    BY <1>6, <2>4, <2>5, ReplaceRow
  <2>7. /\ u[i].day = day /\ u[i].amount = t[i].amount
        /\ u[i].state = IF completed THEN "completed" ELSE "ended"
    BY <2>4, <2>6
  <2>8. t[i].day = day /\ t[i].state = "open"
    BY <2>1
  <2>9. Tallies(Finalized(row, t[i].amount, completed), u, day)
    BY <1>5, <1>6, <2>6, <2>7, <2>8, CloseMatches
  <2> QED
    BY <2>1, <2>9
<1> QED
  BY <1>8, <1>9, <1>10 DEF LimitsFollow

------------------------------------------------------------------------------
(* The theorems *)

\* Along every behaviour an open request relies on what Relies says, and no two
\* have inserted one key or locked one row.
THEOREM IntakeInvariance == IntakeSpec => []IInv
<1>1. (\E initial \in Seq(ProfileRow) : IntakeInit(initial)) /\ (\E allowed \in Nat : RequestsInit(allowed)) => IInv
  BY InitIntake
<1> QED
  BY <1>1, NextIntake, PTL DEF IntakeSpec, ivars

\* runtime.py, begin(): a key has its effect exactly once, and an instruction
\* at most one order, whatever overlaps, fails and is retried.
THEOREM CreatedOncePerKeyHolds == IntakeSpec => []CreatedOncePerKey
<1>1. IInv => CreatedOncePerKey
  BY DEF IInv
<1> QED
  BY <1>1, IntakeInvariance, PTL

\* The tables keep their types: no counter and no position is ever negative,
\* and every intent names an order and a quote.
THEOREM IntakeTypeCorrect == IntakeSpec => []IntakeTypeOK
<1>1. IInv => IntakeTypeOK
  BY DEF IInv, Tables
<1> QED
  BY <1>1, IntakeInvariance, PTL

\* limit_reservation.py, reserve(): no counter and no position ever holds more
\* than a profile has allowed.
THEOREM LimitsAreKeptHolds == IntakeSpec => []LimitsAreKept
<1>1. IInv => LimitsAreKept
  BY DEF IInv
<1> QED
  BY <1>1, IntakeInvariance, PTL

\* limit_reservation.py: the counter of a day moves only with an order of that
\* day, by its amount: once when it is created and once when it is closed.
THEOREM LimitsFollowOrders == IntakeSpec => [][LimitsFollow]_intakeVars
<1>1. IInv /\ [IntakeNext]_ivars => [LimitsFollow]_intakeVars
  BY StepFollows
<1> QED
  BY <1>1, IntakeInvariance, PTL DEF IntakeSpec, ivars

\* Without orders there is nothing on the counters.
LEMMA InitLimitsMatch == ASSUME NEW initial, IntakeInit(initial) PROVE LimitsMatchOrders
<1>1. counter = <<>> /\ orders = <<>>
  BY DEF IntakeInit
<1>2. \A day \in 1 .. LastDay : Counter(day) = [reserved |-> 0, consumed |-> 0]
  BY <1>1 DEF Counter
<1>3. \A day, states : OrdersOf(<<>>, day, states) = {}
  BY DEF OrdersOf
<1>4. \A day, states : SumOf(<<>>, day, states) = 0
  BY <1>3, SumEmpty DEF SumOf
<1> QED
  BY <1>1, <1>2, <1>4, SumIsSumOf DEF LimitsMatchOrders

LEMMA NextLimitsMatch == IInv /\ LimitsMatchOrders /\ [IntakeNext]_ivars => LimitsMatchOrders'
  BY StepFollows, LimitsMatchAfter

\* limit_reservation.py: the counter of every day has reserved what its open
\* orders come to and consumed what its completed ones do, for any number of
\* orders, days and callers.
THEOREM LimitsMatchOrdersHolds == IntakeSpec => []LimitsMatchOrders
<1>1. (\E initial \in Seq(ProfileRow) : IntakeInit(initial)) => LimitsMatchOrders
  BY InitLimitsMatch
<1> QED
  BY <1>1, NextLimitsMatch, IntakeInvariance, PTL DEF IntakeSpec, ivars

\* What a counter holds, told by the orders.
LEMMA DailyLimitKept == IInv /\ LimitsMatchOrders => DailyLimitHolds
<1> SUFFICES ASSUME IInv, LimitsMatchOrders PROVE DailyLimitHolds
  OBVIOUS
<1> SUFFICES ASSUME NEW day \in 1 .. LastDay, Sum(day, {"open", "completed"}) > 0
             PROVE  \E i \in DOMAIN profiles :
                      profiles[i].daily = None \/ Sum(day, {"open", "completed"}) <= profiles[i].daily
  BY DEF DailyLimitHolds
<1>1. PICK t : t = orders
  OBVIOUS
<1>2. t \in Seq(OrderRow)
  BY <1>1 DEF IInv, Tables
<1>3. Sum(day, {"open", "completed"}) = Sum(day, {"open"}) + Sum(day, {"completed"})
  BY <1>1, <1>2, SumOfBothStates, SumIsSumOf
<1>4. Counter(day) = [reserved |-> Sum(day, {"open"}), consumed |-> Sum(day, {"completed"})]
  BY DEF LimitsMatchOrders
<1>5. Counter(day).reserved + Counter(day).consumed = Sum(day, {"open", "completed"})
  BY <1>3, <1>4
<1>6. day \in DOMAIN counter
  <2>1. day \notin DOMAIN counter => Counter(day).reserved = 0 /\ Counter(day).consumed = 0
    BY DEF Counter
  <2> QED
    BY <1>5, <2>1
<1>7. counter[day] = Counter(day)
  BY <1>6 DEF Counter
<1> QED
  BY <1>5, <1>6, <1>7 DEF IInv, LimitsAreKept

\* reserve(): the orders of a day that are open or completed come to no more
\* than the daily limit of a profile, however many are created at once.
THEOREM DailyLimitHoldsAlways == IntakeSpec => []DailyLimitHolds
  BY DailyLimitKept, IntakeInvariance, LimitsMatchOrdersHolds, PTL
=============================================================================
