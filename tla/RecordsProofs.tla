---------------------------- MODULE RecordsProofs ----------------------------
(***************************************************************************)
(* Proofs about the components that keep a record next to what they do:    *)
(* the tracker with the history of a payment (GpiTracker), the facts, the  *)
(* evidence, the audit events and the breaks of an order                   *)
(* (ProductionOperations), and the subledger whose balances are those of   *)
(* its journals and holds (ProductionLedger); for every set of clients,    *)
(* payments, orders, accounts, journals and holds and every bound.         *)
(*                                                                         *)
(* Each is written by a request from what it has read.  The invariants say *)
(* what an open request may still rely on: a report, that it continues a   *)
(* history that was true when it was read; a fact, that its number is at   *)
(* most one more than there are facts, since facts are only added; a       *)
(* reconciliation, that it opens no break that it has seen; a journal or a *)
(* hold, that the rows it has locked are as it has loaded them, and that   *)
(* what it is going to write is what its entries and holds add to them.    *)
(* That the rows have their types follows from what an open request is     *)
(* about to write, in the state names of its table.                        *)
(*                                                                         *)
(* The last part is about what is answered from records that nobody        *)
(* writes: the check digits of an account (Prevalidation), which tell      *)
(* every slip.  A character takes the remainder r to 10 r + x or to        *)
(* 100 r + x, modulo 97; both keep different remainders apart, and tell    *)
(* two characters of a kind, in either order.  Since the first four        *)
(* characters are read last, the fourth and the fifth are the two ends of  *)
(* the number; exchanging them shows because the first one weighs a power  *)
(* of 10 that is not the last one's modulo 97, a number of 34 characters   *)
(* being too short for 10 ^ 96.                                            *)
(***************************************************************************)
EXTENDS GpiTracker, ProductionOperations, ProductionLedger, Prevalidation, SumTheorems,
        SequenceTheorems, FiniteSetTheorems, TLAPS

------------------------------------------------------------------------------
(* States of the tables, and sequences *)

LEMMA SegmentSeq == ASSUME NEW m \in Nat, NEW E, NEW f \in [1 .. m -> E] PROVE f \in Seq(E)
  BY SeqDef, Zenon

\* Each table is in one of the four groups.
LEMMA AllowedStates ==
    /\ \A x \in DOMAIN PartyStates : ALLOWED_STATES[x] = PartyStates[x]
    /\ \A x \in DOMAIN FactStates \ (DOMAIN PartyStates \cup DOMAIN OrderStates) : ALLOWED_STATES[x] = FactStates[x]
    /\ \A x \in DOMAIN OperationStates \ (DOMAIN PartyStates \cup DOMAIN OrderStates \cup DOMAIN FactStates) :
         ALLOWED_STATES[x] = OperationStates[x]
<1> PICK a : a = PartyStates
  OBVIOUS
<1> PICK b : b = OrderStates
  OBVIOUS
<1> PICK c : c = FactStates
  OBVIOUS
<1> PICK d : d = OperationStates
  OBVIOUS
<1> PICK cd : cd = Put(c, d)
  OBVIOUS
<1> PICK bcd : bcd = Put(b, cd)
  OBVIOUS
<1>1. ALLOWED_STATES = Put(a, bcd)
  BY DEF ALLOWED_STATES
<1>2. /\ \A x \in DOMAIN a : ALLOWED_STATES[x] = a[x]
      /\ \A x \in DOMAIN bcd : x \notin DOMAIN a => ALLOWED_STATES[x] = bcd[x]
  <2> HIDE DEF ALLOWED_STATES
  <2> QED
    BY <1>1 DEF Put
<1>3. DOMAIN bcd = DOMAIN b \cup DOMAIN cd /\ \A x \in DOMAIN cd : x \notin DOMAIN b => bcd[x] = cd[x]
  BY DEF Put
<1>4. /\ DOMAIN cd = DOMAIN c \cup DOMAIN d /\ \A x \in DOMAIN c : cd[x] = c[x]
      /\ \A x \in DOMAIN d : x \notin DOMAIN c => cd[x] = d[x]
  BY DEF Put
<1> QED
  BY <1>2, <1>3, <1>4

LEMMA StatesOfOperations ==
    /\ ALLOWED_STATES["journals"] = {"DRAFT", "VALIDATED", "POSTED", "VOIDED"}
    /\ ALLOWED_STATES["holds"] = {"REQUESTED", "HELD", "CONSUMED", "RELEASED", "EXPIRED", "UNKNOWN"}
    /\ ALLOWED_STATES["ledger_periods"] = {"OPEN", "CLOSED"}
    /\ ALLOWED_STATES["gl_batches"] = {"DRAFT", "SENT", "ACK", "REJECTED"}
    /\ ALLOWED_STATES["reconciliation_breaks"] = {"OPEN", "IN_PROGRESS", "RESOLVED", "CLOSED"}
    /\ ALLOWED_STATES["key_operation_audits"] = {"STARTED", "COMPLETED", "FAILED"}
<1> DEFINE tables == {"journals", "holds", "ledger_periods", "gl_batches", "reconciliation_breaks", "key_operation_audits"}
<1>1. tables \subseteq DOMAIN OperationStates
  BY DEF OperationStates
<1>2. tables \cap (DOMAIN PartyStates \cup DOMAIN OrderStates \cup DOMAIN FactStates) = {}
  BY DEF PartyStates, OrderStates, FactStates
<1>3. \A x \in tables : ALLOWED_STATES[x] = OperationStates[x]
  BY <1>1, <1>2, AllowedStates
<1> QED
  BY <1>3 DEF OperationStates

LEMMA StatesOfParties ==
    /\ ALLOWED_STATES["tenants"] = Lifecycle /\ ALLOWED_STATES["participants"] = Lifecycle
    /\ ALLOWED_STATES["service_identities"] = Lifecycle
    /\ ALLOWED_STATES["entitlements"] = Lifecycle \cup {"EXPIRED"}
    /\ ALLOWED_STATES["certificates"] = Validity /\ ALLOWED_STATES["account_ownerships"] = Validity
    /\ ALLOWED_STATES["accounts"] = {"PENDING", "ACTIVE", "SUSPENDED", "CLOSED"}
    /\ ALLOWED_STATES["approvals"] = {"PENDING", "APPROVED", "REJECTED", "EXPIRED"}
<1>1. {"tenants", "participants", "service_identities", "entitlements", "certificates", "account_ownerships",
       "accounts", "approvals"} \subseteq DOMAIN PartyStates
  BY DEF PartyStates
<1> QED
  BY <1>1, AllowedStates DEF PartyStates

------------------------------------------------------------------------------
(* The tracker: the invariant *)

Told(row) ==
    /\ row.history[1] = "PDNG"
    /\ Last(row.history) = row.status
    /\ \A i \in 1 .. Len(row.history) - 1 :
         row.history[i + 1] \in VALID_TRANSITIONS(row.history[i]) \cup {row.history[i]}

\* A row of the table, its history begun.
Begun(row) == row \in PaymentRow /\ row.history # <<>> /\ row.id <= injected

Payments ==
    /\ injected \in Nat
    /\ \A u \in DOMAIN payment : Begun(payment[u])
    /\ ~stale => \A u \in DOMAIN payment : Told(payment[u])

Distributions == \A d \in DOMAIN inbox : inbox[d].status \in DistributionStatus

Reports(c) == req[c].op = "gpi" =>
    /\ Begun(req[c].loaded) /\ Begun(req[c].new)
    /\ ~stale => Told(req[c].new)

TInv ==
    /\ Payments /\ Distributions
    /\ DOMAIN req = Client /\ stale \in BOOLEAN
    /\ \A c \in Client : Reports(c)

------------------------------------------------------------------------------
(* The tracker: requests *)

LEMMA OtherReports ==
    ASSUME NEW d \in Client, Reports(d), req'[d] = req[d], injected \in Nat, injected' \in Nat,
           injected' >= injected, ~stale' => ~stale
    PROVE  Reports(d)'
<1>1. \A row \in PaymentRow : row.id \in Nat
  BY PaymentAssumption DEF PaymentRow
<1> QED
  BY <1>1 DEF Reports, Begun

LEMMA ReportsKept ==
    ASSUME TInv, NEW c \in Client, DOMAIN req' = Client, \A d \in Client \ {c} : req'[d] = req[d],
           Reports(c)', injected' \in Nat, injected' >= injected, stale' \in BOOLEAN, ~stale' => ~stale,
           Payments', Distributions'
    PROVE  TInv'
<1>1. \A d \in Client \ {c} : Reports(d)'
  BY OtherReports DEF TInv, Payments
<1> QED
  BY <1>1 DEF TInv

\* An endpoint that is done at once.
LEMMA AtOnceReports ==
    ASSUME TInv, NEW c \in Client, AtOnce(c), injected' \in Nat, injected' >= injected,
           Payments', Distributions'
    PROVE  TInv'
<1>1. UNCHANGED <<req, stale>>
  BY DEF AtOnce
<1>2. Reports(c)'
  BY <1>1, OtherReports DEF TInv, Payments
<1> QED
  BY <1>1, <1>2, ReportsKept DEF TInv

\* The next status in the history.
LEMMA AppendedIsTold ==
    ASSUME NEW row \in PaymentRow, row.history # <<>>, NEW status \in PAYMENT_STATES,
           NEW new, new = [id |-> row.id, status |-> status, history |-> Append(row.history, status)]
    PROVE  /\ new \in PaymentRow /\ new.history # <<>> /\ new.id = row.id
           /\ Told(row) /\ status \in VALID_TRANSITIONS(row.status) \cup {row.status} => Told(new)
<1>1. /\ row.history \in Seq(PAYMENT_STATES) /\ row.status \in PAYMENT_STATES /\ row.id \in 1 .. LastPayment
  BY DEF PaymentRow
<1>2. new.id = row.id /\ new.status = status /\ new.history = Append(row.history, status)
  OBVIOUS
<1>3. /\ Len(row.history) \in Nat \ {0}
      /\ Append(row.history, status) \in Seq(PAYMENT_STATES)
      /\ Len(Append(row.history, status)) = Len(row.history) + 1
      /\ \A i \in 1 .. Len(row.history) : Append(row.history, status)[i] = row.history[i]
      /\ Append(row.history, status)[Len(row.history) + 1] = status
  BY <1>1
<1>4. new \in PaymentRow
  BY <1>1, <1>2, <1>3 DEF PaymentRow
<1>5. new.history # <<>> /\ new.id = row.id
  BY <1>2, <1>3
<1>6. ASSUME Told(row), status \in VALID_TRANSITIONS(row.status) \cup {row.status} PROVE Told(new)
  <2> DEFINE h == row.history
             g == new.history
  <2>1. Len(h) \in Nat \ {0} /\ Len(g) = Len(h) + 1 /\ g[Len(h) + 1] = status /\ new.status = status
        /\ \A i \in 1 .. Len(h) : g[i] = h[i]
    BY <1>2, <1>3
  <2>2. h[1] = "PDNG" /\ h[Len(h)] = row.status
        /\ \A i \in 1 .. Len(h) - 1 : h[i + 1] \in VALID_TRANSITIONS(h[i]) \cup {h[i]}
    BY <1>6 DEF Told, Last
  <2> HIDE DEF h, g
  <2>3. g[1] = "PDNG" /\ g[Len(g)] = new.status
    BY <2>1, <2>2
  <2>4. ASSUME NEW i \in 1 .. Len(g) - 1 PROVE g[i + 1] \in VALID_TRANSITIONS(g[i]) \cup {g[i]}
    <3>1. CASE i = Len(h)
      BY <1>6, <2>1, <2>2, <3>1
    <3>2. CASE i < Len(h)
      <4>1. i \in 1 .. Len(h) - 1 /\ g[i] = h[i] /\ g[i + 1] = h[i + 1]
        BY <2>1, <3>2
      <4> QED  BY <2>2, <4>1
    <3> QED  BY <2>1, <3>1, <3>2
  <2> QED
    BY <2>3, <2>4 DEF Told, Last, g
<1> QED
  BY <1>4, <1>5, <1>6

\* A column written from here, another from there.
LEMMA FlushedIsKept ==
    ASSUME NEW current, Begun(current), NEW loaded, Begun(loaded), NEW new, Begun(new)
    PROVE  /\ Begun(Flush(current, loaded, new))
           /\ current = loaded => Flush(current, loaded, new) = new
<1> DEFINE row == Flush(current, loaded, new)
<1>1. /\ current = [id |-> current.id, status |-> current.status, history |-> current.history]
      /\ new = [id |-> new.id, status |-> new.status, history |-> new.history]
      /\ DOMAIN current = {"id", "status", "history"}
  BY DEF Begun, PaymentRow
<1>2. row = [id |-> IF new.id # loaded.id THEN new.id ELSE current.id,
             status |-> IF new.status # loaded.status THEN new.status ELSE current.status,
             history |-> IF new.history # loaded.history THEN new.history ELSE current.history]
  BY <1>1 DEF Flush
<1>3. Begun(row)
  BY <1>2 DEF Begun, PaymentRow
<1>4. current = loaded => row = new
  BY <1>1, <1>2
<1> QED
  BY <1>3, <1>4

------------------------------------------------------------------------------
(* The tracker: the steps *)

LEMMA InjectKeeps ==
    ASSUME TInv, NEW c \in Client, NEW u \in Uetr, InjectPayment(c, u)
    PROVE  TInv'
<1> DEFINE row == [id |-> injected + 1, status |-> "PDNG", history |-> <<"PDNG">>]
<1>1. /\ AtOnce(c) /\ u \notin DOMAIN payment /\ injected < LastPayment /\ injected' = injected + 1
      /\ payment' = Put(OneRow(u, row), payment) /\ inbox' = inbox /\ stale' = stale
  BY DEF InjectPayment, AtOnce
<1>2. injected \in Nat
  BY DEF TInv, Payments
<1>3. row \in PaymentRow /\ row.history # <<>> /\ row.id <= injected + 1 /\ Told(row)
  BY <1>1, <1>2, PaymentAssumption DEF PaymentRow, Told, Last, PAYMENT_STATES
<1> HIDE DEF row
<1>4. /\ DOMAIN payment' = DOMAIN payment \cup {u} /\ payment'[u] = row
      /\ \A v \in DOMAIN payment : payment'[v] = payment[v]
  BY <1>1 DEF Put, OneRow
<1>5. \A v \in DOMAIN payment : payment[v].id \in Nat
  BY PaymentAssumption DEF TInv, Payments, Begun, PaymentRow
<1>6. Payments'
  BY <1>1, <1>2, <1>3, <1>4, <1>5 DEF TInv, Payments, Begun
<1>7. Distributions'
  BY <1>1 DEF TInv, Distributions
<1> QED
  BY <1>1, <1>2, <1>6, <1>7, AtOnceReports

LEMMA DeleteKeeps ==
    ASSUME TInv, NEW c \in Client, NEW u \in Uetr, DeletePayment(c, u)
    PROVE  TInv'
<1>1. /\ AtOnce(c) /\ injected' = injected /\ inbox' = inbox /\ stale' = stale
      /\ payment' = [v \in DOMAIN payment \ {u} |-> payment[v]]
  BY DEF DeletePayment, AtOnce
<1>2. Payments'
  BY <1>1 DEF TInv, Payments, Begun
<1>3. Distributions'
  BY <1>1 DEF TInv, Distributions
<1>4. injected \in Nat
  BY DEF TInv, Payments
<1> QED
  BY <1>1, <1>2, <1>3, <1>4, AtOnceReports

\* A report, of a status that continues the history.
LEMMA ReportKeeps ==
    ASSUME TInv, NEW c \in Client, NEW u \in DOMAIN payment, NEW status \in PAYMENT_STATES,
           status \in VALID_TRANSITIONS(payment[u].status) \cup {payment[u].status},
           Report(c, u, status, status)
    PROVE  TInv'
<1> DEFINE row == payment[u]
           new == [id |-> row.id, status |-> status, history |-> Append(row.history, status)]
           r == [op |-> "gpi", uetr |-> u, loaded |-> row, new |-> new]
<1>1. Open(c, r) /\ UNCHANGED <<payment, injected, inbox>>
  BY DEF Report, trackerVars
<1>2. r.loaded = row /\ r.new = new
  OBVIOUS
<1>3. Begun(row) /\ (~stale => Told(row)) /\ injected \in Nat
  BY DEF TInv, Payments
<1>4. /\ new \in PaymentRow /\ new.history # <<>> /\ new.id = row.id
      /\ ~stale => Told(new)
  <2>1. row \in PaymentRow /\ row.history # <<>>
    BY <1>3 DEF Begun
  <2>2. status \in VALID_TRANSITIONS(row.status) \cup {row.status}
    OBVIOUS
  <2>3. new = [id |-> row.id, status |-> status, history |-> Append(row.history, status)]
    OBVIOUS
  <2> HIDE DEF row, new
  <2>4. /\ new \in PaymentRow /\ new.history # <<>> /\ new.id = row.id
        /\ Told(row) /\ status \in VALID_TRANSITIONS(row.status) \cup {row.status} => Told(new)
    BY <2>1, <2>3, AppendedIsTold, ZenonT(60)
  <2> QED  BY <1>3, <2>2, <2>4
<1> HIDE DEF new, r
<1>5. PICK after : after = new
  OBVIOUS
<1>6. PICK before : before = row
  OBVIOUS
<1> HIDE DEF row
<1>7. DOMAIN req' = Client /\ req'[c] = r /\ stale' = stale /\ \A d \in Client \ {c} : req'[d] = req[d]
  BY <1>1 DEF TInv, Open
<1>8. Reports(c)'
  <2>1. req'[c].loaded = before /\ req'[c].new = after
    BY <1>2, <1>5, <1>6, <1>7
  <2> QED
    BY <1>1, <1>3, <1>4, <1>5, <1>6, <1>7, <2>1 DEF Reports, Begun
<1>9. Payments' /\ Distributions'
  BY <1>1, <1>7 DEF TInv, Payments, Distributions, Begun
<1> QED
  BY <1>1, <1>3, <1>7, <1>8, <1>9, ReportsKept DEF TInv

LEMMA CommitReportKeeps ==
    ASSUME TInv, NEW c \in Client, CommitReport(c)
    PROVE  TInv'
<1>a. PICK u : u = req[c].uetr
  OBVIOUS
<1>b. PICK loaded : loaded = req[c].loaded
  OBVIOUS
<1>c. PICK new : new = req[c].new
  OBVIOUS
<1>d. PICK written : written = Flush(payment[u], loaded, new)
  OBVIOUS
<1>1. /\ req[c].op = "gpi" /\ u \in DOMAIN payment
      /\ payment' = [payment EXCEPT ![u] = written]
      /\ Commit(c, payment[u] = loaded)
      /\ UNCHANGED <<injected, inbox>>
  BY <1>a, <1>b, <1>c, <1>d DEF CommitReport
<1>2. /\ DOMAIN req' = Client /\ req'[c] = Idle /\ \A d \in Client \ {c} : req'[d] = req[d]
      /\ stale' = (stale \/ payment[u] # loaded)
  BY <1>1 DEF TInv, Commit
<1>3. stale' \in BOOLEAN /\ (~stale' => ~stale /\ payment[u] = loaded)
  BY <1>2 DEF TInv
<1>4. Begun(loaded) /\ Begun(new) /\ (~stale => Told(new)) /\ Begun(payment[u])
  BY <1>1, <1>b, <1>c DEF TInv, Reports, Payments
<1>5. Begun(written) /\ (payment[u] = loaded => written = new)
  BY <1>4, <1>d, FlushedIsKept
<1>6. /\ DOMAIN payment' = DOMAIN payment /\ payment'[u] = written
      /\ \A v \in DOMAIN payment \ {u} : payment'[v] = payment[v]
  BY <1>1
<1>7. Payments'
  <2>1. \A v \in DOMAIN payment' : Begun(payment'[v])
    BY <1>1, <1>5, <1>6 DEF TInv, Payments
  <2>2. ~stale' => \A v \in DOMAIN payment' : Told(payment'[v])
    BY <1>3, <1>4, <1>5, <1>6 DEF TInv, Payments
  <2> QED
    BY <1>1, <2>1, <2>2 DEF TInv, Payments, Begun
<1>8. Distributions' /\ Reports(c)'
  BY <1>1, <1>2 DEF TInv, Distributions, Reports, Idle
<1>9. injected' = injected /\ injected \in Nat
  BY <1>1 DEF TInv, Payments
<1> QED
  BY <1>2, <1>3, <1>7, <1>8, <1>9, ReportsKept

LEMMA DistributionKeeps ==
    ASSUME TInv, NEW c \in Client, NEW d \in Distribution,
           \/ SendFin(c, d)
           \/ AckDistribution(c, d)
           \/ \E reason \in STRING : NakDistribution(c, d, reason)
    PROVE  TInv'
<1>1. AtOnce(c) /\ UNCHANGED <<payment, injected>> /\ stale' = stale
  BY DEF SendFin, AckDistribution, NakDistribution, AtOnce
<1>2. Payments' /\ injected \in Nat
  BY <1>1 DEF TInv, Payments, Begun
<1>3. Distributions'
  <2>1. CASE SendFin(c, d)
    BY <2>1 DEF SendFin, TInv, Distributions, DistributionStatus, Put, OneRow
  <2>2. CASE AckDistribution(c, d)
    <3>1. d \in DOMAIN inbox /\ inbox' = [inbox EXCEPT ![d] = [inbox[d] EXCEPT !.status = "acked"]]
      BY <2>2 DEF AckDistribution
    <3> QED  BY <3>1 DEF TInv, Distributions, DistributionStatus
  <2>3. ASSUME NEW reason \in STRING, NakDistribution(c, d, reason) PROVE Distributions'
    BY <2>3 DEF NakDistribution, TInv, Distributions, DistributionStatus
  <2> QED
    BY <2>1, <2>2, <2>3
<1> QED
  BY <1>1, <1>2, <1>3, AtOnceReports

LEMMA RollBackTrackerKeeps ==
    ASSUME TInv, NEW c \in Client, RollBackTracker(c)
    PROVE  TInv'
<1>1. /\ DOMAIN req' = Client /\ req'[c] = Idle /\ \A d \in Client \ {c} : req'[d] = req[d]
      /\ stale' = stale /\ UNCHANGED <<payment, injected, inbox>>
  BY DEF RollBackTracker, RollBack, trackerVars, TInv
<1>2. Payments' /\ Distributions' /\ Reports(c)'
  BY <1>1 DEF TInv, Payments, Begun, Distributions, Reports, Idle
<1>3. injected \in Nat
  BY DEF TInv, Payments
<1> QED
  BY <1>1, <1>2, <1>3, ReportsKept DEF TInv

tvars == <<requestVars, trackerVars>>

LEMMA InitTracker == TrackerInit /\ (\E allowed \in Nat : RequestsInit(allowed)) => TInv
<1> SUFFICES ASSUME TrackerInit, \E allowed \in Nat : RequestsInit(allowed) PROVE TInv
  OBVIOUS
<1>1. payment = <<>> /\ injected = 0 /\ inbox = <<>>
  BY DEF TrackerInit
<1>2. req = [c \in Client |-> Idle] /\ stale = FALSE
  BY DEF RequestsInit
<1>3. Payments /\ Distributions
  BY <1>1 DEF Payments, Distributions
<1>4. \A c \in Client : Reports(c)
  BY <1>2 DEF Reports, Idle
<1> QED
  BY <1>2, <1>3, <1>4 DEF TInv

LEMMA NextTracker == TInv /\ [TrackerNext]_tvars => TInv'
<1> SUFFICES ASSUME TInv, [TrackerNext]_tvars PROVE TInv'
  OBVIOUS
<1>1. CASE UNCHANGED tvars
  BY <1>1 DEF tvars, requestVars, trackerVars, TInv, Payments, Begun, Distributions, Reports
<1>2. ASSUME NEW c \in Client, NEW u \in Uetr, InjectPayment(c, u) PROVE TInv'
  BY <1>2, InjectKeeps
<1>3. ASSUME NEW c \in Client, NEW u \in Uetr, DeletePayment(c, u) PROVE TInv'
  BY <1>3, DeleteKeeps
<1>4. ASSUME NEW c \in Client, NEW u \in Uetr, NEW status \in PAYMENT_STATES, ReadConfirmation(c, u, status)
      PROVE  TInv'
  BY <1>4, ReportKeeps DEF ReadConfirmation
<1>5. ASSUME NEW c \in Client, NEW u \in Uetr, ReadGpiCancellation(c, u) PROVE TInv'
  <2>1. "CANC" \in PAYMENT_STATES
    BY DEF PAYMENT_STATES
  <2> QED
    BY <1>5, <2>1, ReportKeeps DEF ReadGpiCancellation
<1>6. ASSUME NEW c \in Client, NEW u \in Uetr, ReadInvestigation(c, u) PROVE TInv'
  <2>1. u \in DOMAIN payment /\ payment[u].status \in PAYMENT_STATES
    BY <1>6 DEF ReadInvestigation, TInv, Payments, Begun, PaymentRow
  <2> QED
    BY <1>6, <2>1, ReportKeeps DEF ReadInvestigation
<1>7. ASSUME NEW c \in Client, CommitReport(c) PROVE TInv'
  BY <1>7, CommitReportKeeps
<1>8. ASSUME NEW c \in Client, NEW d \in Distribution,
             \/ SendFin(c, d)
             \/ AckDistribution(c, d)
             \/ \E reason \in STRING : NakDistribution(c, d, reason)
      PROVE  TInv'
  BY <1>8, DistributionKeeps
<1>9. ASSUME NEW c \in Client, RollBackTracker(c) PROVE TInv'
  BY <1>9, RollBackTrackerKeeps
<1> QED
  BY <1>1, <1>2, <1>3, <1>4, <1>5, <1>6, <1>7, <1>8, <1>9 DEF TrackerNext

------------------------------------------------------------------------------
(* The tracker: the theorems *)

\* Along every behaviour an open report continues the history it has read.
THEOREM TrackerInvariance == TrackerSpec => []TInv
<1>1. TrackerInit /\ (\E allowed \in Nat : RequestsInit(allowed)) => TInv
  BY InitTracker
<1> QED
  BY <1>1, NextTracker, PTL DEF TrackerSpec, tvars

\* states.py and api/gpi/service.py: without overlap the history is a path of
\* the state machine, from the injection to the present status.
THEOREM HistoryTellsTheStatusHolds == TrackerSpec => []HistoryTellsTheStatus
<1>1. TInv => HistoryTellsTheStatus
  BY DEF TInv, Payments, Told, HistoryTellsTheStatus
<1> QED
  BY <1>1, TrackerInvariance, PTL

\* The rows of the tracker have their types.
LEMMA TrackerRowsTyped == TInv => TrackerTypeOK
  BY DEF TInv, Payments, Begun, Distributions, TrackerTypeOK

------------------------------------------------------------------------------
(* Facts, evidence and breaks: the invariant *)

\* The facts of a reference are numbered from 1, each after the one before.
Numbered(o, ref) ==
    /\ {f.sequence : f \in Chain(o, ref)} = 1 .. Cardinality(Chain(o, ref))
    /\ \A f \in Chain(o, ref) : f.supersedes = f.sequence - 1

Linked(chain) == \A i \in DOMAIN chain : chain[i].previous = i - 1

\* An order has one break for a reason.
Single(rows) == \A b, d \in rows : b.order = d.order /\ b.reason = d.reason => b = d

Facts == IsFiniteSet(facts) /\ \A o \in PaymentOrder, ref \in Reference : Numbered(o, ref)

Manifests ==
    /\ evidence \in Seq(EvidenceManifestRow)
    /\ ~stale => Linked(evidence)

Breaks ==
    /\ events \in Seq(AuditEventRow)
    /\ \A b \in breaks : b.run \in DOMAIN events /\ b.state = "OPEN"
    /\ ~stale => Linked(events) /\ Single(breaks)

\* Facts are only added: the number is still at most the next one.
Numbers(c) == req[c].op = "fact" =>
    /\ req[c].fact.order \in PaymentOrder /\ req[c].fact.ref \in Reference
    /\ req[c].fact.sequence \in 1 .. Cardinality(Chain(req[c].fact.order, req[c].fact.ref)) + 1
    /\ req[c].fact.supersedes = req[c].fact.sequence - 1
    /\ req[c].manifest \in EvidenceManifestRow

\* What a reconciliation opens, it has not seen.
Unseen(c) == req[c].op = "report" =>
    /\ req[c].previous \in Nat
    /\ \A b \in req[c].opens, d \in req[c].seen :
         d.state = "OPEN" => ~(b.order = d.order /\ b.reason = d.reason)

OInv ==
    /\ Facts /\ Manifests /\ Breaks
    /\ DOMAIN req = Client /\ stale \in BOOLEAN
    /\ \A c \in Client : Numbers(c) /\ Unseen(c)

------------------------------------------------------------------------------
(* Facts *)

LEMMA ChainIsFinite ==
    ASSUME IsFiniteSet(facts), NEW o, NEW ref
    PROVE  IsFiniteSet(Chain(o, ref)) /\ Cardinality(Chain(o, ref)) \in Nat
<1>1. Chain(o, ref) \in SUBSET facts
  BY DEF Chain
<1> QED
  BY <1>1, FS_Subset, FS_CardinalityType

\* What _fact() makes of the last one.
LEMMA NextNumber ==
    ASSUME IsFiniteSet(facts), NEW o, NEW ref, Numbered(o, ref), NEW state
    PROVE  /\ NextFact(o, ref, state, LatestFact(o, ref)).order = o
           /\ NextFact(o, ref, state, LatestFact(o, ref)).ref = ref
           /\ NextFact(o, ref, state, LatestFact(o, ref)).sequence = Cardinality(Chain(o, ref)) + 1
           /\ NextFact(o, ref, state, LatestFact(o, ref)).supersedes = Cardinality(Chain(o, ref))
<1> DEFINE chain == Chain(o, ref)
           n == Cardinality(chain)
           latest == LatestFact(o, ref)
           next == NextFact(o, ref, state, latest)
<1>1. IsFiniteSet(chain) /\ n \in Nat
  BY ChainIsFinite
<1>2. {f.sequence : f \in chain} = 1 .. n
  BY DEF Numbered
<1>3. latest = {f \in chain : \A g \in chain : g.sequence <= f.sequence}
  BY DEF LatestFact
<1>4. /\ next.order = o /\ next.ref = ref
      /\ next.sequence = (IF latest = {} THEN 1 ELSE 1 + (CHOOSE f \in latest : TRUE).sequence)
      /\ next.supersedes = (IF latest = {} THEN NoRow ELSE (CHOOSE f \in latest : TRUE).sequence)
  BY DEF NextFact
<1> HIDE DEF next, latest, chain
<1>5. CASE n = 0
  <2>1. chain = {}
    BY <1>1, <1>5, FS_EmptySet DEF n
  <2> QED
    BY <1>3, <1>4, <1>5, <2>1 DEF NoRow, next, latest, chain, n
<1>6. CASE n # 0
  <2> HIDE DEF n
  <2>1. PICK f \in chain : f.sequence = n
    BY <1>1, <1>2, <1>6
  <2>2. \A g \in chain : g.sequence \in 1 .. n
    BY <1>2
  <2>3. f \in latest
    BY <1>1, <1>3, <2>1, <2>2
  <2>4. \A g \in latest : g.sequence = n
    BY <1>1, <1>3, <2>1, <2>2
  <2>5. (CHOOSE g \in latest : TRUE) \in latest
    BY <2>3
  <2>6. (CHOOSE g \in latest : TRUE).sequence = n /\ latest # {}
    BY <2>3, <2>4, <2>5
  <2>7. next.sequence = n + 1 /\ next.supersedes = n
    BY <1>1, <1>4, <2>6
  <2> QED
    BY <1>4, <2>7 DEF next, latest, chain, n
<1> QED
  BY <1>5, <1>6

\* A fact whose number is free, and at most the next one, is the next one.
LEMMA FactAdded ==
    ASSUME Facts, NEW f, f.order \in PaymentOrder, f.ref \in Reference,
           f.sequence \in 1 .. Cardinality(Chain(f.order, f.ref)) + 1, f.supersedes = f.sequence - 1,
           SequenceFree(f), facts' = facts \cup {f}
    PROVE  /\ Facts'
           /\ \A o \in PaymentOrder, ref \in Reference :
                Cardinality(Chain(o, ref)) \in Nat /\ Cardinality(Chain(o, ref)') \in Nat
                /\ Cardinality(Chain(o, ref)') >= Cardinality(Chain(o, ref))
<1>1. IsFiniteSet(facts) /\ IsFiniteSet(facts')
  BY FS_AddElement DEF Facts
<1>2. ASSUME NEW o \in PaymentOrder, NEW ref \in Reference
      PROVE  /\ Numbered(o, ref)'
             /\ Cardinality(Chain(o, ref)) \in Nat /\ Cardinality(Chain(o, ref)') \in Nat
             /\ Cardinality(Chain(o, ref)') >= Cardinality(Chain(o, ref))
  <2> DEFINE chain == Chain(o, ref)
             n == Cardinality(chain)
  <2>1. IsFiniteSet(chain) /\ n \in Nat
    BY <1>1, ChainIsFinite
  <2>2. {g.sequence : g \in chain} = 1 .. n /\ \A g \in chain : g.supersedes = g.sequence - 1
    BY DEF Facts, Numbered
  <2>3. CASE f.order = o /\ f.ref = ref
    <3>1. Chain(o, ref)' = chain \cup {f}
      BY <2>3 DEF Chain
    <3>2. \A g \in chain : g.sequence # f.sequence
      BY <2>3 DEF SequenceFree
    <3>3. f.sequence \in 1 .. n + 1
      BY <2>3
    <3> PICK rows : rows = chain
      OBVIOUS
    <3> PICK k : k = n
      OBVIOUS
    <3>4. Cardinality(rows) = k /\ IsFiniteSet(rows) /\ k \in Nat
      BY <2>1
    <3>5. {g.sequence : g \in rows} = 1 .. k /\ (\A g \in rows : g.supersedes = g.sequence - 1)
          /\ f.sequence \in 1 .. k + 1 /\ \A g \in rows : g.sequence # f.sequence
      BY <2>2, <3>2, <3>3
    <3>6. Chain(o, ref)' = rows \cup {f}
      BY <3>1
    <3> HIDE DEF chain, n
    <3>7. f.sequence = k + 1
      BY <3>4, <3>5
    <3>8. f \notin rows
      BY <3>5
    <3>9. Cardinality(rows \cup {f}) = k + 1
      BY <3>4, <3>8, FS_AddElement
    <3>10. {g.sequence : g \in rows \cup {f}} = 1 .. k + 1
      BY <3>4, <3>5, <3>7
    <3>11. Numbered(o, ref)'
      BY <3>5, <3>6, <3>9, <3>10 DEF Numbered
    <3>12. Cardinality(Chain(o, ref)) = k
      BY DEF chain, n
    <3> QED
      BY <3>4, <3>6, <3>9, <3>11, <3>12
  <2>4. CASE ~(f.order = o /\ f.ref = ref)
    <3>1. Chain(o, ref)' = chain
      BY <2>4 DEF Chain
    <3> QED
      BY <2>1, <2>2, <3>1 DEF Numbered
  <2> QED
    BY <2>3, <2>4
<1> QED
  BY <1>1, <1>2 DEF Facts

------------------------------------------------------------------------------
(* Facts, evidence and breaks: requests *)

LEMMA OtherRecords ==
    ASSUME NEW d \in Client, Numbers(d), Unseen(d), req'[d] = req[d],
           \A o \in PaymentOrder, ref \in Reference :
                Cardinality(Chain(o, ref)) \in Nat /\ Cardinality(Chain(o, ref)') \in Nat
                /\ Cardinality(Chain(o, ref)') >= Cardinality(Chain(o, ref))
    PROVE  Numbers(d)' /\ Unseen(d)'
<1>1. Unseen(d)'
  BY DEF Unseen
<1>2. Numbers(d)'
  <2> SUFFICES ASSUME req[d].op = "fact" PROVE Numbers(d)'
    BY DEF Numbers
  <2> PICK f : f = req[d].fact
    OBVIOUS
  <2>1. /\ f.order \in PaymentOrder /\ f.ref \in Reference
        /\ f.sequence \in 1 .. Cardinality(Chain(f.order, f.ref)) + 1
        /\ f.supersedes = f.sequence - 1 /\ req[d].manifest \in EvidenceManifestRow
    BY DEF Numbers
  <2>2. /\ Cardinality(Chain(f.order, f.ref)) \in Nat /\ Cardinality(Chain(f.order, f.ref)') \in Nat
        /\ Cardinality(Chain(f.order, f.ref)') >= Cardinality(Chain(f.order, f.ref))
    BY <2>1
  <2>3. f.sequence \in 1 .. Cardinality(Chain(f.order, f.ref)') + 1
    BY <2>1, <2>2
  <2>4. req'[d].fact = f /\ req'[d].manifest = req[d].manifest
    OBVIOUS
  <2> QED
    BY <2>1, <2>3, <2>4 DEF Numbers, Chain
<1> QED
  BY <1>1, <1>2

\* Facts that stay.
LEMMA FactsStay ==
    ASSUME Facts, facts' = facts
    PROVE  /\ Facts'
           /\ \A o \in PaymentOrder, ref \in Reference :
                Cardinality(Chain(o, ref)) \in Nat /\ Cardinality(Chain(o, ref)') \in Nat
                /\ Cardinality(Chain(o, ref)') >= Cardinality(Chain(o, ref))
<1>1. Facts'
  BY DEF Facts, Numbered, Chain
<1>2. ASSUME NEW o \in PaymentOrder, NEW ref \in Reference
      PROVE  Cardinality(Chain(o, ref)) \in Nat /\ Chain(o, ref)' = Chain(o, ref)
  BY ChainIsFinite DEF Facts, Chain
<1> QED
  BY <1>1, <1>2

LEMMA RecordsKept ==
    ASSUME OInv, NEW c \in Client, DOMAIN req' = Client, \A d \in Client \ {c} : req'[d] = req[d],
           Numbers(c)', Unseen(c)', stale' \in BOOLEAN, Facts', Manifests', Breaks',
           \A o \in PaymentOrder, ref \in Reference :
                Cardinality(Chain(o, ref)) \in Nat /\ Cardinality(Chain(o, ref)') \in Nat
                /\ Cardinality(Chain(o, ref)') >= Cardinality(Chain(o, ref))
    PROVE  OInv'
<1>1. \A d \in Client \ {c} : Numbers(d)' /\ Unseen(d)'
  BY OtherRecords DEF OInv
<1> QED
  BY <1>1 DEF OInv

LEMMA IdleRecords ==
    ASSUME NEW c \in Client, req'[c] = Idle
    PROVE  Numbers(c)' /\ Unseen(c)'
  BY DEF Numbers, Unseen, Idle

\* A request that is done at once, or only reads, or ends.
LEMMA RowsKept ==
    ASSUME OInv, NEW c \in Client, DOMAIN req' = Client, \A d \in Client \ {c} : req'[d] = req[d],
           Numbers(c)', Unseen(c)', stale' = stale, UNCHANGED <<facts, evidence, events, breaks>>
    PROVE  OInv'
<1>1. /\ Facts'
      /\ \A o \in PaymentOrder, ref \in Reference :
           Cardinality(Chain(o, ref)) \in Nat /\ Cardinality(Chain(o, ref)') \in Nat
           /\ Cardinality(Chain(o, ref)') >= Cardinality(Chain(o, ref))
  BY FactsStay DEF OInv
<1>2. Manifests' /\ Breaks' /\ stale' \in BOOLEAN
  BY DEF OInv, Manifests, Breaks
<1> QED
  BY <1>1, <1>2, RecordsKept

------------------------------------------------------------------------------
(* Facts, evidence and breaks: the steps *)

LEMMA MoveKeeps ==
    ASSUME OInv, NEW c \in Client, NEW o \in PaymentOrder, NEW v \in OrderView, Move(c, o, v)
    PROVE  OInv'
<1>1. UNCHANGED <<req, stale, facts, evidence, events, breaks>>
  BY DEF Move, AtOnce
<1>2. Numbers(c)' /\ Unseen(c)'
  BY <1>1, FactsStay, OtherRecords DEF OInv
<1> QED
  BY <1>1, <1>2, RowsKept DEF OInv

LEMMA ReadFactKeeps ==
    ASSUME OInv, NEW c \in Client, NEW o \in PaymentOrder, NEW ref \in Reference, NEW state,
           ReadFact(c, o, ref, state)
    PROVE  OInv'
<1> DEFINE fact == NextFact(o, ref, state, LatestFact(o, ref))
           manifest == [previous |-> Len(evidence), hold |-> FALSE]
           r == [op |-> "fact", fact |-> fact, manifest |-> manifest]
<1>1. Open(c, r) /\ UNCHANGED <<facts, evidence, events, breaks>>
  BY DEF ReadFact, operationVars
<1>2. /\ fact.order = o /\ fact.ref = ref /\ fact.sequence = Cardinality(Chain(o, ref)) + 1
      /\ fact.supersedes = Cardinality(Chain(o, ref))
  BY NextNumber DEF OInv, Facts
<1>3. manifest \in EvidenceManifestRow
  BY DEF OInv, Manifests, EvidenceManifestRow
<1>4. r.op = "fact" /\ r.fact = fact /\ r.manifest = manifest
  OBVIOUS
<1> HIDE DEF fact, manifest, r
<1>5. DOMAIN req' = Client /\ req'[c] = r /\ stale' = stale /\ \A d \in Client \ {c} : req'[d] = req[d]
  BY <1>1 DEF OInv, Open
<1>6. Cardinality(Chain(o, ref)) \in Nat
  BY ChainIsFinite DEF OInv, Facts
<1>7. Numbers(c)'
  <2> PICK f : f = fact
    OBVIOUS
  <2> PICK n : n = Cardinality(Chain(o, ref))
    OBVIOUS
  <2>1. req'[c].fact = f /\ req'[c].manifest \in EvidenceManifestRow
    BY <1>3, <1>4, <1>5
  <2>2. f.order = o /\ f.ref = ref /\ f.sequence = n + 1 /\ f.supersedes = n /\ n \in Nat
    BY <1>2, <1>6
  <2>3. Chain(o, ref)' = Chain(o, ref)
    BY <1>1 DEF Chain
  <2>4. f.sequence \in 1 .. Cardinality(Chain(o, ref))' + 1
    BY <2>2, <2>3
  <2> QED
    BY <2>1, <2>2, <2>4 DEF Numbers
<1>8. Unseen(c)'
  BY <1>4, <1>5 DEF Unseen
<1> QED
  BY <1>1, <1>5, <1>7, <1>8, RowsKept

LEMMA CommitFactKeeps ==
    ASSUME OInv, NEW c \in Client, CommitFact(c)
    PROVE  OInv'
<1> PICK f : f = req[c].fact
  OBVIOUS
<1> PICK m : m = req[c].manifest
  OBVIOUS
<1>1. /\ req[c].op = "fact" /\ SequenceFree(f) /\ facts' = facts \cup {f}
      /\ evidence' = Append(evidence, m) /\ Commit(c, Len(evidence) = m.previous)
      /\ UNCHANGED <<events, breaks>>
  BY DEF CommitFact
<1>2. /\ DOMAIN req' = Client /\ req'[c] = Idle /\ \A d \in Client \ {c} : req'[d] = req[d]
      /\ stale' = (stale \/ Len(evidence) # m.previous)
  BY <1>1 DEF OInv, Commit
<1>3. stale' \in BOOLEAN /\ (~stale' => ~stale /\ Len(evidence) = m.previous)
  BY <1>2 DEF OInv
<1>4. /\ f.order \in PaymentOrder /\ f.ref \in Reference
      /\ f.sequence \in 1 .. Cardinality(Chain(f.order, f.ref)) + 1 /\ f.supersedes = f.sequence - 1
      /\ m \in EvidenceManifestRow
  BY <1>1 DEF OInv, Numbers
<1>5. /\ Facts'
      /\ \A o \in PaymentOrder, ref \in Reference :
           Cardinality(Chain(o, ref)) \in Nat /\ Cardinality(Chain(o, ref)') \in Nat
           /\ Cardinality(Chain(o, ref)') >= Cardinality(Chain(o, ref))
  BY <1>1, <1>4, FactAdded DEF OInv
<1>6. Manifests'
  <2>1. evidence \in Seq(EvidenceManifestRow) /\ (~stale => Linked(evidence))
    BY DEF OInv, Manifests
  <2>2. /\ evidence' \in Seq(EvidenceManifestRow)
        /\ DOMAIN evidence' = 1 .. Len(evidence) + 1 /\ Len(evidence) \in Nat /\ DOMAIN evidence = 1 .. Len(evidence)
        /\ evidence'[Len(evidence) + 1] = m /\ \A i \in 1 .. Len(evidence) : evidence'[i] = evidence[i]
    BY <1>1, <1>4, <2>1
  <2>3. ASSUME ~stale' PROVE Linked(evidence')
    BY <1>3, <2>1, <2>2, <2>3 DEF Linked
  <2> QED
    BY <2>2, <2>3 DEF Manifests
<1>7. Breaks'
  BY <1>1, <1>3 DEF OInv, Breaks
<1>8. Numbers(c)' /\ Unseen(c)'
  BY <1>2, IdleRecords
<1> QED
  BY <1>2, <1>3, <1>5, <1>6, <1>7, <1>8, RecordsKept

LEMMA HoldEvidenceKeeps ==
    ASSUME OInv, NEW c \in Client, NEW i \in DOMAIN evidence, HoldEvidence(c, i)
    PROVE  OInv'
<1> PICK row : row = [evidence[i] EXCEPT !.hold = TRUE]
  OBVIOUS
<1>1. /\ evidence' = [evidence EXCEPT ![i] = row]
      /\ UNCHANGED <<req, stale, facts, events, breaks>>
  BY DEF HoldEvidence, AtOnce
<1>2. evidence \in Seq(EvidenceManifestRow) /\ evidence[i] \in EvidenceManifestRow
  BY DEF OInv, Manifests
<1>3. row \in EvidenceManifestRow /\ row.previous = evidence[i].previous
  BY <1>2 DEF EvidenceManifestRow
<1>4. Manifests'
  <2>1. evidence' \in Seq(EvidenceManifestRow) /\ DOMAIN evidence' = DOMAIN evidence
        /\ \A j \in DOMAIN evidence : evidence'[j].previous = evidence[j].previous
    BY <1>1, <1>2, <1>3
  <2> QED
    BY <1>1, <2>1 DEF OInv, Manifests, Linked
<1>5. /\ Facts'
      /\ \A o \in PaymentOrder, ref \in Reference :
           Cardinality(Chain(o, ref)) \in Nat /\ Cardinality(Chain(o, ref)') \in Nat
           /\ Cardinality(Chain(o, ref)') >= Cardinality(Chain(o, ref))
  BY <1>1, FactsStay DEF OInv
<1>6. Breaks'
  BY <1>1 DEF OInv, Breaks
<1>7. Numbers(c)' /\ Unseen(c)'
  BY <1>1, <1>5, OtherRecords DEF OInv
<1> QED
  BY <1>1, <1>4, <1>5, <1>6, <1>7, RecordsKept DEF OInv

LEMMA ReadReconciliationKeeps ==
    ASSUME OInv, NEW c \in Client, NEW audited \in BOOLEAN, ReadReconciliation(c, audited)
    PROVE  OInv'
<1> PICK opens : opens = ToOpen
  OBVIOUS
<1> DEFINE r == [op |-> "report", opens |-> opens, seen |-> breaks, previous |-> Len(events), commits |-> audited]
<1>1. Open(c, r) /\ UNCHANGED <<facts, evidence, events, breaks>>
  BY DEF ReadReconciliation, operationVars
<1>2. Len(events) \in Nat
  BY DEF OInv, Breaks
<1>3. \A b \in opens, d \in breaks : d.state = "OPEN" => ~(b.order = d.order /\ b.reason = d.reason)
  BY DEF ToOpen
<1>4. r.op = "report" /\ r.opens = opens /\ r.seen = breaks /\ r.previous = Len(events)
  OBVIOUS
<1> HIDE DEF r
<1>5. DOMAIN req' = Client /\ req'[c] = r /\ stale' = stale /\ \A d \in Client \ {c} : req'[d] = req[d]
  BY <1>1 DEF OInv, Open
<1>6. Unseen(c)' /\ Numbers(c)'
  BY <1>2, <1>3, <1>4, <1>5 DEF Unseen, Numbers
<1> QED
  BY <1>1, <1>5, <1>6, RowsKept

LEMMA CommitReconciliationKeeps ==
    ASSUME OInv, NEW c \in Client, CommitReconciliation(c)
    PROVE  OInv'
<1> PICK opens : opens = req[c].opens
  OBVIOUS
<1> PICK seen : seen = req[c].seen
  OBVIOUS
<1> PICK previous : previous = req[c].previous
  OBVIOUS
<1> PICK n : n = Len(events)
  OBVIOUS
<1> DEFINE found == {[order |-> b.order, reason |-> b.reason, state |-> "OPEN", run |-> n + 1] : b \in opens}
           event == [previous |-> previous]
<1>1. /\ req[c].op = "report"
      /\ breaks' = breaks \cup found
      /\ events' = Append(events, event)
      /\ Commit(c, breaks = seen /\ n = previous)
      /\ UNCHANGED <<facts, evidence>>
  BY DEF CommitReconciliation
<1>2. /\ DOMAIN req' = Client /\ req'[c] = Idle /\ \A d \in Client \ {c} : req'[d] = req[d]
      /\ stale' = (stale \/ ~(breaks = seen /\ n = previous))
  BY <1>1 DEF OInv, Commit
<1>3. stale' \in BOOLEAN /\ (~stale' => ~stale /\ breaks = seen /\ n = previous)
  BY <1>2 DEF OInv
<1>4. previous \in Nat
      /\ \A b \in opens, d \in seen : d.state = "OPEN" => ~(b.order = d.order /\ b.reason = d.reason)
  BY <1>1 DEF OInv, Unseen
<1>5. event \in AuditEventRow /\ event.previous = previous
  BY <1>4 DEF AuditEventRow
<1>6. \A d \in found : /\ d.state = "OPEN" /\ d.run = n + 1
                       /\ d = [order |-> d.order, reason |-> d.reason, state |-> "OPEN", run |-> n + 1]
                       /\ \E b \in opens : d.order = b.order /\ d.reason = b.reason
  OBVIOUS
<1> HIDE DEF found, event
<1>7. /\ events \in Seq(AuditEventRow) /\ \A b \in breaks : b.run \in DOMAIN events /\ b.state = "OPEN"
      /\ ~stale => Linked(events) /\ Single(breaks)
  BY DEF OInv, Breaks
<1>8. /\ events' \in Seq(AuditEventRow)
      /\ DOMAIN events' = 1 .. n + 1 /\ n \in Nat /\ DOMAIN events = 1 .. n
      /\ events'[n + 1] = event /\ \A i \in 1 .. n : events'[i] = events[i]
  BY <1>1, <1>5, <1>7
<1>9. ASSUME ~stale' PROVE Linked(events') /\ Single(breaks')
  <2>1. Linked(events')
    BY <1>3, <1>5, <1>7, <1>8, <1>9 DEF Linked
  <2>2. \A b \in found, d \in found : b.order = d.order /\ b.reason = d.reason => b = d
    BY <1>6
  <2>3. \A b \in found, d \in breaks : ~(b.order = d.order /\ b.reason = d.reason)
    BY <1>3, <1>4, <1>6, <1>7, <1>9
  <2>4. Single(breaks)
    BY <1>3, <1>7, <1>9
  <2>5. Single(breaks \cup found)
    BY <2>2, <2>3, <2>4 DEF Single
  <2> QED
    BY <1>1, <2>1, <2>5
<1>10. Breaks'
  <2>1. \A b \in breaks' : b.run \in DOMAIN events' /\ b.state = "OPEN"
    BY <1>1, <1>6, <1>7, <1>8
  <2> QED
    BY <1>8, <1>9, <2>1 DEF Breaks
<1>11. Manifests'
  BY <1>1, <1>3 DEF OInv, Manifests
<1>12. /\ Facts'
       /\ \A o \in PaymentOrder, ref \in Reference :
            Cardinality(Chain(o, ref)) \in Nat /\ Cardinality(Chain(o, ref)') \in Nat
            /\ Cardinality(Chain(o, ref)') >= Cardinality(Chain(o, ref))
  BY <1>1, FactsStay DEF OInv
<1>13. Numbers(c)' /\ Unseen(c)'
  BY <1>2, IdleRecords
<1> QED
  BY <1>2, <1>3, <1>10, <1>11, <1>12, <1>13, RecordsKept

LEMMA RollBackOperationKeeps ==
    ASSUME OInv, NEW c \in Client, RollBackOperation(c)
    PROVE  OInv'
<1>1. /\ DOMAIN req' = Client /\ req'[c] = Idle /\ \A d \in Client \ {c} : req'[d] = req[d]
      /\ stale' = stale /\ UNCHANGED <<facts, evidence, events, breaks>>
  BY DEF RollBackOperation, RollBack, operationVars, OInv
<1> QED
  BY <1>1, IdleRecords, RowsKept

ovars == <<requestVars, operationVars>>

LEMMA InitOperations ==
    ASSUME NEW given, OperationsInit(given), \E allowed \in Nat : RequestsInit(allowed)
    PROVE  OInv
<1>1. facts = {} /\ breaks = {} /\ evidence = <<>> /\ events = <<>>
  BY DEF OperationsInit
<1>2. req = [c \in Client |-> Idle] /\ stale = FALSE
  BY DEF RequestsInit
<1>3. Facts
  <2>1. \A o, ref : Chain(o, ref) = {}
    BY <1>1 DEF Chain
  <2>2. IsFiniteSet({}) /\ Cardinality({}) = 0
    BY FS_EmptySet
  <2>3. ASSUME NEW o \in PaymentOrder, NEW ref \in Reference PROVE Numbered(o, ref)
    <3>1. Chain(o, ref) = {} /\ Cardinality(Chain(o, ref)) = 0
      BY <2>1, <2>2
    <3> QED
      BY <3>1 DEF Numbered
  <2> QED
    BY <1>1, <2>2, <2>3 DEF Facts
<1>4. Manifests /\ Breaks
  BY <1>1 DEF Manifests, Breaks, Linked, Single
<1>5. \A c \in Client : Numbers(c) /\ Unseen(c)
  BY <1>2 DEF Numbers, Unseen, Idle
<1> QED
  BY <1>2, <1>3, <1>4, <1>5 DEF OInv

LEMMA NextOperations == OInv /\ [OperationsNext]_ovars => OInv'
<1> SUFFICES ASSUME OInv, [OperationsNext]_ovars PROVE OInv'
  OBVIOUS
<1>1. CASE UNCHANGED ovars
  <2>1. UNCHANGED <<req, stale, facts, evidence, events, breaks>>
    BY <1>1 DEF ovars, requestVars, operationVars
  <2>2. Facts' /\ \A c \in Client : Numbers(c)' /\ Unseen(c)'
    BY <2>1, FactsStay, OtherRecords DEF OInv
  <2> QED
    BY <2>1, <2>2 DEF OInv, Manifests, Breaks
<1>2. ASSUME NEW c \in Client, NEW o \in PaymentOrder, NEW v \in OrderView, Move(c, o, v) PROVE OInv'
  BY <1>2, MoveKeeps
<1>3. ASSUME NEW c \in Client, NEW o \in PaymentOrder, NEW ref \in Reference, NEW state \in STRING,
             ReadFact(c, o, ref, state)
      PROVE  OInv'
  BY <1>3, ReadFactKeeps
<1>4. ASSUME NEW c \in Client, CommitFact(c) PROVE OInv'
  BY <1>4, CommitFactKeeps
<1>5. ASSUME NEW c \in Client, NEW i \in DOMAIN evidence, HoldEvidence(c, i) PROVE OInv'
  BY <1>5, HoldEvidenceKeeps
<1>6. ASSUME NEW c \in Client, NEW audited \in BOOLEAN, ReadReconciliation(c, audited) PROVE OInv'
  BY <1>6, ReadReconciliationKeeps
<1>7. ASSUME NEW c \in Client, CommitReconciliation(c) PROVE OInv'
  BY <1>7, CommitReconciliationKeeps
<1>8. ASSUME NEW c \in Client, RollBackOperation(c) PROVE OInv'
  BY <1>8, RollBackOperationKeeps
<1> QED
  BY <1>1, <1>2, <1>3, <1>4, <1>5, <1>6, <1>7, <1>8 DEF OperationsNext

------------------------------------------------------------------------------
(* Facts, evidence and breaks: the theorems *)

\* Along every behaviour the number of an open fact is at most the next one,
\* and an open reconciliation opens nothing it has seen.
THEOREM OperationsInvariance == OperationsSpec => []OInv
<1>1. (\E given \in OrderView : OperationsInit(given)) /\ (\E allowed \in Nat : RequestsInit(allowed)) => OInv
  BY InitOperations
<1> QED
  BY <1>1, NextOperations, PTL DEF OperationsSpec, ovars

\* service.py, append_fact(), whatever overlaps; runtime.py and operations.py,
\* without overlap: facts, manifests, events and breaks each form one line.
THEOREM RecordsStayLinearHolds == OperationsSpec => []RecordsStayLinear
<1>1. OInv => RecordsStayLinear
  BY DEF OInv, Facts, Numbered, Manifests, Breaks, Linked, Single, RecordsStayLinear
<1> QED
  BY <1>1, OperationsInvariance, PTL

------------------------------------------------------------------------------
(* Facts, evidence and breaks: what the rows are *)

\* The fact that a request is about to record has the columns of its table.
FactColumns == [order : PaymentOrder, ref : Reference, state : STRING, sequence : Nat \ {0}, supersedes : Nat]

TypedRecord(r) ==
    /\ r.op = "fact" => r.fact \in FactColumns
    /\ r.op = "report" => \A b \in r.opens : b.order \in PaymentOrder /\ b.reason \in BreakReason

TypedRecords == \A c \in Client : TypedRecord(req[c])

TypedRows ==
    /\ views \in [PaymentOrder -> OrderView]
    /\ facts \subseteq FactRow
    /\ breaks \subseteq BreakRow

OTypes == TypedRows /\ TypedRecords

LEMMA OperationRowsTyped == OInv /\ OTypes => OperationsTypeOK
<1> SUFFICES ASSUME OInv, OTypes PROVE OperationsTypeOK
  OBVIOUS
<1>1. evidence \in Seq(EvidenceManifestRow) /\ events \in Seq(AuditEventRow)
  BY DEF OInv, Manifests, Breaks
<1>2. /\ \A i \in DOMAIN evidence : evidence[i] \in EvidenceManifestRow
      /\ \A i \in DOMAIN events : events[i] \in AuditEventRow
  BY <1>1
<1> QED
  BY <1>2 DEF OTypes, TypedRows, OperationsTypeOK

LEMMA RecordsTyped ==
    ASSUME OInv, TypedRecords, NEW c \in Client, NEW r, req' = [req EXCEPT ![c] = r], TypedRecord(r)
    PROVE  TypedRecords'
<1>1. DOMAIN req = Client
  BY DEF OInv
<1>2. \A d \in Client : req'[d] = IF d = c THEN r ELSE req[d]
  BY <1>1
<1>3. \A x : TypedRecord(x) <=> TypedRecord(x)'
  BY DEF TypedRecord, FactColumns
<1> QED
  BY <1>2, <1>3 DEF TypedRecords, TypedRecord

LEMMA IdleRecordTyped == TypedRecord(Idle)
  BY DEF TypedRecord, Idle

LEMMA ReadFactTyped ==
    ASSUME OInv, OTypes, NEW c \in Client, NEW o \in PaymentOrder, NEW ref \in Reference, NEW state \in STRING,
           ReadFact(c, o, ref, state)
    PROVE  OTypes'
<1> PICK f : f = NextFact(o, ref, state, LatestFact(o, ref))
  OBVIOUS
<1> PICK r : r = [op |-> "fact", fact |-> f, manifest |-> [previous |-> Len(evidence), hold |-> FALSE]]
  OBVIOUS
<1>1. req' = [req EXCEPT ![c] = r] /\ UNCHANGED <<views, facts, breaks>>
  BY DEF ReadFact, Open, operationVars
<1>2. /\ f.order = o /\ f.ref = ref /\ f.sequence = Cardinality(Chain(o, ref)) + 1
      /\ f.supersedes = Cardinality(Chain(o, ref)) /\ Cardinality(Chain(o, ref)) \in Nat
  BY NextNumber, ChainIsFinite DEF OInv, Facts
<1>3. f = [order |-> f.order, ref |-> f.ref, state |-> state, sequence |-> f.sequence, supersedes |-> f.supersedes]
  BY Zenon DEF NextFact
<1>4. f \in FactColumns
  BY <1>2, <1>3 DEF FactColumns
<1>5. TypedRecord(r)
  BY <1>4 DEF TypedRecord
<1> QED
  BY <1>1, <1>5, RecordsTyped DEF OTypes, TypedRows, FactRow, BreakRow

LEMMA CommitFactTyped ==
    ASSUME OInv, OTypes, NEW c \in Client, CommitFact(c)
    PROVE  OTypes'
<1> PICK f : f = req[c].fact
  OBVIOUS
<1>1. /\ req[c].op = "fact" /\ f.state \in ALLOWED_STATES["payment_facts"] /\ facts' = facts \cup {f}
      /\ req' = [req EXCEPT ![c] = Idle] /\ UNCHANGED <<views, breaks>>
  BY DEF CommitFact, Commit, StateChecked
<1>2. f \in FactColumns
  BY <1>1 DEF OTypes, TypedRecords, TypedRecord
<1>3. f \in FactRow
  BY <1>1, <1>2 DEF FactColumns, FactRow
<1>4. TypedRows'
  BY <1>1, <1>3 DEF OTypes, TypedRows, FactRow, BreakRow
<1> QED
  BY <1>1, <1>4, IdleRecordTyped, RecordsTyped DEF OTypes

LEMMA ReadReconciliationTyped ==
    ASSUME OInv, OTypes, NEW c \in Client, NEW audited \in BOOLEAN, ReadReconciliation(c, audited)
    PROVE  OTypes'
<1> PICK opens : opens = ToOpen
  OBVIOUS
<1> PICK r : r = [op |-> "report", opens |-> opens, seen |-> breaks, previous |-> Len(events), commits |-> audited]
  OBVIOUS
<1>1. req' = [req EXCEPT ![c] = r] /\ UNCHANGED <<views, facts, breaks>>
  BY DEF ReadReconciliation, Open, operationVars
<1>2. \A b \in opens : b.order \in PaymentOrder /\ b.reason \in BreakReason
  BY DEF ToOpen, Found
<1>3. TypedRecord(r)
  BY <1>2 DEF TypedRecord
<1> QED
  BY <1>1, <1>3, RecordsTyped DEF OTypes, TypedRows, FactRow, BreakRow

LEMMA CommitReconciliationTyped ==
    ASSUME OInv, OTypes, NEW c \in Client, CommitReconciliation(c)
    PROVE  OTypes'
<1> PICK opens : opens = req[c].opens
  OBVIOUS
<1> PICK n : n = Len(events)
  OBVIOUS
<1> DEFINE found == {[order |-> b.order, reason |-> b.reason, state |-> "OPEN", run |-> n + 1] : b \in opens}
<1>1. /\ req[c].op = "report" /\ breaks' = breaks \cup found
      /\ req' = [req EXCEPT ![c] = Idle] /\ UNCHANGED <<views, facts>>
  BY DEF CommitReconciliation, Commit
<1>2. "OPEN" \in ALLOWED_STATES["reconciliation_breaks"]
  BY StatesOfOperations
<1>3. n \in Nat
  BY DEF OInv, Breaks
<1>4. \A b \in opens : b.order \in PaymentOrder /\ b.reason \in BreakReason
  BY <1>1 DEF OTypes, TypedRecords, TypedRecord
<1>5. found \subseteq BreakRow
  BY <1>2, <1>3, <1>4 DEF BreakRow
<1> HIDE DEF found
<1>6. TypedRows'
  BY <1>1, <1>5 DEF OTypes, TypedRows, FactRow, BreakRow
<1> QED
  BY <1>1, <1>6, IdleRecordTyped, RecordsTyped DEF OTypes

LEMMA InitRecordTypes ==
    ASSUME NEW given \in OrderView, OperationsInit(given), \E allowed \in Nat : RequestsInit(allowed)
    PROVE  OTypes
<1>1. req = [c \in Client |-> Idle]
  BY DEF RequestsInit
<1>2. TypedRecords
  BY <1>1, IdleRecordTyped DEF TypedRecords
<1> QED
  BY <1>2 DEF OTypes, TypedRows, OperationsInit

LEMMA NextRecordTypes == OInv /\ OTypes /\ [OperationsNext]_ovars => OTypes'
<1> SUFFICES ASSUME OInv, OTypes, [OperationsNext]_ovars PROVE OTypes'
  OBVIOUS
<1>1. CASE UNCHANGED ovars
  BY <1>1 DEF ovars, requestVars, operationVars, OTypes, TypedRows, FactRow, BreakRow, TypedRecords, TypedRecord, FactColumns
<1>2. ASSUME NEW c \in Client, NEW o \in PaymentOrder, NEW v \in OrderView, Move(c, o, v) PROVE OTypes'
  BY <1>2 DEF Move, AtOnce, OTypes, TypedRows, FactRow, BreakRow, TypedRecords, TypedRecord, FactColumns
<1>3. ASSUME NEW c \in Client, NEW o \in PaymentOrder, NEW ref \in Reference, NEW state \in STRING,
             ReadFact(c, o, ref, state)
      PROVE  OTypes'
  BY <1>3, ReadFactTyped
<1>4. ASSUME NEW c \in Client, CommitFact(c) PROVE OTypes'
  BY <1>4, CommitFactTyped
<1>5. ASSUME NEW c \in Client, NEW i \in DOMAIN evidence, HoldEvidence(c, i) PROVE OTypes'
  BY <1>5 DEF HoldEvidence, AtOnce, OTypes, TypedRows, FactRow, BreakRow, TypedRecords, TypedRecord, FactColumns
<1>6. ASSUME NEW c \in Client, NEW audited \in BOOLEAN, ReadReconciliation(c, audited) PROVE OTypes'
  BY <1>6, ReadReconciliationTyped
<1>7. ASSUME NEW c \in Client, CommitReconciliation(c) PROVE OTypes'
  BY <1>7, CommitReconciliationTyped
<1>8. ASSUME NEW c \in Client, RollBackOperation(c) PROVE OTypes'
  <2>1. req' = [req EXCEPT ![c] = Idle] /\ UNCHANGED <<views, facts, breaks>>
    BY <1>8 DEF RollBackOperation, RollBack, operationVars
  <2> QED
    BY <2>1, IdleRecordTyped, RecordsTyped DEF OTypes, TypedRows, FactRow, BreakRow
<1> QED
  BY <1>1, <1>2, <1>3, <1>4, <1>5, <1>6, <1>7, <1>8 DEF OperationsNext

------------------------------------------------------------------------------
(* The ledger: the invariant *)

\* What the POSTED journals of a table make of account a.
Made(table, a) ==
    LET posted == {id \in DOMAIN table : table[id].state = "POSTED"} IN
    SumFunctionOnSet([id \in posted |-> Effect(table[id].entries, Len(table[id].entries), a)], posted)

\* What a hold keeps reserved on account a, and what all holds of a table do.
Weight(row, a) == IF row.account = a /\ row.state \in {"HELD", "UNKNOWN"} THEN row.amount ELSE 0
Claimed(table, a) == SumFunctionOnSet([h \in DOMAIN table |-> Weight(table[h], a)], DOMAIN table)

\* What rows written over a table add to that.
Added(rows, table, a) == SumFunctionOnSet(
    [h \in DOMAIN rows |-> Weight(rows[h], a) - (IF h \in DOMAIN table THEN Weight(table[h], a) ELSE 0)],
    DOMAIN rows)

Money == [balance : Int, reserved : Int]

Listed(entries) ==
    /\ Len(entries) \in Nat /\ DOMAIN entries = 1 .. Len(entries)
    /\ \A i \in DOMAIN entries : entries[i].amount \in Int

Accounts ==
    /\ DOMAIN ledger \subseteq LedgerAccount
    /\ DOMAIN opened = DOMAIN ledger
    /\ \A a \in DOMAIN ledger : ledger[a] \in Money /\ opened[a] \in Int

Journals ==
    /\ IsFiniteSet(DOMAIN journal)
    /\ \A id \in DOMAIN journal :
         /\ Listed(journal[id].entries)
         /\ journal[id].state = "POSTED" => AccountsOf(journal[id].entries) \subseteq DOMAIN ledger

Holding ==
    /\ IsFiniteSet(DOMAIN holds)
    /\ due \subseteq DOMAIN holds
    /\ \A h \in DOMAIN holds : holds[h].amount \in Int /\ holds[h].account \in DOMAIN ledger

Explained ==
    /\ LedgerBalancesExplained
    /\ \A a \in DOMAIN ledger : ledger[a].reserved = Claimed(holds, a)

\* The rows a request has locked are as it has loaded them.
Locked(r) ==
    /\ DOMAIN r.loaded \subseteq DOMAIN ledger
    /\ DOMAIN r.new = DOMAIN r.loaded
    /\ \A a \in DOMAIN r.loaded : ledger[a] = r.loaded[a] /\ r.new[a] \in Money

\* It adds to the balances what its journals say, and reserves what its holds do.
Posting(r) ==
    /\ IsFiniteSet(DOMAIN r.posts)
    /\ \A id \in DOMAIN r.posts :
         /\ Listed(r.posts[id].entries)
         /\ r.posts[id].state = "POSTED"
         /\ AccountsOf(r.posts[id].entries) \subseteq DOMAIN r.loaded
    /\ \A a \in DOMAIN r.loaded : r.new[a].balance = r.loaded[a].balance + Made(r.posts, a)

Reserving(r) ==
    /\ IsFiniteSet(DOMAIN r.holds)
    /\ \A h \in DOMAIN r.holds : r.holds[h].amount \in Int /\ r.holds[h].account \in DOMAIN ledger
    /\ \A a \in LedgerAccount :
         Added(r.holds, holds, a) = IF a \in DOMAIN r.loaded THEN r.new[a].reserved - r.loaded[a].reserved ELSE 0

Works(c) == \A r \in {req[c]} : r.op = "ledger" => Locked(r) /\ Posting(r) /\ Reserving(r)

\* No two requests have locked the same row.
LocksApart(c, d) == req[c].op = "ledger" /\ req[d].op = "ledger" =>
    /\ DOMAIN req[c].loaded \cap DOMAIN req[d].loaded = {}
    /\ DOMAIN req[c].holds \cap DOMAIN req[d].holds = {}

LInv ==
    /\ Accounts /\ Journals /\ Holding /\ Explained
    /\ DOMAIN req = Client
    /\ \A c \in Client : Works(c)
    /\ \A c, d \in Client : c # d => LocksApart(c, d)

------------------------------------------------------------------------------
(* The ledger: sums of entries *)

\* The number of every entry.
LEMMA EntryNumbers == ASSUME NEW k \in Nat PROVE IsFiniteSet(1 .. k)
  BY FS_Interval

\* What one entry adds is a number.
LEMMA SignedType ==
    ASSUME NEW entries, Listed(entries), NEW i \in 1 .. Len(entries)
    PROVE  Signed(entries[i]) \in Int
<1>1. entries[i].amount \in Int
  BY DEF Listed
<1> QED
  BY <1>1 DEF Signed

LEMMA EffectType ==
    ASSUME NEW entries, Listed(entries), NEW a
    PROVE  Effect(entries, Len(entries), a) \in Int
<1> PICK n : n = Len(entries)
  OBVIOUS
<1> DEFINE f == [i \in 1 .. n |-> IF entries[i].account = a THEN Signed(entries[i]) ELSE 0]
<1>1. n \in Nat /\ IsFiniteSet(1 .. n)
  BY EntryNumbers DEF Listed
<1>2. \A i \in 1 .. n : f[i] \in Int
  BY SignedType
<1> HIDE DEF f
<1>3. SumFunctionOnSet(f, 1 .. n) \in Int
  BY <1>1, <1>2, SumType
<1> QED
  BY <1>3 DEF Effect, f

\* Entries leave the accounts alone that they do not name.
LEMMA EffectElsewhere ==
    ASSUME NEW entries, Listed(entries), NEW a, a \notin AccountsOf(entries)
    PROVE  Effect(entries, Len(entries), a) = 0
<1> PICK n : n = Len(entries)
  OBVIOUS
<1> DEFINE f == [i \in 1 .. n |-> IF entries[i].account = a THEN Signed(entries[i]) ELSE 0]
<1>1. n \in Nat /\ IsFiniteSet(1 .. n)
  BY EntryNumbers DEF Listed
<1>2. \A i \in 1 .. n : f[i] = 0
  BY DEF Listed, AccountsOf
<1> HIDE DEF f
<1>3. SumFunctionOnSet(f, 1 .. n) = 0
  BY <1>1, <1>2, SumZero
<1> QED
  BY <1>3 DEF Effect, f

LEMMA NoRows == IsFiniteSet(DOMAIN <<>>) /\ DOMAIN <<>> = {}
  BY FS_EmptySet

\* The POSTED journals of a table.
PostedOf(table) == {id \in DOMAIN table : table[id].state = "POSTED"}

LEMMA PostedFinite ==
    ASSUME NEW table, IsFiniteSet(DOMAIN table)
    PROVE  IsFiniteSet(PostedOf(table))
<1>1. PostedOf(table) \in SUBSET (DOMAIN table)
  BY DEF PostedOf
<1> QED
  BY <1>1, FS_Subset

LEMMA MadeType ==
    ASSUME NEW table, IsFiniteSet(DOMAIN table), NEW a,
           \A id \in PostedOf(table) : Listed(table[id].entries)
    PROVE  Made(table, a) \in Int
<1> DEFINE P == PostedOf(table)
           f == [id \in P |-> Effect(table[id].entries, Len(table[id].entries), a)]
<1>1. IsFiniteSet(P)
  BY PostedFinite
<1>2. \A id \in P : f[id] \in Int
  BY EffectType
<1> HIDE DEF f, P
<1>3. SumFunctionOnSet(f, P) \in Int
  BY <1>1, <1>2, SumType
<1> QED
  BY <1>3 DEF Made, f, P, PostedOf

LEMMA MadeElsewhere ==
    ASSUME NEW table, IsFiniteSet(DOMAIN table), NEW a,
           \A id \in PostedOf(table) : Listed(table[id].entries) /\ a \notin AccountsOf(table[id].entries)
    PROVE  Made(table, a) = 0
<1> DEFINE P == PostedOf(table)
           f == [id \in P |-> Effect(table[id].entries, Len(table[id].entries), a)]
<1>1. IsFiniteSet(P)
  BY PostedFinite
<1>2. \A id \in P : f[id] = 0
  BY EffectElsewhere
<1> HIDE DEF f, P
<1>3. SumFunctionOnSet(f, P) = 0
  BY <1>1, <1>2, SumZero
<1> QED
  BY <1>3 DEF Made, f, P, PostedOf

\* A table whose entries are zero on a, but for one journal's.
LEMMA MadeByOne ==
    ASSUME NEW table, IsFiniteSet(DOMAIN table), NEW a, NEW x \in PostedOf(table),
           \A id \in PostedOf(table) : Listed(table[id].entries),
           \A id \in PostedOf(table) \ {x} : a \notin AccountsOf(table[id].entries)
    PROVE  Made(table, a) = Effect(table[x].entries, Len(table[x].entries), a)
<1> DEFINE P == PostedOf(table)
           f == [id \in P |-> Effect(table[id].entries, Len(table[id].entries), a)]
<1>1. IsFiniteSet(P) /\ x \in P
  BY PostedFinite
<1>2. \A id \in P \ {x} : f[id] = 0
  BY EffectElsewhere
<1>3. f[x] \in Int /\ f[x] = Effect(table[x].entries, Len(table[x].entries), a)
  BY EffectType
<1> HIDE DEF f, P
<1>4. SumFunctionOnSet(f, P) = f[x]
  BY <1>1, <1>2, <1>3, SumOnly
<1> QED
  BY <1>3, <1>4 DEF Made, f, P, PostedOf

\* Journals inserted into a table add what they make of the account.
LEMMA MadeOfBoth ==
    ASSUME NEW rows, NEW table, IsFiniteSet(DOMAIN rows), IsFiniteSet(DOMAIN table),
           DOMAIN rows \cap DOMAIN table = {}, NEW a,
           \A id \in PostedOf(rows) : Listed(rows[id].entries),
           \A id \in PostedOf(table) : Listed(table[id].entries)
    PROVE  Made(Put(rows, table), a) = Made(table, a) + Made(rows, a)
<1> DEFINE T == PostedOf(table)
           R == PostedOf(rows)
           made(t, id) == Effect(t[id].entries, Len(t[id].entries), a)
           g == [id \in T |-> made(table, id)]
           h == [id \in R |-> made(rows, id)]
           both == Put(rows, table)
           f == [id \in PostedOf(both) |-> made(both, id)]
<1>1. IsFiniteSet(T) /\ IsFiniteSet(R) /\ T \cap R = {}
  BY PostedFinite DEF PostedOf
<1>2. PostedOf(both) = T \cup R
  BY DEF PostedOf, Put
<1>3. \A id \in T : both[id] = table[id]
  BY DEF PostedOf, Put
<1>4. \A id \in R : both[id] = rows[id]
  BY DEF PostedOf, Put
<1>5. \A id \in T : f[id] = g[id] /\ g[id] \in Int
  BY <1>2, <1>3, EffectType
<1>6. \A id \in R : f[id] = h[id] /\ h[id] \in Int
  BY <1>2, <1>4, EffectType
<1>7. Made(both, a) = SumFunctionOnSet(f, PostedOf(both))
  BY DEF Made, PostedOf
<1>8. Made(table, a) = SumFunctionOnSet(g, T) /\ Made(rows, a) = SumFunctionOnSet(h, R)
  BY DEF Made, PostedOf
<1> HIDE DEF f, g, h, T, R, both
<1>9. Made(both, a) = SumFunctionOnSet(f, T \cup R)
  BY <1>2, <1>7, Zenon
<1>10. SumFunctionOnSet(f, T \cup R) = SumFunctionOnSet(f, T) + SumFunctionOnSet(f, R)
  <2>1. \A id \in T \cup R : f[id] \in Int
    BY <1>5, <1>6
  <2> QED
    BY <1>1, <2>1, SumUnion
<1>11. SumFunctionOnSet(f, T) = SumFunctionOnSet(g, T)
  BY <1>1, <1>5, SumSame
<1>12. SumFunctionOnSet(f, R) = SumFunctionOnSet(h, R)
  BY <1>1, <1>6, SumSame
<1>13. Made(both, a) = Made(table, a) + Made(rows, a)
  BY <1>8, <1>9, <1>10, <1>11, <1>12
<1> QED
  BY <1>13 DEF both

\* A table in which journals change that are not POSTED.
LEMMA MadeSame ==
    ASSUME NEW u, NEW v, NEW a, PostedOf(u) = PostedOf(v), IsFiniteSet(DOMAIN u),
           \A id \in PostedOf(u) : u[id].entries = v[id].entries
    PROVE  Made(u, a) = Made(v, a)
<1> DEFINE P == PostedOf(u)
           f == [id \in P |-> Effect(u[id].entries, Len(u[id].entries), a)]
           g == [id \in P |-> Effect(v[id].entries, Len(v[id].entries), a)]
<1>1. f = g
  OBVIOUS
<1>2. Made(u, a) = SumFunctionOnSet(f, P)
  BY DEF Made, PostedOf
<1>3. Made(v, a) = SumFunctionOnSet(g, P)
  <2>1. P = {id \in DOMAIN v : v[id].state = "POSTED"}
    BY DEF PostedOf
  <2> HIDE DEF P
  <2> QED
    BY <2>1 DEF Made
<1> HIDE DEF f, g, P
<1> QED
  BY <1>1, <1>2, <1>3

LEMMA NothingMade == \A a : Made(<<>>, a) = 0
<1>1. IsFiniteSet(DOMAIN <<>>) /\ PostedOf(<<>>) = {}
  BY FS_EmptySet DEF PostedOf
<1> QED
  BY <1>1, MadeElsewhere

------------------------------------------------------------------------------
(* The ledger: sums of holds *)

LEMMA WeightType == ASSUME NEW row, row.amount \in Int, NEW a PROVE Weight(row, a) \in Int
  BY DEF Weight

\* The weight a row had in the table before.
Before(table, h, a) == IF h \in DOMAIN table THEN Weight(table[h], a) ELSE 0

LEMMA ClaimedElsewhere ==
    ASSUME NEW table, IsFiniteSet(DOMAIN table), NEW a, \A h \in DOMAIN table : table[h].account # a
    PROVE  Claimed(table, a) = 0
<1> DEFINE f == [h \in DOMAIN table |-> Weight(table[h], a)]
<1>1. \A h \in DOMAIN table : f[h] = 0
  BY DEF Weight
<1> HIDE DEF f
<1>2. SumFunctionOnSet(f, DOMAIN table) = 0
  BY <1>1, SumZero
<1> QED
  BY <1>2 DEF Claimed, f

\* What a table of holds claims once rows have been written over it.
LEMMA ClaimedOfBoth ==
    ASSUME NEW rows, NEW table, IsFiniteSet(DOMAIN rows), IsFiniteSet(DOMAIN table), NEW a,
           \A h \in DOMAIN rows : rows[h].amount \in Int,
           \A h \in DOMAIN table : table[h].amount \in Int
    PROVE  Claimed(Put(rows, table), a) = Claimed(table, a) + Added(rows, table, a)
<1> DEFINE T == DOMAIN table
           R == DOMAIN rows
           U == R \cup T
           both == Put(rows, table)
           before == [h \in U |-> Before(table, h, a)]
           after == [h \in U |-> Weight(both[h], a)]
           old == [h \in T |-> Weight(table[h], a)]
           diff == [h \in R |-> Weight(rows[h], a) - Before(table, h, a)]
           change == [h \in U |-> IF h \in R THEN diff[h] ELSE 0]
<1>1. IsFiniteSet(T) /\ IsFiniteSet(R) /\ IsFiniteSet(U) /\ DOMAIN both = U
  BY FS_Union DEF Put
<1>2. \A h \in T : old[h] \in Int /\ before[h] = old[h]
  BY WeightType DEF Before
<1>3. \A h \in U \ T : before[h] = 0
  BY DEF Before
<1>4. \A h \in R : diff[h] \in Int /\ change[h] = diff[h]
  <2> TAKE h \in R
  <2>1. Weight(rows[h], a) \in Int
    BY WeightType
  <2>2. Before(table, h, a) \in Int
    BY WeightType DEF Before
  <2> QED
    BY <2>1, <2>2
<1>5. \A h \in U \ R : change[h] = 0
  OBVIOUS
<1>6. \A h \in U : after[h] = before[h] + change[h]
  <2> TAKE h \in U
  <2>1. CASE h \in R
    <3>1. both[h] = rows[h]
      BY <2>1 DEF Put
    <3>2. after[h] = Weight(rows[h], a) /\ Weight(rows[h], a) \in Int
      BY <2>1, <3>1, WeightType
    <3>3. before[h] = Before(table, h, a) /\ Before(table, h, a) \in Int
      BY WeightType DEF Before
    <3>4. change[h] = Weight(rows[h], a) - Before(table, h, a)
      BY <2>1
    <3> QED
      BY <3>2, <3>3, <3>4
  <2>2. CASE h \notin R
    <3>1. both[h] = table[h] /\ h \in T
      BY <2>2 DEF Put
    <3>2. after[h] = Weight(table[h], a) /\ Weight(table[h], a) \in Int
      BY <3>1, WeightType
    <3>3. before[h] = Weight(table[h], a) /\ change[h] = 0
      BY <2>2, <3>1 DEF Before
    <3> QED
      BY <3>2, <3>3
  <2> QED
    BY <2>1, <2>2
<1>7. /\ Claimed(both, a) = SumFunctionOnSet(after, U)
      /\ Claimed(table, a) = SumFunctionOnSet(old, T)
      /\ Added(rows, table, a) = SumFunctionOnSet(diff, R)
  <2>1. Claimed(both, a) = SumFunctionOnSet(after, U)
    <3> HIDE DEF both
    <3>1. after = [h \in DOMAIN both |-> Weight(both[h], a)]
      BY <1>1
    <3> QED
      BY <1>1, <3>1 DEF Claimed
  <2> QED
    BY <2>1 DEF Claimed, Added, Before
<1> HIDE DEF before, after, old, diff, change, both
<1>8. \A h \in U : before[h] \in Int /\ change[h] \in Int
  BY <1>2, <1>3, <1>4, <1>5
<1> HIDE DEF U, T, R
<1>9. SumFunctionOnSet(after, U) = SumFunctionOnSet(before, U) + SumFunctionOnSet(change, U)
  BY <1>1, <1>6, <1>8, SumOfBoth
<1>10. T \subseteq U /\ R \subseteq U
  BY DEF U
<1>11. SumFunctionOnSet(before, U) = SumFunctionOnSet(before, T)
  BY <1>1, <1>3, <1>8, <1>10, SumWithin
<1>12. SumFunctionOnSet(change, U) = SumFunctionOnSet(change, R)
  BY <1>1, <1>5, <1>8, <1>10, SumWithin
<1>13. SumFunctionOnSet(before, T) = SumFunctionOnSet(old, T)
  BY <1>1, <1>2, SumSame
<1>14. SumFunctionOnSet(change, R) = SumFunctionOnSet(diff, R)
  BY <1>1, <1>4, SumSame
<1>15. Claimed(both, a) = Claimed(table, a) + Added(rows, table, a)
  BY <1>7, <1>9, <1>11, <1>12, <1>13, <1>14
<1> QED
  BY <1>15 DEF both

\* One row written.
LEMMA AddedByOne ==
    ASSUME NEW h, NEW row, row.amount \in Int, NEW table, NEW a,
           h \in DOMAIN table => table[h].amount \in Int
    PROVE  Added(OneRow(h, row), table, a) = Weight(row, a) - Before(table, h, a)
<1> DEFINE rows == OneRow(h, row)
           f == [i \in DOMAIN rows |-> Weight(rows[i], a) - (IF i \in DOMAIN table THEN Weight(table[i], a) ELSE 0)]
<1>1. DOMAIN rows = {h} /\ rows[h] = row /\ IsFiniteSet({h})
  BY FS_Singleton DEF OneRow
<1>2. f[h] = Weight(row, a) - Before(table, h, a)
  <2> HIDE DEF rows
  <2> QED
    BY <1>1 DEF Before
<1>3. f[h] \in Int
  <2>1. Weight(row, a) \in Int /\ Before(table, h, a) \in Int
    BY WeightType DEF Before
  <2> QED
    BY <1>2, <2>1
<1>4. Added(rows, table, a) = SumFunctionOnSet(f, {h})
  <2>1. Added(rows, table, a) = SumFunctionOnSet(f, DOMAIN rows)
    BY DEF Added
  <2> HIDE DEF f, rows
  <2> QED
    BY <1>1, <2>1
<1> HIDE DEF f, rows
<1>5. SumFunctionOnSet(f, {h}) = f[h]
  BY <1>1, <1>3, SumOnly
<1> QED
  BY <1>2, <1>4, <1>5 DEF rows

\* Rows that weigh what they did before.
LEMMA AddedNothing ==
    ASSUME NEW rows, IsFiniteSet(DOMAIN rows), NEW table, NEW a,
           \A h \in DOMAIN rows : h \in DOMAIN table /\ table[h].amount \in Int
                                  /\ Weight(rows[h], a) = Weight(table[h], a)
    PROVE  Added(rows, table, a) = 0
<1> DEFINE f == [h \in DOMAIN rows |-> Weight(rows[h], a) - (IF h \in DOMAIN table THEN Weight(table[h], a) ELSE 0)]
<1>1. ASSUME NEW h \in DOMAIN rows PROVE f[h] = 0
  <2>1. Weight(table[h], a) \in Int
    BY WeightType
  <2> QED
    BY <2>1
<1> HIDE DEF f
<1>2. SumFunctionOnSet(f, DOMAIN rows) = 0
  BY <1>1, SumZero
<1> QED
  BY <1>2 DEF Added, f

LEMMA NothingAdded == \A table, a : Added(<<>>, table, a) = 0
  BY NoRows, AddedNothing

\* The table as a request finds it later, its own rows unchanged.
LEMMA AddedSame ==
    ASSUME NEW rows, NEW u, NEW v, NEW a,
           \A h \in DOMAIN rows : (h \in DOMAIN u <=> h \in DOMAIN v) /\ (h \in DOMAIN u => u[h] = v[h])
    PROVE  Added(rows, u, a) = Added(rows, v, a)
<1> DEFINE f == [h \in DOMAIN rows |-> Weight(rows[h], a) - (IF h \in DOMAIN u THEN Weight(u[h], a) ELSE 0)]
           g == [h \in DOMAIN rows |-> Weight(rows[h], a) - (IF h \in DOMAIN v THEN Weight(v[h], a) ELSE 0)]
<1>1. f = g
  OBVIOUS
<1>2. Added(rows, u, a) = SumFunctionOnSet(f, DOMAIN rows) /\ Added(rows, v, a) = SumFunctionOnSet(g, DOMAIN rows)
  BY DEF Added
<1> HIDE DEF f, g
<1> QED
  BY <1>1, <1>2

\* The property's own sum, over the holds that are open, is this one.
LEMMA ClaimedIsOpen ==
    ASSUME NEW table, IsFiniteSet(DOMAIN table), \A h \in DOMAIN table : table[h].amount \in Int, NEW a,
           NEW open, open = {h \in DOMAIN table : table[h].account = a /\ table[h].state \in {"HELD", "UNKNOWN"}}
    PROVE  Claimed(table, a) = SumFunctionOnSet([h \in open |-> table[h].amount], open)
<1> DEFINE D == DOMAIN table
           f == [h \in D |-> Weight(table[h], a)]
           g == [h \in open |-> table[h].amount]
<1>1. open \subseteq D /\ IsFiniteSet(D) /\ IsFiniteSet(open)
  <2>1. open \in SUBSET D
    OBVIOUS
  <2> QED
    BY <2>1, FS_Subset
<1>2. \A h \in D : f[h] \in Int
  BY WeightType
<1>3. \A h \in D \ open : f[h] = 0
  BY DEF Weight
<1>4. \A h \in open : f[h] = g[h]
  BY DEF Weight
<1>5. Claimed(table, a) = SumFunctionOnSet(f, D)
  BY DEF Claimed
<1> HIDE DEF f, g, D
<1>6. SumFunctionOnSet(f, D) = SumFunctionOnSet(f, open)
  BY <1>1, <1>2, <1>3, SumWithin
<1>7. SumFunctionOnSet(f, open) = SumFunctionOnSet(g, open)
  BY <1>1, <1>4, SumSame
<1>8. Claimed(table, a) = SumFunctionOnSet(g, open)
  BY <1>5, <1>6, <1>7
<1> QED
  BY <1>8 DEF g

------------------------------------------------------------------------------
(* The ledger: requests *)

\* A request that opens with rows that fit what it has read.
LEMMA ChangeKeeps ==
    ASSUME LInv, NEW c \in Client, NEW new, NEW posts, NEW changed, Change(c, new, posts, changed),
           DOMAIN new \subseteq DOMAIN ledger, \A a \in DOMAIN new : new[a] \in Money,
           IsFiniteSet(DOMAIN posts),
           \A id \in DOMAIN posts : /\ Listed(posts[id].entries)
                                    /\ posts[id].state = "POSTED"
                                    /\ AccountsOf(posts[id].entries) \subseteq DOMAIN new,
           \A a \in DOMAIN new : new[a].balance = ledger[a].balance + Made(posts, a),
           IsFiniteSet(DOMAIN changed),
           \A h \in DOMAIN changed : changed[h].amount \in Int /\ changed[h].account \in DOMAIN ledger,
           \A a \in LedgerAccount : Added(changed, holds, a) =
               IF a \in DOMAIN new THEN new[a].reserved - ledger[a].reserved ELSE 0
    PROVE  LInv'
<1> PICK r : r = [op |-> "ledger", loaded |-> [a \in DOMAIN new |-> ledger[a]],
                  new |-> new, posts |-> posts, holds |-> changed]
  OBVIOUS
<1>1. /\ r.op = "ledger" /\ r.new = new /\ r.posts = posts /\ r.holds = changed
      /\ DOMAIN r.loaded = DOMAIN new /\ \A a \in DOMAIN new : r.loaded[a] = ledger[a]
  OBVIOUS
<1>2. req' = [req EXCEPT ![c] = r] /\ UNCHANGED bookVars /\ Free(DOMAIN new, DOMAIN changed)
  BY DEF Change, Open
<1>3. Locked(r) /\ Posting(r) /\ Reserving(r)
  BY <1>1 DEF Locked, Posting, Reserving
<1>4. (Locked(r) /\ Posting(r) /\ Reserving(r))'
  BY <1>2, <1>3 DEF Locked, Posting, Reserving, bookVars
<1>5. DOMAIN req' = Client /\ req'[c] = r /\ \A d \in Client \ {c} : req'[d] = req[d]
  BY <1>2 DEF LInv
<1>6. Works(c)'
  BY <1>4, <1>5 DEF Works
<1>7. ASSUME NEW d \in Client \ {c} PROVE Works(d)'
  <2>1. \A s : (Locked(s) /\ Posting(s) /\ Reserving(s)) => (Locked(s) /\ Posting(s) /\ Reserving(s))'
    BY <1>2 DEF Locked, Posting, Reserving, bookVars
  <2>2. req'[d] = req[d] /\ Works(d)
    BY <1>5 DEF LInv
  <2> QED
    BY <2>1, <2>2 DEF Works
<1>8. ASSUME NEW d \in Client \ {c} PROVE LocksApart(c, d)' /\ LocksApart(d, c)'
  <2>1. req[d].op = "ledger" => DOMAIN req[d].loaded \cap DOMAIN new = {} /\ DOMAIN req[d].holds \cap DOMAIN changed = {}
    BY <1>2 DEF Free
  <2> QED
    BY <1>1, <1>5, <2>1 DEF LocksApart
<1>9. \A d, e \in Client : d # e => LocksApart(d, e)'
  BY <1>5, <1>8 DEF LInv, LocksApart
<1>10. (Accounts /\ Journals /\ Holding /\ Explained)'
  BY <1>2 DEF LInv, bookVars, Accounts, Journals, Holding, Explained, LedgerBalancesExplained, Reconstructed
<1> QED
  BY <1>5, <1>6, <1>7, <1>9, <1>10 DEF LInv

\* What a journal that may be posted is.
LEMMA PostableRows ==
    ASSUME LInv, NEW entries, Postable(entries), Listed(entries)
    PROVE  /\ AccountsOf(entries) \subseteq DOMAIN ledger
           /\ DOMAIN Posted(entries) = AccountsOf(entries)
           /\ \A a \in AccountsOf(entries) :
                /\ Posted(entries)[a] \in Money
                /\ Posted(entries)[a].balance = ledger[a].balance + Effect(entries, Len(entries), a)
                /\ Posted(entries)[a].reserved = ledger[a].reserved
<1>1. AccountsOf(entries) \subseteq DOMAIN ledger
  BY DEF Postable
<1>2. DOMAIN Posted(entries) = AccountsOf(entries)
  BY DEF Posted
<1>3. ASSUME NEW a \in AccountsOf(entries)
      PROVE  /\ Posted(entries)[a] \in Money
             /\ Posted(entries)[a].balance = ledger[a].balance + Effect(entries, Len(entries), a)
             /\ Posted(entries)[a].reserved = ledger[a].reserved
  <2> PICK n : n = Effect(entries, Len(entries), a)
    OBVIOUS
  <2>1. n \in Int
    BY EffectType
  <2>2. ledger[a] \in Money
    BY <1>1 DEF LInv, Accounts
  <2>3. Posted(entries)[a] = [ledger[a] EXCEPT !.balance = @ + n]
    BY DEF Posted
  <2> QED
    BY <2>1, <2>2, <2>3 DEF Money
<1> QED
  BY <1>1, <1>2, <1>3

\* A journal, whatever it reverses, is written with its balances.
LEMMA JournalKeeps ==
    ASSUME LInv, NEW c \in Client, NEW id, NEW entries, NEW reverses, Postable(entries), Listed(entries),
           Change(c, Posted(entries), OneRow(id, Row(entries, "POSTED", reverses)), <<>>)
    PROVE  LInv'
<1> PICK new : new = Posted(entries)
  OBVIOUS
<1> PICK posts : posts = OneRow(id, Row(entries, "POSTED", reverses))
  OBVIOUS
<1>1. /\ DOMAIN posts = {id}
      /\ posts[id].entries = entries /\ posts[id].state = "POSTED"
  BY DEF OneRow, Row
<1>2. IsFiniteSet(DOMAIN posts) /\ PostedOf(posts) = {id}
  BY <1>1, FS_Singleton DEF PostedOf
<1>3. \A a : Made(posts, a) = Effect(entries, Len(entries), a)
  BY <1>1, <1>2, MadeByOne
<1>4. /\ DOMAIN new \subseteq DOMAIN ledger /\ DOMAIN new = AccountsOf(entries)
      /\ \A a \in DOMAIN new : /\ new[a] \in Money
                               /\ new[a].balance = ledger[a].balance + Effect(entries, Len(entries), a)
                               /\ new[a].reserved = ledger[a].reserved
  BY PostableRows
<1>5. IsFiniteSet(DOMAIN <<>>) /\ DOMAIN <<>> = {}
  BY NoRows
<1>6. \A a \in LedgerAccount : Added(<<>>, holds, a) =
          IF a \in DOMAIN new THEN new[a].reserved - ledger[a].reserved ELSE 0
  <2> TAKE a \in LedgerAccount
  <2>1. a \in DOMAIN new => new[a].reserved - ledger[a].reserved = 0
    BY <1>4 DEF Money
  <2> QED
    BY <2>1, NothingAdded
<1>7. Change(c, new, posts, <<>>)
  OBVIOUS
<1> QED
  BY <1>1, <1>2, <1>3, <1>4, <1>5, <1>6, <1>7, ChangeKeeps

LEMMA EntriesAreListed == ASSUME NEW entries \in Seq(EntryRow) PROVE Listed(entries)
<1>1. Len(entries) \in Nat /\ DOMAIN entries = 1 .. Len(entries)
  BY LenProperties
<1>2. \A i \in DOMAIN entries : entries[i] \in EntryRow
  BY <1>1, ElementOfSeq
<1>3. \A e \in EntryRow : e.amount \in Int
  BY DEF EntryRow
<1> QED
  BY <1>1, <1>2, <1>3 DEF Listed

\* A function on an initial segment of the numbers is a sequence.
LEMMA SegmentIsSeq ==
    ASSUME NEW f, NEW m \in Nat, DOMAIN f = 1 .. m, NEW E, f \in [1 .. m -> E]
    PROVE  Len(f) \in Nat /\ DOMAIN f = 1 .. Len(f)
<1>1. f \in Seq(E)
  BY SeqDef, Zenon
<1> QED
  BY <1>1, LenProperties

LEMMA ReadJournalInv ==
    ASSUME LInv, NEW c \in Client, NEW j, NEW entries \in Seq(EntryRow), ReadJournal(c, j, entries)
    PROVE  LInv'
<1> PICK id : id = <<j, "all">>
  OBVIOUS
<1>1. Postable(entries) /\ Change(c, Posted(entries), OneRow(id, Row(entries, "POSTED", NoJournal)), <<>>)
  BY DEF ReadJournal
<1> QED
  BY <1>1, EntriesAreListed, JournalKeeps

LEMMA ReadTemplateInv ==
    ASSUME LInv, NEW c \in Client, NEW j, NEW t \in Template, NEW n \in Nat, NEW currency,
           ReadTemplate(c, j, t, n, currency)
    PROVE  LInv'
<1> PICK entries : entries = [i \in DOMAIN t |-> [account |-> t[i].account, direction |-> t[i].direction,
                                                  amount |-> n, currency |-> currency]]
  OBVIOUS
<1> PICK id : id = <<j, "all">>
  OBVIOUS
<1>1. Listed(entries)
  <2>1. t \in Seq(Range(t))
    BY TemplateAssumption
  <2>2. Len(t) \in Nat /\ DOMAIN t = 1 .. Len(t)
    BY <2>1
  <2> PICK m : m = Len(t)
    OBVIOUS
  <2> DEFINE E == {entries[i] : i \in 1 .. m}
  <2>3. DOMAIN entries = 1 .. m /\ entries \in [1 .. m -> E] /\ m \in Nat
    BY <2>2
  <2>5. Len(entries) \in Nat /\ DOMAIN entries = 1 .. Len(entries)
    <3> HIDE DEF E
    <3> QED
      BY <2>3, SegmentIsSeq
  <2> QED
    BY <2>5 DEF Listed
<1>2. Postable(entries) /\ Change(c, Posted(entries), OneRow(id, Row(entries, "POSTED", NoJournal)), <<>>)
  BY DEF ReadTemplate, ReadJournal
<1> QED
  BY <1>1, <1>2, JournalKeeps

LEMMA ReadReversalInv ==
    ASSUME LInv, NEW c \in Client, NEW original \in DOMAIN journal, NEW j, ReadReversal(c, original, j)
    PROVE  LInv'
<1> PICK given : given = journal[original].entries
  OBVIOUS
<1> PICK entries : entries = [i \in DOMAIN given |-> [given[i] EXCEPT !.direction = Opposite(@)]]
  OBVIOUS
<1> PICK id : id = <<j, "all">>
  OBVIOUS
<1>1. Listed(given)
  BY DEF LInv, Journals
<1>2. Postable(entries) /\ Change(c, Posted(entries), OneRow(id, Row(entries, "POSTED", original)), <<>>)
  BY DEF ReadReversal
<1>3. Listed(entries)
  <2> PICK m : m = Len(given)
    OBVIOUS
  <2> DEFINE E == {entries[i] : i \in 1 .. m}
  <2>1. DOMAIN entries = 1 .. m /\ entries \in [1 .. m -> E] /\ m \in Nat
    BY <1>1 DEF Listed
  <2>3. Len(entries) \in Nat /\ DOMAIN entries = 1 .. Len(entries)
    <3> HIDE DEF E
    <3> QED
      BY <2>1, SegmentIsSeq
  <2>4. \A i \in DOMAIN entries : entries[i].amount \in Int
    <3> TAKE i \in DOMAIN entries
    <3>1. i \in DOMAIN given /\ given[i].amount \in Int
      BY <1>1 DEF Listed
    <3>2. entries[i] = [given[i] EXCEPT !.direction = Opposite(@)]
      BY <3>1
    <3>3. entries[i].amount = given[i].amount
      BY <3>2
    <3> QED
      BY <3>1, <3>3
  <2> QED
    BY <2>3, <2>4 DEF Listed
<1> QED
  BY <1>2, <1>3, JournalKeeps

LEMMA ReadMultiCurrencyInv ==
    ASSUME LInv, NEW c \in Client, NEW j, NEW groups \in EntryGroups, IsFiniteSet(DOMAIN groups),
           \A cur \in DOMAIN groups : \A i \in DOMAIN groups[cur] : groups[cur][i].currency = cur,
           ReadMultiCurrency(c, j, groups)
    PROVE  LInv'
<1> DEFINE all == UNION {AccountsOf(groups[cur]) : cur \in DOMAIN groups}
<1>a. PICK new : new = [a \in all |-> Posted(groups[CurrencyAt[a]])[a]]
  OBVIOUS
<1>b. PICK posts : posts = [id \in {<<j, cur>> : cur \in DOMAIN groups} |-> Row(groups[id[2]], "POSTED", NoJournal)]
  OBVIOUS
<1>1. Change(c, new, posts, <<>>) /\ \A cur \in DOMAIN groups : Postable(groups[cur])
  BY <1>a, <1>b DEF ReadMultiCurrency
<1>2. \A cur \in DOMAIN groups : groups[cur] \in Seq(EntryRow)
  BY DEF EntryGroups
<1>3. \A cur \in DOMAIN groups : Listed(groups[cur])
  BY <1>2, EntriesAreListed
<1>4. \A cur \in DOMAIN groups : \A a \in AccountsOf(groups[cur]) : CurrencyAt[a] = cur
  BY <1>1 DEF Postable, AccountsOf
<1>5. /\ DOMAIN posts = {<<j, cur>> : cur \in DOMAIN groups}
      /\ \A cur \in DOMAIN groups : posts[<<j, cur>>].entries = groups[cur] /\ posts[<<j, cur>>].state = "POSTED"
  BY <1>b DEF Row
<1>6. IsFiniteSet(DOMAIN posts)
  <2> DEFINE names == {<<j, cur>> : cur \in DOMAIN groups}
             name == [cur \in DOMAIN groups |-> <<j, cur>>]
  <2>1. name \in Surjection(DOMAIN groups, names)
    BY DEF Surjection
  <2> HIDE DEF name, names
  <2>2. IsFiniteSet(names)
    BY <2>1, FS_Surjection
  <2> QED
    BY <1>5, <2>2 DEF names
<1>7. PostedOf(posts) = DOMAIN posts
  BY <1>5 DEF PostedOf
<1>8. \A id \in DOMAIN posts : /\ Listed(posts[id].entries)
                               /\ posts[id].state = "POSTED"
                               /\ AccountsOf(posts[id].entries) \subseteq DOMAIN new
  BY <1>3, <1>5, <1>a
<1>9. ASSUME NEW a \in DOMAIN new
      PROVE  /\ a \in DOMAIN ledger /\ new[a] \in Money
             /\ new[a].balance = ledger[a].balance + Made(posts, a)
             /\ new[a].reserved = ledger[a].reserved
  <2> PICK cur \in DOMAIN groups : a \in AccountsOf(groups[cur])
    BY <1>a
  <2>1. CurrencyAt[a] = cur /\ new[a] = Posted(groups[cur])[a]
    BY <1>4, <1>a
  <2> PICK entries : entries = groups[cur]
    OBVIOUS
  <2>2. Postable(entries) /\ Listed(entries) /\ a \in AccountsOf(entries) /\ new[a] = Posted(entries)[a]
    BY <1>1, <1>3, <2>1
  <2>3. /\ AccountsOf(entries) \subseteq DOMAIN ledger
        /\ Posted(entries)[a] \in Money
        /\ Posted(entries)[a].balance = ledger[a].balance + Effect(entries, Len(entries), a)
        /\ Posted(entries)[a].reserved = ledger[a].reserved
    BY <2>2, PostableRows
  <2>4. Made(posts, a) = Effect(entries, Len(entries), a)
    <3> PICK x : x = <<j, cur>>
      OBVIOUS
    <3>1. x \in PostedOf(posts) /\ posts[x].entries = entries
      BY <1>5, <1>7
    <3>2. \A id \in PostedOf(posts) \ {x} : a \notin AccountsOf(posts[id].entries)
      BY <1>4, <1>5, <1>7, <2>1
    <3>3. \A id \in PostedOf(posts) : Listed(posts[id].entries)
      BY <1>7, <1>8
    <3> QED
      BY <1>6, <3>1, <3>2, <3>3, MadeByOne
  <2> QED
    BY <2>2, <2>3, <2>4
<1>10. IsFiniteSet(DOMAIN <<>>) /\ DOMAIN <<>> = {}
  BY NoRows
<1>11. \A a \in LedgerAccount : Added(<<>>, holds, a) =
           IF a \in DOMAIN new THEN new[a].reserved - ledger[a].reserved ELSE 0
  <2> TAKE a \in LedgerAccount
  <2>1. CASE a \in DOMAIN new
    <3>1. new[a] \in Money /\ new[a].reserved = ledger[a].reserved
      BY <1>9, <2>1
    <3>2. new[a].reserved - ledger[a].reserved = 0
      BY <3>1 DEF Money
    <3> QED
      BY <2>1, <3>2, NothingAdded
  <2> QED
    BY <2>1, NothingAdded
<1> HIDE DEF all
<1>12. DOMAIN new \subseteq DOMAIN ledger /\ \A a \in DOMAIN new : new[a] \in Money
  BY <1>9
<1>13. \A a \in DOMAIN new : new[a].balance = ledger[a].balance + Made(posts, a)
  BY <1>9
<1>14. Change(c, new, posts, <<>>)
  BY <1>1
<1>15. \A h \in DOMAIN <<>> : <<>>[h].amount \in Int /\ <<>>[h].account \in DOMAIN ledger
  BY <1>10
<1> QED
  BY <1>6, <1>8, <1>10, <1>11, <1>12, <1>13, <1>14, <1>15, ChangeKeeps

\* A request that posts nothing and changes one hold, and the account it is on.
LEMMA HoldKeeps ==
    ASSUME LInv, NEW c \in Client, NEW new, NEW h, NEW row, Change(c, new, <<>>, OneRow(h, row)),
           DOMAIN new \subseteq DOMAIN ledger,
           \A a \in DOMAIN new : new[a] \in Money /\ new[a].balance = ledger[a].balance,
           row.amount \in Int, row.account \in DOMAIN ledger,
           \A a \in LedgerAccount : Weight(row, a) - Before(holds, h, a) =
               IF a \in DOMAIN new THEN new[a].reserved - ledger[a].reserved ELSE 0
    PROVE  LInv'
<1> PICK changed : changed = OneRow(h, row)
  OBVIOUS
<1> PICK table : table = holds
  OBVIOUS
<1>1. DOMAIN changed = {h} /\ changed[h] = row
  BY DEF OneRow
<1>2. IsFiniteSet(DOMAIN changed) /\ IsFiniteSet(DOMAIN <<>>) /\ DOMAIN <<>> = {}
  <2>1. IsFiniteSet({h})
    BY FS_Singleton
  <2> QED
    BY <1>1, <2>1, NoRows
<1>3. h \in DOMAIN table => table[h].amount \in Int
  BY DEF LInv, Holding
<1>4. \A a : Added(OneRow(h, row), table, a) = Weight(row, a) - Before(table, h, a)
  BY <1>3, AddedByOne
<1>5. \A a \in LedgerAccount : Added(changed, holds, a) =
          IF a \in DOMAIN new THEN new[a].reserved - ledger[a].reserved ELSE 0
  BY <1>4
<1>6. \A a \in DOMAIN new : new[a].balance = ledger[a].balance + Made(<<>>, a)
  <2> TAKE a \in DOMAIN new
  <2>1. ledger[a].balance \in Int
    BY DEF LInv, Accounts, Money
  <2> QED
    BY <2>1, NothingMade
<1> QED
  BY <1>1, <1>2, <1>5, <1>6, ChangeKeeps

LEMMA ReadCreateHoldInv ==
    ASSUME LInv, NEW c \in Client, NEW h, NEW a, NEW n \in Nat, ReadCreateHold(c, h, a, n)
    PROVE  LInv'
<1>a. PICK funds : funds = [ledger[a] EXCEPT !.reserved = @ + n]
  OBVIOUS
<1>b. PICK new : new = OneRow(a, funds)
  OBVIOUS
<1>c. PICK row : row = [account |-> a, amount |-> n, state |-> "HELD", version |-> 1]
  OBVIOUS
<1>1. a \in DOMAIN ledger /\ h \notin DOMAIN holds /\ Change(c, new, <<>>, OneRow(h, row))
  BY <1>a, <1>b, <1>c DEF ReadCreateHold
<1>2. ledger[a] \in Money
  BY <1>1 DEF LInv, Accounts
<1>3. funds \in Money /\ funds.balance = ledger[a].balance /\ funds.reserved = ledger[a].reserved + n
  BY <1>2, <1>a DEF Money
<1>4. DOMAIN new = {a} /\ new[a] = funds
  BY <1>b DEF OneRow
<1>5. \A b : Weight(row, b) - Before(holds, h, b) = IF b \in DOMAIN new THEN new[b].reserved - ledger[b].reserved ELSE 0
  <2> TAKE b
  <2>1. Before(holds, h, b) = 0
    BY <1>1 DEF Before
  <2>2. Weight(row, b) = IF b = a THEN n ELSE 0
    BY <1>c DEF Weight
  <2>3. ledger[a].reserved \in Int
    BY <1>2 DEF Money
  <2>4. CASE b = a
    <3>1. b \in DOMAIN new /\ new[b].reserved - ledger[b].reserved = n
      BY <1>2, <1>3, <1>4, <2>3, <2>4
    <3> QED
      BY <2>1, <2>2, <2>4, <3>1
  <2>5. CASE b # a
    BY <1>4, <2>1, <2>2, <2>5
  <2> QED
    BY <2>4, <2>5
<1>6. row.amount \in Int /\ row.account \in DOMAIN ledger
  BY <1>1, <1>c
<1>7. /\ DOMAIN new \subseteq DOMAIN ledger
      /\ \A b \in DOMAIN new : new[b] \in Money /\ new[b].balance = ledger[b].balance
  BY <1>1, <1>3, <1>4
<1>8. Change(c, new, <<>>, OneRow(h, row))
  BY <1>1
<1>9. \A b \in LedgerAccount : Weight(row, b) - Before(holds, h, b) =
          IF b \in DOMAIN new THEN new[b].reserved - ledger[b].reserved ELSE 0
  BY <1>5
<1> QED
  BY <1>6, <1>7, <1>8, <1>9, HoldKeeps

LEMMA ReadTransitionHoldInv ==
    ASSUME LInv, NEW c \in Client, NEW h, NEW state \in {"CONSUMED", "RELEASED", "EXPIRED", "UNKNOWN"}, NEW version,
           ReadTransitionHold(c, h, state, version)
    PROVE  LInv'
<1> PICK row : row = Moved(h, state)
  OBVIOUS
<1> PICK a : a = holds[h].account
  OBVIOUS
<1> PICK n : n = holds[h].amount
  OBVIOUS
<1>1. h \in DOMAIN holds /\ holds[h].state = "HELD"
  BY DEF ReadTransitionHold
<1>2. n \in Int /\ a \in DOMAIN ledger
  BY <1>1 DEF LInv, Holding
<1>3. row.account = a /\ row.amount = n /\ row.state = state
  BY DEF Moved
<1>4. \A b : Before(holds, h, b) = IF b = a THEN n ELSE 0
  BY <1>1 DEF Before, Weight
<1>5. \A b : Weight(row, b) = IF b = a /\ state = "UNKNOWN" THEN n ELSE 0
  BY <1>3 DEF Weight
<1>6. CASE state = "UNKNOWN"
  <2> PICK new : new = <<>>
    OBVIOUS
  <2>1. Change(c, new, <<>>, OneRow(h, row)) /\ DOMAIN new = {}
    BY <1>6 DEF ReadTransitionHold
  <2>2. \A b : Weight(row, b) - Before(holds, h, b) = 0
    BY <1>2, <1>4, <1>5, <1>6
  <2> QED
    BY <1>2, <1>3, <2>1, <2>2, HoldKeeps
<1>7. CASE state # "UNKNOWN"
  <2>a. PICK funds : funds = [ledger[a] EXCEPT !.reserved = @ - n]
    OBVIOUS
  <2>b. PICK new : new = OneRow(a, funds)
    OBVIOUS
  <2>1. Change(c, new, <<>>, OneRow(h, row))
    BY <1>7, <2>a, <2>b DEF ReadTransitionHold
  <2>2. ledger[a] \in Money
    BY <1>2 DEF LInv, Accounts
  <2>3. funds \in Money /\ funds.balance = ledger[a].balance /\ funds.reserved = ledger[a].reserved - n
    BY <1>2, <2>2, <2>a DEF Money
  <2>4. DOMAIN new = {a} /\ new[a] = funds
    BY <2>b DEF OneRow
  <2>5. \A b : Weight(row, b) - Before(holds, h, b) = IF b \in DOMAIN new THEN new[b].reserved - ledger[b].reserved ELSE 0
    <3> TAKE b
    <3>1. ledger[a].reserved \in Int
      BY <2>2 DEF Money
    <3>2. CASE b = a
      <4>1. b \in DOMAIN new /\ new[b].reserved - ledger[b].reserved = 0 - n
        BY <1>2, <2>3, <2>4, <3>1, <3>2
      <4> QED
        BY <1>2, <1>4, <1>5, <1>7, <3>2, <4>1
    <3>3. CASE b # a
      BY <1>4, <1>5, <2>4, <3>3
    <3> QED
      BY <3>2, <3>3
  <2>6. /\ DOMAIN new \subseteq DOMAIN ledger
        /\ \A b \in DOMAIN new : new[b] \in Money /\ new[b].balance = ledger[b].balance
    BY <1>2, <2>3, <2>4
  <2>7. \A b \in LedgerAccount : Weight(row, b) - Before(holds, h, b) =
            IF b \in DOMAIN new THEN new[b].reserved - ledger[b].reserved ELSE 0
    BY <2>5
  <2>8. row.amount \in Int /\ row.account \in DOMAIN ledger
    BY <1>2, <1>3
  <2> QED
    BY <2>1, <2>6, <2>7, <2>8, HoldKeeps
<1> QED
  BY <1>6, <1>7

LEMMA ReadExpireDueInv ==
    ASSUME LInv, NEW c \in Client, ReadExpireDue(c)
    PROVE  LInv'
<1> PICK expired : expired = {h \in due : holds[h].state = "HELD"}
  OBVIOUS
<1> PICK changed : changed = [h \in expired |-> Moved(h, "UNKNOWN")]
  OBVIOUS
<1> PICK new : new = <<>>
  OBVIOUS
<1> PICK table : table = holds
  OBVIOUS
<1>1. Change(c, new, <<>>, changed) /\ DOMAIN changed = expired
  BY DEF ReadExpireDue
<1>2. DOMAIN new = {} /\ DOMAIN <<>> = {} /\ IsFiniteSet({})
  BY FS_EmptySet
<1>3. expired \subseteq DOMAIN table /\ IsFiniteSet(expired)
  <2>1. expired \in SUBSET DOMAIN table /\ IsFiniteSet(DOMAIN table)
    BY DEF LInv, Holding
  <2> QED
    BY <2>1, FS_Subset
<1>4. ASSUME NEW h \in expired
      PROVE  /\ h \in DOMAIN table /\ table[h].amount \in Int /\ changed[h].amount \in Int
             /\ changed[h].account \in DOMAIN ledger
             /\ \A a : Weight(changed[h], a) = Weight(table[h], a)
  <2>1. /\ changed[h].account = holds[h].account /\ changed[h].amount = holds[h].amount
        /\ changed[h].state = "UNKNOWN"
    BY DEF Moved
  <2>2. h \in DOMAIN holds /\ holds[h].state = "HELD"
    BY <1>3
  <2>3. holds[h].amount \in Int /\ holds[h].account \in DOMAIN ledger
    BY <2>2 DEF LInv, Holding
  <2> QED
    BY <2>1, <2>2, <2>3 DEF Weight
<1>5. \A a : Added(changed, table, a) = 0
  BY <1>1, <1>3, <1>4, AddedNothing
<1>6. \A a \in LedgerAccount : Added(changed, holds, a) =
          IF a \in DOMAIN new THEN new[a].reserved - ledger[a].reserved ELSE 0
  BY <1>2, <1>5
<1>7. IsFiniteSet(DOMAIN <<>>) /\ IsFiniteSet(DOMAIN changed)
  BY <1>1, <1>2, <1>3
<1>8. \A h \in DOMAIN changed : changed[h].amount \in Int /\ changed[h].account \in DOMAIN ledger
  BY <1>1, <1>4
<1>9. Change(c, new, <<>>, changed)
  BY <1>1
<1> QED
  BY <1>2, <1>6, <1>7, <1>8, <1>9, ChangeKeeps

\* A request whose rows nobody else has touched.
LEMMA WorksKept ==
    ASSUME NEW d \in Client, Works(d), req'[d] = req[d], DOMAIN ledger \subseteq DOMAIN ledger',
           req[d].op = "ledger" =>
               /\ \A a \in DOMAIN req[d].loaded : ledger'[a] = ledger[a]
               /\ \A h \in DOMAIN req[d].holds : /\ h \in DOMAIN holds <=> h \in DOMAIN holds'
                                                 /\ h \in DOMAIN holds => holds[h] = holds'[h]
    PROVE  Works(d)'
<1>1. SUFFICES ASSUME NEW r, r = req[d], r.op = "ledger" PROVE (Locked(r) /\ Posting(r) /\ Reserving(r))'
  BY DEF Works
<1>2. Locked(r) /\ Posting(r) /\ Reserving(r)
  BY <1>1 DEF Works
<1>3. Locked(r)' /\ Posting(r)'
  BY <1>1, <1>2 DEF Locked, Posting
<1>4. Reserving(r)'
  <2>1. PICK u : u = holds
    OBVIOUS
  <2>2. PICK v : v = holds'
    OBVIOUS
  <2>3. \A h \in DOMAIN r.holds : (h \in DOMAIN u <=> h \in DOMAIN v) /\ (h \in DOMAIN u => u[h] = v[h])
    BY <1>1, <2>1, <2>2
  <2>4. \A a : Added(r.holds, u, a) = Added(r.holds, v, a)
    BY <2>3, AddedSame
  <2>5. \A a : Added(r.holds, holds, a) = Added(r.holds, holds', a)
    BY <2>1, <2>2, <2>4
  <2> QED
    BY <1>2, <2>5 DEF Reserving
<1> QED
  BY <1>3, <1>4

\* The books change as they should, and no request but c's goes on.
LEMMA BooksKept ==
    ASSUME LInv, (Accounts /\ Journals /\ Holding /\ Explained)', DOMAIN ledger \subseteq DOMAIN ledger',
           NEW c \in Client, req' = req \/ req' = [req EXCEPT ![c] = Idle],
           \A d \in Client : req'[d].op = "ledger" =>
               /\ \A a \in DOMAIN req[d].loaded : ledger'[a] = ledger[a]
               /\ \A h \in DOMAIN req[d].holds : /\ h \in DOMAIN holds <=> h \in DOMAIN holds'
                                                 /\ h \in DOMAIN holds => holds[h] = holds'[h]
    PROVE  LInv'
<1>1. DOMAIN req' = Client
  BY DEF LInv
<1>2. \A d \in Client : req'[d] = req[d] \/ req'[d] = Idle
  BY DEF LInv
<1>3. \A d \in Client : req'[d] = Idle => req'[d].op # "ledger"
  BY DEF Idle
<1>4. ASSUME NEW d \in Client PROVE Works(d)'
  <2>1. CASE req'[d].op # "ledger"
    BY <2>1 DEF Works
  <2>2. CASE req'[d].op = "ledger"
    <3>1. req'[d] = req[d] /\ Works(d)
      BY <1>2, <1>3, <2>2 DEF LInv
    <3> QED
      BY <2>2, <3>1, WorksKept
  <2> QED
    BY <2>1, <2>2
<1>5. \A d, e \in Client : d # e => LocksApart(d, e)'
  BY <1>2, <1>3 DEF LInv, LocksApart
<1> QED
  BY <1>1, <1>4, <1>5 DEF LInv

LEMMA RollBackLedgerInv == ASSUME LInv, NEW c \in Client, RollBackLedger(c) PROVE LInv'
<1>1. req' = [req EXCEPT ![c] = Idle] /\ UNCHANGED bookVars
  BY DEF RollBackLedger, RollBack
<1>2. (Accounts /\ Journals /\ Holding /\ Explained)'
  BY <1>1 DEF LInv, bookVars, Accounts, Journals, Holding, Explained, LedgerBalancesExplained, Reconstructed
<1>3. ledger' = ledger /\ holds' = holds
  BY <1>1 DEF bookVars
<1> QED
  BY <1>1, <1>2, <1>3, BooksKept

\* The commit: the rows were locked, so all that was computed is written.
LEMMA CommitLedgerInv == ASSUME LInv, NEW c \in Client, CommitLedger(c) PROVE LInv'
<1>1. PICK r : r = req[c]
  OBVIOUS
<1>2. r.op = "ledger" /\ Locked(r) /\ Posting(r) /\ Reserving(r)
  BY <1>1 DEF CommitLedger, LInv, Works
<1>3. /\ DOMAIN r.posts \cap DOMAIN journal = {}
      /\ journal' = Put(r.posts, journal) /\ holds' = Put(r.holds, holds)
      /\ UNCHANGED <<opened, due>> /\ req' = [req EXCEPT ![c] = Idle]
  BY <1>1 DEF CommitLedger, Commit
<1>4. ledger' = [a \in DOMAIN ledger |-> IF a \in DOMAIN r.loaded THEN Flush(ledger[a], r.loaded[a], r.new[a]) ELSE ledger[a]]
  BY <1>1 DEF CommitLedger
<1>5. ASSUME NEW row \in Money, NEW n \in Money PROVE Flush(row, row, n) = n
  BY DEF Flush, Money
<1>6. /\ DOMAIN ledger' = DOMAIN ledger
      /\ \A a \in DOMAIN ledger : ledger'[a] = IF a \in DOMAIN r.loaded THEN r.new[a] ELSE ledger[a]
  <2>1. DOMAIN ledger' = DOMAIN ledger
    BY <1>4
  <2>2. ASSUME NEW a \in DOMAIN ledger, a \in DOMAIN r.loaded PROVE ledger'[a] = r.new[a]
    <3>1. r.new[a] \in Money /\ ledger[a] \in Money /\ r.loaded[a] = ledger[a]
      BY <1>2, <2>2 DEF Locked, LInv, Accounts
    <3> QED
      BY <1>4, <1>5, <2>2, <3>1
  <2>3. \A a \in DOMAIN ledger : a \notin DOMAIN r.loaded => ledger'[a] = ledger[a]
    BY <1>4
  <2> QED
    BY <2>1, <2>2, <2>3
<1>7. Accounts'
  BY <1>2, <1>3, <1>6 DEF LInv, Accounts, Locked
<1>8. Journals'
  <2>1. DOMAIN journal' = DOMAIN r.posts \cup DOMAIN journal
    BY <1>3 DEF Put
  <2>2. IsFiniteSet(DOMAIN journal')
    BY <1>2, <2>1, FS_Union, ZenonT(60) DEF LInv, Journals, Posting
  <2>3. \A id \in DOMAIN journal' : journal'[id] = IF id \in DOMAIN r.posts THEN r.posts[id] ELSE journal[id]
    BY <1>3, <2>1 DEF Put
  <2>4. ASSUME NEW id \in DOMAIN journal'
        PROVE  /\ Listed(journal'[id].entries)
               /\ journal'[id].state = "POSTED" => AccountsOf(journal'[id].entries) \subseteq DOMAIN ledger'
    <3>1. CASE id \in DOMAIN r.posts
      <4>1. journal'[id] = r.posts[id]
        BY <2>3, <3>1
      <4>2. Listed(r.posts[id].entries) /\ AccountsOf(r.posts[id].entries) \subseteq DOMAIN ledger'
        BY <1>2, <1>6, <3>1 DEF Posting, Locked
      <4> QED
        BY <4>1, <4>2
    <3>2. CASE id \notin DOMAIN r.posts
      <4>1. journal'[id] = journal[id] /\ id \in DOMAIN journal
        BY <2>1, <2>3, <3>2
      <4>2. /\ Listed(journal[id].entries)
            /\ journal[id].state = "POSTED" => AccountsOf(journal[id].entries) \subseteq DOMAIN ledger'
        BY <1>6, <4>1 DEF LInv, Journals
      <4> QED
        BY <4>1, <4>2
    <3> QED
      BY <3>1, <3>2
  <2> QED
    BY <2>2, <2>4 DEF Journals
<1>9. Holding'
  <2>1. DOMAIN holds' = DOMAIN r.holds \cup DOMAIN holds
    BY <1>3 DEF Put
  <2>2. IsFiniteSet(DOMAIN holds')
    BY <1>2, <2>1, FS_Union DEF LInv, Holding, Reserving
  <2>3. \A h \in DOMAIN holds' : holds'[h] = IF h \in DOMAIN r.holds THEN r.holds[h] ELSE holds[h]
    BY <1>3, <2>1 DEF Put
  <2>4. \A h \in DOMAIN holds' : holds'[h].amount \in Int /\ holds'[h].account \in DOMAIN ledger'
    BY <1>2, <1>6, <2>1, <2>3 DEF LInv, Holding, Reserving
  <2> QED
    BY <1>3, <2>1, <2>2, <2>4 DEF LInv, Holding
<1>10. LedgerBalancesExplained'
  <2>1. PICK t : t = journal
    OBVIOUS
  <2>2. PICK p : p = r.posts
    OBVIOUS
  <2>3. /\ IsFiniteSet(DOMAIN p) /\ IsFiniteSet(DOMAIN t) /\ DOMAIN p \cap DOMAIN t = {}
        /\ \A id \in PostedOf(p) : Listed(p[id].entries) /\ AccountsOf(p[id].entries) \subseteq DOMAIN r.loaded
        /\ \A id \in PostedOf(t) : Listed(t[id].entries)
    BY <1>2, <1>3, <2>1, <2>2 DEF Posting, LInv, Journals, PostedOf
  <2>4. \A a : Made(Put(p, t), a) = Made(t, a) + Made(p, a)
    BY <2>3, MadeOfBoth
  <2>5. \A a : a \notin DOMAIN r.loaded => Made(p, a) = 0
    BY <2>3, MadeElsewhere
  <2>6. ASSUME NEW a \in DOMAIN ledger PROVE ledger'[a].balance = opened[a] + Made(Put(p, t), a)
    <3>1. ledger[a].balance = opened[a] + Made(t, a)
      BY <2>1 DEF LInv, Explained, LedgerBalancesExplained, Reconstructed, Made
    <3>2. opened[a] \in Int /\ ledger[a].balance \in Int
      BY DEF LInv, Accounts, Money
    <3>3. Made(t, a) \in Int /\ Made(p, a) \in Int
      BY <2>3, MadeType
    <3>4. CASE a \in DOMAIN r.loaded
      <4>1. ledger'[a].balance = ledger[a].balance + Made(p, a)
        BY <1>2, <1>6, <2>2, <3>4 DEF Posting, Locked
      <4> QED
        BY <2>4, <3>1, <3>2, <3>3, <4>1
    <3>5. CASE a \notin DOMAIN r.loaded
      <4>1. ledger'[a].balance = ledger[a].balance /\ Made(p, a) = 0
        BY <1>6, <2>5, <3>5
      <4> QED
        BY <2>4, <3>1, <3>2, <3>3, <4>1
    <3> QED
      BY <3>4, <3>5
  <2>7. journal' = Put(p, t) /\ opened' = opened
    BY <1>3, <2>1, <2>2
  <2>8. \A a : Reconstructed(a)' = Made(journal', a)
    BY DEF Reconstructed, Made
  <2> QED
    BY <1>6, <2>6, <2>7, <2>8 DEF LedgerBalancesExplained
<1>11. \A a \in DOMAIN ledger' : ledger'[a].reserved = Claimed(holds', a)
  <2>1. PICK t : t = holds
    OBVIOUS
  <2>2. PICK p : p = r.holds
    OBVIOUS
  <2>3. /\ IsFiniteSet(DOMAIN p) /\ IsFiniteSet(DOMAIN t)
        /\ \A h \in DOMAIN p : p[h].amount \in Int
        /\ \A h \in DOMAIN t : t[h].amount \in Int
    BY <1>2, <2>1, <2>2 DEF Reserving, LInv, Holding
  <2>4. \A a : Claimed(Put(p, t), a) = Claimed(t, a) + Added(p, t, a)
    BY <2>3, ClaimedOfBoth
  <2>5. ASSUME NEW a \in DOMAIN ledger PROVE ledger'[a].reserved = Claimed(Put(p, t), a)
    <3>1. a \in LedgerAccount /\ ledger[a] \in Money
      BY DEF LInv, Accounts
    <3>2. ledger[a].reserved = Claimed(t, a)
      BY <2>1 DEF LInv, Explained
    <3>3. Added(p, t, a) = IF a \in DOMAIN r.loaded THEN r.new[a].reserved - r.loaded[a].reserved ELSE 0
      BY <1>2, <2>1, <2>2, <3>1 DEF Reserving
    <3>4. CASE a \in DOMAIN r.loaded
      <4>1. r.loaded[a] = ledger[a] /\ r.new[a] \in Money /\ ledger'[a] = r.new[a]
        BY <1>2, <1>6, <3>4 DEF Locked
      <4>2. ledger[a].reserved \in Int /\ r.new[a].reserved \in Int
        BY <3>1, <4>1 DEF Money
      <4> QED
        BY <2>4, <3>2, <3>3, <3>4, <4>1, <4>2
    <3>5. CASE a \notin DOMAIN r.loaded
      <4>1. ledger'[a] = ledger[a] /\ ledger[a].reserved \in Int
        BY <1>6, <3>1, <3>5 DEF Money
      <4> QED
        BY <2>4, <3>2, <3>3, <3>5, <4>1
    <3> QED
      BY <3>4, <3>5
  <2>6. holds' = Put(p, t)
    BY <1>3, <2>1, <2>2
  <2> QED
    BY <1>6, <2>5, <2>6
<1>12. ASSUME NEW d \in Client, req'[d].op = "ledger"
       PROVE  /\ \A a \in DOMAIN req[d].loaded : ledger'[a] = ledger[a]
              /\ \A h \in DOMAIN req[d].holds : /\ h \in DOMAIN holds <=> h \in DOMAIN holds'
                                                /\ h \in DOMAIN holds => holds[h] = holds'[h]
  <2>1. d # c /\ req'[d] = req[d]
    BY <1>3, <1>12 DEF LInv, Idle
  <2>2. DOMAIN r.loaded \cap DOMAIN req[d].loaded = {} /\ DOMAIN r.holds \cap DOMAIN req[d].holds = {}
    BY <1>1, <1>2, <1>12, <2>1 DEF LInv, LocksApart
  <2>3. DOMAIN req[d].loaded \subseteq DOMAIN ledger
    BY <1>12, <2>1 DEF LInv, Works, Locked
  <2>4. \A h \in DOMAIN req[d].holds : /\ h \in DOMAIN holds <=> h \in DOMAIN holds'
                                       /\ h \in DOMAIN holds => holds[h] = holds'[h]
    BY <1>3, <2>2 DEF Put
  <2> QED
    BY <1>6, <2>2, <2>3, <2>4
<1>13. (Accounts /\ Journals /\ Holding /\ Explained)'
  BY <1>7, <1>8, <1>9, <1>10, <1>11 DEF Explained
<1> QED
  BY <1>3, <1>6, <1>12, <1>13, BooksKept

\* An endpoint that is done at once and leaves the accounts and holds alone.
LEMMA BesideTheBooks ==
    ASSUME LInv, NEW c \in Client, AtOnce(c), UNCHANGED <<ledger, opened, holds, due>>, Journals',
           \A a : Made(journal', a) = Made(journal, a)
    PROVE  LInv'
<1>1. req' = req
  BY DEF AtOnce
<1>2. Accounts' /\ Holding'
  BY DEF LInv, Accounts, Holding
<1>3. \A a : Reconstructed(a) = Made(journal, a) /\ Reconstructed(a)' = Made(journal', a)
  BY DEF Reconstructed, Made
<1>4. Explained'
  BY <1>3 DEF LInv, Explained, LedgerBalancesExplained
<1> QED
  BY <1>1, <1>2, <1>4, BooksKept

LEMMA CreateLedgerAccountInv ==
    ASSUME LInv, NEW c \in Client, NEW a \in LedgerAccount, NEW n \in Nat, CreateLedgerAccount(c, a, n)
    PROVE  LInv'
<1>1. /\ req' = req /\ a \notin DOMAIN ledger
      /\ ledger' = Put(OneRow(a, [balance |-> n, reserved |-> 0]), ledger)
      /\ opened' = Put(OneRow(a, n), opened)
      /\ UNCHANGED <<journal, holds, due>>
  BY DEF CreateLedgerAccount, AtOnce
<1>2. /\ DOMAIN ledger' = DOMAIN ledger \cup {a}
      /\ ledger'[a] = [balance |-> n, reserved |-> 0]
      /\ \A b \in DOMAIN ledger : ledger'[b] = ledger[b]
  BY <1>1 DEF Put, OneRow
<1>3. /\ DOMAIN opened' = DOMAIN ledger \cup {a}
      /\ opened'[a] = n
      /\ \A b \in DOMAIN ledger : opened'[b] = opened[b]
  BY <1>1 DEF Put, OneRow, LInv, Accounts
<1>4. Accounts'
  BY <1>2, <1>3 DEF LInv, Accounts, Money
<1>5. Journals' /\ Holding'
  BY <1>1, <1>2 DEF LInv, Journals, Holding
<1>6. Made(journal, a) = 0
  <2>1. PICK t : t = journal
    OBVIOUS
  <2>2. \A id \in PostedOf(t) : Listed(t[id].entries) /\ a \notin AccountsOf(t[id].entries)
    BY <1>1, <2>1 DEF LInv, Journals, PostedOf
  <2>3. Made(t, a) = 0
    BY <2>1, <2>2, MadeElsewhere DEF LInv, Journals
  <2> QED
    BY <2>1, <2>3
<1>7. Claimed(holds, a) = 0
  <2>1. PICK t : t = holds
    OBVIOUS
  <2>2. \A h \in DOMAIN t : t[h].account # a
    BY <1>1, <2>1 DEF LInv, Holding
  <2>3. Claimed(t, a) = 0
    BY <2>1, <2>2, ClaimedElsewhere DEF LInv, Holding
  <2> QED
    BY <2>1, <2>3
<1>8. \A b : Reconstructed(b)' = Made(journal, b) /\ Reconstructed(b) = Made(journal, b)
  BY <1>1 DEF Reconstructed, Made
<1>9. LedgerBalancesExplained'
  BY <1>2, <1>3, <1>6, <1>8 DEF LInv, Explained, LedgerBalancesExplained
<1>10. \A b \in DOMAIN ledger' : ledger'[b].reserved = Claimed(holds', b)
  BY <1>1, <1>2, <1>7 DEF LInv, Explained
<1>11. (Accounts /\ Journals /\ Holding /\ Explained)'
  BY <1>4, <1>5, <1>9, <1>10 DEF Explained
<1>12. ASSUME NEW d \in Client, req'[d].op = "ledger" PROVE \A b \in DOMAIN req[d].loaded : ledger'[b] = ledger[b]
  <2>1. DOMAIN req[d].loaded \subseteq DOMAIN ledger
    BY <1>1, <1>12 DEF LInv, Works, Locked
  <2> QED
    BY <1>2, <2>1
<1> QED
  BY <1>1, <1>2, <1>11, <1>12, BooksKept

LEMMA CreateDraftInv ==
    ASSUME LInv, NEW c \in Client, NEW j, NEW entries \in Seq(EntryRow), CreateDraft(c, j, entries)
    PROVE  LInv'
<1>1. PICK id : id = <<j, "all">>
  OBVIOUS
<1>2. PICK row : row = Row(entries, "DRAFT", NoJournal)
  OBVIOUS
<1>3. /\ AtOnce(c) /\ UNCHANGED <<ledger, opened, holds, due>> /\ id \notin DOMAIN journal
      /\ journal' = Put(OneRow(id, row), journal)
  BY <1>1, <1>2 DEF CreateDraft
<1>4. row.entries = entries /\ row.state = "DRAFT" /\ Listed(entries)
  BY <1>2, EntriesAreListed DEF Row
<1>5. /\ DOMAIN journal' = DOMAIN journal \cup {id}
      /\ journal'[id] = row
      /\ \A i \in DOMAIN journal : journal'[i] = journal[i]
  BY <1>3 DEF Put, OneRow
<1>6. Journals'
  <2>1. IsFiniteSet(DOMAIN journal')
    BY <1>5, FS_AddElement DEF LInv, Journals
  <2> QED
    BY <1>3, <1>4, <1>5, <2>1 DEF LInv, Journals
<1>7. \A a : Made(journal', a) = Made(journal, a)
  <2>1. PICK u : u = journal
    OBVIOUS
  <2>2. PICK v : v = journal'
    OBVIOUS
  <2>3. PostedOf(u) = PostedOf(v) /\ \A i \in PostedOf(u) : u[i].entries = v[i].entries
    BY <1>3, <1>4, <1>5, <2>1, <2>2 DEF PostedOf
  <2>4. IsFiniteSet(DOMAIN u)
    BY <2>1 DEF LInv, Journals
  <2>5. \A a : Made(u, a) = Made(v, a)
    BY <2>3, <2>4, MadeSame
  <2> QED
    BY <2>1, <2>2, <2>5
<1> QED
  BY <1>3, <1>6, <1>7, BesideTheBooks

LEMMA ValidateJournalInv ==
    ASSUME LInv, NEW c \in Client, NEW id, ValidateJournal(c, id)
    PROVE  LInv'
<1>1. /\ AtOnce(c) /\ UNCHANGED <<ledger, opened, holds, due>> /\ id \in DOMAIN journal
      /\ journal[id].state \in {"DRAFT", "VALIDATED"}
      /\ journal' = [journal EXCEPT ![id].state = "VALIDATED"]
  BY DEF ValidateJournal
<1>2. PICK row : row = [journal[id] EXCEPT !.state = "VALIDATED"]
  OBVIOUS
<1>3. /\ DOMAIN journal' = DOMAIN journal
      /\ journal'[id] = row
      /\ \A i \in DOMAIN journal : i # id => journal'[i] = journal[i]
  BY <1>1, <1>2
<1>4. row.entries = journal[id].entries /\ row.state # "POSTED"
  BY <1>2
<1>5. Journals'
  BY <1>1, <1>3, <1>4 DEF LInv, Journals
<1>6. \A a : Made(journal', a) = Made(journal, a)
  <2>1. PICK u : u = journal
    OBVIOUS
  <2>2. PICK v : v = journal'
    OBVIOUS
  <2>3. PostedOf(u) = PostedOf(v) /\ \A i \in PostedOf(u) : u[i].entries = v[i].entries
    BY <1>1, <1>3, <1>4, <2>1, <2>2 DEF PostedOf
  <2>4. IsFiniteSet(DOMAIN u)
    BY <2>1 DEF LInv, Journals
  <2>5. \A a : Made(u, a) = Made(v, a)
    BY <2>3, <2>4, MadeSame
  <2> QED
    BY <2>1, <2>2, <2>5
<1> QED
  BY <1>1, <1>5, <1>6, BesideTheBooks

------------------------------------------------------------------------------
(* The ledger: the theorems *)

LEMMA InitLedger ==
    ASSUME NEW A \in SUBSET LedgerAccount, NEW opening \in [A -> Nat], LedgerInitially(opening),
           NEW allowed \in Nat, RequestsInit(allowed)
    PROVE  LInv
<1>1. /\ ledger = [a \in A |-> [balance |-> opening[a], reserved |-> 0]]
      /\ opened = opening /\ journal = <<>> /\ holds = <<>> /\ due = {}
      /\ req = [c \in Client |-> Idle]
  BY DEF LedgerInitially, RequestsInit
<1>2. Accounts
  BY <1>1 DEF Accounts, Money
<1>3. Journals /\ Holding
  BY <1>1, NoRows DEF Journals, Holding
<1>4. \A a : Made(journal, a) = 0
  BY <1>1, NothingMade
<1>5. \A a : Claimed(holds, a) = 0
  <2>1. \A a : Claimed(<<>>, a) = 0
    BY NoRows, ClaimedElsewhere
  <2> QED
    BY <1>1, <2>1
<1>6. \A a : Reconstructed(a) = Made(journal, a)
  BY DEF Reconstructed, Made
<1>7. Explained
  BY <1>1, <1>4, <1>5, <1>6 DEF Explained, LedgerBalancesExplained
<1>8. \A c \in Client : req[c].op # "ledger"
  BY <1>1 DEF Idle
<1> QED
  BY <1>1, <1>2, <1>3, <1>7, <1>8 DEF LInv, Works, LocksApart

LEMMA NextLedger == LInv /\ [LedgerNext]_<<requestVars, bookVars>> => LInv'
<1> SUFFICES ASSUME LInv, [LedgerNext]_<<requestVars, bookVars>> PROVE LInv'
  OBVIOUS
<1>1. ASSUME NEW h \in Hold, PassHoldExpiry(h) PROVE LInv'
  <2>1. UNCHANGED <<req, ledger, opened, journal, holds>> /\ due' = due \cup {h} /\ h \in DOMAIN holds
    BY <1>1 DEF PassHoldExpiry, requestVars
  <2>2. (Accounts /\ Journals /\ Explained)'
    BY <2>1 DEF LInv, Accounts, Journals, Explained, LedgerBalancesExplained, Reconstructed
  <2>3. Holding'
    BY <2>1 DEF LInv, Holding
  <2>4. \A c \in Client : Works(c)'
    BY <2>1, WorksKept DEF LInv
  <2>5. \A c, d \in Client : c # d => LocksApart(c, d)'
    BY <2>1 DEF LInv, LocksApart
  <2> QED
    BY <2>1, <2>2, <2>3, <2>4, <2>5 DEF LInv
<1>2. ASSUME NEW c \in Client, NEW j \in Journal, NEW groups \in EntryGroups,
             IsFiniteSet(DOMAIN groups), ReadMultiCurrency(c, j, groups),
             \A cur \in DOMAIN groups : \A i \in DOMAIN groups[cur] : groups[cur][i].currency = cur
      PROVE  LInv'
  BY <1>2, ReadMultiCurrencyInv
<1>3. ASSUME NEW c \in Client, NEW j \in Journal, NEW entries \in Seq(EntryRow),
             ReadJournal(c, j, entries) \/ CreateDraft(c, j, entries)
      PROVE  LInv'
  BY <1>3, ReadJournalInv, CreateDraftInv
<1>4. ASSUME NEW c \in Client, NEW j \in Journal, NEW t \in Template, NEW n \in Nat, NEW cur,
             ReadTemplate(c, j, t, n, cur)
      PROVE  LInv'
  BY <1>4, ReadTemplateInv
<1>5. ASSUME NEW c \in Client, NEW j \in Journal, NEW id \in DOMAIN journal, ReadReversal(c, id, j) PROVE LInv'
  BY <1>5, ReadReversalInv
<1>6. ASSUME NEW c \in Client, NEW id \in DOMAIN journal, ValidateJournal(c, id) PROVE LInv'
  BY <1>6, ValidateJournalInv
<1>7. ASSUME NEW c \in Client, NEW a \in LedgerAccount, NEW n \in Nat, CreateLedgerAccount(c, a, n) PROVE LInv'
  BY <1>7, CreateLedgerAccountInv
<1>8. ASSUME NEW c \in Client, NEW h \in Hold, NEW a \in LedgerAccount, NEW n \in Nat, ReadCreateHold(c, h, a, n)
      PROVE  LInv'
  BY <1>8, ReadCreateHoldInv
<1>9. ASSUME NEW c \in Client, NEW h \in Hold, NEW state \in {"CONSUMED", "RELEASED", "EXPIRED", "UNKNOWN"},
             NEW v \in Nat, ReadTransitionHold(c, h, state, v)
      PROVE  LInv'
  BY <1>9, ReadTransitionHoldInv
<1>10. ASSUME NEW c \in Client, ReadExpireDue(c) \/ CommitLedger(c) \/ RollBackLedger(c) PROVE LInv'
  BY <1>10, ReadExpireDueInv, CommitLedgerInv, RollBackLedgerInv
<1>11. ASSUME NEW c \in Client,
              \/ \E p \in Period : OpenPeriod(c, p) \/ \E m, n \in Officer : ClosePeriod(c, p, m, n)
              \/ \E b \in Glb : PersistBatch(c, b) \/ \E state \in {"ACK", "REJECTED"} : RecordReceipt(c, b, state)
       PROVE  LInv'
  <2>1. AtOnce(c) /\ UNCHANGED <<ledger, opened, journal, holds, due>>
    BY <1>11 DEF OpenPeriod, ClosePeriod, PersistBatch, RecordReceipt
  <2>2. Journals'
    BY <2>1 DEF LInv, Journals
  <2> QED
    BY <2>1, <2>2, BesideTheBooks
<1>12. CASE UNCHANGED <<requestVars, bookVars>>
  BY <1>12 DEF requestVars, bookVars, LInv, Accounts, Journals, Holding, Explained, LedgerBalancesExplained,
      Reconstructed, Works, Locked, Posting, Reserving, LocksApart
<1> QED
  BY <1>1, <1>2, <1>3, <1>4, <1>5, <1>6, <1>7, <1>8, <1>9, <1>10, <1>11, <1>12 DEF LedgerNext

(* The invariant of the subledger: the books are explained, and what an open
   request has computed fits the rows it has locked. *)
THEOREM LedgerInvariance == LedgerSpec => []LInv
<1>1. ASSUME \E A \in SUBSET LedgerAccount : \E opening \in [A -> Nat] : LedgerInitially(opening),
             \E allowed \in Nat : RequestsInit(allowed)
      PROVE  LInv
  BY <1>1, InitLedger
<1> QED
  BY <1>1, NextLedger, PTL DEF LedgerSpec

(* trial_balance(): for any accounts, journals, reversals and holds, the stored
   balance of an account is its opening balance plus the POSTED entries. *)
THEOREM LedgerBalancesExplainedHolds == LedgerSpec => []LedgerBalancesExplained
<1>1. LInv => LedgerBalancesExplained
  BY DEF LInv, Explained
<1> QED
  BY <1>1, LedgerInvariance, PTL

\* What is reserved, told by the holds themselves.
LEMMA ReservedExplained == LInv => ReservedIsExplained
<1> SUFFICES ASSUME LInv PROVE ReservedIsExplained
  OBVIOUS
<1>1. PICK t : t = holds
  OBVIOUS
<1>2. IsFiniteSet(DOMAIN t) /\ \A h \in DOMAIN t : t[h].amount \in Int
  BY <1>1 DEF LInv, Holding
<1>3. ASSUME NEW a \in DOMAIN ledger,
             NEW open, open = {h \in DOMAIN holds : holds[h].account = a /\ holds[h].state \in {"HELD", "UNKNOWN"}}
      PROVE  ledger[a].reserved = SumFunctionOnSet([h \in open |-> holds[h].amount], open)
  <2>1. open = {h \in DOMAIN t : t[h].account = a /\ t[h].state \in {"HELD", "UNKNOWN"}}
    BY <1>1, <1>3
  <2>2. Claimed(t, a) = SumFunctionOnSet([h \in open |-> t[h].amount], open)
    BY <1>2, <2>1, ClaimedIsOpen
  <2>3. ledger[a].reserved = Claimed(t, a)
    BY <1>1 DEF LInv, Explained
  <2> QED
    BY <1>1, <2>2, <2>3
<1> QED
  BY <1>3 DEF ReservedIsExplained

(* transition() and expire_due(): what an account has reserved is the sum of its
   holds that are HELD or UNKNOWN. *)
THEOREM ReservedIsExplainedHolds == LedgerSpec => []ReservedIsExplained
  BY ReservedExplained, LedgerInvariance, PTL

------------------------------------------------------------------------------
(* The ledger: what the rows are *)

\* The journals and holds that a request is about to write are rows of their tables.
TypedJob(r) ==
    /\ \A id \in DOMAIN r.posts : r.posts[id] \in JournalRow
    /\ \A h \in DOMAIN r.holds : r.holds[h] \in HoldRow

TypedJobs == \A c \in Client : \A r \in {req[c]} : r.op = "ledger" => TypedJob(r)

LTypes == LedgerTypeOK /\ TypedJobs

\* A journal names what it reverses for good: no journal is removed.
LEMMA JournalRowsKept ==
    ASSUME DOMAIN journal \subseteq DOMAIN journal'
    PROVE  JournalRow \subseteq JournalRow'
  BY DEF JournalRow

LEMMA JobKept ==
    ASSUME NEW r, TypedJob(r), DOMAIN journal \subseteq DOMAIN journal'
    PROVE  TypedJob(r)'
<1>1. JournalRow \subseteq JournalRow'
  BY JournalRowsKept
<1> QED
  BY <1>1 DEF TypedJob, HoldRow

\* The other requests stay typed.
LEMMA JobsKept ==
    ASSUME LInv, TypedJobs, NEW c \in Client, NEW r, req' = [req EXCEPT ![c] = r],
           r.op = "ledger" => TypedJob(r)', DOMAIN journal \subseteq DOMAIN journal'
    PROVE  TypedJobs'
<1>1. DOMAIN req = Client
  BY DEF LInv
<1>2. \A d \in Client : req'[d] = IF d = c THEN r ELSE req[d]
  BY <1>1
<1> QED
  BY <1>2, JobKept DEF TypedJobs

LEMMA JobsStay ==
    ASSUME TypedJobs, UNCHANGED req, DOMAIN journal \subseteq DOMAIN journal'
    PROVE  TypedJobs'
  BY JobKept DEF TypedJobs

LEMMA SameBooksTyped == ASSUME LedgerTypeOK, UNCHANGED bookVars PROVE LedgerTypeOK'
  BY DEF LedgerTypeOK, bookVars, LedgerAccountRow, JournalRow, HoldRow, PeriodRow, GlBatchRow

\* A request that only reads, and will write rows of the tables.
LEMMA ChangeTyped ==
    ASSUME LInv, LTypes, NEW c \in Client, NEW new, NEW posts, NEW changed, Change(c, new, posts, changed),
           \A id \in DOMAIN posts : posts[id] \in JournalRow,
           \A h \in DOMAIN changed : changed[h] \in HoldRow
    PROVE  LTypes'
<1> PICK r : r = [op |-> "ledger", loaded |-> [a \in DOMAIN new |-> ledger[a]],
                  new |-> new, posts |-> posts, holds |-> changed]
  OBVIOUS
<1>1. r.posts = posts /\ r.holds = changed
  OBVIOUS
<1>2. req' = [req EXCEPT ![c] = r] /\ UNCHANGED bookVars
  BY DEF Change, Open
<1>3. TypedJob(r)
  BY <1>1 DEF TypedJob
<1>4. DOMAIN journal' = DOMAIN journal
  BY <1>2 DEF bookVars
<1>5. TypedJob(r)'
  BY <1>3, <1>4, JobKept
<1> QED
  BY <1>2, <1>4, <1>5, JobsKept, SameBooksTyped DEF LTypes

LEMMA JournalStates == {"DRAFT", "VALIDATED", "POSTED"} \subseteq ALLOWED_STATES["journals"]
  BY StatesOfOperations

\* A journal that is to be posted.
LEMMA PostedTyped ==
    ASSUME LInv, LTypes, NEW c \in Client, NEW id, NEW entries \in Seq(EntryRow),
           NEW reverses \in DOMAIN journal \cup {NoJournal},
           NEW new, Change(c, new, OneRow(id, Row(entries, "POSTED", reverses)), <<>>)
    PROVE  LTypes'
<1> PICK row : row = Row(entries, "POSTED", reverses)
  OBVIOUS
<1>1. row \in JournalRow
  BY JournalStates DEF JournalRow, Row
<1> PICK posts : posts = OneRow(id, row)
  OBVIOUS
<1>2. \A i \in DOMAIN posts : posts[i] \in JournalRow
  BY <1>1 DEF OneRow
<1>3. Change(c, new, posts, <<>>)
  OBVIOUS
<1>4. DOMAIN <<>> = {}
  BY NoRows
<1> QED
  BY <1>2, <1>3, <1>4, ChangeTyped

LEMMA PostableTyped ==
    ASSUME LInv, NEW entries, NEW m \in Nat, DOMAIN entries = 1 .. m,
           entries = [i \in 1 .. m |-> [account |-> entries[i].account, direction |-> entries[i].direction,
                                       amount |-> entries[i].amount, currency |-> entries[i].currency]],
           \A i \in 1 .. m : entries[i].amount \in Nat /\ entries[i].currency \in Range(CurrencyAt),
           Postable(entries)
    PROVE  entries \in Seq(EntryRow)
<1>1. ASSUME NEW i \in 1 .. m PROVE entries[i] \in EntryRow
  <2>1. entries[i].account \in LedgerAccount
    BY DEF Postable, AccountsOf, LInv, Accounts
  <2>2. entries[i].amount > 0 /\ entries[i].direction \in {"DEBIT", "CREDIT"}
    BY DEF Postable
  <2>3. entries[i] = [account |-> entries[i].account, direction |-> entries[i].direction,
                      amount |-> entries[i].amount, currency |-> entries[i].currency]
    BY Zenon
  <2>4. entries[i].amount \in Nat \ {0}
    BY <2>2
  <2> QED
    BY <2>1, <2>2, <2>3, <2>4 DEF EntryRow
<1>2. entries \in [1 .. m -> EntryRow]
  BY <1>1
<1> QED
  BY <1>2, SegmentSeq

LEMMA ReadJournalTyped ==
    ASSUME LInv, LTypes, NEW c \in Client, NEW j, NEW entries \in Seq(EntryRow), ReadJournal(c, j, entries)
    PROVE  LTypes'
<1>1. Change(c, Posted(entries), OneRow(<<j, "all">>, Row(entries, "POSTED", NoJournal)), <<>>)
  BY DEF ReadJournal
<1> QED
  BY <1>1, PostedTyped

LEMMA ReadTemplateTyped ==
    ASSUME LInv, LTypes, NEW c \in Client, NEW j, NEW t \in Template, NEW n \in Nat,
           NEW currency \in Range(CurrencyAt), ReadTemplate(c, j, t, n, currency)
    PROVE  LTypes'
<1> PICK entries : entries = [i \in DOMAIN t |-> [account |-> t[i].account, direction |-> t[i].direction,
                                                  amount |-> n, currency |-> currency]]
  OBVIOUS
<1>1. ReadJournal(c, j, entries)
  BY DEF ReadTemplate
<1>2. Len(t) \in Nat /\ DOMAIN t = 1 .. Len(t)
  BY TemplateAssumption, LenProperties
<1>3. /\ DOMAIN entries = 1 .. Len(t)
      /\ \A i \in 1 .. Len(t) : entries[i] = [account |-> t[i].account, direction |-> t[i].direction,
                                              amount |-> n, currency |-> currency]
  BY <1>2
<1>4. \A i \in 1 .. Len(t) :
        /\ entries[i].account = t[i].account /\ entries[i].direction = t[i].direction
        /\ entries[i].amount = n /\ entries[i].currency = currency
  BY <1>3
<1>5. entries = [i \in 1 .. Len(t) |-> [account |-> entries[i].account, direction |-> entries[i].direction,
                                       amount |-> entries[i].amount, currency |-> entries[i].currency]]
  BY <1>2, <1>3, <1>4
<1>6. Postable(entries)
  BY <1>1 DEF ReadJournal
<1>7. entries \in Seq(EntryRow)
  BY <1>2, <1>3, <1>4, <1>5, <1>6, PostableTyped
<1> QED
  BY <1>1, <1>7, ReadJournalTyped

LEMMA ReadReversalTyped ==
    ASSUME LInv, LTypes, NEW c \in Client, NEW id \in DOMAIN journal, NEW j, ReadReversal(c, id, j)
    PROVE  LTypes'
<1> PICK given : given = journal[id].entries
  OBVIOUS
<1> PICK entries : entries = [i \in DOMAIN given |-> [given[i] EXCEPT !.direction = Opposite(@)]]
  OBVIOUS
<1>1. Change(c, Posted(entries), OneRow(<<j, "all">>, Row(entries, "POSTED", id)), <<>>)
  BY DEF ReadReversal
<1>2. given \in Seq(EntryRow)
  BY DEF LTypes, LedgerTypeOK, JournalRow
<1>3. Len(given) \in Nat /\ DOMAIN given = 1 .. Len(given)
  BY <1>2, LenProperties
<1>4. \A i \in DOMAIN given : given[i] \in EntryRow
  BY <1>2, <1>3, ElementOfSeq
<1>5. \A e \in EntryRow : [e EXCEPT !.direction = Opposite(@)] \in EntryRow
  BY DEF EntryRow, Opposite
<1>6. entries \in [1 .. Len(given) -> EntryRow]
  BY <1>3, <1>4, <1>5
<1>7. entries \in Seq(EntryRow)
  BY <1>3, <1>6, SegmentSeq
<1> QED
  BY <1>1, <1>7, PostedTyped

LEMMA ReadMultiCurrencyTyped ==
    ASSUME LInv, LTypes, NEW c \in Client, NEW j, NEW groups \in EntryGroups, ReadMultiCurrency(c, j, groups)
    PROVE  LTypes'
<1> PICK posts : posts = [id \in {<<j, cur>> : cur \in DOMAIN groups} |-> Row(groups[id[2]], "POSTED", NoJournal)]
  OBVIOUS
<1>1. PICK new : Change(c, new, posts, <<>>)
  BY DEF ReadMultiCurrency
<1>2. \A cur \in DOMAIN groups : groups[cur] \in Seq(EntryRow)
  BY DEF EntryGroups
<1>3. ASSUME NEW id \in DOMAIN posts PROVE posts[id] \in JournalRow
  <2>1. PICK cur \in DOMAIN groups : id = <<j, cur>>
    BY Zenon
  <2>2. posts[id] = Row(groups[cur], "POSTED", NoJournal)
    BY <2>1
  <2> QED
    BY <1>2, <2>2, JournalStates DEF JournalRow, Row
<1>4. DOMAIN <<>> = {}
  BY NoRows
<1> QED
  BY <1>1, <1>3, <1>4, ChangeTyped

LEMMA HoldStates == {"HELD", "CONSUMED", "RELEASED", "EXPIRED", "UNKNOWN"} \subseteq ALLOWED_STATES["holds"]
  BY StatesOfOperations

\* A hold that is about to be written.
LEMMA HoldTyped ==
    ASSUME LInv, LTypes, NEW c \in Client, NEW new, NEW changed, Change(c, new, <<>>, changed),
           \A h \in DOMAIN changed : changed[h] \in HoldRow
    PROVE  LTypes'
<1>1. DOMAIN <<>> = {}
  BY NoRows
<1> QED
  BY <1>1, ChangeTyped

LEMMA MovedTyped ==
    ASSUME LTypes, NEW h \in DOMAIN holds, NEW state \in {"CONSUMED", "RELEASED", "EXPIRED", "UNKNOWN"}
    PROVE  Moved(h, state) \in HoldRow
<1>1. holds[h] \in HoldRow
  BY DEF LTypes, LedgerTypeOK
<1> QED
  BY <1>1, HoldStates DEF Moved, HoldRow

LEMMA HoldReadsTyped ==
    ASSUME LInv, LTypes, NEW c \in Client, NEW h
    PROVE  /\ \A a \in LedgerAccount, n \in Nat : ReadCreateHold(c, h, a, n) => LTypes'
           /\ \A state \in {"CONSUMED", "RELEASED", "EXPIRED", "UNKNOWN"} : \A v : ReadTransitionHold(c, h, state, v) => LTypes'
           /\ ReadExpireDue(c) => LTypes'
<1>1. ASSUME NEW a \in LedgerAccount, NEW n \in Nat, ReadCreateHold(c, h, a, n) PROVE LTypes'
  <2> PICK row : row = [account |-> a, amount |-> n, state |-> "HELD", version |-> 1]
    OBVIOUS
  <2>1. n \in Nat \ {0}
    BY <1>1 DEF ReadCreateHold
  <2>2. row \in HoldRow
    BY <2>1, HoldStates DEF HoldRow
  <2> PICK changed : changed = OneRow(h, row)
    OBVIOUS
  <2>3. \A i \in DOMAIN changed : changed[i] \in HoldRow
    BY <2>2 DEF OneRow
  <2>4. PICK new : Change(c, new, <<>>, changed)
    BY <1>1 DEF ReadCreateHold
  <2> QED
    BY <2>3, <2>4, HoldTyped
<1>2. ASSUME NEW state \in {"CONSUMED", "RELEASED", "EXPIRED", "UNKNOWN"}, NEW v, ReadTransitionHold(c, h, state, v)
      PROVE  LTypes'
  <2> PICK changed : changed = OneRow(h, Moved(h, state))
    OBVIOUS
  <2>1. h \in DOMAIN holds
    BY <1>2 DEF ReadTransitionHold
  <2>2. \A i \in DOMAIN changed : changed[i] \in HoldRow
    BY <2>1, MovedTyped DEF OneRow
  <2>3. PICK new : Change(c, new, <<>>, changed)
    BY <1>2 DEF ReadTransitionHold
  <2> QED
    BY <2>2, <2>3, HoldTyped
<1>3. ASSUME ReadExpireDue(c) PROVE LTypes'
  <2> PICK expired : expired = {i \in due : holds[i].state = "HELD"}
    OBVIOUS
  <2> PICK changed : changed = [i \in expired |-> Moved(i, "UNKNOWN")]
    OBVIOUS
  <2>1. Change(c, <<>>, <<>>, changed)
    BY <1>3 DEF ReadExpireDue
  <2>2. expired \subseteq DOMAIN holds
    BY DEF LInv, Holding
  <2>3. \A i \in DOMAIN changed : changed[i] \in HoldRow
    BY <2>2, MovedTyped
  <2> QED
    BY <2>1, <2>3, HoldTyped
<1> QED
  BY <1>1, <1>2, <1>3

\* The commit writes rows of the tables; what the check lets through is not negative.
LEMMA CommitLedgerTyped == ASSUME LInv, LInv', LTypes, NEW c \in Client, CommitLedger(c) PROVE LTypes'
<1>1. PICK r : r = req[c]
  OBVIOUS
<1>2. r.op = "ledger" /\ TypedJob(r) /\ DOMAIN r.loaded \subseteq DOMAIN ledger
  BY <1>1 DEF CommitLedger, LTypes, TypedJobs, LInv, Works, Locked
<1>3. /\ journal' = Put(r.posts, journal) /\ holds' = Put(r.holds, holds)
      /\ UNCHANGED <<opened, due, period, glBatch>> /\ req' = [req EXCEPT ![c] = Idle]
      /\ DOMAIN ledger' = DOMAIN ledger
      /\ \A a \in DOMAIN r.loaded : 0 <= ledger'[a].reserved /\ ledger'[a].reserved <= ledger'[a].balance
      /\ \A a \in DOMAIN ledger \ DOMAIN r.loaded : ledger'[a] = ledger[a]
  <2> PICK written : written = [a \in DOMAIN ledger |->
            IF a \in DOMAIN r.loaded THEN Flush(ledger[a], r.loaded[a], r.new[a]) ELSE ledger[a]]
    OBVIOUS
  <2>1. ledger' = written
    BY <1>1 DEF CommitLedger
  <2>2. \A a \in DOMAIN r.loaded : 0 <= written[a].reserved /\ written[a].reserved <= written[a].balance
    BY <1>1 DEF CommitLedger
  <2>3. /\ journal' = Put(r.posts, journal) /\ holds' = Put(r.holds, holds)
        /\ UNCHANGED <<opened, due, period, glBatch>> /\ req' = [req EXCEPT ![c] = Idle]
    BY <1>1 DEF CommitLedger, Commit
  <2>4. DOMAIN written = DOMAIN ledger /\ \A a \in DOMAIN ledger \ DOMAIN r.loaded : written[a] = ledger[a]
    OBVIOUS
  <2> QED
    BY <2>1, <2>2, <2>3, <2>4
<1>4. \A a \in DOMAIN ledger' : ledger'[a] \in LedgerAccountRow
  <2>1. \A a \in DOMAIN ledger' : ledger'[a] \in Money
    BY DEF LInv, Accounts
  <2>2. ASSUME NEW a \in DOMAIN ledger', a \in DOMAIN r.loaded PROVE ledger'[a] \in LedgerAccountRow
    BY <1>3, <2>1, <2>2 DEF Money, LedgerAccountRow
  <2>3. ASSUME NEW a \in DOMAIN ledger', a \notin DOMAIN r.loaded PROVE ledger'[a] \in LedgerAccountRow
    BY <1>3, <2>3 DEF LTypes, LedgerTypeOK
  <2> QED
    BY <2>2, <2>3
<1>5. DOMAIN journal \subseteq DOMAIN journal'
  BY <1>3 DEF Put
<1>6. \A id \in DOMAIN journal' : journal'[id] \in JournalRow'
  <2>1. \A id \in DOMAIN journal' : journal'[id] \in JournalRow
    BY <1>2, <1>3 DEF Put, TypedJob, LTypes, LedgerTypeOK
  <2> QED
    BY <1>5, <2>1, JournalRowsKept
<1>7. /\ DOMAIN holds \subseteq DOMAIN holds'
      /\ \A h \in DOMAIN holds' : holds'[h] \in HoldRow
  BY <1>2, <1>3 DEF Put, TypedJob, LTypes, LedgerTypeOK
<1>8. LedgerTypeOK'
  BY <1>3, <1>4, <1>6, <1>7 DEF LTypes, LedgerTypeOK, LedgerAccountRow, HoldRow, PeriodRow, GlBatchRow
<1>9. Idle.op # "ledger"
  BY DEF Idle
<1> QED
  BY <1>3, <1>5, <1>8, <1>9, JobsKept DEF LTypes

\* The endpoints that are done at once.
LEMMA AtOnceTyped ==
    ASSUME LInv, LTypes, NEW c \in Client
    PROVE  /\ \A a \in LedgerAccount, n \in Nat : CreateLedgerAccount(c, a, n) => LTypes'
           /\ \A j \in Journal, entries \in Seq(EntryRow) : CreateDraft(c, j, entries) => LTypes'
           /\ \A id \in DOMAIN journal : ValidateJournal(c, id) => LTypes'
           /\ \A p : OpenPeriod(c, p) => LTypes'
           /\ \A p, m, n : ClosePeriod(c, p, m, n) => LTypes'
           /\ \A b : PersistBatch(c, b) => LTypes'
           /\ \A b, state : RecordReceipt(c, b, state) => LTypes'
<1>1. ASSUME NEW a \in LedgerAccount, NEW n \in Nat, CreateLedgerAccount(c, a, n) PROVE LTypes'
  <2>1. /\ ledger' = Put(OneRow(a, [balance |-> n, reserved |-> 0]), ledger)
        /\ opened' = Put(OneRow(a, n), opened)
        /\ UNCHANGED <<req, journal, holds, due, period, glBatch>>
    BY <1>1 DEF CreateLedgerAccount, AtOnce
  <2>2. /\ DOMAIN ledger' = {a} \cup DOMAIN ledger /\ DOMAIN opened' = {a} \cup DOMAIN opened
        /\ \A b \in DOMAIN ledger' : ledger'[b] = IF b = a THEN [balance |-> n, reserved |-> 0] ELSE ledger[b]
    BY <2>1 DEF Put, OneRow
  <2>3. [balance |-> n, reserved |-> 0] \in LedgerAccountRow
    BY DEF LedgerAccountRow
  <2>4. \A b \in DOMAIN ledger' : ledger'[b] \in LedgerAccountRow
    BY <2>2, <2>3 DEF LTypes, LedgerTypeOK
  <2>5. LedgerTypeOK'
    BY <2>1, <2>2, <2>4 DEF LTypes, LedgerTypeOK, LedgerAccountRow, JournalRow, HoldRow, PeriodRow, GlBatchRow
  <2> QED
    BY <2>1, <2>5, JobsStay DEF LTypes
<1>2. ASSUME NEW j \in Journal, NEW entries \in Seq(EntryRow), CreateDraft(c, j, entries) PROVE LTypes'
  <2> PICK row : row = Row(entries, "DRAFT", NoJournal)
    OBVIOUS
  <2> PICK id : id = <<j, "all">>
    OBVIOUS
  <2>1. journal' = Put(OneRow(id, row), journal) /\ UNCHANGED <<req, ledger, opened, holds, due, period, glBatch>>
    BY <1>2 DEF CreateDraft, AtOnce
  <2>2. row \in JournalRow
    BY JournalStates DEF JournalRow, Row
  <2>3. DOMAIN journal \subseteq DOMAIN journal' /\ \A i \in DOMAIN journal' : journal'[i] = row \/ (i \in DOMAIN journal /\ journal'[i] = journal[i])
    BY <2>1 DEF Put, OneRow
  <2>4. \A i \in DOMAIN journal' : journal'[i] \in JournalRow'
    BY <2>2, <2>3, JournalRowsKept DEF LTypes, LedgerTypeOK
  <2>5. LedgerTypeOK'
    BY <2>1, <2>4 DEF LTypes, LedgerTypeOK, LedgerAccountRow, HoldRow, PeriodRow, GlBatchRow
  <2> QED
    BY <2>1, <2>3, <2>5, JobsStay DEF LTypes
<1>3. ASSUME NEW id \in DOMAIN journal, ValidateJournal(c, id) PROVE LTypes'
  <2>1. journal' = [journal EXCEPT ![id].state = "VALIDATED"] /\ UNCHANGED <<req, ledger, opened, holds, due, period, glBatch>>
    BY <1>3 DEF ValidateJournal, AtOnce
  <2>2. \A row \in JournalRow : [row EXCEPT !.state = "VALIDATED"] \in JournalRow
    BY JournalStates DEF JournalRow
  <2>3. DOMAIN journal' = DOMAIN journal /\ \A i \in DOMAIN journal : journal'[i] = IF i = id THEN [journal[i] EXCEPT !.state = "VALIDATED"] ELSE journal[i]
    BY <2>1
  <2>4. \A i \in DOMAIN journal' : journal'[i] \in JournalRow'
    BY <2>2, <2>3, JournalRowsKept DEF LTypes, LedgerTypeOK
  <2>5. LedgerTypeOK'
    BY <2>1, <2>4 DEF LTypes, LedgerTypeOK, LedgerAccountRow, HoldRow, PeriodRow, GlBatchRow
  <2> QED
    BY <2>1, <2>3, <2>5, JobsStay DEF LTypes
<1>4. ASSUME NEW p, NEW m, NEW n, OpenPeriod(c, p) \/ ClosePeriod(c, p, m, n) PROVE LTypes'
  <2>1. UNCHANGED <<req, ledger, opened, journal, holds, due, glBatch>>
    BY <1>4 DEF OpenPeriod, ClosePeriod, AtOnce
  <2>2. {"OPEN", "CLOSED"} \subseteq PeriodRow
    BY StatesOfOperations DEF PeriodRow
  <2>3. \A q \in DOMAIN period' : period'[q] \in {"OPEN", "CLOSED"} \/ (q \in DOMAIN period /\ period'[q] = period[q])
    <3>1. CASE OpenPeriod(c, p)
      <4>1. period' = Put(OneRow(p, "OPEN"), period)
        BY <3>1 DEF OpenPeriod
      <4> QED
        BY <4>1 DEF Put, OneRow
    <3>2. CASE ClosePeriod(c, p, m, n)
      BY <3>2 DEF ClosePeriod
    <3> QED
      BY <1>4, <3>1, <3>2
  <2>4. \A q \in DOMAIN period' : period'[q] \in PeriodRow
    BY <2>2, <2>3 DEF LTypes, LedgerTypeOK
  <2>5. LedgerTypeOK'
    BY <2>1, <2>4 DEF LTypes, LedgerTypeOK, LedgerAccountRow, JournalRow, HoldRow, PeriodRow, GlBatchRow
  <2> QED
    BY <2>1, <2>5, JobsStay DEF LTypes
<1>5. ASSUME NEW b, NEW state, PersistBatch(c, b) \/ RecordReceipt(c, b, state) PROVE LTypes'
  <2>1. UNCHANGED <<req, ledger, opened, journal, holds, due, period>>
    BY <1>5 DEF PersistBatch, RecordReceipt, AtOnce
  <2>2. {"SENT", "ACK", "REJECTED"} \subseteq GlBatchRow
    BY StatesOfOperations DEF GlBatchRow
  <2>3. \A q \in DOMAIN glBatch' : glBatch'[q] \in {"SENT", "ACK", "REJECTED"} \/ (q \in DOMAIN glBatch /\ glBatch'[q] = glBatch[q])
    <3>1. CASE PersistBatch(c, b)
      <4>1. glBatch' = Put(OneRow(b, "SENT"), glBatch)
        BY <3>1 DEF PersistBatch
      <4> QED
        BY <4>1 DEF Put, OneRow
    <3>2. CASE RecordReceipt(c, b, state)
      BY <3>2 DEF RecordReceipt
    <3> QED
      BY <1>5, <3>1, <3>2
  <2>4. \A q \in DOMAIN glBatch' : glBatch'[q] \in GlBatchRow
    BY <2>2, <2>3 DEF LTypes, LedgerTypeOK
  <2>5. LedgerTypeOK'
    BY <2>1, <2>4 DEF LTypes, LedgerTypeOK, LedgerAccountRow, JournalRow, HoldRow, PeriodRow, GlBatchRow
  <2> QED
    BY <2>1, <2>5, JobsStay DEF LTypes
<1> QED
  BY <1>1, <1>2, <1>3, <1>4, <1>5

LEMMA InitLedgerTypes ==
    ASSUME NEW A \in SUBSET LedgerAccount, NEW opening \in [A -> Nat], LedgerInitially(opening),
           NEW allowed \in Nat, RequestsInit(allowed)
    PROVE  LTypes
<1>1. /\ ledger = [a \in A |-> [balance |-> opening[a], reserved |-> 0]]
      /\ opened = opening /\ journal = <<>> /\ holds = <<>> /\ due = {} /\ period = <<>> /\ glBatch = <<>>
      /\ req = [c \in Client |-> Idle]
  BY DEF LedgerInitially, RequestsInit
<1>2. DOMAIN <<>> = {}
  BY NoRows
<1>3. \A c \in Client : req[c].op # "ledger"
  BY <1>1 DEF Idle
<1>4. \A a \in A : [balance |-> opening[a], reserved |-> 0] \in LedgerAccountRow
  BY DEF LedgerAccountRow
<1> QED
  BY <1>1, <1>2, <1>3, <1>4 DEF LTypes, TypedJobs, LedgerTypeOK

LEMMA NextLedgerTypes == LInv /\ LTypes /\ [LedgerNext]_<<requestVars, bookVars>> => LTypes'
<1> SUFFICES ASSUME LInv, LTypes, [LedgerNext]_<<requestVars, bookVars>> PROVE LTypes'
  OBVIOUS
<1>0. LInv'
  BY NextLedger
<1>1. ASSUME NEW h \in Hold, PassHoldExpiry(h) PROVE LTypes'
  <2>1. UNCHANGED <<req, ledger, opened, journal, holds, period, glBatch>> /\ due' = due \cup {h} /\ h \in DOMAIN holds
    BY <1>1 DEF PassHoldExpiry, requestVars
  <2>2. LedgerTypeOK'
    BY <2>1 DEF LTypes, LedgerTypeOK, LedgerAccountRow, JournalRow, HoldRow, PeriodRow, GlBatchRow
  <2> QED
    BY <2>1, <2>2, JobsStay DEF LTypes
<1>2. ASSUME NEW c \in Client, NEW j \in Journal, NEW groups \in EntryGroups, ReadMultiCurrency(c, j, groups)
      PROVE  LTypes'
  BY <1>2, ReadMultiCurrencyTyped
<1>3. ASSUME NEW c \in Client, NEW j \in Journal, NEW entries \in Seq(EntryRow),
             ReadJournal(c, j, entries) \/ CreateDraft(c, j, entries)
      PROVE  LTypes'
  BY <1>3, ReadJournalTyped, AtOnceTyped
<1>4. ASSUME NEW c \in Client, NEW j \in Journal, NEW t \in Template, NEW n \in Nat, NEW cur \in Range(CurrencyAt),
             ReadTemplate(c, j, t, n, cur)
      PROVE  LTypes'
  BY <1>4, ReadTemplateTyped
<1>5. ASSUME NEW c \in Client, NEW j \in Journal, NEW id \in DOMAIN journal, ReadReversal(c, id, j) PROVE LTypes'
  BY <1>5, ReadReversalTyped
<1>6. ASSUME NEW c \in Client, NEW id \in DOMAIN journal, ValidateJournal(c, id) PROVE LTypes'
  BY <1>6, AtOnceTyped
<1>7. ASSUME NEW c \in Client, NEW a \in LedgerAccount, NEW n \in Nat, CreateLedgerAccount(c, a, n) PROVE LTypes'
  BY <1>7, AtOnceTyped
<1>8. ASSUME NEW c \in Client, NEW h \in Hold, NEW a \in LedgerAccount, NEW n \in Nat, ReadCreateHold(c, h, a, n)
      PROVE  LTypes'
  BY <1>8, HoldReadsTyped
<1>9. ASSUME NEW c \in Client, NEW h \in Hold, NEW state \in {"CONSUMED", "RELEASED", "EXPIRED", "UNKNOWN"},
             NEW v \in Nat, ReadTransitionHold(c, h, state, v)
      PROVE  LTypes'
  BY <1>9, HoldReadsTyped
<1>10. ASSUME NEW c \in Client, ReadExpireDue(c) \/ CommitLedger(c) PROVE LTypes'
  BY <1>0, <1>10, HoldReadsTyped, CommitLedgerTyped
<1>11. ASSUME NEW c \in Client, RollBackLedger(c) PROVE LTypes'
  <2>1. req' = [req EXCEPT ![c] = Idle] /\ UNCHANGED bookVars /\ Idle.op # "ledger"
    BY <1>11 DEF RollBackLedger, RollBack, Idle
  <2>2. DOMAIN journal' = DOMAIN journal
    BY <2>1 DEF bookVars
  <2> QED
    BY <2>1, <2>2, JobsKept, SameBooksTyped DEF LTypes
<1>12. ASSUME NEW c \in Client,
              \/ \E p \in Period : OpenPeriod(c, p) \/ \E m, n \in Officer : ClosePeriod(c, p, m, n)
              \/ \E b \in Glb : PersistBatch(c, b) \/ \E state \in {"ACK", "REJECTED"} : RecordReceipt(c, b, state)
       PROVE  LTypes'
  BY <1>12, AtOnceTyped
<1>13. CASE UNCHANGED <<requestVars, bookVars>>
  <2>1. UNCHANGED req /\ UNCHANGED bookVars /\ UNCHANGED journal
    BY <1>13 DEF requestVars, bookVars
  <2> QED
    BY <2>1, JobsStay, SameBooksTyped DEF LTypes
<1> QED
  BY <1>1, <1>2, <1>3, <1>4, <1>5, <1>6, <1>7, <1>8, <1>9, <1>10, <1>11, <1>12, <1>13 DEF LedgerNext

\* Every row of the subledger has its type, along every behaviour.
THEOREM LedgerTypeCorrect == LedgerSpec => []LedgerTypeOK
<1>1. ASSUME \E A \in SUBSET LedgerAccount : \E opening \in [A -> Nat] : LedgerInitially(opening),
             \E allowed \in Nat : RequestsInit(allowed)
      PROVE  LInv /\ LTypes
  BY <1>1, InitLedger, InitLedgerTypes
<1>2. LInv /\ LTypes /\ [LedgerNext]_<<requestVars, bookVars>> => (LInv /\ LTypes)'
  BY NextLedger, NextLedgerTypes
<1>3. LTypes => LedgerTypeOK
  BY DEF LTypes
<1> QED
  BY <1>1, <1>2, <1>3, PTL DEF LedgerSpec

------------------------------------------------------------------------------
(* Check digits: what one character does *)

Value == Digit \cup Letter

\* What a character does to the remainder.
Scale(x) == IF x \in Digit THEN 10 ELSE 100
Step(r, x) == (r * Scale(x) + x) % 97
Residue == 0 .. 96

LEMMA StepType == ASSUME NEW r \in Residue, NEW x \in Value PROVE Step(r, x) \in Residue
  BY DEF Step, Scale, Residue, Value, Digit, Letter

\* One character read after two remainders, or two characters after one.
LEMMA StepKeepsApart ==
    ASSUME NEW r \in Residue, NEW q \in Residue, NEW x \in Value, Step(r, x) = Step(q, x)
    PROVE  r = q
<1>1. CASE x \in Digit
  BY <1>1 DEF Step, Scale, Residue, Value, Digit, Letter
<1>2. CASE x \notin Digit
  BY <1>2 DEF Step, Scale, Residue, Value, Digit, Letter
<1> QED
  BY <1>1, <1>2

LEMMA StepTells ==
    ASSUME NEW r \in Residue, NEW x \in Value, NEW y \in Value, x \in Digit <=> y \in Digit, Step(r, x) = Step(r, y)
    PROVE  x = y
<1>1. CASE x \in Digit
  BY <1>1 DEF Step, Scale, Residue, Value, Digit, Letter
<1>2. CASE x \notin Digit
  BY <1>2 DEF Step, Scale, Residue, Value, Digit, Letter
<1> QED
  BY <1>1, <1>2

\* Two neighbours of a kind, in one order or in the other.
LEMMA StepsTell ==
    ASSUME NEW r \in Residue, NEW x \in Value, NEW y \in Value, x \in Digit <=> y \in Digit,
           Step(Step(r, x), y) = Step(Step(r, y), x)
    PROVE  x = y
<1>1. CASE x \in Digit
  BY <1>1 DEF Step, Scale, Residue, Value, Digit, Letter
<1>2. CASE x \notin Digit
  BY <1>2 DEF Step, Scale, Residue, Value, Digit, Letter
<1> QED
  BY <1>1, <1>2

------------------------------------------------------------------------------
(* The remainders along a number *)

\* g[k]: the remainder of the first k of the n characters m[1], m[2], ...
Remainders(g, m, n) ==
    g = [k \in 0 .. n |->
           IF k = 0 THEN 0 ELSE (g[k - 1] * (IF m[k] \in Digit THEN 10 ELSE 100) + m[k]) % 97]

LEMMA RemaindersExist == ASSUME NEW m, NEW n \in Nat PROVE \E g : Remainders(g, m, n)
<1> DEFINE None == {k \in Nat : ~ \E g : Remainders(g, m, k)}
<1> SUFFICES ASSUME None # {} PROVE FALSE
  OBVIOUS
<1>1. PICK k \in None : \A j \in None : k <= j
  BY Least
<1>2. CASE k = 0
  <2> DEFINE g == [j \in 0 .. 0 |-> 0]
  <2>1. Remainders(g, m, 0)
    BY DEF Remainders
  <2> QED
    BY <1>1, <1>2, <2>1
<1>3. CASE k # 0
  <2>1. k - 1 \in Nat /\ k - 1 \notin None
    BY <1>1, <1>3
  <2>2. PICK f : Remainders(f, m, k - 1)
    BY <2>1
  <2> PICK last : last = (f[k - 1] * (IF m[k] \in Digit THEN 10 ELSE 100) + m[k]) % 97
    OBVIOUS
  <2> DEFINE g == [j \in 0 .. k |-> IF j = k THEN last ELSE f[j]]
  <2>3. ASSUME NEW j \in 0 .. k
        PROVE  g[j] = IF j = 0 THEN 0 ELSE (g[j - 1] * (IF m[j] \in Digit THEN 10 ELSE 100) + m[j]) % 97
    <3>1. CASE j = k
      <4>1. g[j] = last /\ g[j - 1] = f[k - 1] /\ j # 0
        BY <1>1, <1>3, <3>1
      <4> QED
        BY <3>1, <4>1
    <3>2. CASE j = 0
      <4>1. g[j] = f[0] /\ 0 \in 0 .. k - 1
        BY <1>1, <1>3, <3>2
      <4>2. f[0] = 0
        BY <2>2, <4>1 DEF Remainders
      <4> QED
        BY <3>2, <4>1, <4>2
    <3>3. CASE j # k /\ j # 0
      <4>1. j \in 0 .. k - 1 /\ g[j] = f[j] /\ g[j - 1] = f[j - 1]
        BY <1>1, <3>3
      <4>2. f[j] = (f[j - 1] * (IF m[j] \in Digit THEN 10 ELSE 100) + m[j]) % 97
        BY <2>2, <3>3, <4>1 DEF Remainders
      <4> QED
        BY <3>3, <4>1, <4>2
    <3> QED
      BY <3>1, <3>2, <3>3
  <2>4. DOMAIN g = 0 .. k /\ g = [j \in 0 .. k |-> g[j]]
    OBVIOUS
  <2> HIDE DEF g
  <2>5. Remainders(g, m, k)
    BY <2>3, <2>4 DEF Remainders
  <2> QED
    BY <1>1, <2>5
<1> QED
  BY <1>2, <1>3

Numeral(m, n) == \A k \in 1 .. n : m[k] \in Value

LEMMA RemaindersStep ==
    ASSUME NEW m, NEW n \in Nat, Numeral(m, n), NEW g, Remainders(g, m, n)
    PROVE  /\ g[0] = 0
           /\ \A k \in 0 .. n : g[k] \in Residue
           /\ \A k \in 1 .. n : g[k] = Step(g[k - 1], m[k])
<1>1. g[0] = 0
  BY DEF Remainders
<1>2. \A k \in 1 .. n : g[k] = Step(g[k - 1], m[k])
  <2> SUFFICES ASSUME NEW k \in 1 .. n PROVE g[k] = Step(g[k - 1], m[k])
    OBVIOUS
  <2>1. k \in 0 .. n /\ k # 0
    OBVIOUS
  <2> QED
    BY <2>1 DEF Remainders, Step, Scale
<1>3. \A k \in 0 .. n : g[k] \in Residue
  <2> DEFINE Bad == {k \in 0 .. n : g[k] \notin Residue}
  <2> SUFFICES ASSUME Bad # {} PROVE FALSE
    OBVIOUS
  <2>0. Bad \subseteq Nat
    OBVIOUS
  <2>1. PICK k \in Bad : \A j \in Bad : k <= j
    <3> HIDE DEF Bad
    <3> QED
      BY <2>0, Least
  <2>2. k # 0
    BY <1>1, <2>1 DEF Residue
  <2>3. k \in 1 .. n /\ k - 1 \in 0 .. n /\ k - 1 \notin Bad
    BY <2>1, <2>2
  <2>4. g[k - 1] \in Residue /\ m[k] \in Value
    BY <2>3 DEF Numeral
  <2> QED
    BY <1>2, <2>1, <2>3, <2>4, StepType
<1> QED
  BY <1>1, <1>2, <1>3

\* ChecksumHolds is about the last of them.
Rotated(iban) == SubSeq(iban, 5, Len(iban)) \o SubSeq(iban, 1, 4)

LEMMA ChecksumIsRemainder ==
    ASSUME NEW iban, Len(iban) \in Nat, ChecksumHolds(iban)
    PROVE  \E g : Remainders(g, Rotated(iban), Len(iban)) /\ g[Len(iban)] = 1
<1> DEFINE g == CHOOSE r : Remainders(r, Rotated(iban), Len(iban))
<1>1. g[Len(iban)] = 1
  BY DEF ChecksumHolds, Remainders, Rotated
<1>2. Remainders(g, Rotated(iban), Len(iban))
  BY RemaindersExist
<1> QED
  BY <1>1, <1>2

------------------------------------------------------------------------------
(* Two numbers of the same length *)

Both(g, m, f, p, n) ==
    /\ n \in Nat
    /\ Numeral(m, n) /\ Remainders(g, m, n)
    /\ Numeral(p, n) /\ Remainders(f, p, n)

\* As long as they agree, the remainders do.
LEMMA SameUpTo ==
    ASSUME NEW g, NEW m, NEW f, NEW p, NEW n, Both(g, m, f, p, n), NEW k \in 0 .. n,
           \A j \in 1 .. k : m[j] = p[j]
    PROVE  g[k] = f[k]
<1> DEFINE Bad == {j \in 0 .. k : g[j] # f[j]}
<1> SUFFICES ASSUME Bad # {} PROVE FALSE
  BY DEF Both
<1>1. Bad \subseteq Nat
  OBVIOUS
<1>2. PICK j \in Bad : \A i \in Bad : j <= i
  <2> HIDE DEF Bad
  <2> QED
    BY <1>1, Least
<1>3. g[0] = 0 /\ f[0] = 0
  BY RemaindersStep DEF Both
<1>4. j \in 1 .. k /\ j \in 1 .. n /\ j - 1 \in 0 .. k /\ j - 1 \notin Bad
  BY <1>2, <1>3 DEF Both
<1>5. g[j] = Step(g[j - 1], m[j]) /\ f[j] = Step(f[j - 1], p[j])
  BY <1>4, RemaindersStep DEF Both
<1>6. g[j - 1] = f[j - 1] /\ m[j] = p[j]
  BY <1>4
<1> QED
  BY <1>2, <1>5, <1>6

\* Once the remainders differ, they differ until the numbers do again.
LEMMA ApartAfter ==
    ASSUME NEW g, NEW m, NEW f, NEW p, NEW n, Both(g, m, f, p, n), NEW k \in 0 .. n, g[k] # f[k],
           \A j \in k + 1 .. n : m[j] = p[j]
    PROVE  g[n] # f[n]
<1> DEFINE Bad == {j \in k .. n : g[j] = f[j]}
<1> SUFFICES ASSUME Bad # {} PROVE FALSE
  BY DEF Both
<1>1. Bad \subseteq Nat
  OBVIOUS
<1>2. PICK j \in Bad : \A i \in Bad : j <= i
  <2> HIDE DEF Bad
  <2> QED
    BY <1>1, Least
<1>3. j \in k + 1 .. n /\ j \in 1 .. n /\ j - 1 \in k .. n /\ j - 1 \in 0 .. n /\ j - 1 \notin Bad
  BY <1>2 DEF Both
<1>4. g[j] = Step(g[j - 1], m[j]) /\ f[j] = Step(f[j - 1], p[j])
  BY <1>3, RemaindersStep DEF Both
<1>5. g[j - 1] \in Residue /\ f[j - 1] \in Residue /\ m[j] \in Value /\ m[j] = p[j]
  BY <1>3, RemaindersStep DEF Both, Numeral
<1>6. g[j - 1] = f[j - 1]
  BY <1>2, <1>4, <1>5, StepKeepsApart
<1> QED
  BY <1>3, <1>6

LEMMA MistypingShows ==
    ASSUME NEW g, NEW m, NEW f, NEW p, NEW n, Both(g, m, f, p, n), NEW i \in 1 .. n,
           m[i] # p[i], m[i] \in Digit <=> p[i] \in Digit,
           \A j \in 1 .. n : j # i => m[j] = p[j]
    PROVE  g[n] # f[n]
<1>1. i - 1 \in 0 .. n /\ i \in 0 .. n
  BY DEF Both
<1>2. g[i - 1] = f[i - 1]
  <2>1. \A j \in 1 .. i - 1 : m[j] = p[j]
    BY DEF Both
  <2> QED
    BY <1>1, <2>1, SameUpTo
<1>3. g[i - 1] \in Residue /\ m[i] \in Value /\ p[i] \in Value
  BY <1>1, RemaindersStep DEF Both, Numeral
<1>4. g[i] = Step(g[i - 1], m[i]) /\ f[i] = Step(f[i - 1], p[i])
  BY RemaindersStep DEF Both
<1>5. g[i] # f[i]
  BY <1>2, <1>3, <1>4, StepTells
<1>6. \A j \in i + 1 .. n : m[j] = p[j]
  BY DEF Both
<1> QED
  BY <1>1, <1>5, <1>6, ApartAfter

LEMMA ExchangeShows ==
    ASSUME NEW g, NEW m, NEW f, NEW p, NEW n, Both(g, m, f, p, n), NEW i \in 1 .. n - 1,
           m[i] # m[i + 1], m[i] \in Digit <=> m[i + 1] \in Digit,
           p[i] = m[i + 1], p[i + 1] = m[i],
           \A j \in 1 .. n : j # i /\ j # i + 1 => m[j] = p[j]
    PROVE  g[n] # f[n]
<1>1. i - 1 \in 0 .. n /\ i \in 1 .. n /\ i + 1 \in 1 .. n /\ i + 1 \in 0 .. n /\ (i + 1) - 1 = i
  BY DEF Both
<1>2. g[i - 1] = f[i - 1]
  <2>1. \A j \in 1 .. i - 1 : m[j] = p[j]
    BY DEF Both
  <2> QED
    BY <1>1, <2>1, SameUpTo
<1>3. g[i - 1] \in Residue /\ m[i] \in Value /\ m[i + 1] \in Value
  BY <1>1, RemaindersStep DEF Both, Numeral
<1>4. g[i] = Step(g[i - 1], m[i]) /\ f[i] = Step(f[i - 1], p[i])
  BY <1>1, RemaindersStep DEF Both
<1>5. g[i + 1] = Step(g[i], m[i + 1]) /\ f[i + 1] = Step(f[i], p[i + 1])
  BY <1>1, RemaindersStep DEF Both
<1>6. g[i + 1] # f[i + 1]
  BY <1>2, <1>3, <1>4, <1>5, StepsTell
<1>7. \A j \in (i + 1) + 1 .. n : m[j] = p[j]
  BY <1>1 DEF Both
<1> QED
  BY <1>1, <1>6, <1>7, ApartAfter
------------------------------------------------------------------------------
(* The first character and the last one exchanged *)

\* 10 ^ e modulo 97 for the exponents that a number of 34 characters reaches.
Powers == {
    <<0, 1>>, <<1, 10>>, <<2, 3>>, <<3, 30>>, <<4, 9>>, <<5, 90>>, <<6, 27>>, <<7, 76>>, <<8, 81>>,
    <<9, 34>>, <<10, 49>>, <<11, 5>>, <<12, 50>>, <<13, 15>>, <<14, 53>>, <<15, 45>>, <<16, 62>>, <<17, 38>>,
    <<18, 89>>, <<19, 17>>, <<20, 73>>, <<21, 51>>, <<22, 25>>, <<23, 56>>, <<24, 75>>, <<25, 71>>, <<26, 31>>,
    <<27, 19>>, <<28, 93>>, <<29, 57>>, <<30, 85>>, <<31, 74>>, <<32, 61>>, <<33, 28>>, <<34, 86>>, <<35, 84>>,
    <<36, 64>>, <<37, 58>>, <<38, 95>>, <<39, 77>>, <<40, 91>>, <<41, 37>>, <<42, 79>>, <<43, 14>>, <<44, 43>>,
    <<45, 42>>, <<46, 32>>, <<47, 29>>, <<48, 96>>, <<49, 87>>, <<50, 94>>, <<51, 67>>, <<52, 88>>, <<53, 7>>,
    <<54, 70>>, <<55, 21>>, <<56, 16>>, <<57, 63>>, <<58, 48>>, <<59, 92>>, <<60, 47>>, <<61, 82>>, <<62, 44>>,
    <<63, 52>>, <<64, 35>>, <<65, 59>>, <<66, 8>>}

LEMMA PowersAre ==
    ASSUME NEW e \in 0 .. 66, NEW w \in Residue, <<e, w>> \in Powers
    PROVE  /\ e <= 65 => <<e + 1, (10 * w) % 97>> \in Powers
           /\ (10 * w) % 97 # 1
<1> USE DEF Powers, Residue
<1>1. e <= 65 => <<e + 1, (10 * w) % 97>> \in Powers
  BY SMTT(60)
<1>2. (10 * w) % 97 # 1
  BY SMTT(60)
<1> QED
  BY <1>1, <1>2

LEMMA Division == ASSUME NEW a \in Int PROVE \E k \in Int, v \in Residue : a = 97 * k + v /\ v = a % 97
<1>1. PICK v \in 0 .. 96 : v = a % 97
  OBVIOUS
<1>2. PICK k \in Int : k = a \div 97
  OBVIOUS
<1>3. a = 97 * k + v
  BY <1>1, <1>2, SMT
<1> QED
  BY <1>1, <1>3 DEF Residue

\* How far two remainders are apart: d of the units that w is worth.
Spread(g, f, d, w) == \E q \in Int : g - f = d * w + 97 * q

LEMMA SpreadStep ==
    ASSUME NEW g \in Residue, NEW f \in Residue, NEW x \in Value, NEW d \in -9 .. 9, NEW w \in Residue,
           Spread(g, f, d, w)
    PROVE  Spread(Step(g, x), Step(f, x), d, (Scale(x) * w) % 97)
<1>1. PICK q \in Int : g - f = d * w + 97 * q
  BY DEF Spread
<1> PICK s : s = Scale(x)
  OBVIOUS
<1>2. s \in Int /\ g \in Int /\ f \in Int /\ x \in Int /\ w \in Int /\ d \in Int
  BY DEF Scale, Residue, Value, Digit, Letter
<1>3. PICK gs \in Int, fs \in Int : gs = g * s /\ fs = f * s
  BY <1>2
<1>4. PICK a \in Int, y \in Residue : gs + x = 97 * a + y /\ y = (gs + x) % 97
  <2>1. gs + x \in Int
    BY <1>2
  <2> QED
    BY <2>1, Division
<1>5. PICK b \in Int, z \in Residue : fs + x = 97 * b + z /\ z = (fs + x) % 97
  <2>1. fs + x \in Int
    BY <1>2
  <2> QED
    BY <2>1, Division
<1>6. PICK t \in Int, v \in Residue : s * w = 97 * t + v /\ v = (s * w) % 97
  <2>1. s * w \in Int
    BY <1>2
  <2> QED
    BY <2>1, Division
<1>7. y = Step(g, x) /\ z = Step(f, x) /\ y \in Int /\ z \in Int /\ v \in Int
  <2>1. y = Step(g, x) /\ z = Step(f, x)
    BY <1>3, <1>4, <1>5 DEF Step
  <2> QED
    BY <2>1 DEF Residue
<1>8. y - z = d * v + 97 * (s * q - a + b + d * t)
  <2>1. y - z = s * (g - f) - 97 * a + 97 * b
    <3>1. s * (g - f) = gs - fs
      BY <1>2, <1>3
    <3> QED
      BY <1>2, <1>4, <1>5, <1>7, <3>1
  <2>2. s * (g - f) = d * (s * w) + 97 * (s * q)
    BY <1>1, <1>2
  <2>3. d * (s * w) = d * v + 97 * (d * t)
    BY <1>2, <1>6, <1>7
  <2> QED
    BY <1>2, <1>7, <2>1, <2>2, <2>3
<1>9. s * q - a + b + d * t \in Int
  BY <1>2
<1> QED
  BY <1>6, <1>7, <1>8, <1>9 DEF Spread

LEMMA SpreadEnds ==
    ASSUME NEW g \in Residue, NEW f \in Residue, NEW x \in Digit, NEW y \in Digit, NEW w \in Residue,
           Spread(g, f, x - y, w), Step(g, y) = Step(f, x), x # y
    PROVE  (10 * w) % 97 = 1
<1>1. PICK q \in Int : g - f = (x - y) * w + 97 * q
  BY DEF Spread
<1>2. PICK r \in Int : 10 * g + y - 10 * f - x = 97 * r
  <2>1. g * 10 + y \in Int /\ f * 10 + x \in Int
    BY DEF Residue, Digit
  <2>2. PICK a \in Int, u \in Residue : g * 10 + y = 97 * a + u /\ u = (g * 10 + y) % 97
    BY <2>1, Division
  <2>3. PICK b \in Int, v \in Residue : f * 10 + x = 97 * b + v /\ v = (f * 10 + x) % 97
    BY <2>1, Division
  <2>4. u = v
    BY <2>2, <2>3 DEF Step, Scale
  <2>5. 10 * g + y - 10 * f - x = 97 * (a - b)
    BY <2>2, <2>3, <2>4 DEF Residue, Digit
  <2> QED
    <3>1. a - b \in Int
      OBVIOUS
    <3> QED
      BY <2>5, <3>1
<1>3. PICK d \in -9 .. 9 : d = x - y
  BY DEF Digit
<1>4. d # 0
  BY <1>3 DEF Digit
<1>5. 10 * (d * w) - d = 97 * (r - 10 * q)
  BY <1>1, <1>2, <1>3 DEF Residue, Digit
<1>6. PICK k \in Int : 10 * (d * w) - d = 97 * k
  <2>1. r - 10 * q \in Int
    OBVIOUS
  <2> QED
    BY <1>5, <2>1
<1> QED
  BY <1>3, <1>4, <1>6, SMTT(60) DEF Residue
LEMMA EndsExchangeShows ==
    ASSUME NEW g, NEW m, NEW f, NEW p, NEW n, Both(g, m, f, p, n), n \in 2 .. 34,
           m[1] \in Digit, m[n] \in Digit, m[1] # m[n], p[1] = m[n], p[n] = m[1],
           \A j \in 2 .. n - 1 : m[j] = p[j]
    PROVE  g[n] # f[n]
<1> PICK x, y, d : x = m[1] /\ y = m[n] /\ d = x - y
  OBVIOUS
<1>1. d \in -9 .. 9
  BY DEF Digit
\* The weight of the first character among the first k.
<1> DEFINE Weighs(k, e, w) ==
      e \in 0 .. 2 * (k - 1) /\ w \in Residue /\ <<e, w>> \in Powers /\ Spread(g[k], f[k], d, w)
<1> DEFINE Bad == {k \in 1 .. n - 1 : ~ \E e, w : Weighs(k, e, w)}
<1>2. \A k \in 1 .. n : /\ g[k] = Step(g[k - 1], m[k]) /\ f[k] = Step(f[k - 1], p[k])
                        /\ g[k - 1] \in Residue /\ f[k - 1] \in Residue /\ g[k] \in Residue /\ f[k] \in Residue
  <2> SUFFICES ASSUME NEW k \in 1 .. n
               PROVE  /\ g[k] = Step(g[k - 1], m[k]) /\ f[k] = Step(f[k - 1], p[k])
                      /\ g[k - 1] \in Residue /\ f[k - 1] \in Residue /\ g[k] \in Residue /\ f[k] \in Residue
    OBVIOUS
  <2>1. k \in 0 .. n /\ k - 1 \in 0 .. n
    OBVIOUS
  <2> QED
    BY <2>1, RemaindersStep DEF Both
<1>3. Bad = {}
  <2> SUFFICES ASSUME Bad # {} PROVE FALSE
    OBVIOUS
  <2>1. Bad \subseteq Nat
    OBVIOUS
  <2>2. PICK k \in Bad : \A j \in Bad : k <= j
    <3> HIDE DEF Bad
    <3> QED
      BY <2>1, Least
  <2>3. CASE k = 1
    <3>1. g[1] = Step(g[0], x) /\ f[1] = Step(f[0], y) /\ g[0] = 0 /\ f[0] = 0
      BY <1>2, RemaindersStep DEF Both
    <3>2. g[1] = x /\ f[1] = y
      BY <3>1 DEF Step, Scale, Digit
    <3>3. g[1] - f[1] = d * 1 + 97 * 0
      BY <1>1, <3>2 DEF Digit
    <3>4. Weighs(1, 0, 1)
      BY <3>3 DEF Spread, Residue, Powers
    <3> QED
      BY <2>2, <2>3, <3>4
  <2>4. CASE k # 1
    <3>1. k \in 2 .. n - 1 /\ k \in 1 .. n /\ k - 1 \in 1 .. n - 1 /\ k - 1 \notin Bad
      <4>1. k \in 1 .. n - 1 /\ k \in Nat /\ k - 1 \in Nat /\ ~(k <= k - 1)
        BY <2>2
      <4>2. k - 1 \notin Bad
        <5> HIDE DEF Bad
        <5> QED
          BY <2>2, <4>1
      <4> QED
        <5>1. k \in 2 .. n - 1 /\ k \in 1 .. n /\ k - 1 \in 1 .. n - 1
          <6> HIDE DEF Bad
          <6> QED
            BY <2>4, <4>1
        <5> HIDE DEF Bad
        <5> QED
          BY <4>2, <5>1
    <3>2. PICK e, w : Weighs(k - 1, e, w)
      BY <3>1
    <3>3. m[k] \in Value /\ m[k] = p[k]
      BY <3>1 DEF Both, Numeral
    <3> PICK v : v = (Scale(m[k]) * w) % 97
      OBVIOUS
    <3>4. Spread(g[k], f[k], d, v)
      BY <1>1, <1>2, <3>1, <3>2, <3>3, SpreadStep
    <3>5. e \in 0 .. 64 /\ e <= 2 * k - 4 /\ w \in Residue
      BY <3>1, <3>2
    <3>6. (10 * w) % 97 \in Residue /\ <<e + 1, (10 * w) % 97>> \in Powers
      <4>1. e \in 0 .. 66 /\ <<e, w>> \in Powers /\ e <= 65
        BY <3>2, <3>5
      <4>2. <<e + 1, (10 * w) % 97>> \in Powers
        BY <3>5, <4>1, PowersAre
      <4> QED
        BY <3>5, <4>2 DEF Residue
    <3>7. CASE m[k] \in Digit
      <4>1. v = (10 * w) % 97
        BY <3>7 DEF Scale
      <4>2. Weighs(k, e + 1, v)
        BY <3>1, <3>4, <3>5, <3>6, <4>1
      <4> QED
        BY <2>2, <4>2
    <3>8. CASE m[k] \notin Digit
      <4>1. v = (10 * ((10 * w) % 97)) % 97
        BY <3>5, <3>8 DEF Scale, Residue
      <4>2. e + 1 \in 0 .. 66 /\ e + 1 <= 65 /\ (e + 1) + 1 = e + 2
        BY <3>5
      <4>3. v \in Residue /\ <<e + 2, v>> \in Powers
        <5> PICK u : u = (10 * w) % 97
          OBVIOUS
        <5>1. u \in Residue /\ v = (10 * u) % 97 /\ <<e + 1, u>> \in Powers
          BY <3>6, <4>1
        <5>2. <<(e + 1) + 1, (10 * u) % 97>> \in Powers
          BY <4>2, <5>1, PowersAre
        <5>3. v \in Residue
          BY <5>1 DEF Residue
        <5> QED
          BY <4>2, <5>1, <5>2, <5>3
      <4>4. Weighs(k, e + 2, v)
        BY <3>1, <3>4, <3>5, <4>3
      <4> QED
        BY <2>2, <4>4
    <3> QED
      BY <3>7, <3>8
  <2> QED
    BY <2>3, <2>4
<1>4. n - 1 \in 1 .. n - 1 /\ n \in 1 .. n
  OBVIOUS
<1>5. PICK e, w : Weighs(n - 1, e, w)
  BY <1>3, <1>4
<1>6. e \in 0 .. 66 /\ w \in Residue /\ <<e, w>> \in Powers
  BY <1>5
<1>7. (10 * w) % 97 # 1
  BY <1>6, PowersAre
<1>8. g[n] = Step(g[n - 1], y) /\ f[n] = Step(f[n - 1], x) /\ g[n - 1] \in Residue /\ f[n - 1] \in Residue
  BY <1>2, <1>4
<1> QED
  BY <1>5, <1>6, <1>7, <1>8, SpreadEnds
------------------------------------------------------------------------------
(* Slips *)

\* Where the i-th character of an IBAN of n goes, and which one is there.
Place(i, n) == IF i > 4 THEN i - 4 ELSE n - 4 + i

\* q without its first four characters is a and b are those; c is a and then b;
\* m is q with every character moved to its place.
Parted(q, a, b, n) ==
    /\ \A j \in 1 .. n - 4 : a[j] = q[j + 4]
    /\ \A j \in 1 .. 4 : b[j] = q[j]

Joined(a, b, c, n) == \A j \in 1 .. n : c[j] = IF j <= n - 4 THEN a[j] ELSE b[j - (n - 4)]

Placed(m, q, n) == \A i \in 1 .. n : m[Place(i, n)] = q[i]

LEMMA Rearranged ==
    ASSUME NEW q, NEW a, NEW b, NEW c, NEW n \in 5 .. 34,
           Parted(q, a, b, n), Joined(a, b, c, n)
    PROVE  Placed(c, q, n)
<1>0. /\ \A j \in 1 .. n - 4 : a[j] = q[j + 4]
      /\ \A j \in 1 .. 4 : b[j] = q[j]
      /\ \A j \in 1 .. n : c[j] = IF j <= n - 4 THEN a[j] ELSE b[j - (n - 4)]
  BY DEF Parted, Joined
<1> SUFFICES ASSUME NEW i \in 1 .. n
             PROVE  c[Place(i, n)] = q[i]
  BY DEF Placed
<1>1. CASE i > 4
  <2> PICK k : k = i - 4
    OBVIOUS
  <2>1. k \in 1 .. n - 4 /\ k \in 1 .. n /\ k <= n - 4 /\ k + 4 = i /\ Place(i, n) = k
    BY <1>1 DEF Place
  <2>2. c[k] = a[k] /\ a[k] = q[k + 4]
    BY <1>0, <2>1
  <2> QED
    BY <2>1, <2>2
<1>2. CASE ~ i > 4
  <2> PICK k : k = n - 4 + i
    OBVIOUS
  <2>1. k \in 1 .. n /\ ~ k <= n - 4 /\ k - (n - 4) = i /\ Place(i, n) = k /\ i \in 1 .. 4
    BY <1>2 DEF Place
  <2>2. c[k] = b[k - (n - 4)] /\ b[i] = q[i]
    BY <1>0, <2>1
  <2> QED
    BY <2>1, <2>2
<1> QED
  BY <1>1, <1>2

LEMMA RotatedAt ==
    ASSUME NEW q \in Seq(Value), NEW n \in 5 .. 34, Len(q) = n
    PROVE  /\ Numeral(Rotated(q), n)
           /\ \A i \in 1 .. n : Rotated(q)[Place(i, n)] = q[i]
<1>0. /\ 5 \in Int /\ 1 \in Int /\ 4 \in Int /\ n \in Int
      /\ (\A i \in 5 .. n : q[i] \in Value) /\ (\A i \in 1 .. 4 : q[i] \in Value)
  <2>1. \A i \in 1 .. n : q[i] \in Value
    OBVIOUS
  <2> QED
    BY <2>1
<1>1. /\ SubSeq(q, 5, n) \in Seq(Value) /\ Len(SubSeq(q, 5, n)) = n - 4
      /\ \A j \in 1 .. n - 4 : SubSeq(q, 5, n)[j] = q[j + 4]
  <2> PICK a : a = SubSeq(q, 5, n)
    OBVIOUS
  <2>1. /\ a \in Seq(Value) /\ Len(a) = IF 5 <= n THEN n - 5 + 1 ELSE 0
        /\ \A j \in 1 .. n - 5 + 1 : a[j] = q[5 + j - 1]
    BY <1>0, SubSeqProperties
  <2>2. n - 5 + 1 = n - 4 /\ 5 <= n /\ \A j \in Int : 5 + j - 1 = j + 4
    OBVIOUS
  <2> QED
    BY <2>1, <2>2
<1>2. /\ SubSeq(q, 1, 4) \in Seq(Value) /\ Len(SubSeq(q, 1, 4)) = 4
      /\ \A j \in 1 .. 4 : SubSeq(q, 1, 4)[j] = q[j]
  <2> PICK b : b = SubSeq(q, 1, 4)
    OBVIOUS
  <2>1. /\ b \in Seq(Value) /\ Len(b) = IF 1 <= 4 THEN 4 - 1 + 1 ELSE 0
        /\ \A j \in 1 .. 4 - 1 + 1 : b[j] = q[1 + j - 1]
    BY <1>0, SubSeqProperties
  <2>2. 4 - 1 + 1 = 4 /\ 1 <= 4 /\ \A j \in Int : 1 + j - 1 = j
    OBVIOUS
  <2> QED
    BY <2>1, <2>2
<1> PICK a, b : a = SubSeq(q, 5, n) /\ b = SubSeq(q, 1, 4)
  OBVIOUS
<1>3. /\ a \o b \in Seq(Value) /\ Len(a \o b) = n
      /\ \A j \in 1 .. n : (a \o b)[j] = IF j <= n - 4 THEN a[j] ELSE b[j - (n - 4)]
  BY <1>1, <1>2
<1>4. \A j \in 1 .. n : (a \o b)[j] \in Value
  <2> PICK c : c = a \o b
    OBVIOUS
  <2>1. c \in Seq(Value) /\ Len(c) = n
    BY <1>3
  <2>2. \A j \in 1 .. n : c[j] \in Value
    BY <2>1
  <2> QED
    BY <2>2
<1>5. \A i \in 1 .. n : (a \o b)[Place(i, n)] = q[i]
  <2> PICK c : c = a \o b
    OBVIOUS
  <2>1. Parted(q, a, b, n)
    BY <1>1, <1>2 DEF Parted
  <2>2. Joined(a, b, c, n)
    BY <1>3 DEF Joined
  <2>3. Placed(c, q, n)
    BY <2>1, <2>2, Rearranged
  <2> QED
    BY <2>3 DEF Placed
<1>6. Rotated(q) = a \o b
  BY DEF Rotated
<1> QED
  BY <1>4, <1>5, <1>6 DEF Numeral

LEMMA Places ==
    ASSUME NEW n \in 5 .. 34
    PROVE  /\ \A i \in 1 .. n : Place(i, n) \in 1 .. n
           /\ \A j \in 1 .. n : \E i \in 1 .. n : j = Place(i, n)
           /\ Place(4, n) = n /\ Place(5, n) = 1
           /\ \A i \in 1 .. n - 1 : i # 4 => Place(i, n) \in 1 .. n - 1 /\ Place(i + 1, n) = Place(i, n) + 1
<1>1. \A i \in 1 .. n : Place(i, n) \in 1 .. n
  BY DEF Place
<1>2. ASSUME NEW j \in 1 .. n PROVE \E i \in 1 .. n : j = Place(i, n)
  <2>1. CASE j <= n - 4
    <3>1. j + 4 \in 1 .. n /\ j = Place(j + 4, n)
      BY <2>1 DEF Place
    <3> QED
      BY <3>1
  <2>2. CASE ~(j <= n - 4)
    <3>1. j - (n - 4) \in 1 .. n /\ j = Place(j - (n - 4), n)
      BY <2>2 DEF Place
    <3> QED
      BY <3>1
  <2> QED
    BY <2>1, <2>2
<1>3. Place(4, n) = n /\ Place(5, n) = 1
  BY DEF Place
<1>4. ASSUME NEW i \in 1 .. n - 1, i # 4 PROVE Place(i, n) \in 1 .. n - 1 /\ Place(i + 1, n) = Place(i, n) + 1
  BY <1>4 DEF Place
<1> QED
  BY <1>1, <1>2, <1>3, <1>4

\* s is q with another character of the kind at i, or with i and its neighbour exchanged.
OneOther(q, s, i, n) ==
    /\ s[i] # q[i]
    /\ s[i] \in Digit <=> q[i] \in Digit
    /\ \A k \in 1 .. n : k # i => s[k] = q[k]

TwoExchanged(q, s, i, n) ==
    /\ q[i] # q[i + 1] /\ s[i] = q[i + 1] /\ s[i + 1] = q[i]
    /\ q[i] \in Digit <=> q[i + 1] \in Digit
    /\ \A k \in 1 .. n : k # i /\ k # i + 1 => s[k] = q[k]

LEMMA MistypedShows ==
    ASSUME NEW n \in 5 .. 34, NEW g, NEW m, NEW f, NEW p, Both(g, m, f, p, n),
           NEW q, NEW s, Placed(m, q, n), Placed(p, s, n),
           NEW i \in 1 .. n, OneOther(q, s, i, n)
    PROVE  g[n] # f[n]
<1>0. /\ s[i] # q[i] /\ (s[i] \in Digit <=> q[i] \in Digit)
      /\ \A k \in 1 .. n : k # i => s[k] = q[k]
  BY DEF OneOther
<1> PICK k : k = Place(i, n)
  OBVIOUS
<1>1. k \in 1 .. n /\ m[k] = q[i] /\ p[k] = s[i]
  BY Places DEF Placed
<1>2. ASSUME NEW j \in 1 .. n, j # k PROVE m[j] = p[j]
  <2>1. PICK h \in 1 .. n : j = Place(h, n)
    BY Places
  <2> QED
    BY <1>0, <1>2, <2>1 DEF Placed
<1> QED
  BY <1>0, <1>1, <1>2, MistypingShows

LEMMA TransposedShows ==
    ASSUME NEW n \in 5 .. 34, NEW g, NEW m, NEW f, NEW p, Both(g, m, f, p, n),
           NEW q, NEW s, Placed(m, q, n), Placed(p, s, n), q[4] \in Digit,
           NEW i \in 1 .. n - 1, TwoExchanged(q, s, i, n)
    PROVE  g[n] # f[n]
<1>0. /\ q[i] # q[i + 1] /\ s[i] = q[i + 1] /\ s[i + 1] = q[i]
      /\ (q[i] \in Digit <=> q[i + 1] \in Digit)
      /\ \A k \in 1 .. n : k # i /\ k # i + 1 => s[k] = q[k]
  BY DEF TwoExchanged
<1> PICK k, l : k = Place(i, n) /\ l = Place(i + 1, n)
  OBVIOUS
<1>1. i \in 1 .. n /\ i + 1 \in 1 .. n
  OBVIOUS
<1>2. /\ k \in 1 .. n /\ m[k] = q[i] /\ p[k] = q[i + 1]
      /\ l \in 1 .. n /\ m[l] = q[i + 1] /\ p[l] = q[i]
  BY <1>0, <1>1, Places DEF Placed
<1>3. \A j \in 1 .. n : j # k /\ j # l => m[j] = p[j]
  <2> SUFFICES ASSUME NEW j \in 1 .. n, j # k, j # l PROVE m[j] = p[j]
    OBVIOUS
  <2>1. PICK h \in 1 .. n : j = Place(h, n)
    BY Places
  <2> QED
    BY <1>0, <2>1 DEF Placed
<1>4. CASE i = 4
  <2>1. Place(4, n) = n /\ Place(5, n) = 1
    BY Places
  <2>2. k = Place(4, n) /\ l = Place(5, n)
    <3>1. i + 1 = 5
      BY <1>4
    <3> QED
      BY <1>4, <3>1
  <2>3. k = n /\ l = 1
    BY <2>1, <2>2
  <2>4. m[1] \in Digit /\ m[n] \in Digit /\ m[1] # m[n] /\ p[1] = m[n] /\ p[n] = m[1]
    BY <1>0, <1>2, <1>4, <2>3
  <2>5. \A j \in 2 .. n - 1 : m[j] = p[j]
    <3>1. \A j \in 2 .. n - 1 : j \in 1 .. n /\ j # 1 /\ j # n
      OBVIOUS
    <3> QED
      BY <1>3, <2>3, <3>1
  <2>6. n \in 2 .. 34
    OBVIOUS
  <2> QED
    BY <2>4, <2>5, <2>6, EndsExchangeShows
<1>5. CASE i # 4
  <2>1. k \in 1 .. n - 1 /\ l = k + 1
    BY <1>5, Places
  <2>2. m[k] # m[k + 1] /\ p[k] = m[k + 1] /\ p[k + 1] = m[k]
    BY <1>0, <1>2, <2>1
  <2>3. m[k] \in Digit <=> m[k + 1] \in Digit
    BY <1>0, <1>2, <2>1
  <2>4. \A j \in 1 .. n : j # k /\ j # k + 1 => m[j] = p[j]
    BY <1>3, <2>1
  <2> HIDE <1>2
  <2> QED
    BY <2>1, <2>2, <2>3, <2>4, ExchangeShows
<1> QED
  BY <1>4, <1>5

LEMMA SlipsAreInvalid ==
    ASSUME NEW iban \in Seq(Value), ValidIban(iban), NEW s \in Seq(Value), s \in Slips(iban)
    PROVE  ~ValidIban(s)
<1> SUFFICES ASSUME ValidIban(s) PROVE FALSE
  OBVIOUS
<1> PICK n : n = Len(iban)
  OBVIOUS
<1>1. n \in 5 .. 34 /\ iban[4] \in Digit
  BY DEF ValidIban, Shaped
<1>2. s # iban /\ Len(s) = n /\ \A i \in DOMAIN s : s[i] \in Digit <=> iban[i] \in Digit
  BY DEF Slips, SameKinds
<1>3. DOMAIN iban = 1 .. n /\ DOMAIN s = 1 .. n
  BY <1>2
<1>4. \E k \in 1 .. n : s[k] # iban[k]
  BY <1>2, <1>3
<1> PICK m, p : m = Rotated(iban) /\ p = Rotated(s)
  OBVIOUS
<1>5. PICK g, f : /\ Remainders(g, m, n) /\ g[n] = 1
                  /\ Remainders(f, p, n) /\ f[n] = 1
  BY <1>1, <1>2, ChecksumIsRemainder DEF ValidIban
<1>6. Numeral(m, n) /\ Numeral(p, n) /\ Placed(m, iban, n) /\ Placed(p, s, n)
  BY <1>1, <1>2, RotatedAt DEF Placed
<1>7. n \in Nat
  BY <1>1
<1>8. Both(g, m, f, p, n)
  BY <1>5, <1>6, <1>7 DEF Both
<1>9. CASE s \in Mistyped(iban)
  <2>1. PICK i \in 1 .. n, x \in Digit \cup Letter : s = [iban EXCEPT ![i] = x]
    BY <1>3, <1>9 DEF Mistyped
  <2>2. \A k \in 1 .. n : k # i => s[k] = iban[k]
    BY <1>3, <2>1
  <2>3. s[i] # iban[i] /\ (s[i] \in Digit <=> iban[i] \in Digit)
    BY <1>2, <1>3, <1>4, <2>2
  <2>4. OneOther(iban, s, i, n)
    BY <2>2, <2>3 DEF OneOther
  <2>5. g[n] # f[n]
    BY <1>1, <1>6, <1>8, <2>4, MistypedShows
  <2> QED
    BY <1>5, <2>5
<1>10. CASE s \in Transposed(iban)
  <2>1. PICK i \in 1 .. n - 1 : s = [iban EXCEPT ![i] = iban[i + 1], ![i + 1] = iban[i]]
    BY <1>10 DEF Transposed
  <2>2. i \in 1 .. n /\ i + 1 \in 1 .. n /\ i # i + 1
    BY <1>1
  <2>3. s[i] = iban[i + 1] /\ s[i + 1] = iban[i] /\ \A k \in 1 .. n : k # i /\ k # i + 1 => s[k] = iban[k]
    BY <1>3, <2>1, <2>2
  <2>4. iban[i] # iban[i + 1] /\ (iban[i] \in Digit <=> iban[i + 1] \in Digit)
    BY <1>2, <1>3, <1>4, <2>2, <2>3
  <2>5. TwoExchanged(iban, s, i, n)
    BY <2>3, <2>4 DEF TwoExchanged
  <2>6. g[n] # f[n]
    BY <1>1, <1>6, <1>8, <2>5, TransposedShows
  <2> QED
    BY <1>5, <2>6
<1> QED
  BY <1>9, <1>10 DEF Slips
------------------------------------------------------------------------------
(* What is answered *)

LEMMA LongEnough ==
    ASSUME NEW n \in 5 .. 34
    PROVE  ~(n < 4) /\ \A i \in 1 .. 4 : i \in 1 .. n
  OBVIOUS

LEMMA SlipsCheckInvalid ==
    ASSUME NEW iban \in Seq(Value), ValidIban(iban), NEW s \in Seq(Value), s \in Slips(iban)
    PROVE  CheckAccountFormat(s) = "INVALID"
<1>1. ~ValidIban(s)
  BY SlipsAreInvalid
<1>2. Shaped(iban) /\ Len(iban) \in Nat
  BY DEF ValidIban
<1>3. Len(s) = Len(iban) /\ \A i \in 1 .. Len(s) : s[i] \in Digit <=> iban[i] \in Digit
  BY DEF Slips, SameKinds
<1>4. Len(s) \in 5 .. 34
  BY <1>2, <1>3 DEF Shaped
<1>5. \A i \in 1 .. 4 : i \in 1 .. Len(s) /\ i \in 1 .. Len(iban)
  BY <1>3, <1>4, LongEnough
<1>6. \A i \in 1 .. 4 : s[i] \in Value
  BY <1>5
<1>7. \A x \in Value : x \in Letter <=> x \notin Digit
  BY DEF Value, Letter, Digit
<1>8. s[1] \in Letter /\ s[2] \in Letter /\ s[3] \in Digit /\ s[4] \in Digit
  <2>1. iban[1] \notin Digit /\ iban[2] \notin Digit /\ iban[3] \in Digit /\ iban[4] \in Digit
    <3>1. iban[1] \in Letter /\ iban[2] \in Letter /\ iban[3] \in Digit /\ iban[4] \in Digit
      BY <1>2 DEF Shaped
    <3>2. \A x \in Letter : x \in Value
      BY DEF Value
    <3> QED
      BY <1>7, <3>1, <3>2
  <2> QED
    BY <1>3, <1>5, <1>6, <1>7, <2>1
<1>9. ~(Len(s) < 4)
  BY <1>4, LongEnough
<1> QED
  BY <1>1, <1>8, <1>9 DEF CheckAccountFormat

LEMMA AccountFormats ==
    ASSUME NEW account
    PROVE  /\ CheckAccountFormat(account) \in {"VALID", "INVALID", "NOT_AVAILABLE"}
           /\ CheckAccountFormat(account) = "VALID" => ValidIban(account)
           /\ ValidIban(account) => CheckAccountFormat(account) = "VALID"
<1>1. CheckAccountFormat(account) \in {"VALID", "INVALID", "NOT_AVAILABLE"}
  BY DEF CheckAccountFormat
<1>2. CheckAccountFormat(account) = "VALID" => ValidIban(account)
  BY DEF CheckAccountFormat
<1>3. ASSUME ValidIban(account) PROVE CheckAccountFormat(account) = "VALID"
  <2>1. Shaped(account)
    BY <1>3 DEF ValidIban
  <2>2. /\ ~(Len(account) < 4) /\ account[1] \in Letter /\ account[2] \in Letter
        /\ account[3] \in Digit /\ account[4] \in Digit
    BY <2>1 DEF Shaped
  <2> QED
    BY <1>3, <2>2 DEF CheckAccountFormat
<1> QED
  BY <1>1, <1>2, <1>3

\* Who is vouched for has a valid number or none that is an IBAN's.
Vouched(a) ==
    /\ a.account \in Seq(Value)
    /\ a.outcome \in Vouches => CheckAccountFormat(a.account) # "INVALID"
    /\ a.outcome = "VIBN" => CheckAccountFormat(a.account) = "VALID"

AInv == Vouched(answer)

LEMMA NoAccountIsDomestic == CheckAccountFormat(<<>>) = "NOT_AVAILABLE" /\ <<>> \in Seq(Value)
<1>1. Len(<<>>) < 4
  OBVIOUS
<1>2. CheckAccountFormat(<<>>) = "NOT_AVAILABLE"
  BY <1>1, Zenon DEF CheckAccountFormat
<1>3. <<>> \in Seq(Value)
  OBVIOUS
<1> QED
  BY <1>2, <1>3

LEMMA Answered ==
    ASSUME NEW c \in Client, NEW about, NEW account \in Seq(Value), NEW outcome, Answer(c, about, account, outcome),
           outcome \in Vouches => CheckAccountFormat(account) # "INVALID",
           outcome = "VIBN" => CheckAccountFormat(account) = "VALID"
    PROVE  AInv'
<1>1. answer'.account = account /\ answer'.outcome = outcome
  BY DEF Answer
<1> QED
  BY <1>1 DEF AInv, Vouched

\* The roll-up vouches for nothing that a check has called invalid.
LEMMA RolledUp ==
    ASSUME NEW b, NEW account, NEW a, NEW code, NEW debtor, NEW creditor,
           NEW outcome, outcome = RollUp(Checks(b, account, a, code, debtor, creditor))
    PROVE  outcome # "VIBN" /\ (outcome \in Vouches => CheckAccountFormat(account) # "INVALID")
<1> PICK checks : checks = Checks(b, account, a, code, debtor, creditor)
  OBVIOUS
<1>1. 2 \in DOMAIN checks /\ checks[2] = CheckAccountFormat(account)
  BY DEF Checks
<1>2. CheckAccountFormat(account) = "INVALID" => RollUp(checks) = "ERROR"
  <2>1. CheckAccountFormat(account) = "INVALID" => "INVALID" \in {checks[i] : i \in DOMAIN checks}
    BY <1>1, Zenon
  <2> QED
    BY <2>1, Zenon DEF RollUp
<1>3. RollUp(checks) \in {"ERROR", "WARNING", "ALL_VALID", "PARTIALLY_VALIDATED"}
  BY DEF RollUp
<1> QED
  BY <1>2, <1>3 DEF Vouches

LEMMA NextAnswer == AInv /\ [PrevalidationNext]_<<requestVars, answer>> => AInv'
<1> SUFFICES ASSUME AInv, [PrevalidationNext]_<<requestVars, answer>> PROVE AInv'
  OBVIOUS
<1>1. CASE UNCHANGED <<requestVars, answer>>
  BY <1>1 DEF AInv
<1>2. ASSUME NEW c \in Client, NEW b \in SwiftRefBicRow, GetBicValidity(c, b) \/ ValidateFiIdentity(c, b) PROVE AInv'
  <2>1. LookupBic(b) # "VIBN" /\ CheckBic(b) # "VIBN"
    BY DEF LookupBic, CheckBic
  <2> QED
    BY <1>2, <2>1, NoAccountIsDomestic, Answered DEF GetBicValidity, ValidateFiIdentity
<1>3. ASSUME NEW c \in Client, NEW account \in Seq(Digit \cup Letter), GetIbanValidity(c, account) PROVE AInv'
  <2>1. LookupIbanValidity(account) = "VIBN" => ValidIban(account)
    BY DEF LookupIbanValidity
  <2>2. LookupIbanValidity(account) \in Vouches => LookupIbanValidity(account) = "VIBN"
    BY DEF LookupIbanValidity, Vouches
  <2> QED
    BY <1>3, <2>1, <2>2, AccountFormats, Answered DEF GetIbanValidity, Value
<1>4. ASSUME NEW c \in Client, NEW account \in Seq(Digit \cup Letter), GetIbanBic(c, account) PROVE AInv'
  <2>1. LookupIbanBic(account) \in Vouches => ValidIban(account)
    BY DEF LookupIbanBic, Vouches
  <2>2. LookupIbanBic(account) # "VIBN"
    BY DEF LookupIbanBic
  <2> QED
    BY <1>4, <2>1, <2>2, AccountFormats, Answered DEF GetIbanBic, Value
<1>5. ASSUME NEW c \in Client, NEW account \in Seq(Digit \cup Letter), GetIbanDetails(c, account) PROVE AInv'
  <2>1. LookupIbanDetails(account) \notin Vouches /\ LookupIbanDetails(account) # "VIBN"
    BY DEF LookupIbanDetails, Vouches
  <2> QED
    BY <1>5, <2>1, Answered DEF GetIbanDetails, Value
<1>6. ASSUME NEW c \in Client, NEW account \in Seq(Digit \cup Letter), ValidateAccountFormat(c, account) PROVE AInv'
  <2>1. CheckAccountFormat(account) # "VIBN" /\ (CheckAccountFormat(account) \in Vouches => CheckAccountFormat(account) # "INVALID")
    BY AccountFormats DEF Vouches
  <2> QED
    BY <1>6, <2>1, Answered DEF ValidateAccountFormat, Value
<1>7. ASSUME NEW c \in Client, NEW account \in Seq(Digit \cup Letter), NEW b, NEW a, NEW code, NEW debtor, NEW creditor,
             ValidatePaymentInstruction(c, b, account, a, code, debtor, creditor)
      PROVE  AInv'
  <2> PICK outcome : outcome = RollUp(Checks(b, account, a, code, debtor, creditor))
    OBVIOUS
  <2>1. Answer(c, "instruction", account, outcome)
    BY <1>7 DEF ValidatePaymentInstruction
  <2>2. outcome # "VIBN" /\ (outcome \in Vouches => CheckAccountFormat(account) # "INVALID")
    BY RolledUp
  <2> QED
    BY <2>1, <2>2, Answered DEF Value
<1>8. ASSUME NEW c \in Client, NEW code \in STRING, GetCurrencyValidity(c, code) PROVE AInv'
  <2>1. LookupCurrency(code) # "VIBN"
    BY DEF LookupCurrency
  <2> QED
    BY <1>8, <2>1, NoAccountIsDomestic, Answered DEF GetCurrencyValidity
<1>9. ASSUME NEW c \in Client, NEW code \in STRING, NEW a \in AskedAmount, ValidateAmount(c, a, code) PROVE AInv'
  <2>1. CheckAmount(a, code) # "VIBN"
    BY DEF CheckAmount
  <2> QED
    BY <1>9, <2>1, NoAccountIsDomestic, Answered DEF ValidateAmount
<1> QED
  BY <1>1, <1>2, <1>3, <1>4, <1>5, <1>6, <1>7, <1>8, <1>9 DEF PrevalidationNext

\* Along every behaviour who is vouched for is not known to be wrong.
THEOREM PrevalidationInvariance == PrevalidationSpec => []AInv
<1>1. DirectoryInit => AInv
  <2> SUFFICES ASSUME DirectoryInit PROVE AInv
    OBVIOUS
  <2>1. answer.account = <<>> /\ answer.outcome = ""
    BY DEF DirectoryInit, NoAnswer
  <2>2. answer.account \in Seq(Value)
    BY <2>1, NoAccountIsDomestic
  <2>3. answer.outcome \notin Vouches /\ answer.outcome # "VIBN"
    BY <2>1 DEF Vouches
  <2> QED
    BY <2>2, <2>3 DEF AInv, Vouched
<1> QED
  BY <1>1, NextAnswer, PTL DEF PrevalidationSpec

\* Who is vouched for is no slip.
LEMMA SlipsRefused == AInv => SlipsAreRefused
<1> SUFFICES ASSUME AInv PROVE SlipsAreRefused
  OBVIOUS
<1>1. ASSUME answer.outcome \in Vouches, NEW iban \in DOMAIN SwiftRefIban, ValidIban(iban)
      PROVE  answer.account \notin Slips(iban)
  <2>1. iban \in Seq(Value) /\ answer.account \in Seq(Value)
    BY DirectoryAssumption DEF AInv, Vouched, Value
  <2> QED
    BY <1>1, <2>1, SlipsCheckInvalid DEF AInv, Vouched
<1>2. answer.outcome = "VIBN" => CheckAccountFormat(answer.account) = "VALID"
  BY DEF AInv, Vouched
<1> QED
  BY <1>1, <1>2 DEF SlipsAreRefused

\* core/iban.py: the check digits tell every slip of one character or of two
\* neighbours, in an account of any country and any length that can be valid;
\* and no endpoint vouches for one.
THEOREM SlipsAreRefusedHolds == PrevalidationSpec => []SlipsAreRefused
  BY SlipsRefused, PrevalidationInvariance, PTL

------------------------------------------------------------------------------
(* Prevalidation: what an answer is *)

Bics == {""} \cup {SwiftRefIban[iban].bic : iban \in DOMAIN SwiftRefIban}

ATyped == answer.outcome \in Outcomes /\ answer.bic \in Bics

LEMMA AnswerTyped == AInv /\ ATyped => PrevalidationTypeOK
<1> SUFFICES ASSUME AInv, ATyped PROVE PrevalidationTypeOK
  OBVIOUS
<1>1. answer.account \in Seq(Digit \cup Letter)
  BY DEF AInv, Vouched, Value
<1>2. \A i \in DOMAIN answer.account : answer.account[i] \in Digit \cup Letter
  BY <1>1
<1> QED
  BY <1>2 DEF ATyped, Bics, PrevalidationTypeOK

\* The BIC that is given is one of the directory.
LEMMA AnswerIsTyped ==
    ASSUME NEW c \in Client, NEW about, NEW account, NEW outcome \in Outcomes, Answer(c, about, account, outcome),
           outcome = "found" => account \in DOMAIN SwiftRefIban
    PROVE  ATyped'
<1> PICK bic : bic = IF outcome = "found" THEN SwiftRefIban[account].bic ELSE ""
  OBVIOUS
<1>1. bic \in Bics
  BY DEF Bics
<1>2. answer'.outcome = outcome /\ answer'.bic = bic
  BY DEF Answer
<1> QED
  BY <1>1, <1>2 DEF ATyped

LEMMA NextAnswerTypes == ATyped /\ [PrevalidationNext]_<<requestVars, answer>> => ATyped'
<1> SUFFICES ASSUME ATyped, [PrevalidationNext]_<<requestVars, answer>> PROVE ATyped'
  OBVIOUS
<1>1. CASE UNCHANGED <<requestVars, answer>>
  BY <1>1 DEF ATyped
<1>2. ASSUME NEW c \in Client, NEW b \in SwiftRefBicRow, GetBicValidity(c, b) \/ ValidateFiIdentity(c, b) PROVE ATyped'
  <2>1. LookupBic(b) \in Outcomes \ {"found"} /\ CheckBic(b) \in Outcomes \ {"found"}
    BY DEF LookupBic, CheckBic, Outcomes
  <2> QED
    BY <1>2, <2>1, AnswerIsTyped DEF GetBicValidity, ValidateFiIdentity
<1>3. ASSUME NEW c \in Client, NEW account \in Seq(Digit \cup Letter), GetIbanValidity(c, account) PROVE ATyped'
  <2>1. LookupIbanValidity(account) \in Outcomes \ {"found"}
    BY DEF LookupIbanValidity, Outcomes
  <2> QED
    BY <1>3, <2>1, AnswerIsTyped DEF GetIbanValidity
<1>4. ASSUME NEW c \in Client, NEW account \in Seq(Digit \cup Letter), GetIbanBic(c, account) PROVE ATyped'
  <2>1. LookupIbanBic(account) \in Outcomes /\ (LookupIbanBic(account) = "found" => account \in DOMAIN SwiftRefIban)
    BY DEF LookupIbanBic, Outcomes
  <2> QED
    BY <1>4, <2>1, AnswerIsTyped DEF GetIbanBic
<1>5. ASSUME NEW c \in Client, NEW account \in Seq(Digit \cup Letter), GetIbanDetails(c, account) PROVE ATyped'
  <2>1. LookupIbanDetails(account) \in Outcomes \ {"found"}
    BY DEF LookupIbanDetails, Outcomes
  <2> QED
    BY <1>5, <2>1, AnswerIsTyped DEF GetIbanDetails
<1>6. ASSUME NEW c \in Client, NEW account \in Seq(Digit \cup Letter), ValidateAccountFormat(c, account) PROVE ATyped'
  <2>1. CheckAccountFormat(account) \in Outcomes \ {"found"}
    BY AccountFormats DEF Outcomes
  <2> QED
    BY <1>6, <2>1, AnswerIsTyped DEF ValidateAccountFormat
<1>7. ASSUME NEW c \in Client, NEW account \in Seq(Digit \cup Letter), NEW b, NEW a, NEW code, NEW debtor, NEW creditor,
             ValidatePaymentInstruction(c, b, account, a, code, debtor, creditor)
      PROVE  ATyped'
  <2> PICK checks : checks = Checks(b, account, a, code, debtor, creditor)
    OBVIOUS
  <2>1. Answer(c, "instruction", account, RollUp(checks))
    BY <1>7 DEF ValidatePaymentInstruction
  <2>2. RollUp(checks) \in Outcomes \ {"found"}
    BY DEF RollUp, Outcomes
  <2> QED
    BY <2>1, <2>2, AnswerIsTyped
<1>8. ASSUME NEW c \in Client, NEW code \in STRING, GetCurrencyValidity(c, code) PROVE ATyped'
  <2>1. LookupCurrency(code) \in Outcomes \ {"found"}
    BY DEF LookupCurrency, Outcomes
  <2> QED
    BY <1>8, <2>1, AnswerIsTyped DEF GetCurrencyValidity
<1>9. ASSUME NEW c \in Client, NEW code \in STRING, NEW a \in AskedAmount, ValidateAmount(c, a, code) PROVE ATyped'
  <2>1. CheckAmount(a, code) \in Outcomes \ {"found"}
    BY DEF CheckAmount, Outcomes
  <2> QED
    BY <1>9, <2>1, AnswerIsTyped DEF ValidateAmount
<1> QED
  BY <1>1, <1>2, <1>3, <1>4, <1>5, <1>6, <1>7, <1>8, <1>9 DEF PrevalidationNext

LEMMA InitAnswer == DirectoryInit => AInv /\ ATyped
<1> SUFFICES ASSUME DirectoryInit PROVE AInv /\ ATyped
  OBVIOUS
<1>1. answer.account = <<>> /\ answer.outcome = "" /\ answer.bic = ""
  BY DEF DirectoryInit, NoAnswer
<1>2. answer.account \in Seq(Value)
  BY <1>1, NoAccountIsDomestic
<1>3. answer.outcome \notin Vouches /\ answer.outcome # "VIBN"
  BY <1>1 DEF Vouches
<1> QED
  BY <1>1, <1>2, <1>3 DEF AInv, Vouched, ATyped, Outcomes, Bics
==============================================================================
