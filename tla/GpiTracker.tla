------------------------------ MODULE GpiTracker ------------------------------
(***************************************************************************)
(* The tracker of the simulated SWIFT APIs (api/gpi, iso20022/states.py,   *)
(* admin/payments.py) and its FIN messages (api/messaging).  A payment has *)
(* a status and, as one JSON column, the history of its statuses; every    *)
(* endpoint reads the row without a lock, computes both and writes back    *)
(* what it has changed.                                                    *)
(***************************************************************************)
EXTENDS OpenRequests, SequencesExt

CONSTANTS
    Uetr,          \* payments
    Distribution,  \* FIN messages, by the id of their distribution
    LastPayment    \* bound: payments injected

ASSUME PaymentAssumption == LastPayment \in Nat

VARIABLES
    payment,   \* PaymentState rows by uetr: id, status and history
    injected,  \* the payments injected so far: the last id
    inbox      \* MessageDistribution rows by id: status and nak_reason

trackerVars == <<payment, injected, inbox>>

TrackerInit == payment = <<>> /\ injected = 0 /\ inbox = <<>>

PAYMENT_STATES == {"PDNG", "ACCP", "ACSP", "ACSC", "ACCC", "RJCT", "CANC", "PART"}

VALID_TRANSITIONS(s) ==
    CASE s = "PDNG" -> {"ACCP", "ACSP", "RJCT", "CANC"}
      [] s = "ACCP" -> {"ACSP", "ACSC", "RJCT", "CANC"}
      [] s = "ACSP" -> {"ACSC", "ACCC", "PART", "RJCT", "CANC"}
      [] s = "PART" -> {"ACSC", "ACCC", "RJCT"}
      [] OTHER -> {}     \* terminal

\* admin: POST and DELETE of payments
InjectPayment(c, u) ==
    /\ AtOnce(c)
    /\ u \notin DOMAIN payment
    /\ injected < LastPayment
    /\ injected' = injected + 1
    /\ payment' = Put(OneRow(u, [id |-> injected + 1, status |-> "PDNG", history |-> <<"PDNG">>]), payment)
    /\ UNCHANGED inbox

DeletePayment(c, u) ==
    /\ AtOnce(c)
    /\ u \in DOMAIN payment
    /\ payment' = [v \in DOMAIN payment \ {u} |-> payment[v]]
    /\ UNCHANGED <<injected, inbox>>

\* A request that will write this status, and append `told' to the history.
Report(c, u, status, told) ==
    /\ Open(c, [op |-> "gpi", uetr |-> u, loaded |-> payment[u],
                new |-> [id |-> payment[u].id, status |-> status, history |-> Append(payment[u].history, told)]])
    /\ UNCHANGED trackerVars

\* POST /payments/{uetr}/status
ReadConfirmation(c, u, status) ==
    /\ u \in DOMAIN payment
    /\ status \in VALID_TRANSITIONS(payment[u].status)
    /\ Report(c, u, status, status)

\* A cancellation that forgets the terminal states.
ReadCancellationAlways(c, u) ==
    /\ u \in DOMAIN payment
    /\ Report(c, u, "CANC", "CANC")

\* POST /payments/{uetr}/cancellation
ReadGpiCancellation(c, u) ==
    /\ u \in DOMAIN payment
    /\ "CANC" \in VALID_TRANSITIONS(payment[u].status)
    /\ Report(c, u, "CANC", "CANC")

\* POST /payments/{uetr}/cancellation/status: the outcome of the investigation
\* goes into the history, next to the status, which stays.
ReadInvestigation(c, u) ==
    /\ u \in DOMAIN payment
    /\ Report(c, u, payment[u].status, payment[u].status)

\* The commit; the UPDATE of a row that has been deleted is refused.
CommitReport(c) ==
    LET r == req[c] IN
    /\ r.op = "gpi"
    /\ r.uetr \in DOMAIN payment /\ payment[r.uetr].id = r.loaded.id
    /\ payment' = [payment EXCEPT ![r.uetr] = Flush(@, r.loaded, r.new)]
    /\ Commit(c, payment[r.uetr] = r.loaded)
    /\ UNCHANGED <<injected, inbox>>

\* POST /fin/messages: the message and its distribution, together
SendFin(c, d) ==
    /\ AtOnce(c)
    /\ d \in Distribution \ DOMAIN inbox
    /\ inbox' = Put(OneRow(d, [status |-> "available", reason |-> "none"]), inbox)
    /\ UNCHANGED <<payment, injected>>

\* ack and nak of a distribution, whatever it was before; the update sets the
\* same values whenever the row was read, and an ack keeps an earlier reason.
AckDistribution(c, d) ==
    /\ AtOnce(c)
    /\ d \in DOMAIN inbox
    /\ inbox' = [inbox EXCEPT ![d].status = "acked"]
    /\ UNCHANGED <<payment, injected>>

NakDistribution(c, d, reason) ==
    /\ AtOnce(c)
    /\ d \in DOMAIN inbox
    /\ inbox' = [inbox EXCEPT ![d] = [status |-> "naked", reason |-> reason]]
    /\ UNCHANGED <<payment, injected>>

RollBackTracker(c) ==
    /\ req[c].op = "gpi"
    /\ RollBack(c)
    /\ UNCHANGED trackerVars

TrackerNext == \E c \in Client :
    \/ \E u \in Uetr :
         \/ InjectPayment(c, u)
         \/ DeletePayment(c, u)
         \/ \E status \in PAYMENT_STATES : ReadConfirmation(c, u, status)
         \/ ReadGpiCancellation(c, u)
         \/ ReadInvestigation(c, u)
    \/ CommitReport(c)
    \/ \E d \in Distribution :
         \/ SendFin(c, d)
         \/ AckDistribution(c, d)
         \/ \E reason \in STRING : NakDistribution(c, d, reason)
    \/ RollBackTracker(c)

TrackerSpec ==
    /\ TrackerInit /\ \E allowed \in Nat : RequestsInit(allowed)
    /\ [][TrackerNext]_<<requestVars, trackerVars>>
-----------------------------------------------------------------------------
PaymentRow == [id : 1 .. LastPayment, status : PAYMENT_STATES, history : Seq(PAYMENT_STATES)]
DistributionStatus == {"available", "acked", "naked"}

TrackerTypeOK ==
    /\ \A u \in DOMAIN payment : payment[u] \in PaymentRow /\ payment[u].id <= injected
    /\ \A d \in DOMAIN inbox : inbox[d].status \in DistributionStatus

(* states.py and api/gpi/service.py: unless two reports of a payment overlap,
   its history begins with its injection, goes from one status to the next by
   the transitions of the table or repeats it, and ends with its status: no
   report is missing from it and no terminal status is left. *)
HistoryTellsTheStatus == ~stale => \A u \in DOMAIN payment :
    LET told == payment[u].history IN
    /\ told[1] = "PDNG"
    /\ Last(told) = payment[u].status
    /\ \A i \in 1 .. Len(told) - 1 : told[i + 1] \in VALID_TRANSITIONS(told[i]) \cup {told[i]}
=============================================================================
