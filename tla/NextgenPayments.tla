-------------------------- MODULE NextgenPayments --------------------------
(***************************************************************************)
(* The payment lifecycle of the simulator and the runtime under it         *)
(* (backend/nextgen/payments.py, runtime.py, platform.py): idempotent      *)
(* enqueueing, status transitions with a version, the chain of transaction *)
(* copies, cases, and the audit chain that policy decisions and            *)
(* reconciliations append to.  One payment and one case.                   *)
(***************************************************************************)
EXTENDS OpenRequests, Sequences

CONSTANTS
    Key,      \* idempotency keys
    Digest,   \* digests of request bodies
    Payload,  \* contents of copies and audit events
    MaxChain  \* bound: the length of a chain

\* A digest is a SHA-256 in hexadecimal.
ASSUME DigestAssumption == "none" \notin Digest

VARIABLES
    record,   \* IdempotencyRecord rows: the digest, or "none"
    queued,   \* committed outbox events per key
    life,     \* PaymentLifecycle row
    told,     \* committed "payment.*" outbox events, in order
    copies,   \* TransactionCopy rows by id
    casefile, \* PaymentCase.status, or "none"
    decided,  \* PolicyDecision rows
    audit     \* RuntimeAuditEvent rows by id

paymentsVars == <<record, queued, life, told, copies, casefile, decided, audit>>

NoLife == [status |-> "NONE", version |-> 0]

PaymentsInit ==
    /\ record = [k \in Key |-> "none"]
    /\ queued = [k \in Key |-> 0]
    /\ life = NoLife
    /\ told = <<>>
    /\ copies = <<>>
    /\ casefile = "none"
    /\ decided = 0
    /\ audit = <<>>

LifecycleStatus == {"RECEIVED", "VALIDATED", "IN_PROCESS", "SETTLED", "ON_HOLD",
                    "REJECTED", "CANCELLED", "RETURNED"}
CaseStatus == {"none", "OPEN", "IN_REVIEW", "WAITING_INFORMATION", "RESOLVED", "CLOSED"}

ALLOWED_TRANSITIONS(status) ==
    CASE status = "RECEIVED" -> {"VALIDATED", "REJECTED"}
      [] status = "VALIDATED" -> {"IN_PROCESS", "REJECTED", "CANCELLED"}
      [] status = "IN_PROCESS" -> {"SETTLED", "ON_HOLD", "RETURNED", "REJECTED", "CANCELLED"}
      [] status = "ON_HOLD" -> {"IN_PROCESS", "REJECTED", "CANCELLED"}
      [] status = "SETTLED" -> {"RETURNED"}
      [] OTHER -> {}

CaseTransitions(status) ==
    CASE status = "OPEN" -> {"IN_REVIEW", "CLOSED"}
      [] status = "IN_REVIEW" -> {"WAITING_INFORMATION", "RESOLVED", "CLOSED"}
      [] status = "WAITING_INFORMATION" -> {"IN_REVIEW", "CLOSED"}
      [] status = "RESOLVED" -> {"CLOSED", "OPEN"}
      [] status = "CLOSED" -> {"OPEN"}
      [] OTHER -> {}

\* An open request has inserted the record of key k: the unique key makes any
\* other insert of it wait for the end of that request.
Inserting(k) == \E d \in Client : req[d].op = "enqueue" /\ req[d].key = k

\* begin() on a table without the unique key.
BeginUnkeyed(c, k, digest) ==
    /\ record[k] = "none"
    /\ Open(c, [op |-> "enqueue", key |-> k, digest |-> digest])
    /\ UNCHANGED paymentsVars

(* POST /runtime/outbox: begin() finds no record and inserts one.  A call that
   finds the record answers from it, or with 409 if the body was another. *)
BeginEnqueue(c, k, digest) ==
    /\ record[k] = "none"
    /\ ~Inserting(k)
    /\ Open(c, [op |-> "enqueue", key |-> k, digest |-> digest])
    /\ UNCHANGED paymentsVars

\* The record (already "completed"), its response and the event, in one commit.
CommitEnqueue(c) ==
    LET r == req[c] IN
    /\ r.op = "enqueue"
    /\ record' = [record EXCEPT ![r.key] = r.digest]
    /\ queued' = [queued EXCEPT ![r.key] = @ + 1]
    /\ Commit(c, TRUE)
    /\ UNCHANGED <<life, told, copies, casefile, decided, audit>>

\* POST /payments
CreatePayment(c) ==
    /\ AtOnce(c)
    /\ life = NoLife
    /\ life' = [status |-> "RECEIVED", version |-> 1]
    /\ told' = <<"RECEIVED">>
    /\ UNCHANGED <<record, queued, copies, casefile, decided, audit>>

\* transition() without its version column.
ReadTransitionUnversioned(c, expected, new) ==
    /\ life # NoLife
    /\ new \in ALLOWED_TRANSITIONS(life.status)
    /\ Open(c, [op |-> "transition", row |-> life,
                new |-> [status |-> new, version |-> life.version]])
    /\ UNCHANGED paymentsVars

\* POST /payments/{uetr}/transitions
ReadTransition(c, expected, new) ==
    /\ life # NoLife
    /\ life.version = expected
    /\ new \in ALLOWED_TRANSITIONS(life.status)
    /\ Open(c, [op |-> "transition", row |-> life,
                new |-> [status |-> new, version |-> life.version + 1]])
    /\ UNCHANGED paymentsVars

CommitTransition(c) ==
    LET r == req[c] IN
    /\ r.op = "transition"
    /\ life' = Flush(life, r.row, r.new)
    /\ told' = Append(told, r.new.status)
    /\ Commit(c, life = r.row)
    /\ UNCHANGED <<record, queued, copies, casefile, decided, audit>>

LastOr(chain, none) == IF chain = <<>> THEN none ELSE chain[Len(chain)].hash

\* Hashes are injective: the hash of x is written as x itself.
NoHash == <<>>

\* The rows an append makes, linked to the last row it has read.
CopyOf(payload) == [payload |-> payload, hash |-> <<payload>>, previous |-> LastOr(copies, NoHash)]

\* An audit event hashes the previous hash with its payload.
EventOf(payload) ==
    LET previous == LastOr(audit, NoHash) IN
    [payload |-> payload, hash |-> <<previous, payload>>, previous |-> previous]

\* POST /payments/{uetr}/copies
ReadCopies(c, payload) ==
    /\ life # NoLife
    /\ Len(copies) < MaxChain
    /\ Open(c, [op |-> "copy", chain |-> copies, link |-> CopyOf(payload)])
    /\ UNCHANGED paymentsVars

\* An append that looks the previous copy up after adding its own.
CommitCopyToItself(c) ==
    /\ req[c].op = "copy"
    /\ copies' = Append(copies, [req[c].link EXCEPT !.previous = @ \o req[c].link.hash])
    /\ Commit(c, copies = req[c].chain)
    /\ UNCHANGED <<record, queued, life, told, casefile, decided, audit>>

CommitCopy(c) ==
    /\ req[c].op = "copy"
    /\ copies' = Append(copies, req[c].link)
    /\ Commit(c, copies = req[c].chain)
    /\ UNCHANGED <<record, queued, life, told, casefile, decided, audit>>

\* POST /payments/{uetr}/cases, then /cases/{id}/transitions
OpenCase(c) ==
    /\ AtOnce(c)
    /\ life # NoLife
    /\ casefile = "none"
    /\ casefile' = "OPEN"
    /\ UNCHANGED <<record, queued, life, told, copies, decided, audit>>

ReadCase(c, new) ==
    /\ casefile # "none"
    /\ new \in CaseTransitions(casefile)
    /\ Open(c, [op |-> "case", was |-> casefile, becomes |-> new])
    /\ UNCHANGED paymentsVars

CommitCase(c) ==
    /\ req[c].op = "case"
    /\ casefile' = req[c].becomes
    /\ Commit(c, casefile = req[c].was)
    /\ UNCHANGED <<record, queued, life, told, copies, decided, audit>>

\* POST /policy/evaluate: a decision and its audit event.
ReadAudit(c, payload) ==
    /\ Len(audit) < MaxChain
    /\ Open(c, [op |-> "audit", chain |-> audit, event |-> EventOf(payload), decision |-> TRUE])
    /\ UNCHANGED paymentsVars

CommitAudit(c) ==
    /\ req[c].op = "audit"
    /\ audit' = Append(audit, req[c].event)
    /\ decided' = decided + (IF req[c].decision THEN 1 ELSE 0)
    /\ Commit(c, audit = req[c].chain)
    /\ UNCHANGED <<record, queued, life, told, copies, casefile>>

RollBackPayments(c) ==
    /\ req[c].op \in {"enqueue", "transition", "copy", "case", "audit"}
    /\ RollBack(c)
    /\ UNCHANGED paymentsVars

PaymentsNext == \E c \in Client :
    \/ \E k \in Key, digest \in Digest : BeginEnqueue(c, k, digest)
    \/ CommitEnqueue(c)
    \/ CreatePayment(c)
    \/ \E expected \in Nat, new \in LifecycleStatus : ReadTransition(c, expected, new)
    \/ CommitTransition(c)
    \/ \E payload \in Payload : ReadCopies(c, payload) \/ ReadAudit(c, payload)
    \/ CommitCopy(c)
    \/ OpenCase(c)
    \/ \E new \in CaseStatus : ReadCase(c, new)
    \/ CommitCase(c)
    \/ CommitAudit(c)
    \/ RollBackPayments(c)

PaymentsSpec ==
    /\ PaymentsInit /\ \E allowed \in Nat : RequestsInit(allowed)
    /\ [][PaymentsNext]_<<requestVars, paymentsVars>>

\* verify_copy_chain() and AuditChainService.verify()
CopyChainVerifies == \A i \in DOMAIN copies :
    /\ copies[i].previous = IF i = 1 THEN NoHash ELSE copies[i - 1].hash
    /\ copies[i].hash = <<copies[i].payload>>

AuditChainVerifies == \A i \in DOMAIN audit :
    LET previous == IF i = 1 THEN NoHash ELSE audit[i - 1].hash IN
    audit[i].previous = previous /\ audit[i].hash = <<previous, audit[i].payload>>
-----------------------------------------------------------------------------
OutboxRows == [Key -> Nat]
DecisionRows == Nat
CopyRow == [payload : Payload, hash : Seq(Payload), previous : Seq(Payload)]
IdempotencyRow == Digest \cup {"none"}
LifecycleRow == [status : {"NONE"} \cup LifecycleStatus, version : Nat]

PaymentsTypeOK ==
    /\ record \in [Key -> IdempotencyRow]
    /\ queued \in OutboxRows
    /\ life \in LifecycleRow
    /\ casefile \in CaseStatus
    /\ decided \in DecisionRows
    /\ \A i \in DOMAIN copies : copies[i] \in CopyRow

(* runtime.py, begin(): whatever calls with the same key overlap or are rolled
   back, at most one of them has an effect, and exactly one once the record is
   there, although the check for the record and its insert are two steps. *)
EnqueuedOncePerKey == \A k \in Key : queued[k] = IF record[k] = "none" THEN 0 ELSE 1

(* The outbox tells the life of a payment: without overlap the events written
   are, in order, a path of ALLOWED_TRANSITIONS that ends in the status of the
   row, one per version. *)
EventsTellTheLife ==
    ~stale =>
      /\ Len(told) = life.version
      /\ \A i \in 2 .. Len(told) : told[i] \in ALLOWED_TRANSITIONS(told[i - 1])
      /\ told # <<>> => told[Len(told)] = life.status

(* Both hash chains, computed from a last row that nothing locks, verify as
   long as appends have not overlapped; a decision is never without its event. *)
ChainsVerify ==
    /\ ~stale => CopyChainVerifies /\ AuditChainVerifies
    /\ decided <= Len(audit)
=============================================================================
