------------------------ MODULE ProductionOperations ------------------------
(***************************************************************************)
(* What is recorded about payments and read by operations: the facts of an *)
(* order, each superseding the one before with the same type and           *)
(* reference (service.py), the manifests of evidence and the audit events, *)
(* each chained to the last one (runtime.py), and the breaks that          *)
(* reconciliation opens (operations.py).  Facts are kept apart by a unique *)
(* key; nothing keeps two requests from extending a chain at one place.    *)
(***************************************************************************)
EXTENDS OpenRequests, ProductionStates, SequencesExt

CONSTANTS
    PaymentOrder, \* payment orders
    Reference,  \* <<fact_type, reference>> of the facts of an order
    OrderView,  \* what reconciliation sees of an order
    MaxRecord   \* bound: facts of one reference, manifests and events

VARIABLES
    views,      \* the view of each order
    facts,      \* PaymentFact rows
    evidence,   \* EvidenceManifest rows by id
    events,     \* AuditEvent rows by id
    breaks      \* ReconciliationBreak rows

operationVars == <<views, facts, evidence, events, breaks>>

NoRow == 0    \* a null in a column that names a row

OperationsInit(given) ==
    /\ views = [o \in PaymentOrder |-> given]
    /\ facts = {} /\ breaks = {}
    /\ evidence = <<>> /\ events = <<>>

\* The worker and the API move an order to where reconciliation sees it as v.
Move(c, o, v) ==
    /\ AtOnce(c)
    /\ v \in OrderView /\ v # views[o]
    /\ ~views[o].closed
    /\ views' = [views EXCEPT ![o] = v]
    /\ UNCHANGED <<facts, evidence, events, breaks>>

Chain(o, ref) == {f \in facts : f.order = o /\ f.ref = ref}

\* The last fact of a reference, by its sequence.
LatestFact(o, ref) == {f \in Chain(o, ref) : \A g \in Chain(o, ref) : g.sequence <= f.sequence}

\* _fact(): the first of its reference, or after `existing'
NextFact(o, ref, state, existing) ==
    [order |-> o, ref |-> ref, state |-> state,
     sequence |-> IF existing = {} THEN 1 ELSE 1 + (CHOOSE f \in existing : TRUE).sequence,
     supersedes |-> IF existing = {} THEN NoRow ELSE (CHOOSE f \in existing : TRUE).sequence]

\* A handler or a command that records a fact on evidence: record() and
\* append_fact() look for what comes before.
ReadFact(c, o, ref, state) ==
    /\ Cardinality(Chain(o, ref)) < MaxRecord /\ Len(evidence) < MaxRecord
    /\ Open(c, [op |-> "fact", fact |-> NextFact(o, ref, state, LatestFact(o, ref)),
                manifest |-> [previous |-> Len(evidence), hold |-> FALSE]])
    /\ UNCHANGED operationVars

\* No unique key on the sequence of facts.
SequenceAlwaysFree(f) == TRUE

\* uq_prod_fact_sequence
SequenceFree(f) == \A g \in Chain(f.order, f.ref) : g.sequence # f.sequence

CommitFact(c) ==
    LET r == req[c] IN
    /\ r.op = "fact"
    /\ StateChecked("payment_facts", r.fact.state)
    /\ SequenceFree(r.fact)
    /\ facts' = facts \cup {r.fact}
    /\ evidence' = Append(evidence, r.manifest)
    /\ Commit(c, Len(evidence) = r.manifest.previous)
    /\ UNCHANGED <<views, events, breaks>>

\* POST /evidence/{id}/legal-hold, which nothing takes back
HoldEvidence(c, i) ==
    /\ AtOnce(c)
    /\ i \in DOMAIN evidence
    /\ evidence' = [evidence EXCEPT ![i].hold = TRUE]
    /\ UNCHANGED <<views, facts, events, breaks>>

BreakReason == {"non-final payment leg", "retained reservation", "multi-currency legs", "no matched reconciliation"}

\* reconciliation_report() on one order; the balance of the ledger's entries
\* is reported as well, and opens no break.
Reasons(v) ==
    {r \in BreakReason :
        CASE r = "non-final payment leg" -> v.completed /\ ~v.final
          [] r = "retained reservation" -> v.closed /\ v.reserved
          [] r = "multi-currency legs" -> v.mixed
          [] OTHER -> v.completed /\ ~v.matched}

Found == {b \in [order : PaymentOrder, reason : BreakReason] :
            b.reason \in Reasons(views[b.order])}

\* What the report opens: nothing that is OPEN already.
ToOpen == {b \in Found : ~\E d \in breaks : d.order = b.order /\ d.reason = b.reason /\ d.state = "OPEN"}

(* reconciliation_report(); /operations/summary computes it as well, without an
   audit event, and does not commit the breaks it has added. *)
ReadReconciliation(c, audited) ==
    /\ Len(events) < MaxRecord
    /\ Open(c, [op |-> "report", opens |-> ToOpen, seen |-> breaks, previous |-> Len(events), commits |-> audited])
    /\ UNCHANGED operationVars

\* POST /reconciliation/runs; `run' keeps the breaks of several runs apart.
CommitReconciliation(c) ==
    LET r == req[c] IN
    /\ r.op = "report" /\ r.commits
    /\ StateChecked("reconciliation_breaks", "OPEN")
    /\ breaks' = breaks \cup {[order |-> b.order, reason |-> b.reason, state |-> "OPEN", run |-> Len(events) + 1] : b \in r.opens}
    /\ events' = Append(events, [previous |-> r.previous])
    /\ Commit(c, breaks = r.seen /\ Len(events) = r.previous)
    /\ UNCHANGED <<views, facts, evidence>>

RollBackOperation(c) ==
    /\ req[c].op \in {"fact", "report"}
    /\ RollBack(c)
    /\ UNCHANGED operationVars

OperationsNext == \E c \in Client :
    \/ \E o \in PaymentOrder :
         \/ \E v \in OrderView : Move(c, o, v)
         \/ \E ref \in Reference, state \in STRING : ReadFact(c, o, ref, state)
    \/ CommitFact(c)
    \/ \E i \in DOMAIN evidence : HoldEvidence(c, i)
    \/ \E audited \in BOOLEAN : ReadReconciliation(c, audited)
    \/ CommitReconciliation(c)
    \/ RollBackOperation(c)

OperationsSpec ==
    /\ \E given \in OrderView : OperationsInit(given)
    /\ \E allowed \in Nat : RequestsInit(allowed)
    /\ [][OperationsNext]_<<requestVars, operationVars>>
-----------------------------------------------------------------------------
FactRow == [order : PaymentOrder, ref : Reference, state : ALLOWED_STATES["payment_facts"], sequence : Nat \ {0}, supersedes : Nat]
EvidenceManifestRow == [previous : Nat, hold : BOOLEAN]
AuditEventRow == [previous : Nat]
BreakRow == [order : PaymentOrder, reason : BreakReason, state : ALLOWED_STATES["reconciliation_breaks"], run : Nat \ {0}]

OperationsTypeOK ==
    /\ views \in [PaymentOrder -> OrderView]
    /\ facts \subseteq FactRow
    /\ \A i \in DOMAIN evidence : evidence[i] \in EvidenceManifestRow
    /\ \A i \in DOMAIN events : events[i] \in AuditEventRow
    /\ \A b \in breaks : b \in BreakRow

(* service.py, append_fact(): the facts of a reference are numbered from 1
   without a gap and each supersedes the one before, even when two handlers
   append at the same time.  runtime.py and operations.py: unless requests
   overlap, every manifest and every audit event names the last one before it
   and an order has one OPEN break for a reason; and no break is there without
   the audit event of the run that found it. *)
RecordsStayLinear ==
    /\ \A o \in PaymentOrder, ref \in Reference :
         /\ {f.sequence : f \in Chain(o, ref)} = 1 .. Cardinality(Chain(o, ref))
         /\ \A f \in Chain(o, ref) : f.supersedes = f.sequence - 1
    /\ \A b \in breaks : b.run \in DOMAIN events
    /\ ~stale =>
         /\ \A i \in DOMAIN evidence : evidence[i].previous = i - 1
         /\ \A i \in DOMAIN events : events[i].previous = i - 1
         /\ \A b, d \in breaks : b.order = d.order /\ b.reason = d.reason => b = d
=============================================================================
