-------------------------- MODULE ProductionStates --------------------------
(***************************************************************************)
(* The states that the rows of the production tables may be in             *)
(* (state_constraints.py, ALLOWED_STATES), by table; the dimensions of a   *)
(* payment order by column.  Migration 0034 makes them CHECK constraints,  *)
(* so that a transaction which writes another state cannot be committed.   *)
(***************************************************************************)
EXTENDS TLC, RowUpdate

Lifecycle == {"PENDING", "ACTIVE", "SUSPENDED", "REVOKED"}
Validity == {"PENDING", "ACTIVE", "EXPIRED", "REVOKED"}

\* Parties, what they own and what they have agreed to.
PartyStates ==
    [tenants |-> Lifecycle, participants |-> Lifecycle, service_identities |-> Lifecycle,
     entitlements |-> Lifecycle \cup {"EXPIRED"}, limit_profiles |-> Lifecycle \cup {"EXPIRED"},
     certificates |-> Validity, account_ownerships |-> Validity, mandates |-> Validity,
     accounts |-> {"PENDING", "ACTIVE", "SUSPENDED", "CLOSED"},
     rulebook_acceptances |-> {"PENDING", "ACCEPTED", "REJECTED", "EXPIRED"},
     approvals |-> {"PENDING", "APPROVED", "REJECTED", "EXPIRED"},
     qualification_artifacts |-> {"VERIFIED", "ACTIVE", "EXPIRED", "REJECTED"},
     required_network_state |-> {"NETWORK_ACKED", "DELIVERED", "BUSINESS_ACCEPTED"}]

\* The dimensions of prod_payment_orders.
OrderStates ==
    [orchestration_state |->
        {"RECEIVED", "CONTROL_CHECKS", "RESERVATION_PENDING", "FX_ACCEPTANCE_PENDING", "FX_ACCEPTED",
         "MESSAGE_DELIVERED", "VALUE_SETTLEMENT", "CUSTOMER_COMPLETED", "COMPLIANCE_REJECTED",
         "EXECUTION_CANCELLED", "SUSPENDED", "OPERATIONALLY_CLOSED", "OPERATIONALLY_CLOSED_UNSUCCESSFUL"},
     authorization_state |->
        {"PENDING", "MANDATE_VERIFIED", "SIGNATURES_PENDING", "AUTHORIZED", "APPROVED", "PASSED",
         "DENIED", "REJECTED", "EXPIRED", "UNKNOWN"},
     compliance_state |-> {"PENDING", "PASSED", "REJECTED", "REVIEW_REQUIRED", "UNKNOWN"},
     funding_state |-> {"PENDING", "RESERVED", "RELEASED", "CONSUMED", "FAILED", "EXPIRED", "UNKNOWN"},
     fx_state |->
        {"NOT_REQUIRED", "NOT_APPLICABLE", "PENDING", "QUOTED", "ACCEPTANCE_PENDING", "READY_TO_ACCEPT",
         "TRADE_ACCEPTED", "ACCEPTED", "REJECTED", "CANCELLED", "FAILED", "EXPIRED", "UNKNOWN"},
     message_delivery_state |->
        {"PENDING", "VALIDATED", "NETWORK_ACKED", "NAK_RECEIVED", "DELIVERED", "UNDELIVERED", "FAILED", "UNKNOWN"},
     value_settlement_state |-> {"PENDING", "SUBMITTED", "FINAL", "FAILED", "CANCELLED", "UNKNOWN"},
     beneficiary_state |-> {"PENDING", "CREDITED", "FAILED", "REVERSED", "UNKNOWN"},
     reconciliation_state |-> {"PENDING", "UNMATCHED", "MATCHED", "BREAK", "FAILED"}]

\* What is recorded about an order.
FactStates ==
    [payment_facts |->
        {"RECEIVED", "VALIDATED", "APPLIED", "PENDING", "PASSED", "AUTHORIZED", "APPROVED",
         "ACCEPTANCE_PENDING", "READY_TO_ACCEPT", "TRADE_ACCEPTED", "ACCEPTED", "REJECTED", "REQUESTED",
         "VALIDATING", "SENT", "RESERVED", "RELEASED", "CONSUMED", "FINAL", "DELIVERED", "NETWORK_ACKED",
         "CREDITED", "MATCHED", "UNMATCHED", "NOT_APPLICABLE", "FAILED", "EXPIRED", "CANCELLED", "CLOSED",
         "UNKNOWN"},
     funding_reservations |-> OrderStates.funding_state,
     fx_quotes |-> {"QUOTED", "ACCEPTED", "EXPIRED", "REJECTED", "CANCELLED", "UNKNOWN"},
     fx_trade_intents |->
        {"PREPARING", "READY_TO_ACCEPT", "REQUESTED", "TRADE_ACCEPTED", "ACCEPTED", "REJECTED",
         "CANCELLED", "COMPLETED", "FAILED", "UNKNOWN"},
     fx_trades |->
        {"PREPARING", "EXECUTING", "TRADE_ACCEPTED", "ACCEPTED", "EXECUTED", "REJECTED", "FAILED",
         "CANCELLED", "UNKNOWN"},
     settlement_legs |-> OrderStates.value_settlement_state,
     beneficiary_credits |-> OrderStates.beneficiary_state,
     reconciliation_runs |-> {"UNMATCHED", "MATCHED", "BREAK", "FAILED"}]

\* Requests, books and operations around it.
OperationStates ==
    [cancellation_requests |-> {"REQUESTED", "VALIDATING", "SENT", "ACCEPTED", "REJECTED", "UNKNOWN", "CLOSED"},
     investigation_cases |-> {"OPEN", "IN_PROGRESS", "CLOSED"},
     return_payments |-> {"REQUESTED", "SENT", "ACCEPTED", "FINAL", "REJECTED", "UNKNOWN", "CLOSED"},
     journals |-> {"DRAFT", "VALIDATED", "POSTED", "VOIDED"},
     idempotency_keys |-> {"STARTED", "COMPLETED", "EXPIRED", "FAILED_RETRYABLE", "FAILED_FINAL"},
     key_operation_audits |-> {"STARTED", "COMPLETED", "FAILED"},
     corridor_admissions |-> Validity, control_attestations |-> Validity, standard_artifacts |-> Validity,
     outbox_events |-> {"PENDING", "PROCESSING", "PUBLISHED", "DEAD_LETTER"},
     reconciliation_breaks |-> {"OPEN", "IN_PROGRESS", "RESOLVED", "CLOSED"},
     report_batches |-> {"CREATED", "GENERATED", "SUBMITTED", "ACCEPTED", "FAILED"},
     report_receipts |-> {"PENDING", "RECEIVED", "ACCEPTED", "REJECTED"},
     replay_requests |-> {"PENDING", "APPROVED"},
     payment_timers |-> {"SCHEDULED", "FIRED", "CANCELLED"},
     holds |-> {"REQUESTED", "HELD", "CONSUMED", "RELEASED", "EXPIRED", "UNKNOWN"},
     ledger_periods |-> {"OPEN", "CLOSED"},
     gl_batches |-> {"DRAFT", "SENT", "ACK", "REJECTED"},
     gl_receipts |-> {"ACK", "REJECTED"}]

ALLOWED_STATES == Put(PartyStates, Put(OrderStates, Put(FactStates, OperationStates)))

\* The CHECK constraint of migration 0034 on a state about to be committed.
StateChecked(table, state) == state \in ALLOWED_STATES[table]
=============================================================================
