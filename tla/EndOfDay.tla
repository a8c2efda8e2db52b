------------------------------ MODULE EndOfDay ------------------------------
(***************************************************************************)
(* The reconciliation of the simulator (ReconciliationService in backend/  *)
(* nextgen/platform.py, reconcile() of the operators): a report over the   *)
(* CIPS accounts, the e-CNY operators and the PvP settlements, appended to *)
(* the audit chain.  It reads committed rows while requests that change    *)
(* them are open.                                                          *)
(***************************************************************************)
EXTENDS EcnySystem, CipsSettlement, NextgenPayments

\* Other audit events are no reports.
ASSUME ReportAssumption == {"ok", "failures"} \cap Payload = {}

ledgerRows == <<ledgerVars, walletVars, instrumentVars, pvpVars, issuanceVars>>

\* What a report lists: each row is judged by itself.
Failures ==
    (({"cips"} \X {p \in DOMAIN account : account[p] < 0})
     \cup ({"ecny"} \X {a \in Registered : issued[a] < 0 \/ issued[a] > OperatorLimit[a]}))
     \cup ({"pvp"} \X {p \in Pvp : pvp[p].state \notin {"NONE", "CREATED", "LOCKED", "COMMITTED", "ABORTED"}})

Report == IF Failures = {} THEN "ok" ELSE "failures"

\* GET /reconciliation: the report is the payload of an audit event, which
\* CommitAudit of NextgenPayments commits.
ReadReconciliation(c) ==
    /\ Len(audit) < MaxChain
    /\ Open(c, [op |-> "audit", chain |-> audit, event |-> EventOf(Report), decision |-> FALSE])
    /\ UNCHANGED <<ledgerRows, cipsVars, paymentsVars>>

CommitReport(c) == CommitAudit(c) /\ UNCHANGED <<ledgerRows, cipsVars>>
-----------------------------------------------------------------------------
(* Everything at once: requests of all parts of the simulator are open at the
   same time. *)
platformVars == <<requestVars, ledgerRows, cipsVars, paymentsVars>>

PlatformInit ==
    /\ EcnySystemInit
    /\ \E holders \in SUBSET (Participant \cap Direct) : \E accounts \in [holders -> AccountRow] : CipsInit(accounts)
    /\ PaymentsInit

PlatformNext ==
    \/ EcnySystemNext /\ UNCHANGED <<cipsVars, paymentsVars>>
    \/ (\E c \in Client : CipsNext(c)) /\ UNCHANGED <<ledgerRows, paymentsVars>>
    \/ PaymentsNext /\ UNCHANGED <<ledgerRows, cipsVars>>
    \/ \E c \in Client : ReadReconciliation(c)

PlatformSpec == PlatformInit /\ [][PlatformNext]_platformVars

\* Every row of every part has its type.
PlatformTypeOK ==
    /\ WalletsTypeOK /\ InstrumentsTypeOK /\ PvpTypeOK /\ IssuanceTypeOK
    /\ CipsTypeOK /\ PaymentsTypeOK

\* No report has found anything, nor would one now.
ReportsFindNothing == Failures = {} /\ \A i \in DOMAIN audit : audit[i].payload # "failures"

(* ReconciliationService: whatever requests overlap, a report never finds an
   account, an operator row or a settlement out of its range, although nothing
   locks them.  Without overlap the operator rows also account for all the CNY
   in the ledger, and the top-ups for what the operators' accounts lack of it,
   but for what is moved past them: POST /issuance mints and burns on the same
   accounts and the bridges take CNY out. *)
ReconciliationHolds ==
    /\ ReportsFindNothing
    /\ ~stale => RowsAccountForLedger
=============================================================================
