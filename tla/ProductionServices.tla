------------------------- MODULE ProductionServices -------------------------
(***************************************************************************)
(* The services around the payment flow, at work together: the subledger,  *)
(* the API side with its keys and limits, admission with the controls and  *)
(* accesses it relies on, the gpi tracker, the records of operations and   *)
(* prevalidation.  Each has its own tables, and the callers have requests  *)
(* of all of them open at once.                                            *)
(***************************************************************************)
EXTENDS ProductionLedger, ProductionIntake, RequestAdmission, GpiTracker, ProductionOperations, Prevalidation

governanceVars == <<controlVars, accessVars, admissionVars>>

servicesVars == <<requestVars, bookVars, intakeVars, governanceVars, trackerVars, operationVars, answer>>

ServicesInit ==
    /\ \E A \in SUBSET LedgerAccount : \E opening \in [A -> Nat] : LedgerInitially(opening)
    /\ \E initial \in Seq(ProfileRow) : IntakeInit(initial)
    /\ Installation
    /\ TrackerInit
    /\ \E given \in OrderView : OperationsInit(given)
    /\ DirectoryInit
    /\ \E allowed \in Nat : RequestsInit(allowed)

\* A step of one of the services; it writes none of the others' tables.
ServicesNext ==
    \/ LedgerNext /\ UNCHANGED <<intakeVars, governanceVars, trackerVars, operationVars, answer>>
    \/ IntakeNext /\ UNCHANGED <<bookVars, governanceVars, trackerVars, operationVars, answer>>
    \/ AdmissionNext /\ UNCHANGED <<bookVars, intakeVars, trackerVars, operationVars, answer>>
    \/ TrackerNext /\ UNCHANGED <<bookVars, intakeVars, governanceVars, operationVars, answer>>
    \/ OperationsNext /\ UNCHANGED <<bookVars, intakeVars, governanceVars, trackerVars, answer>>
    \/ PrevalidationNext /\ UNCHANGED <<bookVars, intakeVars, governanceVars, trackerVars, operationVars>>

ServicesSpec == ServicesInit /\ [][ServicesNext]_servicesVars
-----------------------------------------------------------------------------
\* Every row of every service has its type.
ServicesTypeOK ==
    /\ LedgerTypeOK /\ IntakeTypeOK /\ ControlsTypeOK /\ AccessTypeOK /\ TrackerTypeOK
    /\ AdmissionTypeOK /\ OperationsTypeOK /\ PrevalidationTypeOK
=============================================================================
