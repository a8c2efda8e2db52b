------------------------- MODULE ProductionControls -------------------------
(***************************************************************************)
(* The controls around the production backend: approvals and their         *)
(* decisions, key operations under dual control, the lifecycles of         *)
(* tenants, participants, service identities, certificates and             *)
(* entitlements, and customer accounts (approval_api.py,                   *)
(* key_operations.py, identity_service.py, certificate_service.py,         *)
(* entitlement_service.py, rulebook_service.py, account_service.py).       *)
(* None of these reads locks a row.  The key provider is memory of the     *)
(* process: what it has done is not undone by a rollback.                  *)
(***************************************************************************)
EXTENDS OpenRequests, ProductionStates, SequencesExt

CONSTANTS
    Subject,     \* subjects of administrators' credentials
    Approval,    \* approvals, each asked for with an action of its own
    ActionOf,    \* "ROTATE" or "REVOKE"
    ManagedKey,  \* key ids
    Entity,      \* <<table, name>> of a row with a status
    ParentOf,    \* what has to be ACTIVE when an entity is created, or itself
    Account, Ownership,
    MaxDecision  \* bound: decisions, and key operations

ASSUME SubjectAssumption == "none" \notin Subject   \* no checker yet

\* The tables whose rows have a status.
ASSUME EntityAssumption ==
    \A e \in Entity : e[1] \in {"tenants", "participants", "service_identities", "certificates", "entitlements"}

VARIABLES
    approval,   \* Approval rows by id
    decisions,  \* ApprovalDecision rows
    audits,     \* committed KeyOperationAudit rows
    provider,   \* SandboxKeyProvider: version and status by key
    performed,  \* history: operations the provider has performed, by key
    status,     \* status of the entities that exist
    acceptances,  \* participants with a RulebookAcceptance
    account,    \* Account.status
    owner       \* AccountOwnership rows: account and status

controlVars == <<approval, decisions, audits, provider, performed, status, acceptances, account, owner>>

NewKeys == [k \in ManagedKey |-> [version |-> 1, status |-> "ACTIVE"]]

ControlsInit(given, agreed, opened, owned) ==
    /\ approval = <<>> /\ account = opened /\ owner = owned
    /\ decisions = {} /\ audits = <<>> /\ acceptances = agreed
    /\ provider = NewKeys
    /\ performed = [k \in ManagedKey |-> 0]
    /\ status = given

\* POST /approvals
CreateApproval(c, a, maker) ==
    /\ AtOnce(c)
    /\ a \in Approval \ DOMAIN approval
    /\ approval' = Put(OneRow(a, [maker |-> maker, checker |-> "none", state |-> "PENDING"]), approval)
    /\ UNCHANGED <<decisions, audits, provider, performed, status, acceptances, account, owner>>

(* POST /approvals/{id}/decisions: the approval becomes APPROVED, whatever the
   outcome; the decision keeps the outcome. *)
ReadDecision(c, a, checker, outcome) ==
    /\ a \in DOMAIN approval
    /\ approval[a].state = "PENDING"
    /\ approval[a].maker # checker
    /\ Cardinality(decisions) < MaxDecision
    /\ Open(c, [op |-> "decision", approval |-> a, row |-> approval[a],
                new |-> [approval[a] EXCEPT !.checker = checker, !.state = "APPROVED"],
                outcome |-> outcome])
    /\ UNCHANGED controlVars

CommitDecision(c) ==
    LET r == req[c] IN
    /\ r.op = "decision"
    /\ approval' = [approval EXCEPT ![r.approval] = Flush(@, r.row, r.new)]
    /\ decisions' = decisions \cup {[approval |-> r.approval, checker |-> r.new.checker, outcome |-> r.outcome]}
    /\ Commit(c, approval[r.approval] = r.row)
    /\ UNCHANGED <<audits, provider, performed, status, acceptances, account, owner>>

\* rotate() and revoke() of the sandbox provider; a rotation makes any key ACTIVE.
Performed(key, operation) ==
    IF operation = "ROTATE" THEN [version |-> key.version + 1, status |-> "ACTIVE"]
    ELSE [key EXCEPT !.status = "REVOKED"]

Execute(c, operation, k, maker, checker, a) ==
    /\ Len(audits) < MaxDecision /\ performed[k] < MaxDecision
    /\ provider' = [provider EXCEPT ![k] = Performed(@, operation)]
    /\ performed' = [performed EXCEPT ![k] = @ + 1]
    /\ Open(c, [op |-> "key", audit |-> [operation |-> operation, key |-> k, maker |-> maker,
                                         checker |-> checker, approval |-> a, status |-> "COMPLETED"]])
    /\ UNCHANGED <<approval, decisions, audits, status, acceptances, account, owner>>

\* execute() that takes an approval nobody has decided yet.
ExecuteUndecided(c, operation, k, maker, checker, a) ==
    /\ maker # checker
    /\ a \in DOMAIN approval
    /\ ActionOf[a] = operation /\ approval[a].maker = maker
    /\ Execute(c, operation, k, maker, checker, a)

(* POST /key-operations: the approval is checked, the audit row is inserted and
   the provider called; the approval names no key and is never used up. *)
ExecuteKeyOperation(c, operation, k, maker, checker, a) ==
    /\ maker # checker
    /\ a \in DOMAIN approval
    /\ ActionOf[a] = operation
    /\ approval[a] = [maker |-> maker, checker |-> checker, state |-> "APPROVED"]
    /\ Execute(c, operation, k, maker, checker, a)

CommitKeyOperation(c) ==
    /\ req[c].op = "key"
    /\ audits' = Append(audits, req[c].audit)
    /\ Commit(c, TRUE)
    /\ UNCHANGED <<approval, decisions, provider, performed, status, acceptances, account, owner>>

\* The process restarts: the provider has forgotten its keys, and open
\* requests are gone.
RestartProvider ==
    /\ provider # NewKeys
    /\ provider' = NewKeys
    /\ req' = [c \in Client |-> Idle]
    /\ UNCHANGED <<calls, stale, approval, decisions, audits, performed, status, acceptances, account, owner>>

TRANSITIONS(s) ==
    CASE s = "PENDING" -> {"ACTIVE", "REVOKED"}
      [] s = "ACTIVE" -> {"SUSPENDED", "REVOKED"}
      [] s = "SUSPENDED" -> {"ACTIVE", "REVOKED"}
      [] OTHER -> {}

\* A request that has read the statuses of some entities, and will change
\* those it has in `new', add entities, or accept a rulebook.
ChangeStatus(c, read, new, accepts) ==
    /\ Open(c, [op |-> "status", loaded |-> [e \in read |-> status[e]], new |-> new, accepts |-> accepts])
    /\ UNCHANGED controlVars

\* bootstrap_tenant(), create_participant(), create_service_identity(),
\* create_certificate(): PENDING, under an ACTIVE parent.
ReadCreate(c, e) ==
    LET parent == ParentOf[e] IN
    /\ e \in Entity \ DOMAIN status
    /\ parent # e => parent \in DOMAIN status /\ status[parent] = "ACTIVE"
    /\ ChangeStatus(c, {parent} \ {e}, OneRow(e, "PENDING"), {})

\* IdentityService.transition(); a certificate has no SUSPENDED state, which
\* only the commit finds.
ReadIdentityTransition(c, e, target, maker, checker) ==
    /\ e \in DOMAIN status
    /\ e[1] # "entitlements"
    /\ target \in {"ACTIVE", "REVOKED"} => checker # maker
    /\ target \in TRANSITIONS(status[e])
    /\ ChangeStatus(c, {e}, OneRow(e, target), {})

\* CertificateService.rotate(): the replacement is ACTIVE at once, the old
\* certificate keeps its status until it runs out.
ReadRotate(c, old, replacement, maker, checker) ==
    /\ old \in DOMAIN status /\ old[1] = "certificates"
    /\ status[old] = "ACTIVE"
    /\ maker # checker
    /\ replacement \in Entity \ DOMAIN status /\ replacement[1] = "certificates"
    /\ ChangeStatus(c, {old}, OneRow(replacement, "ACTIVE"), {})

ReadRevokeCertificate(c, e, maker, checker) ==
    /\ e \in DOMAIN status /\ e[1] = "certificates"
    /\ status[e] = "ACTIVE"
    /\ maker # checker
    /\ ChangeStatus(c, {e}, OneRow(e, "REVOKED"), {})

\* All certificates that a refresh looks at.
AllCertificates == {e \in DOMAIN status : e[1] = "certificates"}

ActiveCertificates == {e \in DOMAIN status : e[1] = "certificates" /\ status[e] = "ACTIVE"}

\* refresh_external_status(): the provider says which are revoked, the clock
\* which have run out; the others are GOOD.
ReadRefresh(c, revoked, late) ==
    LET over == (revoked \cup late) \cap ActiveCertificates IN
    /\ over # {}
    /\ ChangeStatus(c, ActiveCertificates,
         [e \in over |-> IF e \in revoked THEN "REVOKED" ELSE "EXPIRED"], {})

\* EntitlementService
CreateEntitlement(c, e) ==
    /\ e \in Entity \ DOMAIN status /\ e[1] = "entitlements"
    /\ ChangeStatus(c, {}, OneRow(e, "PENDING"), {})

ReadEntitlementTransition(c, e, target, maker, checker) ==
    /\ e \in DOMAIN status /\ e[1] = "entitlements"
    /\ maker # checker
    /\ <<status[e], target>> \in {<<"PENDING", "ACTIVE">>, <<"ACTIVE", "REVOKED">>}
    /\ ChangeStatus(c, {e}, OneRow(e, target), {})

\* RulebookService.accept(), by a signer for an ACTIVE participant
ReadAcceptRulebook(c, p) ==
    /\ p \in DOMAIN status /\ p[1] = "participants"
    /\ status[p] = "ACTIVE"
    /\ ChangeStatus(c, {p}, <<>>, {p})

CommitStatus(c) ==
    LET r == req[c] IN
    /\ r.op = "status"
    /\ \A e \in DOMAIN r.new \ DOMAIN r.loaded : e \notin DOMAIN status   \* unique ids
    /\ \A e \in DOMAIN r.new : StateChecked(e[1], r.new[e])
    /\ status' = Put(r.new, status)
    /\ acceptances' = acceptances \cup r.accepts
    /\ Commit(c, \A e \in DOMAIN r.loaded : status[e] = r.loaded[e])
    /\ UNCHANGED <<approval, decisions, audits, provider, performed, account, owner>>

\* POST /accounts, then /accounts/{id}/ownerships
CreateAccount(c, a) ==
    /\ AtOnce(c)
    /\ a \in Account \ DOMAIN account
    /\ account' = Put(OneRow(a, "PENDING"), account)
    /\ UNCHANGED <<approval, decisions, audits, provider, performed, status, acceptances, owner>>

AddOwnership(c, o, a) ==
    /\ AtOnce(c)
    /\ a \in DOMAIN account
    /\ o \in Ownership \ DOMAIN owner
    /\ owner' = Put(OneRow(o, [account |-> a, status |-> "PENDING"]), owner)
    /\ UNCHANGED <<approval, decisions, audits, provider, performed, status, acceptances, account>>

\* POST /accounts/{id}/activate: account and ownership must both be PENDING, so
\* an ownership added to an ACTIVE account can never be activated.
ReadActivate(c, a, o, maker, checker) ==
    /\ a \in DOMAIN account /\ o \in DOMAIN owner
    /\ owner[o] = [account |-> a, status |-> "PENDING"]
    /\ account[a] = "PENDING"
    /\ maker # checker
    /\ Open(c, [op |-> "activate", account |-> a, ownership |-> o])
    /\ UNCHANGED controlVars

\* An activation that leaves the ownership for later.
CommitAccountOnly(c) ==
    LET r == req[c] IN
    /\ r.op = "activate"
    /\ account' = [account EXCEPT ![r.account] = "ACTIVE"]
    /\ Commit(c, account[r.account] = "PENDING" /\ owner[r.ownership].status = "PENDING")
    /\ UNCHANGED <<approval, decisions, audits, provider, performed, status, acceptances, owner>>

CommitActivate(c) ==
    LET r == req[c] IN
    /\ r.op = "activate"
    /\ account' = [account EXCEPT ![r.account] = "ACTIVE"]
    /\ owner' = [owner EXCEPT ![r.ownership].status = "ACTIVE"]
    /\ Commit(c, account[r.account] = "PENDING" /\ owner[r.ownership].status = "PENDING")
    /\ UNCHANGED <<approval, decisions, audits, provider, performed, status, acceptances>>

\* A key operation that fails here has been performed, and leaves no audit row.
RollBackControl(c) ==
    /\ req[c].op \in {"decision", "key", "status", "activate"}
    /\ RollBack(c)
    /\ UNCHANGED controlVars

\* The makers and checkers are whoever the requests name.
ControlsNext ==
    \/ RestartProvider
    \/ \E c \in Client, m, s \in Subject :
         \/ \E a \in Approval :
              \/ CreateApproval(c, a, m)
              \/ \E outcome \in {"APPROVED", "REJECTED"} : ReadDecision(c, a, s, outcome)
              \/ \E k \in ManagedKey, operation \in {"ROTATE", "REVOKE"} : ExecuteKeyOperation(c, operation, k, m, s, a)
         \/ \E e \in Entity :
              \/ e[1] # "entitlements" /\ ReadCreate(c, e)
              \/ \E target \in Lifecycle : ReadIdentityTransition(c, e, target, m, s) \/ ReadEntitlementTransition(c, e, target, m, s)
              \/ \E f \in Entity : ReadRotate(c, e, f, m, s)
              \/ ReadRevokeCertificate(c, e, m, s)
              \/ CreateEntitlement(c, e)
              \/ ReadAcceptRulebook(c, e)
         \/ \E revoked, late \in SUBSET Entity : ReadRefresh(c, revoked, late)
         \/ \E a \in Account : CreateAccount(c, a)
         \/ \E o \in Ownership, a \in Account : AddOwnership(c, o, a) \/ ReadActivate(c, a, o, m, s)
         \/ CommitDecision(c) \/ CommitKeyOperation(c) \/ CommitStatus(c) \/ CommitActivate(c)
         \/ RollBackControl(c)
-----------------------------------------------------------------------------
ApprovalRow == [maker : Subject, checker : Subject \cup {"none"}, state : ALLOWED_STATES["approvals"]]
DecisionRow == [approval : Approval, checker : Subject, outcome : {"APPROVED", "REJECTED"}]
AuditRow == [operation : {"ROTATE", "REVOKE"}, key : ManagedKey, maker : Subject, checker : Subject,
             approval : Approval, status : ALLOWED_STATES["key_operation_audits"]]
KeyState == [version : Nat \ {0}, status : {"ACTIVE", "REVOKED"}]
TenantStatus == ALLOWED_STATES["tenants"]
ParticipantStatus == ALLOWED_STATES["participants"]
IdentityStatus == ALLOWED_STATES["service_identities"]
CertificateStatus == ALLOWED_STATES["certificates"]
EntitlementStatus == ALLOWED_STATES["entitlements"]
StatusIn(table) ==
    CASE table = "tenants" -> TenantStatus [] table = "participants" -> ParticipantStatus
      [] table = "service_identities" -> IdentityStatus [] table = "certificates" -> CertificateStatus
      [] table = "entitlements" -> EntitlementStatus
AcceptanceRows == {e \in Entity : e[1] = "participants"}
AccountRow == ALLOWED_STATES["accounts"]
OwnershipRow == [account : Account, status : ALLOWED_STATES["account_ownerships"]]

ControlsTypeOK ==
    /\ \A a \in DOMAIN approval : approval[a] \in ApprovalRow
    /\ decisions \subseteq DecisionRow
    /\ \A i \in DOMAIN audits : audits[i] \in AuditRow
    /\ provider \in [ManagedKey -> KeyState]
    /\ \A e \in DOMAIN status : status[e] \in StatusIn(e[1])
    /\ acceptances \subseteq AcceptanceRows \cap DOMAIN status
    /\ \A a \in DOMAIN account : account[a] \in AccountRow
    /\ \A o \in DOMAIN owner : owner[o] \in OwnershipRow /\ owner[o].account \in DOMAIN account

(* key_operations.py, execute(): behind every completed key operation is a
   decision on its approval, made by the checker it names and not by its maker,
   even when two checkers decide at the same time; and no operation is
   recorded that the provider has not performed. *)
KeyOperationsAreDecided ==
    /\ \A i \in DOMAIN audits :
         /\ audits[i].checker # audits[i].maker
         /\ \E d \in decisions : d.approval = audits[i].approval /\ d.checker = audits[i].checker
    /\ \A k \in ManagedKey : Cardinality({i \in DOMAIN audits : audits[i].key = k}) <= performed[k]

(* identity_service.py, TRANSITIONS: a REVOKED tenant, participant, identity,
   certificate or entitlement stays REVOKED through transitions, rotations and
   refreshes, as long as none of them has overlapped another. *)
RevokedIsFinal == [][\A e \in DOMAIN status :
    status[e] = "REVOKED" => stale' \/ status'[e] = "REVOKED"]_status

(* account_service.py, activate(): an ACTIVE account has an ACTIVE ownership,
   only an ACTIVE account has one, and unless activations overlap only one. *)
AccountsAreOwned == \A a \in DOMAIN account :
    LET owned == {o \in DOMAIN owner : owner[o].account = a /\ owner[o].status = "ACTIVE"} IN
    /\ (account[a] = "ACTIVE") = (owned # {})
    /\ ~stale => Cardinality(owned) <= 1
=============================================================================
