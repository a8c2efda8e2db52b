-------------------------- MODULE RequestAdmission --------------------------
(***************************************************************************)
(* How a request for a payment is let in (security.py, integrity.py,       *)
(* corridors.py and the checks at the head of create_payment()): whose it  *)
(* is, that its message is signed and fresh, and that participant,         *)
(* corridor, entitlement, limit and account allow it.  In the sandbox the  *)
(* rows that are missing are made up by the first request that needs them; *)
(* outside of it they have to be there.  Identities, certificates,         *)
(* entitlements and accounts are those of ProductionControls, tokens and   *)
(* nonces those of ApiAccess.                                              *)
(***************************************************************************)
EXTENDS ProductionControls, ApiAccess

CONSTANTS
    SandboxParty,   \* participants whose name begins with "SANDBOX-"
    Origin,         \* SANDBOX-ORIGIN, of requests that name none
    PartyOf,        \* the one named after a credential
    IdentityOf,     \* the service identity a credential is mapped to
    IdentityRow,    \* its columns: participant, sandbox, scopes, certificate
    CertificateRow, \* participant and validity of a certificate
    EntitlementRow, \* participant, creditor, currency ("*": any), max, and
                    \* whether it was approved on evidence
    ScopesOf,       \* scopes of a credential's tokens
    LimitOf,        \* max_amount_minor of a participant's limit profile
    OwnershipOf,    \* the ownership id made of the first 40 characters
    Purchase,       \* payloads: debtor, account, creditor, currency, scenario, amount
    AdmissionLife,  \* for how long the sandbox admission is valid
    MaxPayment      \* bound: payments

\* What payloads, parties and identities name.
ASSUME PurchaseAssumption ==
    \A x \in Purchase : x.account \in Account /\ x.debtor \in STRING /\ x.currency \in {"CNY", "HKD"}
ASSUME PartyAssumption ==
    /\ SandboxParty \subseteq {e \in Entity : e[1] = "participants"}
    /\ Origin \in Entity
    /\ \A a \in App : PartyOf[a] \in Entity /\ IdentityRow[IdentityOf[a]].participant \in Entity
    /\ AdmissionLife \in Nat

VARIABLES
    deployment,  \* settings and wiring: sandbox, auth, verifier
    admissions,  \* CorridorAdmission rows, with their ControlAttestation
    holder,      \* columns of the Account rows: participant, owner_ref, currency
    payments     \* committed payments: the participant and what it asked for

admissionVars == <<deployment, admissions, holder, payments>>

Unsigned == "unsigned"
NoToken == 0
NoParty == <<"participants", 0>>    \* no X-Participant-ID header

AdmissionInit(deployed, rowsGiven, held) ==
    /\ deployment = deployed
    /\ admissions = rowsGiven
    /\ holder = held
    /\ payments = <<>>

Active(e) == e \in DOMAIN status /\ status[e] = "ACTIVE"

Implied == [admin |-> {"operator", "read", "write", "worker"}, operator |-> {"read"},
            worker |-> {"read", "write"}, write |-> {"read"}, read |-> {}]

\* ProductionPrincipal.can(); "production." is left out.
Can(scopes, scope) == scope \in scopes \/ \E s \in scopes : scope \in Implied[s]

SandboxPrincipal(p) ==
    [participant |-> p, source |-> "sandbox", scopes |-> {"read", "write", "operator", "worker"}]

\* _validate_identity_binding()
BindingValid(i) ==
    /\ i.sandbox = deployment.sandbox
    /\ Active(i.participant)
    /\ IF i.certificate = {} THEN deployment.sandbox
       ELSE \E e \in i.certificate :
              /\ Active(e)
              /\ CertificateRow[e].participant = i.participant
              /\ CertificateRow[e].from <= now /\ now < CertificateRow[e].to

\* What get_production_principal() makes of a credential: the identity that is
\* ACTIVE for it, or outside of any identity a participant of the sandbox.
OfCredential(a) ==
    LET i == IdentityRow[IdentityOf[a]]
        scopes == ScopesOf[a] \cap i.scopes
    IN  IF Active(IdentityOf[a])
        THEN {p \in {[participant |-> i.participant, source |-> "identity", scopes |-> scopes]} :
                BindingValid(i) /\ scopes # {}}
        ELSE {p \in {[participant |-> PartyOf[a], source |-> "sandbox", scopes |-> ScopesOf[a]]} :
                deployment.sandbox}

\* The bearer token, if any, must be live and its credential still there.
OfToken(t) ==
    IF t \in DOMAIN tokens /\ tokens[t].live /\ tokens[t].app \in creds
    THEN OfCredential(tokens[t].app) ELSE {}

\* get_production_principal(): none when it refuses
Principals(t, header) ==
    IF ~deployment.sandbox /\ header # NoParty THEN {}
    ELSE IF t # NoToken THEN OfToken(t)
    ELSE IF ~deployment.sandbox \/ deployment.auth THEN {}
    ELSE {SandboxPrincipal(IF header = NoParty THEN Origin ELSE header)}

(* The dependencies of POST /payments: first the principal and its scope, then
   the signature, whose nonce is committed in a session of its own.  Unsigned
   requests pass in the sandbox only. *)
Authenticate(c, t, header, n) ==
    /\ \E p \in Principals(t, header) :
         /\ Can(p.scopes, "write")
         /\ Open(c, [op |-> "authenticated", principal |-> p])
    /\ IF n = Unsigned THEN deployment.sandbox /\ UNCHANGED <<nonces, accepted>>
       ELSE /\ deployment.verifier
            /\ now < NonceExp[n] /\ n \notin nonces
            /\ \A d \in Client : req[d].op = "nonce" => req[d].nonce # n
            /\ nonces' = nonces \cup {n}
            /\ accepted' = [accepted EXCEPT ![n] = @ + 1]
    /\ UNCHANGED <<controlVars, now, cache, rows, forgotten, creds, tokens, admissionVars>>

\* The admission that ensure_reference_data() inserts when it is not there, and
\* never again.
SandboxAdmission ==
    [sandbox |-> TRUE, simulation |-> TRUE, subjects |-> Entity, scenarios |-> {"TRADE"}, currencies |-> {"CNY", "HKD"},
     max |-> 2, from |-> now, to |-> now + AdmissionLife, attestation |-> [from |-> now, to |-> now + AdmissionLife]]

ReferenceRows == IF deployment.sandbox /\ admissions = {} THEN {SandboxAdmission} ELSE {}

\* assert_corridor_admitted()
Admitted(p, x) == \E a \in admissions \cup ReferenceRows :
    /\ a.sandbox = deployment.sandbox
    /\ deployment.sandbox \/ ~a.simulation
    /\ a.from <= now /\ now <= a.to
    /\ p \in a.subjects /\ x.scenario \in a.scenarios /\ x.currency \in a.currencies
    /\ x.amount \in 1 .. a.max
    /\ a.attestation.from <= now /\ now <= a.attestation.to

\* EntitlementService.match(): a rule with a wildcard counts only if it was
\* approved on evidence.
Matches(p, x) == \E e \in DOMAIN EntitlementRow :
    LET w == EntitlementRow[e] IN
    /\ Active(e)
    /\ w.participant = p
    /\ w.creditor \in {"*", x.creditor} /\ w.currency \in {"*", x.currency}
    /\ "*" \in {w.creditor, w.currency} => w.approved
    /\ x.amount <= w.max

\* ensure_participant() makes up a tenant and a participant of the sandbox;
\* another one would be PENDING, which assert_entitlement() refuses.
Joins(p) ==
    {e \in {p, <<"tenants", p[2]>>} : deployment.sandbox /\ p \in SandboxParty /\ e \notin DOMAIN status}

Entitled(principal, x) ==
    /\ Active(principal.participant) \/ principal.participant \in Joins(principal.participant)
    /\ principal.source = "sandbox" \/ Matches(principal.participant, x)

\* assert_limit()
Limited(principal, x) ==
    IF principal.participant \in DOMAIN LimitOf THEN x.amount <= LimitOf[principal.participant]
    ELSE principal.source = "sandbox"

HeldBy(principal, x) == [participant |-> principal.participant, owner |-> x.debtor, currency |-> x.currency]

\* assert_account_access(): the lookup is by participant, so that an account of
\* another one is not found, and the sandbox tries to open it.
Opens(principal, x) ==
    /\ principal.source = "sandbox"
    /\ ~\E a \in DOMAIN holder : a = x.account /\ holder[a].participant = principal.participant

Serves(principal, x) ==
    /\ x.account \in DOMAIN holder
    /\ holder[x.account] = HeldBy(principal, x)
    /\ account[x.account] = "ACTIVE"
    /\ \E o \in DOMAIN owner : owner[o] = [account |-> x.account, status |-> "ACTIVE"]

\* create_payment() up to the order; the rows it needs are read and made up.
ReadAdmission(c, x) ==
    LET p == req[c].principal IN
    /\ req[c].op = "authenticated"
    /\ deployment.sandbox \/ p.participant \in acceptances   \* RulebookService.assert_current()
    /\ Admitted(p.participant, x)
    /\ Entitled(p, x) /\ Limited(p, x)
    /\ Opens(p, x) \/ Serves(p, x)
    /\ ReadOn(c, [op |-> "admitted", participant |-> p.participant, request |-> x, rows |-> ReferenceRows,
                  joins |-> Joins(p.participant),
                  opens |-> IF Opens(p, x) THEN OneRow(x.account, HeldBy(p, x)) ELSE <<>>])
    /\ UNCHANGED <<controlVars, accessVars, admissionVars>>

\* Inserts of accounts that no unique key refuses.
AccountAlwaysFree(r) == TRUE

\* The unique keys of the accounts and of their ownerships.
AccountFree(r) == \A a \in DOMAIN r.opens : a \notin DOMAIN account /\ OwnershipOf[a] \notin DOMAIN owner

\* The unique keys of what the request has made up besides.
RowsFree(r) ==
    /\ r.rows # {} => admissions = {}
    /\ r.joins \cap DOMAIN status = {}

CommitAdmission(c) ==
    LET r == req[c]
        opened == DOMAIN r.opens
    IN
    /\ r.op = "admitted"
    /\ RowsFree(r) /\ AccountFree(r)
    /\ Len(payments) < MaxPayment
    /\ admissions' = admissions \cup r.rows
    /\ status' = Put([e \in r.joins |-> "ACTIVE"], status)
    /\ holder' = Put(r.opens, holder)
    /\ account' = Put([a \in opened |-> "ACTIVE"], account)
    /\ owner' = Put([o \in {OwnershipOf[a] : a \in opened} |-> [account |-> r.request.account, status |-> "ACTIVE"]], owner)
    /\ payments' = Append(payments, [participant |-> r.participant, request |-> r.request])
    /\ Commit(c, r.participant \in r.joins \/ Active(r.participant))
    /\ UNCHANGED <<deployment, approval, decisions, audits, provider, performed, acceptances, accessVars>>

RollBackAdmission(c) ==
    /\ req[c].op \in {"authenticated", "admitted"}
    /\ RollBack(c)
    /\ UNCHANGED <<controlVars, accessVars, admissionVars>>

\* Requests for payments among those that change what they are admitted by.
AdmissionNext ==
    \/ AccessNext /\ UNCHANGED <<controlVars, admissionVars>>
    \/ ControlsNext /\ UNCHANGED <<accessVars, admissionVars>>
    \/ \E c \in Client :
         \/ \E t \in TokenId \cup {NoToken}, header \in Entity \cup {NoParty}, n \in Nonce \cup {Unsigned} :
              Authenticate(c, t, header, n)
         \/ \E x \in Purchase : ReadAdmission(c, x)
         \/ CommitAdmission(c)
         \/ RollBackAdmission(c)

Window == [from : Nat, to : Nat]
CorridorAdmissionRow ==
    [sandbox : BOOLEAN, simulation : BOOLEAN, subjects : SUBSET Entity, scenarios : SUBSET {"TRADE", "OTHER"},
     currencies : SUBSET {"CNY", "HKD"}, max : Nat, from : Nat, to : Nat, attestation : Window]
HolderRow == [participant : Entity, owner : STRING, currency : {"CNY", "HKD"}]

\* What the installation begins with: ACTIVE accounts of one ownership each, at
\* most one live token of a credential, and rows that fit their tables.
Opened(held, owned) ==
    /\ \A o \in DOMAIN owned : \E a \in DOMAIN held : owned[o] = [account |-> a, status |-> "ACTIVE"]
    /\ \A a \in DOMAIN held : \E o \in DOMAIN owned : owned[o].account = a
    /\ \A o, p \in DOMAIN owned : owned[o].account = owned[p].account => o = p

Issued(issued) ==
    /\ \A t \in DOMAIN issued : issued[t] \in TokenRow
    /\ \A t, u \in DOMAIN issued : issued[t].live /\ issued[u].live /\ issued[t].app = issued[u].app => t = u

Fitting(rowsGiven, held, given, agreed, issued) ==
    /\ rowsGiven \subseteq CorridorAdmissionRow /\ Cardinality(rowsGiven) <= 1
    /\ DOMAIN held \subseteq Account /\ \A a \in DOMAIN held : held[a] \in HolderRow
    /\ \A e \in DOMAIN given : given[e] \in StatusIn(e[1])
    /\ agreed \subseteq AcceptanceRows \cap DOMAIN given
    /\ DOMAIN issued \subseteq TokenId

Installation ==
    \E deployed, rowsGiven, held, given, agreed, owned, issued :
      /\ Opened(held, owned) /\ Issued(issued) /\ Fitting(rowsGiven, held, given, agreed, issued)
      /\ AdmissionInit(deployed, rowsGiven, held)
      /\ ControlsInit(given, agreed, [a \in DOMAIN held |-> "ACTIVE"], owned)
      /\ AccessInit(issued)

AdmissionSpec ==
    /\ Installation /\ \E allowed \in Nat : RequestsInit(allowed)
    /\ [][AdmissionNext]_<<requestVars, controlVars, accessVars, admissionVars>>
-----------------------------------------------------------------------------
AdmissionTypeOK ==
    /\ admissions \subseteq CorridorAdmissionRow /\ Cardinality(admissions) <= 1
    /\ \A a \in DOMAIN holder : holder[a] \in HolderRow
    /\ DOMAIN holder \subseteq DOMAIN account
    /\ \A i \in DOMAIN payments : payments[i].request \in Purchase

(* security.py, assert_account_access(): every payment was on an account of the
   participant that asked for it, of its debtor and in its currency, although
   the lookup that opens accounts on first use does not see those of others
   and two first uses may overlap; the account is ACTIVE and owned. *)
AccountsServeTheirOwner == \A i \in DOMAIN payments :
    LET x == payments[i].request IN
    /\ holder[x.account] = [participant |-> payments[i].participant, owner |-> x.debtor, currency |-> x.currency]
    /\ \E o \in DOMAIN owner : owner[o] = [account |-> x.account, status |-> "ACTIVE"]
=============================================================================
