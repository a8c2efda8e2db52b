---------------------- MODULE ProductionServicesProofs ----------------------
(***************************************************************************)
(* Proofs about ProductionServices, the services around the payment flow   *)
(* with the requests of all of them open at once: for every set of         *)
(* clients, credentials, approvals, keys, entities, accounts, journals and *)
(* orders.                                                                 *)
(*                                                                         *)
(* The first part is about admission with its controls and accesses        *)
(* (RequestAdmission, ProductionControls, ApiAccess): an id is accepted    *)
(* once, key operations are decided by two people, REVOKED is final,       *)
(* accounts are owned and serve their owner.  The requests hold no lock    *)
(* between what they read and what they commit, so the invariant says of   *)
(* each open request what it may rely on: rows that never change again (a  *)
(* decision, an account's holder, an active ownership), or a row as it was *)
(* read, which the commit compares.  Types come next, from what an open    *)
(* request is about to write.                                              *)
(*                                                                         *)
(* The last part composes.  The invariants of the other services are those *)
(* of RecordsProofs and ProductionIntakeProofs; a step of one service      *)
(* leaves the requests of the others alone or ends them, and writes none   *)
(* of the tables that they rely on.                                        *)
(***************************************************************************)
EXTENDS ProductionServices, RecordsProofs, ProductionIntakeProofs, FiniteSetTheorems, TLAPS

\* A tuple of anything.
Tuple(s) == \E S : s \in Seq(S)

\* What an append makes of a tuple.
LEMMA AppendTuple ==
    ASSUME NEW s, Tuple(s), NEW e
    PROVE  /\ Tuple(Append(s, e))
           /\ Len(s) \in Nat /\ DOMAIN s = 1 .. Len(s)
           /\ DOMAIN Append(s, e) = 1 .. Len(s) + 1
           /\ \A i \in 1 .. Len(s) : Append(s, e)[i] = s[i]
           /\ Append(s, e)[Len(s) + 1] = e
<1>1. PICK S : s \in Seq(S)
  BY DEF Tuple
<1> DEFINE T == S \cup {e}
<1>2. s \in Seq(T) /\ e \in T
  BY <1>1
<1>3. Append(s, e) \in Seq(T)
  BY <1>2
<1> HIDE DEF T
<1> QED
  BY <1>2, <1>3 DEF Tuple

------------------------------------------------------------------------------
(* The invariant *)

\* Somebody has decided the approval, and is its checker.
Decided(a, checker) == \E d \in decisions : d.approval = a /\ d.checker = checker

\* A decision has read a row that nobody had decided.
ReadsPending(r) ==
    /\ r.approval \in DOMAIN approval
    /\ r.row.checker = "none" /\ r.row.state = "PENDING"
    /\ r.new.checker \in Subject /\ r.new.state = "APPROVED" /\ r.new.maker = r.row.maker

\* What an audit row says of maker, checker and approval.
DualControl(row) == row.checker # row.maker /\ Decided(row.approval, row.checker)

\* A change of statuses leaves alone what it has read to be REVOKED.
KeepsRevoked(r) == \A e \in DOMAIN r.loaded \cap DOMAIN r.new :
    r.loaded[e] = "REVOKED" => r.new[e] = "REVOKED"

ActiveOwner(a) == \E o \in DOMAIN owner : owner[o] = [account |-> a, status |-> "ACTIVE"]

\* The payment's account: opened by the request, or held and owned.
HasAccount(r) ==
    LET a == r.request.account
        held == [participant |-> r.participant, owner |-> r.request.debtor, currency |-> r.request.currency]
    IN  \/ DOMAIN r.opens = {a} /\ r.opens[a] = held
        \/ DOMAIN r.opens = {} /\ a \in DOMAIN holder /\ holder[a] = held /\ ActiveOwner(a)

\* What the open request of a client relies on, by its kind.
Reads(c) == LET r == req[c] IN
    /\ r.op = "jti" => r.jti \in Jti /\ AppOf[r.jti] \in App
    /\ r.op = "accepted" => r.app \in App
    /\ r.op = "nonce" => r.nonce \in Nonce \ nonces
    /\ r.op = "issuing" => r.app \in App /\ r.held = r.seen
    /\ r.op = "decision" => ReadsPending(r)
    /\ r.op = "key" => r.audit.key \in ManagedKey /\ DualControl(r.audit)
    /\ r.op = "status" => KeepsRevoked(r)
    /\ r.op = "activate" => /\ r.account \in DOMAIN account
                            /\ r.ownership \in DOMAIN owner /\ owner[r.ownership].account = r.account
    /\ r.op = "admitted" => HasAccount(r)

Requests ==
    /\ DOMAIN req = Client
    /\ \A c \in Client : Reads(c)
    /\ \A c, d \in Client : req[c].op = "nonce" /\ req[d].op = "nonce" /\ req[c].nonce = req[d].nonce => c = d

Ids == accepted \in [Jti \cup Nonce -> Nat] /\ IdAcceptedOnce

Tokens ==
    /\ creds \subseteq App
    /\ \A t \in DOMAIN tokens : tokens[t] \in TokenRow
    /\ ~stale => \A a \in App : \A t, u \in LiveTokens(a) : t = u

\* An approval is PENDING without a checker, or APPROVED by the one it names.
Approvals == \A a \in DOMAIN approval :
    /\ approval[a] = [maker |-> approval[a].maker, checker |-> approval[a].checker, state |-> approval[a].state]
    /\ approval[a].state = "APPROVED" => Decided(a, approval[a].checker)
    /\ approval[a].state = "PENDING" => approval[a].checker = "none"

\* The operations on a key that are recorded, and those that will be.
AuditsOf(k) == {i \in DOMAIN audits : audits[i].key = k}
Unrecorded(k) == {c \in Client : req[c].op = "key" /\ req[c].audit.key = k}

Audited == Tuple(audits) /\ \A i \in DOMAIN audits : DualControl(audits[i])

Counted ==
    /\ performed \in [ManagedKey -> Nat]
    /\ \A k \in ManagedKey : Cardinality(AuditsOf(k)) + Cardinality(Unrecorded(k)) <= performed[k]

Owners ==
    /\ \A o \in DOMAIN owner :
         /\ owner[o] = [account |-> owner[o].account, status |-> owner[o].status]
         /\ owner[o].account \in DOMAIN account
    /\ \A a \in DOMAIN account : account[a] = "ACTIVE" <=> ActiveOwner(a)
    /\ ~stale => \A o, p \in DOMAIN owner :
         owner[o].status = "ACTIVE" /\ owner[p].status = "ACTIVE" /\ owner[o].account = owner[p].account => o = p

Holders ==
    /\ DOMAIN holder \subseteq DOMAIN account
    /\ Tuple(payments)
    /\ \A i \in DOMAIN payments : payments[i].request.account \in DOMAIN holder
    /\ AccountsServeTheirOwner

RInv ==
    /\ stale \in BOOLEAN
    /\ Requests /\ Ids /\ Tokens /\ Approvals /\ Audited /\ Counted /\ Owners /\ Holders

rvars == <<requestVars, controlVars, accessVars, admissionVars>>

------------------------------------------------------------------------------
(* What a step leaves to the requests of the others *)

\* Decisions, holders and active ownerships stay; approvals and accounts do.
Kept ==
    /\ decisions \subseteq decisions'
    /\ DOMAIN approval \subseteq DOMAIN approval' /\ DOMAIN account \subseteq DOMAIN account'
    /\ \A o \in DOMAIN owner :
         /\ o \in DOMAIN owner' /\ owner'[o].account = owner[o].account
         /\ owner[o].status = "ACTIVE" => owner'[o] = owner[o]
    /\ \A a \in DOMAIN holder : a \in DOMAIN holder' /\ holder'[a] = holder[a]

LEMMA DecidedKept ==
    ASSUME Kept, NEW a, NEW s, Decided(a, s)
    PROVE  Decided(a, s)'
  BY DEF Kept, Decided

LEMMA ActiveOwnerKept ==
    ASSUME Kept, NEW a, ActiveOwner(a)
    PROVE  ActiveOwner(a)'
<1>1. PICK o \in DOMAIN owner : owner[o] = [account |-> a, status |-> "ACTIVE"]
  BY DEF ActiveOwner
<1> QED
  BY <1>1 DEF Kept, ActiveOwner

\* A request the step does not touch may rely on what it relied on.
LEMMA ReadsKept ==
    ASSUME Kept, NEW c, Reads(c), req'[c] = req[c],
           req[c].op = "nonce" => req[c].nonce \notin nonces'
    PROVE  Reads(c)'
<1> DEFINE r == req[c]
<1>1. r.op = "key" => DualControl(r.audit)'
  <2>1. SUFFICES ASSUME r.op = "key" PROVE DualControl(r.audit)'
    OBVIOUS
  <2>2. r.audit.checker # r.audit.maker
        /\ \E d \in decisions : d.approval = r.audit.approval /\ d.checker = r.audit.checker
    BY <2>1 DEF Reads, DualControl, Decided
  <2> QED  BY <2>2 DEF DualControl, Decided, Kept
<1>2. r.op = "admitted" => HasAccount(r)'
  <2>1. SUFFICES ASSUME r.op = "admitted" PROVE HasAccount(r)'
    OBVIOUS
  <2> DEFINE a == r.request.account
             held == [participant |-> r.participant, owner |-> r.request.debtor, currency |-> r.request.currency]
  <2>2. \/ DOMAIN r.opens = {a} /\ r.opens[a] = held
        \/ /\ DOMAIN r.opens = {} /\ a \in DOMAIN holder /\ holder[a] = held
           /\ \E o \in DOMAIN owner : owner[o] = [account |-> a, status |-> "ACTIVE"]
    BY <2>1 DEF Reads, HasAccount, ActiveOwner
  <2> QED  BY <2>2 DEF HasAccount, ActiveOwner, Kept
<1>3. /\ r.op = "decision" => ReadsPending(r)'
      /\ r.op = "activate" => r.account \in DOMAIN account' /\ r.ownership \in DOMAIN owner'
                              /\ owner'[r.ownership].account = r.account
  BY DEF Reads, ReadsPending, Kept
<1> QED
  BY <1>1, <1>2, <1>3 DEF Reads, KeepsRevoked, DualControl, HasAccount, ReadsPending

\* Client c opens or goes on with request r, or is done with it (Idle).
LEMMA RequestsAfter ==
    ASSUME Requests, Kept, NEW c \in Client, NEW r, req' = [req EXCEPT ![c] = r],
           Reads(c)',
           \A d \in Client : d # c /\ req[d].op = "nonce" =>
               req[d].nonce \notin nonces' /\ (r.op = "nonce" => r.nonce # req[d].nonce)
    PROVE  Requests'
<1>1. DOMAIN req = Client /\ DOMAIN req' = Client
      /\ \A d \in Client : req'[d] = IF d = c THEN r ELSE req[d]
  BY DEF Requests
<1>2. ASSUME NEW d \in Client PROVE Reads(d)'
  <2>1. CASE d = c
    BY <2>1
  <2>2. CASE d # c
    <3>1. Reads(d) /\ req'[d] = req[d] /\ (req[d].op = "nonce" => req[d].nonce \notin nonces')
      BY <1>1, <2>2 DEF Requests
    <3> QED  BY <3>1, ReadsKept
  <2> QED  BY <2>1, <2>2
<1>3. \A d, e \in Client : req'[d].op = "nonce" /\ req'[e].op = "nonce" /\ req'[d].nonce = req'[e].nonce => d = e
  BY <1>1 DEF Requests
<1> QED
  BY <1>1, <1>2, <1>3 DEF Requests

\* Nothing is read by an idle client.
LEMMA IdleReads ==
    ASSUME NEW c \in Client, DOMAIN req = Client, req' = [req EXCEPT ![c] = Idle]
    PROVE  Reads(c)'
<1>1. req'[c].op = "idle"
  BY DEF Idle
<1> QED
  BY <1>1 DEF Reads

\* The request of client c is done, and the nonces are those there were.
LEMMA RequestDone ==
    ASSUME Requests, Kept, NEW c \in Client, req' = [req EXCEPT ![c] = Idle], nonces' = nonces
    PROVE  Requests'
<1>1. Reads(c)'
  BY IdleReads DEF Requests
<1>2. \A d \in Client : req[d].op = "nonce" => req[d].nonce \notin nonces'
  BY DEF Requests, Reads
<1>3. Idle.op # "nonce"
  BY DEF Idle
<1> QED
  BY <1>1, <1>2, <1>3, RequestsAfter

\* Requests stay open, rows move.
LEMMA RequestsStay ==
    ASSUME Requests, Kept, req' = req, nonces' = nonces
    PROVE  Requests'
<1>1. ASSUME NEW d \in Client PROVE Reads(d)'
  BY ReadsKept DEF Requests, Reads
<1> QED
  BY <1>1 DEF Requests

\* The process restarts: nothing is open.
LEMMA RequestsGone ==
    ASSUME req' = [c \in Client |-> Idle]
    PROVE  Requests'
<1>1. DOMAIN req' = Client /\ \A c \in Client : req'[c].op = "idle"
  BY DEF Idle
<1> QED
  BY <1>1 DEF Requests, Reads

------------------------------------------------------------------------------
(* The groups of rows, and what leaves each alone *)

SameIds == UNCHANGED <<rows, forgotten, accepted, nonces>>
SameTokens == UNCHANGED <<creds, tokens>>
SameApprovals == UNCHANGED <<approval, decisions>>
SameAudits == UNCHANGED <<audits, performed>>
SameOwners == UNCHANGED <<account, owner>>
SameHolders == UNCHANGED <<holder, payments>>
StaleGrows == stale \in BOOLEAN /\ stale' \in BOOLEAN /\ (stale => stale')

\* No request for a key operation has been opened.
NoneOpened == \A c \in Client : req'[c].op = "key" => req[c] = req'[c]

LEMMA GroupsStay ==
    /\ Ids /\ SameIds => Ids'
    /\ Tokens /\ SameTokens /\ StaleGrows => Tokens'
    /\ Approvals /\ SameApprovals => Approvals'
    /\ Audited /\ SameAudits /\ decisions \subseteq decisions' => Audited'
    /\ Owners /\ SameOwners /\ StaleGrows => Owners'
    /\ Holders /\ SameHolders /\ Kept => Holders'
<1>1. Ids /\ SameIds => Ids'
  BY DEF Ids, SameIds, IdAcceptedOnce
<1>2. Tokens /\ SameTokens /\ StaleGrows => Tokens'
  BY DEF Tokens, SameTokens, StaleGrows, LiveTokens
<1>3. Approvals /\ SameApprovals => Approvals'
  BY DEF Approvals, SameApprovals, Decided
<1>4. Audited /\ SameAudits /\ decisions \subseteq decisions' => Audited'
  BY DEF Audited, SameAudits, DualControl, Decided
<1>5. Owners /\ SameOwners /\ StaleGrows => Owners'
  BY DEF Owners, SameOwners, StaleGrows, ActiveOwner
<1>6. Holders /\ SameHolders /\ Kept => Holders'
  <2> SUFFICES ASSUME Holders, SameHolders, Kept PROVE Holders'
    OBVIOUS
  <2>1. ASSUME NEW i \in DOMAIN payments
        PROVE  \E o \in DOMAIN owner' : owner'[o] = [account |-> payments[i].request.account, status |-> "ACTIVE"]
    <3>1. PICK o \in DOMAIN owner : owner[o] = [account |-> payments[i].request.account, status |-> "ACTIVE"]
      BY DEF Holders, AccountsServeTheirOwner
    <3> QED  BY <3>1 DEF Kept
  <2> QED
    BY <2>1 DEF Holders, SameHolders, AccountsServeTheirOwner, Kept
<1> QED
  BY <1>1, <1>2, <1>3, <1>4, <1>5, <1>6

LEMMA FiniteCounts ==
    ASSUME Tuple(audits), NEW k
    PROVE  /\ IsFiniteSet(AuditsOf(k)) /\ Cardinality(AuditsOf(k)) \in Nat
           /\ IsFiniteSet(Unrecorded(k)) /\ Cardinality(Unrecorded(k)) \in Nat
<1>1. Len(audits) \in Nat /\ DOMAIN audits = 1 .. Len(audits)
  BY DEF Tuple
<1>2. IsFiniteSet(1 .. Len(audits))
  BY <1>1, FS_Interval
<1>3. AuditsOf(k) \subseteq 1 .. Len(audits) /\ Unrecorded(k) \subseteq Client
  BY <1>1 DEF AuditsOf, Unrecorded
<1> QED
  BY <1>2, <1>3, ClientAssumption, FS_Subset, FS_CardinalityType

\* Nothing recorded, nothing opened: the counts can only fall.
LEMMA CountStays ==
    ASSUME Tuple(audits), Counted, SameAudits, NoneOpened
    PROVE  Counted'
<1>1. ASSUME NEW k \in ManagedKey
      PROVE  Cardinality(AuditsOf(k)') + Cardinality(Unrecorded(k)') <= performed'[k]
  <2>1. Unrecorded(k)' \subseteq Unrecorded(k) /\ Unrecorded(k) \subseteq Client
    BY DEF NoneOpened, Unrecorded
  <2>2. /\ IsFiniteSet(Unrecorded(k)) /\ Cardinality(Unrecorded(k)) \in Nat
        /\ Cardinality(AuditsOf(k)) \in Nat
    BY FiniteCounts
  <2>3. /\ IsFiniteSet(Unrecorded(k)') /\ Cardinality(Unrecorded(k)') \in Nat
        /\ Cardinality(Unrecorded(k)') <= Cardinality(Unrecorded(k))
    BY <2>1, <2>2, FS_Subset, FS_CardinalityType
  <2>4. AuditsOf(k)' = AuditsOf(k) /\ performed'[k] = performed[k]
        /\ Cardinality(AuditsOf(k)) + Cardinality(Unrecorded(k)) <= performed[k] /\ performed[k] \in Nat
    BY DEF Counted, SameAudits, AuditsOf
  <2> HIDE DEF Unrecorded, AuditsOf
  <2> QED
    BY <2>2, <2>3, <2>4
<1> QED
  BY <1>1 DEF Counted, SameAudits

------------------------------------------------------------------------------
(* The steps of ApiAccess *)

SameControls == SameApprovals /\ SameAudits /\ SameOwners /\ SameHolders

LEMMA SameControlsKeep == SameControls => Kept
  BY DEF SameControls, SameApprovals, SameAudits, SameOwners, SameHolders, Kept

\* What an access step has to show.
LEMMA AccessStep ==
    ASSUME RInv, SameControls, StaleGrows, NoneOpened, Requests', Ids', Tokens'
    PROVE  RInv'
<1>1. Kept /\ decisions \subseteq decisions' /\ SameApprovals /\ SameAudits /\ SameOwners /\ SameHolders
  BY SameControlsKeep DEF SameControls, SameApprovals
<1>2. Approvals' /\ Audited' /\ Owners' /\ Holders'
  BY <1>1, GroupsStay DEF RInv
<1>3. Counted'
  BY <1>1, CountStays DEF RInv, Audited
<1> QED
  BY <1>2, <1>3 DEF RInv, StaleGrows

\* A request that is not for a key operation replaces that of a client.
LEMMA NoKeyOpened ==
    ASSUME Requests, NEW c \in Client, NEW r, r.op # "key", req' = [req EXCEPT ![c] = r]
    PROVE  NoneOpened
  BY DEF Requests, NoneOpened

\* A client opens or goes on with a request of ids or tokens, or ends one, and
\* changes no row of them.
LEMMA AccessOpened ==
    ASSUME RInv, SameControls, SameIds, SameTokens, stale' = stale,
           NEW c \in Client, NEW r, req' = [req EXCEPT ![c] = r],
           r.op \in {"jti", "accepted", "issuing", "deleting", "nonce", "idle"},
           r.op = "jti" => r.jti \in Jti /\ AppOf[r.jti] \in App,
           r.op = "accepted" => r.app \in App,
           r.op = "issuing" => r.app \in App /\ r.held = r.seen,
           r.op = "nonce" => /\ r.nonce \in Nonce \ nonces
                             /\ \A d \in Client : req[d].op = "nonce" => req[d].nonce # r.nonce
    PROVE  RInv'
<1>1. Requests /\ DOMAIN req = Client /\ nonces' = nonces /\ Kept /\ StaleGrows
  BY SameControlsKeep DEF RInv, Requests, SameIds, StaleGrows
<1>2. req'[c] = r
  BY <1>1
<1>3. Reads(c)'
  BY <1>1, <1>2 DEF Reads
<1>4. \A d \in Client : d # c /\ req[d].op = "nonce" =>
        req[d].nonce \notin nonces' /\ (r.op = "nonce" => r.nonce # req[d].nonce)
  BY <1>1 DEF Requests, Reads
<1>5. Requests'
  BY <1>1, <1>3, <1>4, RequestsAfter
<1>6. NoneOpened
  BY <1>1, NoKeyOpened
<1>7. Ids' /\ Tokens'
  BY <1>1, GroupsStay DEF RInv
<1> QED
  BY <1>1, <1>5, <1>6, <1>7, AccessStep

\* The insert of a jti is its only acceptance while its row is kept.
LEMMA RecordJtiKeeps ==
    ASSUME RInv, SameControls, NEW c \in Client, RecordJti(c)
    PROVE  RInv'
<1> DEFINE j == req[c].jti
<1>1. /\ req[c].op = "jti" /\ j \notin rows
      /\ rows' = rows \cup {j} /\ accepted' = [accepted EXCEPT ![j] = accepted[j] + 1]
      /\ forgotten' = forgotten /\ nonces' = nonces /\ SameTokens
      /\ stale' = stale \/ stale' = (stale \/ ~TRUE)
  BY DEF RecordJti, ReadOn, Commit, SameTokens
<1>2. PICK r : req' = [req EXCEPT ![c] = r] /\ r.op \in {"accepted", "idle"} /\ (r.op = "accepted" => r.app \in App)
  <2> DEFINE next == IF IsAssertion[j] THEN [op |-> "accepted", app |-> AppOf[j]] ELSE Idle
  <2>1. req' = [req EXCEPT ![c] = next]
    BY DEF RecordJti, ReadOn, Commit
  <2>2. AppOf[j] \in App
    BY <1>1 DEF RInv, Requests, Reads
  <2>3. next.op \in {"accepted", "idle"} /\ (next.op = "accepted" => next.app \in App)
    BY <2>2 DEF Idle
  <2> QED  BY <2>1, <2>3
<1>3. Requests /\ DOMAIN req = Client /\ Kept /\ StaleGrows /\ stale' = stale /\ j \in Jti
  BY <1>1, SameControlsKeep DEF RInv, Requests, Reads, StaleGrows
<1> HIDE DEF j
<1>4. req'[c] = r
  BY <1>2, <1>3
<1>5. Reads(c)'
  BY <1>2, <1>4 DEF Reads
<1>6. \A d \in Client : d # c /\ req[d].op = "nonce" =>
        req[d].nonce \notin nonces' /\ (r.op = "nonce" => r.nonce # req[d].nonce)
  BY <1>1, <1>2, <1>3 DEF Requests, Reads
<1>7. Requests'
  BY <1>2, <1>3, <1>5, <1>6, RequestsAfter
<1>8. NoneOpened
  BY <1>2, <1>3, NoKeyOpened
<1>9. Ids'
  <2>1. accepted \in [Jti \cup Nonce -> Nat]
        /\ (\A i \in Jti \ forgotten : accepted[i] = IF i \in rows THEN 1 ELSE 0)
        /\ (\A n \in Nonce : accepted[n] = IF n \in nonces THEN 1 ELSE 0)
    BY DEF RInv, Ids, IdAcceptedOnce
  <2>2. accepted' \in [Jti \cup Nonce -> Nat]
        /\ \A i \in Jti \cup Nonce : accepted'[i] = IF i = j THEN accepted[j] + 1 ELSE accepted[i]
    BY <1>1, <1>3, <2>1
  <2>3. \A i \in Jti \ forgotten' : accepted'[i] = IF i \in rows' THEN 1 ELSE 0
    BY <1>1, <1>3, <2>1, <2>2
  <2>4. \A n \in Nonce : accepted'[n] = IF n \in nonces' THEN 1 ELSE 0
    BY <1>1, <1>3, <2>1, <2>2, IdAssumption
  <2> QED
    BY <2>2, <2>3, <2>4 DEF Ids, IdAcceptedOnce
<1>10. Tokens'
  BY <1>1, <1>3, GroupsStay DEF RInv
<1> QED
  BY <1>3, <1>7, <1>8, <1>9, <1>10, AccessStep

\* The nonce of client c, or one that no request is inserting, is accepted: no
\* row has it, and from now on no request inserts it.
LEMMA NonceAccepted ==
    ASSUME RInv, NEW n \in Nonce, n \notin nonces,
           nonces' = nonces \cup {n}, accepted' = [accepted EXCEPT ![n] = accepted[n] + 1],
           UNCHANGED <<rows, forgotten>>
    PROVE  Ids'
<1>1. accepted \in [Jti \cup Nonce -> Nat]
      /\ (\A i \in Jti \ forgotten : accepted[i] = IF i \in rows THEN 1 ELSE 0)
      /\ (\A m \in Nonce : accepted[m] = IF m \in nonces THEN 1 ELSE 0)
  BY DEF RInv, Ids, IdAcceptedOnce
<1>2. accepted' \in [Jti \cup Nonce -> Nat]
      /\ \A i \in Jti \cup Nonce : accepted'[i] = IF i = n THEN accepted[n] + 1 ELSE accepted[i]
  BY <1>1
<1>3. \A i \in Jti \ forgotten' : accepted'[i] = IF i \in rows' THEN 1 ELSE 0
  BY <1>1, <1>2, IdAssumption
<1>4. \A m \in Nonce : accepted'[m] = IF m \in nonces' THEN 1 ELSE 0
  BY <1>1, <1>2
<1> QED
  BY <1>2, <1>3, <1>4 DEF Ids, IdAcceptedOnce

LEMMA CommitNonceKeeps ==
    ASSUME RInv, SameControls, NEW c \in Client, CommitNonce(c)
    PROVE  RInv'
<1> DEFINE n == req[c].nonce
<1>1. /\ req[c].op = "nonce" /\ nonces' = nonces \cup {n}
      /\ accepted' = [accepted EXCEPT ![n] = accepted[n] + 1]
      /\ UNCHANGED <<rows, forgotten>> /\ SameTokens
      /\ req' = [req EXCEPT ![c] = Idle] /\ stale' = (stale \/ ~TRUE)
  BY DEF CommitNonce, Commit, SameTokens
<1>2. Requests /\ DOMAIN req = Client /\ Kept /\ StaleGrows /\ n \in Nonce \ nonces
  BY <1>1, SameControlsKeep DEF RInv, Requests, Reads, StaleGrows
<1>3. Reads(c)' /\ Idle.op = "idle"
  BY <1>1, <1>2, IdleReads DEF Idle
<1>4. \A d \in Client : d # c /\ req[d].op = "nonce" =>
        req[d].nonce \notin nonces' /\ (Idle.op = "nonce" => Idle.nonce # req[d].nonce)
  BY <1>1, <1>2, <1>3 DEF Requests, Reads
<1>5. Requests'
  BY <1>1, <1>2, <1>3, <1>4, RequestsAfter
<1>6. NoneOpened
  BY <1>1, <1>2, <1>3, NoKeyOpened
<1>7. Ids'
  BY <1>1, <1>2, NonceAccepted
<1>8. Tokens'
  BY <1>1, <1>2, GroupsStay DEF RInv
<1> QED
  BY <1>2, <1>5, <1>6, <1>7, <1>8, AccessStep

\* A token is committed when the others that were live are still those the
\* request has revoked, unless issues or deletions overlap.
LEMMA CommitTokenKeeps ==
    ASSUME RInv, SameControls, NEW c \in Client, NEW t, CommitToken(c, t)
    PROVE  RInv'
<1> DEFINE r == req[c]
           kept == [u \in DOMAIN tokens |-> IF u \in r.held THEN [tokens[u] EXCEPT !.live = FALSE] ELSE tokens[u]]
<1>1. /\ r.op = "issuing" /\ t \notin DOMAIN tokens /\ SameIds /\ creds' = creds
      /\ tokens' = Put(OneRow(t, [app |-> r.app, live |-> TRUE]), kept)
      /\ req' = [req EXCEPT ![c] = Idle] /\ stale' = (stale \/ ~(LiveTokens(r.app) \subseteq r.seen))
  BY DEF CommitToken, Commit, SameIds
<1>2. /\ Requests /\ Kept /\ StaleGrows /\ r.held = r.seen /\ r.app \in App /\ nonces' = nonces
      /\ DOMAIN req = Client /\ Idle.op # "key"
  BY <1>1, SameControlsKeep DEF RInv, Requests, Reads, StaleGrows, SameIds, Idle
<1>3. Requests' /\ NoneOpened
  BY <1>1, <1>2, RequestDone, NoKeyOpened
<1>4. Ids'
  BY <1>1, GroupsStay DEF RInv
<1>5. Tokens'
  <2>1. DOMAIN tokens' = {t} \cup DOMAIN tokens
        /\ tokens'[t] = [app |-> r.app, live |-> TRUE]
        /\ \A u \in DOMAIN tokens : tokens'[u] = kept[u]
    BY <1>1 DEF Put, OneRow
  <2>2. ASSUME NEW u \in DOMAIN tokens
        PROVE  /\ tokens'[u] \in TokenRow /\ tokens'[u].app = tokens[u].app
               /\ u \in r.held => tokens'[u].live = FALSE
               /\ u \notin r.held => tokens'[u] = tokens[u]
    <3>1. tokens[u] \in TokenRow /\ tokens'[u] = IF u \in r.held THEN [tokens[u] EXCEPT !.live = FALSE] ELSE tokens[u]
      BY <2>1 DEF RInv, Tokens
    <3>2. CASE u \in r.held
      BY <3>1, <3>2 DEF TokenRow
    <3>3. CASE u \notin r.held
      BY <3>1, <3>3
    <3> QED  BY <3>2, <3>3
  <2>3. tokens'[t] \in TokenRow /\ tokens'[t].app = r.app
    BY <1>2, <2>1 DEF TokenRow
  <2>4. ASSUME ~stale', NEW a \in App, NEW u \in LiveTokens(a)', NEW v \in LiveTokens(a)'
        PROVE  u = v
    <3>1. ~stale /\ LiveTokens(r.app) \subseteq r.held
      BY <1>1, <1>2, <2>4 DEF RInv
    <3>2. \A w \in LiveTokens(a)' : (w = t /\ a = r.app) \/ (w \in LiveTokens(a) /\ w \notin r.held)
      <4>1. ASSUME NEW w \in LiveTokens(a)' PROVE (w = t /\ a = r.app) \/ (w \in LiveTokens(a) /\ w \notin r.held)
        <5>1. w \in DOMAIN tokens' /\ tokens'[w].app = a /\ tokens'[w].live
          BY DEF LiveTokens
        <5>2. CASE w = t
          <6>1. tokens'[w].app = a
            BY <5>1
          <6> QED  BY <2>3, <5>2, <6>1
        <5>3. CASE w # t
          <6>1. w \in DOMAIN tokens /\ w \notin r.held
            BY <2>1, <2>2, <5>1, <5>3
          <6>2. tokens'[w] = tokens[w]
            BY <2>2, <6>1
          <6> QED  BY <5>1, <6>1, <6>2 DEF LiveTokens
        <5> QED  BY <5>2, <5>3
      <4> QED  BY <4>1
    <3>3. \A w, x \in LiveTokens(a) : w = x
      BY <3>1 DEF RInv, Tokens
    <3> QED  BY <3>1, <3>2, <3>3
  <2>5. creds' \subseteq App
    BY <1>1 DEF RInv, Tokens
  <2>6. \A u \in DOMAIN tokens' : tokens'[u] \in TokenRow
    BY <2>1, <2>2, <2>3
  <2> QED  BY <2>4, <2>5, <2>6 DEF Tokens
<1> QED
  BY <1>2, <1>3, <1>4, <1>5, AccessStep

\* Tokens of a credential are revoked or deleted.
LEMMA FewerTokens ==
    ASSUME Tokens, StaleGrows, creds' \subseteq App, DOMAIN tokens' \subseteq DOMAIN tokens,
           \A t \in DOMAIN tokens' :
             /\ tokens'[t] \in TokenRow /\ tokens'[t].app = tokens[t].app
             /\ tokens'[t].live => tokens[t].live
    PROVE  Tokens'
<1>1. ASSUME NEW a \in App, NEW t \in LiveTokens(a)' PROVE t \in LiveTokens(a)
  <2>1. t \in DOMAIN tokens' /\ tokens'[t].app = a /\ tokens'[t].live
    BY DEF LiveTokens
  <2>2. t \in DOMAIN tokens /\ tokens'[t].app = tokens[t].app /\ (tokens'[t].live => tokens[t].live)
    BY <2>1, Zenon
  <2>3. tokens[t].app = a /\ tokens[t].live
    BY <2>1, <2>2, Zenon
  <2> QED  BY <2>2, <2>3, Zenon DEF LiveTokens
<1>2. ~stale' => \A a \in App : \A t, u \in LiveTokens(a)' : t = u
  BY <1>1 DEF Tokens, StaleGrows
<1>3. creds' \subseteq App /\ \A t \in DOMAIN tokens' : tokens'[t] \in TokenRow
  BY Zenon
<1> QED
  BY <1>2, <1>3 DEF Tokens

LEMMA CommitDeleteKeeps ==
    ASSUME RInv, SameControls, NEW c \in Client, CommitDelete(c)
    PROVE  RInv'
<1>1. /\ SameIds /\ tokens' = [t \in DOMAIN tokens \ req[c].held |-> tokens[t]]
      /\ creds' = creds \ {req[c].app}
      /\ req' = [req EXCEPT ![c] = Idle] /\ stale' = (stale \/ ~(LiveTokens(req[c].app) \subseteq req[c].held))
  BY DEF CommitDelete, Commit, SameIds
<1>2. /\ Requests /\ Kept /\ StaleGrows /\ nonces' = nonces /\ DOMAIN req = Client /\ Idle.op # "key"
  BY <1>1, SameControlsKeep DEF RInv, Requests, StaleGrows, SameIds, Idle
<1>3. Requests' /\ NoneOpened
  BY <1>1, <1>2, RequestDone, NoKeyOpened
<1>4. /\ creds' \subseteq App /\ DOMAIN tokens' \subseteq DOMAIN tokens
      /\ \A t \in DOMAIN tokens' : tokens'[t] = tokens[t] /\ tokens[t] \in TokenRow
  BY <1>1 DEF RInv, Tokens
<1>5. Ids' /\ Tokens'
  BY <1>1, <1>2, <1>4, FewerTokens, GroupsStay DEF RInv
<1> QED
  BY <1>2, <1>3, <1>5, AccessStep

LEMMA RevokeTokenKeeps ==
    ASSUME RInv, SameControls, NEW c \in Client, NEW t, RevokeToken(c, t)
    PROVE  RInv'
<1>1. /\ SameIds /\ tokens' = [tokens EXCEPT ![t].live = FALSE] /\ t \in DOMAIN tokens
      /\ creds' = creds /\ req' = req /\ stale' = stale
  BY DEF RevokeToken, AtOnce, SameIds
<1>2. Requests' /\ NoneOpened /\ StaleGrows /\ Ids'
  BY <1>1, SameControlsKeep, RequestsStay, GroupsStay DEF RInv, StaleGrows, SameIds, NoneOpened
<1>3. ASSUME NEW u \in DOMAIN tokens'
      PROVE  tokens'[u] \in TokenRow /\ tokens'[u].app = tokens[u].app /\ (tokens'[u].live => tokens[u].live)
  <2>1. u \in DOMAIN tokens /\ tokens[u] \in TokenRow
    BY <1>1 DEF RInv, Tokens
  <2>2. CASE u = t
    <3>1. tokens'[t] = [tokens[t] EXCEPT !.live = FALSE]
      BY <1>1
    <3>2. tokens'[t] \in TokenRow /\ tokens'[t].app = tokens[t].app /\ tokens'[t].live = FALSE
      BY <2>1, <2>2, <3>1 DEF TokenRow
    <3> QED  BY <2>2, <3>2
  <2>3. CASE u # t
    BY <1>1, <2>1, <2>3
  <2> QED  BY <2>2, <2>3
<1>4. DOMAIN tokens' = DOMAIN tokens /\ creds' \subseteq App /\ Tokens
  BY <1>1 DEF RInv, Tokens
<1>5. Tokens'
  BY <1>2, <1>3, <1>4, FewerTokens
<1> QED
  BY <1>2, <1>5, AccessStep

\* The hourly cleanup forgets ids with their rows.
LEMMA CleanUpKeeps ==
    ASSUME RInv, SameControls, CleanUp
    PROVE  RInv'
<1>1. PICK past : /\ rows' = rows \ past /\ forgotten' = forgotten \cup (rows \cap past)
                  /\ UNCHANGED <<req, stale, accepted, nonces>> /\ SameTokens
  BY DEF CleanUp, requestVars, SameTokens
<1>2. Requests' /\ NoneOpened /\ StaleGrows /\ Tokens'
  BY <1>1, SameControlsKeep, RequestsStay, GroupsStay DEF RInv, StaleGrows, NoneOpened
<1>3. Ids'
  BY <1>1 DEF RInv, Ids, IdAcceptedOnce
<1> QED
  BY <1>2, <1>3, AccessStep

LEMMA AccessKeeps ==
    ASSUME RInv, AccessNext, UNCHANGED <<controlVars, admissionVars>>
    PROVE  RInv'
<1>1. SameControls
  BY DEF SameControls, SameApprovals, SameAudits, SameOwners, SameHolders, controlVars, admissionVars
<1>2. CASE Tick
  <2>1. UNCHANGED <<req, stale>> /\ SameIds /\ SameTokens
    BY <1>2 DEF Tick, requestVars, SameIds, SameTokens
  <2>2. Requests' /\ NoneOpened /\ StaleGrows /\ Ids' /\ Tokens'
    BY <1>1, <2>1, SameControlsKeep, RequestsStay, GroupsStay DEF RInv, StaleGrows, SameIds, NoneOpened
  <2> QED  BY <1>1, <2>2, AccessStep
<1>3. CASE CleanUp
  BY <1>1, <1>3, CleanUpKeeps
<1>4. CASE RestartApi
  <2>1. req' = [c \in Client |-> Idle] /\ stale' = stale /\ SameIds /\ SameTokens
    BY <1>4 DEF RestartApi, SameIds, SameTokens
  <2>2. NoneOpened
    BY <2>1 DEF NoneOpened, Idle
  <2>3. Requests' /\ StaleGrows /\ Ids' /\ Tokens'
    BY <2>1, RequestsGone, GroupsStay DEF RInv, StaleGrows
  <2> QED  BY <1>1, <2>2, <2>3, AccessStep
<1>5. ASSUME NEW c \in Client, NEW j \in Jti, CheckJti(c, j) PROVE RInv'
  <2>1. SameIds /\ SameTokens /\ stale' = stale /\ AppOf[j] \in creds /\ creds \subseteq App
        /\ (AtOnce(c) \/ Open(c, [op |-> "jti", jti |-> j]))
    BY <1>5 DEF CheckJti, AssertionVerifies, SignatureVerifies, AtOnce, Open, SameIds, SameTokens, RInv, Tokens
  <2>2. CASE AtOnce(c)
    <3>1. req' = req
      BY <2>2 DEF AtOnce
    <3>2. Requests' /\ NoneOpened /\ StaleGrows /\ Ids' /\ Tokens'
      BY <1>1, <2>1, <3>1, SameControlsKeep, RequestsStay, GroupsStay DEF RInv, StaleGrows, SameIds, NoneOpened
    <3> QED  BY <1>1, <3>2, AccessStep
  <2>3. CASE Open(c, [op |-> "jti", jti |-> j])
    <3>1. req' = [req EXCEPT ![c] = [op |-> "jti", jti |-> j]]
      BY <2>3 DEF Open
    <3> QED  BY <1>1, <2>1, <3>1, AccessOpened
  <2> QED  BY <2>1, <2>2, <2>3
<1>6. ASSUME NEW c \in Client, RevokeEarlier(c) PROVE RInv'
  <2> DEFINE r == [op |-> "issuing", app |-> req[c].app, seen |-> LiveTokens(req[c].app), held |-> ToRevoke(req[c].app)]
  <2>1. req' = [req EXCEPT ![c] = r] /\ SameIds /\ SameTokens /\ stale' = stale
    BY <1>6 DEF RevokeEarlier, ReadOn, accessVars, SameIds, SameTokens
  <2>2. r.held = r.seen /\ r.app \in App
    BY <1>6 DEF ToRevoke, RevokeEarlier, RInv, Requests, Reads
  <2> QED  BY <1>1, <2>1, <2>2, AccessOpened
<1>7. ASSUME NEW c \in Client, NEW a \in App, CreateCredential(c, a) PROVE RInv'
  <2>1. UNCHANGED <<req, stale>> /\ SameIds /\ tokens' = tokens /\ creds' = creds \cup {a}
    BY <1>7 DEF CreateCredential, AtOnce, SameIds
  <2>2. Requests' /\ NoneOpened /\ StaleGrows /\ Ids'
    BY <1>1, <2>1, SameControlsKeep, RequestsStay, GroupsStay DEF RInv, StaleGrows, SameIds, NoneOpened
  <2>3. Tokens'
    BY <2>1 DEF RInv, Tokens, LiveTokens
  <2> QED  BY <1>1, <2>2, <2>3, AccessStep
<1>8. ASSUME NEW c \in Client, NEW a \in App, DeleteTokens(c, a) PROVE RInv'
  <2> DEFINE r == [op |-> "deleting", app |-> a, held |-> {t \in DOMAIN tokens : tokens[t].app = a}]
  <2>1. req' = [req EXCEPT ![c] = r] /\ SameIds /\ SameTokens /\ stale' = stale
    BY <1>8 DEF DeleteTokens, Open, accessVars, SameIds, SameTokens
  <2> QED  BY <1>1, <2>1, AccessOpened
<1>9. ASSUME NEW c \in Client, NEW n \in Nonce, InsertNonce(c, n) PROVE RInv'
  <2>1. req' = [req EXCEPT ![c] = [op |-> "nonce", nonce |-> n]] /\ SameIds /\ SameTokens /\ stale' = stale
        /\ n \notin nonces /\ \A d \in Client : req[d].op = "nonce" => req[d].nonce # n
    BY <1>9 DEF InsertNonce, Open, accessVars, SameIds, SameTokens
  <2> QED  BY <1>1, <2>1, AccessOpened
<1>10. ASSUME NEW c \in Client, RollBackAccess(c) PROVE RInv'
  <2>1. req' = [req EXCEPT ![c] = Idle] /\ SameIds /\ SameTokens /\ stale' = stale
    BY <1>10 DEF RollBackAccess, RollBack, accessVars, SameIds, SameTokens
  <2>2. Idle.op = "idle"
    BY DEF Idle
  <2> QED  BY <1>1, <2>1, <2>2, AccessOpened
<1> QED
  BY <1>1, <1>2, <1>3, <1>4, <1>5, <1>6, <1>7, <1>8, <1>9, <1>10, RecordJtiKeeps, CommitTokenKeeps,
     RevokeTokenKeeps, CommitDeleteKeeps, CommitNonceKeeps DEF AccessNext

------------------------------------------------------------------------------
(* The steps of ProductionControls *)

SameAccess == SameIds /\ SameTokens

\* What a step of the controls has to show.
LEMMA ControlStep ==
    ASSUME RInv, SameAccess, SameHolders, StaleGrows, Kept,
           Requests', Approvals', Audited', Counted', Owners'
    PROVE  RInv'
<1>1. Ids' /\ Tokens' /\ Holders'
  BY GroupsStay DEF RInv, SameAccess
<1> QED
  BY <1>1 DEF RInv, StaleGrows

\* A request is opened that changes no row yet, or one is given up.
LEMMA ControlOpened ==
    ASSUME RInv, SameAccess, SameControls, stale' = stale,
           NEW c \in Client, NEW r, req' = [req EXCEPT ![c] = r], r.op \notin {"key", "nonce"}, Reads(c)'
    PROVE  RInv'
<1>1. Requests /\ DOMAIN req = Client /\ nonces' = nonces /\ Kept /\ StaleGrows
  BY SameControlsKeep DEF RInv, Requests, SameAccess, SameIds, StaleGrows
<1>2. \A d \in Client : d # c /\ req[d].op = "nonce" =>
        req[d].nonce \notin nonces' /\ (r.op = "nonce" => r.nonce # req[d].nonce)
  BY <1>1 DEF Requests, Reads
<1>3. Requests'
  BY <1>1, <1>2, RequestsAfter
<1>4. NoneOpened
  BY <1>1, NoKeyOpened
<1>5. Ids' /\ Tokens'
  BY <1>1, GroupsStay DEF RInv, SameAccess
<1> QED
  BY <1>1, <1>3, <1>4, <1>5, AccessStep

\* What reads statuses overwrites no REVOKED one that it has read.
LEMMA ChangeStatusKeeps ==
    ASSUME RInv, SameAccess, SameHolders, NEW c \in Client, NEW read, NEW new, NEW accepts,
           ChangeStatus(c, read, new, accepts),
           \A e \in read \cap DOMAIN new : status[e] = "REVOKED" => new[e] = "REVOKED"
    PROVE  RInv'
<1> DEFINE r == [op |-> "status", loaded |-> [e \in read |-> status[e]], new |-> new, accepts |-> accepts]
<1>1. /\ req' = [req EXCEPT ![c] = r] /\ stale' = stale
      /\ SameControls /\ DOMAIN req = Client
  BY DEF ChangeStatus, Open, controlVars, SameControls, SameApprovals, SameAudits, SameOwners, RInv, Requests
<1>2. req'[c] = r /\ KeepsRevoked(r)
  BY <1>1 DEF KeepsRevoked
<1>3. Reads(c)'
  BY <1>2 DEF Reads, KeepsRevoked
<1> QED
  BY <1>1, <1>3, ControlOpened

LEMMA CreateApprovalKeeps ==
    ASSUME RInv, SameAccess, SameHolders, NEW c \in Client, NEW a, NEW maker, CreateApproval(c, a, maker)
    PROVE  RInv'
<1> DEFINE new == [maker |-> maker, checker |-> "none", state |-> "PENDING"]
<1>1. /\ a \notin DOMAIN approval /\ approval' = Put(OneRow(a, new), approval)
      /\ decisions' = decisions /\ SameAudits /\ SameOwners /\ req' = req /\ stale' = stale
  BY DEF CreateApproval, AtOnce, SameAudits, SameOwners
<1>2. /\ DOMAIN approval' = DOMAIN approval \cup {a} /\ approval'[a] = new
      /\ \A b \in DOMAIN approval : approval'[b] = approval[b]
  <2> HIDE DEF new
  <2> QED  BY <1>1 DEF Put, OneRow
<1>3. Kept /\ StaleGrows
  BY <1>1, <1>2 DEF Kept, StaleGrows, SameOwners, SameHolders, RInv
<1>4. Requests'
  BY <1>1, <1>3, RequestsStay DEF RInv, SameAccess, SameIds
<1>5. Approvals'
  BY <1>1, <1>2 DEF RInv, Approvals, Decided
<1>6. Audited' /\ Owners'
  BY <1>1, <1>3, GroupsStay DEF RInv
<1>7. Counted'
  BY <1>1, CountStays DEF RInv, Audited, NoneOpened
<1> QED
  BY <1>3, <1>4, <1>5, <1>6, <1>7, ControlStep

LEMMA ReadDecisionKeeps ==
    ASSUME RInv, SameAccess, SameHolders, NEW c \in Client, NEW a, NEW checker \in Subject, NEW outcome,
           ReadDecision(c, a, checker, outcome)
    PROVE  RInv'
<1> DEFINE r == [op |-> "decision", approval |-> a, row |-> approval[a],
                 new |-> [approval[a] EXCEPT !.checker = checker, !.state = "APPROVED"], outcome |-> outcome]
<1>1. /\ a \in DOMAIN approval /\ approval[a].state = "PENDING"
      /\ req' = [req EXCEPT ![c] = r] /\ stale' = stale /\ SameControls /\ approval' = approval
      /\ DOMAIN req = Client
  BY DEF ReadDecision, Open, controlVars, SameControls, SameApprovals, SameAudits, SameOwners, RInv, Requests
<1>2. /\ approval[a] = [maker |-> approval[a].maker, checker |-> approval[a].checker, state |-> approval[a].state]
      /\ approval[a].checker = "none"
  BY <1>1 DEF RInv, Approvals
<1>3. /\ r.new.checker = checker /\ r.new.state = "APPROVED" /\ r.new.maker = r.row.maker
  BY <1>2
<1>4. req'[c] = r /\ r.op = "decision" /\ r.approval = a /\ r.row = approval[a]
  BY <1>1
<1> HIDE DEF r
<1>5. Reads(c)'
  BY <1>1, <1>2, <1>3, <1>4 DEF Reads, ReadsPending
<1> QED
  BY <1>1, <1>4, <1>5, ControlOpened

\* Whatever has overlapped, the approval names the checker of this decision.
LEMMA CommitDecisionKeeps ==
    ASSUME RInv, SameAccess, SameHolders, NEW c \in Client, CommitDecision(c)
    PROVE  RInv'
<1> DEFINE r == req[c]
           a == r.approval
           decision == [approval |-> a, checker |-> r.new.checker, outcome |-> r.outcome]
<1>1. /\ r.op = "decision" /\ approval' = [approval EXCEPT ![a] = Flush(approval[a], r.row, r.new)]
      /\ decisions' = decisions \cup {decision} /\ SameAudits /\ SameOwners
      /\ req' = [req EXCEPT ![c] = Idle] /\ stale' = (stale \/ approval[a] # r.row)
  BY DEF CommitDecision, Commit, SameAudits, SameOwners
<1>2. /\ a \in DOMAIN approval /\ r.row.checker = "none" /\ r.row.state = "PENDING"
      /\ r.new.checker \in Subject /\ r.new.state = "APPROVED" /\ r.new.maker = r.row.maker
  BY <1>1 DEF RInv, Requests, Reads, ReadsPending
<1> DEFINE m == approval[a].maker
           checker == r.new.checker
<1>3. approval[a] = [maker |-> m, checker |-> approval[a].checker, state |-> approval[a].state]
  BY <1>2 DEF RInv, Approvals
<1>4. approval'[a] = [maker |-> m, checker |-> checker, state |-> "APPROVED"]
  <2>1. approval'[a] = Flush(approval[a], r.row, r.new)
    BY <1>1, <1>2
  <2>2. checker # "none"
    BY <1>2, SubjectAssumption
  <2> QED
    BY <1>2, <1>3, <2>1, <2>2 DEF Flush
<1>5. DOMAIN approval' = DOMAIN approval /\ \A b \in DOMAIN approval : b # a => approval'[b] = approval[b]
  BY <1>1
<1>6. Kept /\ StaleGrows
  BY <1>1, <1>5 DEF Kept, StaleGrows, SameOwners, SameHolders, RInv
<1>7. decision \in decisions' /\ decision.approval = a /\ decision.checker = checker /\ decisions \subseteq decisions'
  BY <1>1
<1> HIDE DEF a, checker, m, decision
<1>8. Approvals'
  <2>1. /\ approval'[a].maker = m /\ approval'[a].checker = checker /\ approval'[a].state = "APPROVED"
    BY <1>4
  <2>2. ASSUME NEW b \in DOMAIN approval'
        PROVE  /\ approval'[b] = [maker |-> approval'[b].maker, checker |-> approval'[b].checker, state |-> approval'[b].state]
               /\ approval'[b].state = "APPROVED" =>
                    \E e \in decisions' : e.approval = b /\ e.checker = approval'[b].checker
               /\ approval'[b].state = "PENDING" => approval'[b].checker = "none"
    <3>1. CASE b = a
      BY <1>4, <1>7, <2>1, <3>1
    <3>2. CASE b # a
      <4>1. b \in DOMAIN approval /\ approval'[b] = approval[b]
        BY <1>5, <3>2
      <4>2. /\ approval[b] = [maker |-> approval[b].maker, checker |-> approval[b].checker, state |-> approval[b].state]
            /\ approval[b].state = "APPROVED" =>
                 \E e \in decisions : e.approval = b /\ e.checker = approval[b].checker
            /\ approval[b].state = "PENDING" => approval[b].checker = "none"
        BY <4>1 DEF RInv, Approvals, Decided
      <4> QED  BY <1>7, <4>1, <4>2
    <3> QED  BY <3>1, <3>2
  <2> QED  BY <2>2 DEF Approvals, Decided
<1>9. /\ Requests /\ nonces' = nonces /\ DOMAIN req = Client /\ Idle.op # "key"
  BY DEF RInv, Requests, SameAccess, SameIds, Idle
<1>10. Requests' /\ NoneOpened
  BY <1>1, <1>6, <1>9, RequestDone, NoKeyOpened
<1>11. Audited' /\ Owners' /\ Counted'
  BY <1>1, <1>6, <1>7, <1>10, GroupsStay, CountStays DEF RInv, Audited
<1> QED
  BY <1>6, <1>8, <1>10, <1>11, ControlStep

\* An operation is performed and will be recorded: one more of each.
LEMMA ExecuteKeeps ==
    ASSUME RInv, SameAccess, SameHolders, NEW c \in Client, NEW operation, NEW k \in ManagedKey,
           NEW maker, NEW checker, NEW a, ExecuteKeyOperation(c, operation, k, maker, checker, a)
    PROVE  RInv'
<1> DEFINE row == [operation |-> operation, key |-> k, maker |-> maker,
                   checker |-> checker, approval |-> a, status |-> "COMPLETED"]
           r == [op |-> "key", audit |-> row]
<1>1. /\ maker # checker /\ a \in DOMAIN approval
      /\ approval[a] = [maker |-> maker, checker |-> checker, state |-> "APPROVED"]
      /\ performed' = [performed EXCEPT ![k] = performed[k] + 1]
      /\ req[c] = Idle /\ req' = [req EXCEPT ![c] = r] /\ stale' = stale
      /\ SameApprovals /\ audits' = audits /\ SameOwners
  BY DEF ExecuteKeyOperation, Execute, Open, SameApprovals, SameOwners
<1>2. Requests /\ DOMAIN req = Client /\ nonces' = nonces /\ Kept /\ StaleGrows
  BY <1>1 DEF RInv, Requests, SameAccess, SameIds, StaleGrows, Kept, SameApprovals, SameOwners, SameHolders
<1>3. r.op = "key" /\ r.audit = row /\ row.key = k /\ row.maker = maker /\ row.checker = checker /\ row.approval = a
  OBVIOUS
<1>4. /\ req'[c] = r
      /\ \A d \in Client : d # c => req'[d] = req[d]
  BY <1>1, <1>2
<1>5. \E d \in decisions' : d.approval = a /\ d.checker = checker
  BY <1>1 DEF RInv, Approvals, Decided, SameApprovals
<1> HIDE DEF row, r
<1>6. Reads(c)'
  BY <1>1, <1>3, <1>4, <1>5 DEF Reads, DualControl, Decided
<1>7. \A d \in Client : d # c /\ req[d].op = "nonce" =>
        req[d].nonce \notin nonces' /\ (r.op = "nonce" => r.nonce # req[d].nonce)
  BY <1>2, <1>3 DEF Requests, Reads
<1>8. Requests'
  BY <1>1, <1>2, <1>6, <1>7, RequestsAfter
<1>9. Counted'
  <2>1. ASSUME NEW j \in ManagedKey
        PROVE  Cardinality(AuditsOf(j)') + Cardinality(Unrecorded(j)') <= performed'[j]
    <3>1. /\ AuditsOf(j)' = AuditsOf(j) /\ Cardinality(AuditsOf(j)) \in Nat
          /\ IsFiniteSet(Unrecorded(j)) /\ Cardinality(Unrecorded(j)) \in Nat
          /\ Cardinality(AuditsOf(j)) + Cardinality(Unrecorded(j)) <= performed[j]
          /\ performed[j] \in Nat /\ performed'[j] = IF j = k THEN performed[k] + 1 ELSE performed[j]
      BY <1>1, FiniteCounts DEF RInv, Audited, Counted, AuditsOf
    <3>2. Idle.op # "key"
      BY DEF Idle
    <3>3. c \notin Unrecorded(j) /\ Unrecorded(j)' = IF j = k THEN Unrecorded(j) \cup {c} ELSE Unrecorded(j)
      BY <1>1, <1>3, <1>4, <3>2 DEF Unrecorded
    <3>4. CASE j = k
      <4>1. Cardinality(Unrecorded(j)') = Cardinality(Unrecorded(j)) + 1
        BY <3>1, <3>3, <3>4, FS_AddElement, ZenonT(40)
      <4> QED  BY <3>1, <3>4, <4>1
    <3>5. CASE j # k
      BY <3>1, <3>3, <3>5
    <3> QED  BY <3>4, <3>5
  <2>2. performed' \in [ManagedKey -> Nat]
    BY <1>1 DEF RInv, Counted
  <2> QED  BY <2>1, <2>2 DEF Counted
<1>10. Approvals' /\ Owners'
  BY <1>1, <1>2, GroupsStay DEF RInv
<1>11. Audited'
  BY <1>1 DEF RInv, Audited, DualControl, Decided, SameApprovals
<1> QED
  BY <1>2, <1>8, <1>9, <1>10, <1>11, ControlStep

LEMMA CommitKeyOperationKeeps ==
    ASSUME RInv, SameAccess, SameHolders, NEW c \in Client, CommitKeyOperation(c)
    PROVE  RInv'
<1> DEFINE row == req[c].audit
           k == row.key
<1>1. /\ req[c].op = "key" /\ audits' = Append(audits, row)
      /\ req' = [req EXCEPT ![c] = Idle] /\ stale' = (stale \/ ~TRUE)
      /\ SameApprovals /\ performed' = performed /\ SameOwners
  BY DEF CommitKeyOperation, Commit, SameApprovals, SameOwners
<1>2. /\ Requests /\ DOMAIN req = Client /\ nonces' = nonces /\ Kept /\ StaleGrows
      /\ row.key \in ManagedKey /\ DualControl(row)
  BY <1>1 DEF RInv, Requests, Reads, SameAccess, SameIds, StaleGrows, Kept, SameApprovals, SameOwners, SameHolders
<1> HIDE DEF row
<1>3. /\ Tuple(audits') /\ Len(audits) \in Nat /\ DOMAIN audits = 1 .. Len(audits)
      /\ DOMAIN audits' = 1 .. Len(audits) + 1
      /\ \A i \in 1 .. Len(audits) : audits'[i] = audits[i]
      /\ audits'[Len(audits) + 1] = row
  BY <1>1, AppendTuple DEF RInv, Audited
<1>4. Requests'
  BY <1>1, <1>2, RequestDone
<1>5. /\ req'[c] = Idle /\ Idle.op # "key"
      /\ \A d \in Client : d # c => req'[d] = req[d]
  BY <1>1, <1>2 DEF Idle
<1>6. Audited'
  <2>1. ASSUME NEW i \in DOMAIN audits'
        PROVE  /\ audits'[i].checker # audits'[i].maker
               /\ \E d \in decisions' : d.approval = audits'[i].approval /\ d.checker = audits'[i].checker
    <3>1. CASE i \in DOMAIN audits
      BY <1>1, <1>3, <3>1 DEF RInv, Audited, DualControl, Decided, SameApprovals
    <3>2. CASE i = Len(audits) + 1
      BY <1>1, <1>2, <1>3, <3>2 DEF DualControl, Decided, SameApprovals
    <3> QED  BY <1>3, <3>1, <3>2
  <2> QED  BY <1>3, <2>1 DEF Audited, DualControl, Decided
<1>7. Counted'
  <2>1. ASSUME NEW j \in ManagedKey
        PROVE  Cardinality(AuditsOf(j)') + Cardinality(Unrecorded(j)') <= performed[j]
    <3>1. /\ IsFiniteSet(AuditsOf(j)) /\ Cardinality(AuditsOf(j)) \in Nat
          /\ IsFiniteSet(Unrecorded(j)) /\ Cardinality(Unrecorded(j)) \in Nat
          /\ Cardinality(AuditsOf(j)) + Cardinality(Unrecorded(j)) <= performed[j] /\ performed[j] \in Nat
      BY FiniteCounts DEF RInv, Audited, Counted
    <3>2. Len(audits) + 1 \notin AuditsOf(j) /\ (j = k <=> c \in Unrecorded(j))
      BY <1>1, <1>3 DEF AuditsOf, Unrecorded, row
    <3>3. /\ AuditsOf(j)' = IF j = k THEN AuditsOf(j) \cup {Len(audits) + 1} ELSE AuditsOf(j)
          /\ Unrecorded(j)' = Unrecorded(j) \ {c}
      <4>1. Unrecorded(j)' = Unrecorded(j) \ {c}
        BY <1>5 DEF Unrecorded
      <4>2. \A i \in 1 .. Len(audits) + 1 : i \in 1 .. Len(audits) \/ i = Len(audits) + 1
        BY <1>3
      <4>3. AuditsOf(j)' = IF j = k THEN AuditsOf(j) \cup {Len(audits) + 1} ELSE AuditsOf(j)
        BY <1>3, <4>2 DEF AuditsOf
      <4> QED  BY <4>1, <4>3
    <3>4. CASE j = k
      <4>1. Cardinality(AuditsOf(j)') = Cardinality(AuditsOf(j)) + 1
        BY <3>1, <3>2, <3>3, <3>4, FS_AddElement
      <4>2. Cardinality(Unrecorded(j)') = Cardinality(Unrecorded(j)) - 1
        BY <3>1, <3>2, <3>3, <3>4, FS_RemoveElement
      <4> QED  BY <3>1, <4>1, <4>2
    <3>5. CASE j # k
      <4>1. Unrecorded(j)' = Unrecorded(j) /\ AuditsOf(j)' = AuditsOf(j)
        BY <3>2, <3>3, <3>5
      <4> QED  BY <3>1, <4>1
    <3> QED  BY <3>4, <3>5
  <2> QED  BY <1>1, <2>1 DEF RInv, Counted
<1>8. Approvals' /\ Owners'
  BY <1>1, <1>2, GroupsStay DEF RInv
<1> QED
  BY <1>2, <1>4, <1>6, <1>7, <1>8, ControlStep

\* Of REVOKED rows that are read, a request writes none as anything else.
LEMMA CommitStatusKeeps ==
    ASSUME RInv, SameAccess, SameHolders, NEW c \in Client, CommitStatus(c)
    PROVE  /\ RInv'
           /\ ~stale' => \A e \in DOMAIN status : status[e] = "REVOKED" => status'[e] = "REVOKED"
<1> DEFINE r == req[c]
<1>1. /\ r.op = "status" /\ (\A e \in DOMAIN r.new \ DOMAIN r.loaded : e \notin DOMAIN status)
      /\ status' = Put(r.new, status)
      /\ req' = [req EXCEPT ![c] = Idle] /\ stale' = (stale \/ ~(\A e \in DOMAIN r.loaded : status[e] = r.loaded[e]))
      /\ SameControls
  BY DEF CommitStatus, Commit, SameControls, SameApprovals, SameAudits, SameOwners
<1>2. /\ Requests /\ DOMAIN req = Client /\ nonces' = nonces /\ Kept /\ StaleGrows
      /\ KeepsRevoked(r) /\ Idle.op # "key"
  BY <1>1, SameControlsKeep DEF RInv, Requests, Reads, SameAccess, SameIds, StaleGrows, Idle
<1>3. ASSUME ~stale', NEW e \in DOMAIN status, status[e] = "REVOKED" PROVE status'[e] = "REVOKED"
  <2>1. status'[e] = IF e \in DOMAIN r.new THEN r.new[e] ELSE status[e]
    BY <1>1 DEF Put
  <2>2. e \in DOMAIN r.new => e \in DOMAIN r.loaded /\ r.loaded[e] = "REVOKED"
    BY <1>1, <1>3 DEF RInv
  <2> QED  BY <1>2, <1>3, <2>1, <2>2 DEF KeepsRevoked
<1>4. Requests' /\ NoneOpened
  BY <1>1, <1>2, RequestDone, NoKeyOpened
<1>5. Ids' /\ Tokens'
  BY <1>2, GroupsStay DEF RInv, SameAccess
<1> QED
  BY <1>1, <1>2, <1>3, <1>4, <1>5, AccessStep

\* An account of its own, PENDING and without an owner.
LEMMA CreateAccountKeeps ==
    ASSUME RInv, SameAccess, SameHolders, NEW c \in Client, NEW a, CreateAccount(c, a)
    PROVE  RInv'
<1>1. /\ a \notin DOMAIN account /\ account' = Put(OneRow(a, "PENDING"), account)
      /\ owner' = owner /\ SameApprovals /\ SameAudits /\ req' = req /\ stale' = stale
  BY DEF CreateAccount, AtOnce, SameApprovals, SameAudits
<1>2. /\ DOMAIN account' = DOMAIN account \cup {a} /\ account'[a] = "PENDING"
      /\ \A b \in DOMAIN account : account'[b] = account[b]
  BY <1>1 DEF Put, OneRow
<1>3. Kept /\ StaleGrows
  BY <1>1, <1>2 DEF Kept, StaleGrows, SameApprovals, SameHolders, RInv
<1>4. Requests'
  BY <1>1, <1>3, RequestsStay DEF RInv, SameAccess, SameIds
<1>5. Owners'
  <2>1. ~ActiveOwner(a)
    <3>1. \A o \in DOMAIN owner : owner[o].account # a
      BY <1>1 DEF RInv, Owners
    <3>2. ASSUME NEW o \in DOMAIN owner, owner[o] = [account |-> a, status |-> "ACTIVE"] PROVE FALSE
      <4>1. owner[o].account = a
        BY <3>2
      <4> QED  BY <3>1, <4>1
    <3> QED  BY <3>2 DEF ActiveOwner
  <2>2. \A b : ActiveOwner(b)' <=> ActiveOwner(b)
    BY <1>1 DEF ActiveOwner
  <2>3. \A b \in DOMAIN account' : account'[b] = "ACTIVE" <=> ActiveOwner(b)'
    BY <1>2, <2>1, <2>2 DEF RInv, Owners
  <2> QED  BY <1>1, <1>2, <2>3 DEF RInv, Owners
<1>6. Approvals' /\ Audited' /\ Counted'
  BY <1>1, <1>3, GroupsStay, CountStays DEF RInv, Audited, NoneOpened, SameApprovals
<1> QED
  BY <1>3, <1>4, <1>5, <1>6, ControlStep

LEMMA AddOwnershipKeeps ==
    ASSUME RInv, SameAccess, SameHolders, NEW c \in Client, NEW o, NEW a, AddOwnership(c, o, a)
    PROVE  RInv'
<1> DEFINE new == [account |-> a, status |-> "PENDING"]
<1>1. /\ a \in DOMAIN account /\ o \notin DOMAIN owner /\ owner' = Put(OneRow(o, new), owner)
      /\ account' = account /\ SameApprovals /\ SameAudits /\ req' = req /\ stale' = stale
  BY DEF AddOwnership, AtOnce, SameApprovals, SameAudits
<1>2. /\ DOMAIN owner' = DOMAIN owner \cup {o} /\ owner'[o] = new
      /\ \A p \in DOMAIN owner : owner'[p] = owner[p]
  <2> HIDE DEF new
  <2> QED  BY <1>1 DEF Put, OneRow
<1>3. owner'[o].account = a /\ owner'[o].status = "PENDING"
      /\ owner'[o] = [account |-> owner'[o].account, status |-> owner'[o].status]
  BY <1>2
<1>4. Kept /\ StaleGrows
  BY <1>1, <1>2 DEF Kept, StaleGrows, SameApprovals, SameHolders, RInv
<1>5. Requests'
  BY <1>1, <1>4, RequestsStay DEF RInv, SameAccess, SameIds
<1>6. Owners'
  <2>1. ASSUME NEW b PROVE ActiveOwner(b)' <=> ActiveOwner(b)
    <3>1. owner'[o] # [account |-> b, status |-> "ACTIVE"]
      BY <1>3
    <3> QED  BY <1>2, <3>1 DEF ActiveOwner
  <2>2. \A p \in DOMAIN owner' : /\ owner'[p] = [account |-> owner'[p].account, status |-> owner'[p].status]
                                 /\ owner'[p].account \in DOMAIN account
    BY <1>1, <1>2, <1>3 DEF RInv, Owners
  <2>3. \A b \in DOMAIN account' : account'[b] = "ACTIVE" <=> ActiveOwner(b)'
    BY <1>1, <2>1 DEF RInv, Owners
  <2>4. ~stale' => \A p, q \in DOMAIN owner' :
          owner'[p].status = "ACTIVE" /\ owner'[q].status = "ACTIVE" /\ owner'[p].account = owner'[q].account => p = q
    BY <1>1, <1>2, <1>3 DEF RInv, Owners
  <2> QED  BY <1>1, <2>2, <2>3, <2>4 DEF Owners
<1>7. Approvals' /\ Audited' /\ Counted'
  BY <1>1, <1>4, GroupsStay, CountStays DEF RInv, Audited, NoneOpened, SameApprovals
<1> QED
  BY <1>4, <1>5, <1>6, <1>7, ControlStep

LEMMA ReadActivateKeeps ==
    ASSUME RInv, SameAccess, SameHolders, NEW c \in Client, NEW a, NEW o, NEW maker, NEW checker,
           ReadActivate(c, a, o, maker, checker)
    PROVE  RInv'
<1> DEFINE r == [op |-> "activate", account |-> a, ownership |-> o]
<1>1. /\ a \in DOMAIN account /\ o \in DOMAIN owner /\ owner[o] = [account |-> a, status |-> "PENDING"]
      /\ req' = [req EXCEPT ![c] = r] /\ stale' = stale /\ SameControls /\ DOMAIN req = Client
  BY DEF ReadActivate, Open, controlVars, SameControls, SameApprovals, SameAudits, SameOwners, RInv, Requests
<1>2. req'[c] = r /\ account' = account /\ owner' = owner /\ owner[o].account = a
  BY <1>1 DEF SameControls, SameOwners
<1>3. Reads(c)'
  BY <1>1, <1>2 DEF Reads
<1> QED
  BY <1>1, <1>3, ControlOpened

\* The account and its ownership become ACTIVE together.
LEMMA CommitActivateKeeps ==
    ASSUME RInv, SameAccess, SameHolders, NEW c \in Client, CommitActivate(c)
    PROVE  RInv'
<1> DEFINE a == req[c].account
           o == req[c].ownership
<1>1. /\ req[c].op = "activate"
      /\ account' = [account EXCEPT ![a] = "ACTIVE"] /\ owner' = [owner EXCEPT ![o].status = "ACTIVE"]
      /\ req' = [req EXCEPT ![c] = Idle]
      /\ stale' = (stale \/ ~(account[a] = "PENDING" /\ owner[o].status = "PENDING"))
      /\ SameApprovals /\ SameAudits
  BY DEF CommitActivate, Commit, SameApprovals, SameAudits
<1>2. /\ a \in DOMAIN account /\ o \in DOMAIN owner /\ owner[o].account = a
      /\ owner[o] = [account |-> a, status |-> owner[o].status]
  BY <1>1 DEF RInv, Requests, Reads, Owners
<1> HIDE DEF a, o
<1>3. /\ DOMAIN owner' = DOMAIN owner /\ owner'[o] = [account |-> a, status |-> "ACTIVE"]
      /\ owner'[o].account = a /\ owner'[o].status = "ACTIVE"
      /\ \A p \in DOMAIN owner : p # o => owner'[p] = owner[p]
  <2>1. owner'[o] = [owner[o] EXCEPT !.status = "ACTIVE"]
    BY <1>1, <1>2
  <2>2. owner'[o] = [account |-> a, status |-> "ACTIVE"]
    BY <1>2, <2>1
  <2> QED  BY <1>1, <2>2
<1>4. DOMAIN account' = DOMAIN account /\ account'[a] = "ACTIVE"
      /\ \A b \in DOMAIN account : b # a => account'[b] = account[b]
  BY <1>1, <1>2
<1>5. Kept /\ StaleGrows
  <2>1. ASSUME NEW p \in DOMAIN owner
        PROVE  p \in DOMAIN owner' /\ owner'[p].account = owner[p].account
               /\ (owner[p].status = "ACTIVE" => owner'[p] = owner[p])
    BY <1>2, <1>3
  <2> QED
    BY <1>1, <1>4, <2>1 DEF Kept, StaleGrows, SameApprovals, SameHolders, RInv
<1>6. /\ Requests /\ nonces' = nonces /\ DOMAIN req = Client /\ Idle.op # "key"
  BY DEF RInv, Requests, SameAccess, SameIds, Idle
<1>7. Requests' /\ NoneOpened
  BY <1>1, <1>5, <1>6, RequestDone, NoKeyOpened
<1>8. Owners'
  <2>1. \A p \in DOMAIN owner' : /\ owner'[p] = [account |-> owner'[p].account, status |-> owner'[p].status]
                                 /\ owner'[p].account \in DOMAIN account'
    BY <1>2, <1>3, <1>4 DEF RInv, Owners
  <2>2. ASSUME NEW b \in DOMAIN account'
        PROVE  account'[b] = "ACTIVE" <=> \E p \in DOMAIN owner' : owner'[p] = [account |-> b, status |-> "ACTIVE"]
    <3>1. CASE b = a
      BY <1>2, <1>3, <1>4, <3>1
    <3>2. CASE b # a
      <4>1. owner'[o] # [account |-> b, status |-> "ACTIVE"] /\ owner[o] # [account |-> b, status |-> "ACTIVE"]
        BY <1>2, <1>3, <3>2
      <4>2. account'[b] = account[b] /\ b \in DOMAIN account
        BY <1>4, <3>2
      <4>3. account[b] = "ACTIVE" <=> \E p \in DOMAIN owner : owner[p] = [account |-> b, status |-> "ACTIVE"]
        BY <4>2 DEF RInv, Owners, ActiveOwner
      <4> QED  BY <1>3, <4>1, <4>2, <4>3
    <3> QED  BY <3>1, <3>2
  <2>3. ASSUME ~stale', NEW p \in DOMAIN owner', NEW q \in DOMAIN owner',
               owner'[p].status = "ACTIVE", owner'[q].status = "ACTIVE", owner'[p].account = owner'[q].account
        PROVE  p = q
    <3>1. ~stale /\ account[a] = "PENDING"
      BY <1>1, <2>3 DEF RInv
    <3>2. ASSUME NEW s \in DOMAIN owner, owner[s].status = "ACTIVE", owner[s].account = a PROVE FALSE
      <4>1. owner[s] = [account |-> a, status |-> "ACTIVE"]
        BY <3>2 DEF RInv, Owners
      <4>2. account[a] = "ACTIVE"
        BY <1>2, <4>1 DEF RInv, Owners, ActiveOwner
      <4> QED  BY <3>1, <4>2
    <3>3. \A s, u \in DOMAIN owner :
            owner[s].status = "ACTIVE" /\ owner[u].status = "ACTIVE" /\ owner[s].account = owner[u].account => s = u
      BY <3>1 DEF RInv, Owners
    <3> QED  BY <1>3, <2>3, <3>2, <3>3
  <2> QED  BY <2>1, <2>2, <2>3 DEF Owners, ActiveOwner
<1>9. Approvals' /\ Audited' /\ Counted'
  BY <1>1, <1>5, <1>7, GroupsStay, CountStays DEF RInv, Audited, SameApprovals
<1> QED
  BY <1>5, <1>7, <1>8, <1>9, ControlStep

\* Every request that reads statuses, by what it will write over what it reads.
LEMMA StatusReadersKeep ==
    ASSUME RInv, SameAccess, SameHolders, NEW c \in Client, NEW e, NEW f, NEW target, NEW m, NEW s,
           NEW revoked, NEW late,
           \/ ReadCreate(c, e) \/ ReadIdentityTransition(c, e, target, m, s)
           \/ ReadEntitlementTransition(c, e, target, m, s) \/ ReadRotate(c, e, f, m, s)
           \/ ReadRevokeCertificate(c, e, m, s) \/ CreateEntitlement(c, e)
           \/ ReadAcceptRulebook(c, e) \/ ReadRefresh(c, revoked, late)
    PROVE  RInv'
<1>1. \A id, columns : DOMAIN OneRow(id, columns) = {id} /\ OneRow(id, columns)[id] = columns
  BY DEF OneRow
<1>2. CASE ReadCreate(c, e)
  <2> DEFINE read == {ParentOf[e]} \ {e}
             new == OneRow(e, "PENDING")
  <2>1. ChangeStatus(c, read, new, {}) /\ read \cap DOMAIN new = {}
    BY <1>1, <1>2 DEF ReadCreate
  <2> HIDE DEF read, new
  <2> QED  BY <2>1, ChangeStatusKeeps
<1>3. CASE ReadIdentityTransition(c, e, target, m, s)
  <2>1. ChangeStatus(c, {e}, OneRow(e, target), {}) /\ status[e] # "REVOKED"
    BY <1>3 DEF ReadIdentityTransition, TRANSITIONS
  <2> QED  BY <1>1, <2>1, ChangeStatusKeeps
<1>4. CASE ReadEntitlementTransition(c, e, target, m, s)
  <2>1. ChangeStatus(c, {e}, OneRow(e, target), {}) /\ status[e] # "REVOKED"
    BY <1>4 DEF ReadEntitlementTransition
  <2> QED  BY <1>1, <2>1, ChangeStatusKeeps
<1>5. CASE ReadRotate(c, e, f, m, s)
  <2> DEFINE new == OneRow(f, "ACTIVE")
  <2>1. ChangeStatus(c, {e}, new, {}) /\ {e} \cap DOMAIN new = {}
    <3>1. ChangeStatus(c, {e}, new, {}) /\ e # f
      BY <1>5 DEF ReadRotate
    <3>2. DOMAIN new = {f}
      BY <1>1
    <3> QED  BY <3>1, <3>2
  <2> HIDE DEF new
  <2> QED  BY <2>1, ChangeStatusKeeps
<1>6. CASE ReadRevokeCertificate(c, e, m, s)
  <2>1. ChangeStatus(c, {e}, OneRow(e, "REVOKED"), {})
    BY <1>6 DEF ReadRevokeCertificate
  <2> QED  BY <1>1, <2>1, ChangeStatusKeeps
<1>7. CASE CreateEntitlement(c, e)
  <2>1. ChangeStatus(c, {}, OneRow(e, "PENDING"), {})
    BY <1>7 DEF CreateEntitlement
  <2> QED  BY <2>1, ChangeStatusKeeps
<1>8. CASE ReadAcceptRulebook(c, e)
  <2>1. ChangeStatus(c, {e}, <<>>, {e}) /\ status[e] # "REVOKED"
    BY <1>8 DEF ReadAcceptRulebook
  <2> QED  BY <2>1, ChangeStatusKeeps
<1>9. CASE ReadRefresh(c, revoked, late)
  <2> DEFINE over == (revoked \cup late) \cap ActiveCertificates
             new == [x \in over |-> IF x \in revoked THEN "REVOKED" ELSE "EXPIRED"]
  <2>1. ChangeStatus(c, ActiveCertificates, new, {})
    BY <1>9 DEF ReadRefresh
  <2>2. \A x \in ActiveCertificates : status[x] # "REVOKED"
    BY DEF ActiveCertificates
  <2> HIDE DEF new
  <2> QED  BY <2>1, <2>2, ChangeStatusKeeps
<1> QED
  BY <1>2, <1>3, <1>4, <1>5, <1>6, <1>7, <1>8, <1>9

LEMMA ControlsKeep ==
    ASSUME RInv, ControlsNext, UNCHANGED <<accessVars, admissionVars>>
    PROVE  RInv'
<1>1. SameAccess /\ SameHolders
  BY DEF SameAccess, SameIds, SameTokens, SameHolders, accessVars, admissionVars
<1>2. CASE RestartProvider
  <2>1. req' = [c \in Client |-> Idle] /\ stale' = stale /\ SameControls
    BY <1>1, <1>2 DEF RestartProvider, SameControls, SameApprovals, SameAudits, SameOwners
  <2>2. NoneOpened
    BY <2>1 DEF NoneOpened, Idle
  <2>3. Requests' /\ StaleGrows /\ Ids' /\ Tokens'
    BY <1>1, <2>1, RequestsGone, GroupsStay DEF RInv, StaleGrows, SameAccess
  <2> QED  BY <2>1, <2>2, <2>3, AccessStep
<1>3. ASSUME NEW c \in Client, RollBackControl(c) PROVE RInv'
  <2>1. req' = [req EXCEPT ![c] = Idle] /\ stale' = stale /\ SameControls /\ DOMAIN req = Client
    BY <1>1, <1>3 DEF RollBackControl, RollBack, controlVars, SameControls, SameApprovals, SameAudits,
                      SameOwners, RInv, Requests
  <2>2. Reads(c)' /\ Idle.op \notin {"key", "nonce"}
    BY <2>1, IdleReads DEF Idle
  <2> QED  BY <1>1, <2>1, <2>2, ControlOpened
<1>4. CASE ~RestartProvider
  <2>1. PICK c \in Client, m \in Subject, s \in Subject :
          \/ \E a \in Approval :
               \/ CreateApproval(c, a, m)
               \/ \E outcome \in {"APPROVED", "REJECTED"} : ReadDecision(c, a, s, outcome)
               \/ \E k \in ManagedKey, operation \in {"ROTATE", "REVOKE"} : ExecuteKeyOperation(c, operation, k, m, s, a)
          \/ \E e \in Entity :
               \/ e[1] # "entitlements" /\ ReadCreate(c, e)
               \/ \E target \in Lifecycle : ReadIdentityTransition(c, e, target, m, s) \/ ReadEntitlementTransition(c, e, target, m, s)
               \/ \E f \in Entity : ReadRotate(c, e, f, m, s)
               \/ ReadRevokeCertificate(c, e, m, s)
               \/ CreateEntitlement(c, e)
               \/ ReadAcceptRulebook(c, e)
          \/ \E revoked, late \in SUBSET Entity : ReadRefresh(c, revoked, late)
          \/ \E a \in Account : CreateAccount(c, a)
          \/ \E o \in Ownership, a \in Account : AddOwnership(c, o, a) \/ ReadActivate(c, a, o, m, s)
          \/ CommitDecision(c) \/ CommitKeyOperation(c) \/ CommitStatus(c) \/ CommitActivate(c)
          \/ RollBackControl(c)
    BY <1>4 DEF ControlsNext
  <2>2. ASSUME NEW e \in Entity,
               \/ e[1] # "entitlements" /\ ReadCreate(c, e)
               \/ \E target \in Lifecycle : ReadIdentityTransition(c, e, target, m, s) \/ ReadEntitlementTransition(c, e, target, m, s)
               \/ \E f \in Entity : ReadRotate(c, e, f, m, s)
               \/ ReadRevokeCertificate(c, e, m, s)
               \/ CreateEntitlement(c, e)
               \/ ReadAcceptRulebook(c, e)
        PROVE  RInv'
    BY <1>1, <2>2, StatusReadersKeep
  <2>3. ASSUME NEW revoked, NEW late, ReadRefresh(c, revoked, late)
        PROVE  RInv'
    BY <1>1, <2>3, StatusReadersKeep
  <2> QED
    BY <1>1, <1>3, <2>1, <2>2, <2>3, CreateApprovalKeeps, ReadDecisionKeeps, ExecuteKeeps, CreateAccountKeeps,
       AddOwnershipKeeps, ReadActivateKeeps, CommitDecisionKeeps, CommitKeyOperationKeeps,
       CommitStatusKeeps, CommitActivateKeeps
<1> QED
  BY <1>2, <1>4

------------------------------------------------------------------------------
(* The steps of RequestAdmission *)

\* The nonce of a signature is committed before the request is looked at.
LEMMA AuthenticateKeeps ==
    ASSUME RInv, NEW c \in Client, NEW t, NEW header, NEW n \in Nonce \cup {Unsigned},
           Authenticate(c, t, header, n)
    PROVE  RInv'
<1>1. PICK p : req' = [req EXCEPT ![c] = [op |-> "authenticated", principal |-> p]] /\ stale' = stale
  BY DEF Authenticate, Open
<1> DEFINE r == [op |-> "authenticated", principal |-> p]
<1>2. /\ SameControls /\ SameTokens /\ UNCHANGED <<rows, forgotten>>
      /\ \/ UNCHANGED <<nonces, accepted>>
         \/ /\ n \in Nonce /\ n \notin nonces /\ (\A d \in Client : req[d].op = "nonce" => req[d].nonce # n)
            /\ nonces' = nonces \cup {n} /\ accepted' = [accepted EXCEPT ![n] = accepted[n] + 1]
  BY DEF Authenticate, controlVars, admissionVars, SameControls, SameApprovals, SameAudits, SameOwners,
         SameHolders, SameTokens
<1>3. Requests /\ DOMAIN req = Client /\ Kept /\ StaleGrows
  BY <1>1, <1>2, SameControlsKeep DEF RInv, Requests, StaleGrows
<1>4. req'[c] = r
  BY <1>1, <1>3
<1>5. Reads(c)'
  BY <1>4 DEF Reads
<1>6. \A d \in Client : d # c /\ req[d].op = "nonce" =>
        req[d].nonce \notin nonces' /\ (r.op = "nonce" => r.nonce # req[d].nonce)
  BY <1>2, <1>3 DEF Requests, Reads
<1>7. Requests'
  BY <1>1, <1>3, <1>5, <1>6, RequestsAfter
<1>8. NoneOpened
  BY <1>1, <1>3, NoKeyOpened
<1>9. Tokens'
  BY <1>2, <1>3, GroupsStay DEF RInv
<1>10. Ids'
  <2>1. CASE UNCHANGED <<nonces, accepted>>
    BY <1>2, <2>1, GroupsStay DEF RInv, SameIds
  <2>2. CASE ~UNCHANGED <<nonces, accepted>>
    BY <1>2, <2>2, NonceAccepted
  <2> QED  BY <2>1, <2>2
<1> QED
  BY <1>2, <1>3, <1>7, <1>8, <1>9, <1>10, AccessStep

\* The account of the purchase is served, or will be opened for its debtor.
LEMMA ReadAdmissionKeeps ==
    ASSUME RInv, NEW c \in Client, NEW x, ReadAdmission(c, x)
    PROVE  RInv'
<1> DEFINE p == req[c].principal
           opens == IF Opens(p, x) THEN OneRow(x.account, HeldBy(p, x)) ELSE <<>>
           r == [op |-> "admitted", participant |-> p.participant, request |-> x, rows |-> ReferenceRows,
                 joins |-> Joins(p.participant), opens |-> opens]
<1>1. /\ Opens(p, x) \/ Serves(p, x)
      /\ req' = [req EXCEPT ![c] = r] /\ stale' = stale
      /\ SameAccess /\ SameControls /\ holder' = holder /\ owner' = owner /\ DOMAIN req = Client
  BY DEF ReadAdmission, ReadOn, controlVars, accessVars, admissionVars, SameAccess, SameIds, SameTokens,
         SameControls, SameApprovals, SameAudits, SameOwners, SameHolders, RInv, Requests
<1>2. req'[c] = r /\ r.op = "admitted" /\ r.participant = p.participant /\ r.request = x /\ r.opens = opens
  BY <1>1
<1> DEFINE held == [participant |-> p.participant, owner |-> x.debtor, currency |-> x.currency]
<1>3. \/ DOMAIN opens = {x.account} /\ opens[x.account] = held
      \/ /\ DOMAIN opens = {} /\ x.account \in DOMAIN holder /\ holder[x.account] = held
         /\ \E o \in DOMAIN owner : owner[o] = [account |-> x.account, status |-> "ACTIVE"]
  <2>1. CASE Opens(p, x)
    <3>1. opens = OneRow(x.account, held)
      BY <2>1 DEF HeldBy
    <3> HIDE DEF held, opens
    <3> QED  BY <3>1 DEF OneRow
  <2>2. CASE ~Opens(p, x)
    <3>1. opens = <<>> /\ Serves(p, x)
      BY <1>1, <2>2
    <3> QED  BY <3>1 DEF Serves, HeldBy
  <2> QED  BY <2>1, <2>2
<1> HIDE DEF opens, r, p
<1>4. Reads(c)'
  BY <1>1, <1>2, <1>3 DEF Reads, HasAccount, ActiveOwner
<1>5. r.op \notin {"key", "nonce"}
  BY <1>2
<1> QED
  BY <1>1, <1>4, <1>5, ControlOpened

\* A payment is committed with the account it needs, which nobody else has.
LEMMA CommitAdmissionKeeps ==
    ASSUME RInv, NEW c \in Client, CommitAdmission(c)
    PROVE  /\ RInv'
           /\ \A e \in DOMAIN status : status'[e] = status[e]
<1> DEFINE r == req[c]
           x == r.request
           a == x.account
           o == OwnershipOf[a]
           held == [participant |-> r.participant, owner |-> x.debtor, currency |-> x.currency]
           withOpened == DOMAIN r.opens
           active == [account |-> a, status |-> "ACTIVE"]
           paid == [participant |-> r.participant, request |-> x]
           owned == [i \in {OwnershipOf[b] : b \in withOpened} |-> active]
<1>1. /\ r.op = "admitted" /\ r.joins \cap DOMAIN status = {}
      /\ \A b \in withOpened : b \notin DOMAIN account /\ OwnershipOf[b] \notin DOMAIN owner
      /\ status' = Put([e \in r.joins |-> "ACTIVE"], status)
      /\ holder' = Put(r.opens, holder)
      /\ account' = Put([b \in withOpened |-> "ACTIVE"], account)
      /\ owner' = Put(owned, owner)
      /\ payments' = Append(payments, paid)
      /\ req' = [req EXCEPT ![c] = Idle] /\ (stale' \in BOOLEAN) /\ (stale => stale')
      /\ SameAccess /\ SameApprovals /\ SameAudits
  BY DEF CommitAdmission, RowsFree, AccountFree, Commit, SameAccess, SameIds, SameTokens, SameApprovals,
         SameAudits, accessVars, RInv
<1>2. \A e \in DOMAIN status : status'[e] = status[e]
  BY <1>1 DEF Put
<1>3. /\ \/ withOpened = {a} /\ r.opens[a] = held
         \/ withOpened = {} /\ a \in DOMAIN holder /\ holder[a] = held /\ ActiveOwner(a)
  BY <1>1 DEF RInv, Requests, Reads, HasAccount
<1>4. /\ Requests /\ nonces' = nonces /\ DOMAIN req = Client /\ Idle.op # "key"
      /\ DOMAIN holder \subseteq DOMAIN account /\ StaleGrows
  BY <1>1 DEF RInv, Requests, SameAccess, SameIds, Idle, Holders, StaleGrows
<1> HIDE DEF withOpened, held, active, owned, paid
<1>5. /\ DOMAIN holder' = DOMAIN holder \cup withOpened
      /\ \A b \in DOMAIN holder : holder'[b] = holder[b]
      /\ \A b \in withOpened : holder'[b] = r.opens[b]
      /\ DOMAIN account' = DOMAIN account \cup withOpened
      /\ \A b \in DOMAIN account : account'[b] = account[b]
      /\ \A b \in withOpened : account'[b] = "ACTIVE"
  BY <1>1, <1>4 DEF Put, withOpened
<1>6. /\ DOMAIN owned = {OwnershipOf[b] : b \in withOpened} /\ \A i \in DOMAIN owned : owned[i] = active
  BY DEF owned
<1>7. /\ DOMAIN owner' = DOMAIN owner \cup {OwnershipOf[b] : b \in withOpened}
      /\ \A p \in DOMAIN owner : owner'[p] = owner[p]
      /\ \A b \in withOpened : owner'[OwnershipOf[b]] = active
  BY <1>1, <1>6 DEF Put
<1>8. Kept
  BY <1>1, <1>5, <1>7 DEF Kept, SameApprovals
<1>9. Requests' /\ NoneOpened
  BY <1>1, <1>4, <1>8, RequestDone, NoKeyOpened
<1>10. active.account = a /\ active.status = "ACTIVE" /\ active = [account |-> a, status |-> "ACTIVE"]
  BY DEF active
<1>11. Owners'
  <2>1. CASE withOpened = {}
    <3>1. DOMAIN owner' = DOMAIN owner /\ DOMAIN account' = DOMAIN account
      BY <1>5, <1>7, <2>1
    <3> QED  BY <1>4, <1>5, <1>7, <3>1 DEF RInv, Owners, ActiveOwner, StaleGrows
  <2>2. CASE withOpened = {a}
    <3>1. /\ DOMAIN owner' = DOMAIN owner \cup {o} /\ owner'[o] = active /\ o \notin DOMAIN owner
          /\ DOMAIN account' = DOMAIN account \cup {a} /\ account'[a] = "ACTIVE" /\ a \notin DOMAIN account
      BY <1>1, <1>5, <1>7, <2>2
    <3>2. \A p \in DOMAIN owner : owner[p].account # a
      BY <3>1 DEF RInv, Owners
    <3>3. \A p \in DOMAIN owner' : /\ owner'[p] = [account |-> owner'[p].account, status |-> owner'[p].status]
                                   /\ owner'[p].account \in DOMAIN account'
      BY <1>7, <1>10, <3>1 DEF RInv, Owners
    <3>4. ASSUME NEW b \in DOMAIN account'
          PROVE  account'[b] = "ACTIVE" <=> \E p \in DOMAIN owner' : owner'[p] = [account |-> b, status |-> "ACTIVE"]
      <4>1. CASE b = a
        BY <1>10, <3>1, <4>1
      <4>2. CASE b # a
        <5>1. active # [account |-> b, status |-> "ACTIVE"]
          BY <1>10, <4>2
        <5>2. account'[b] = account[b] /\ b \in DOMAIN account
          BY <1>5, <3>1, <4>2
        <5>3. account[b] = "ACTIVE" <=> \E p \in DOMAIN owner : owner[p] = [account |-> b, status |-> "ACTIVE"]
          BY <5>2 DEF RInv, Owners, ActiveOwner
        <5> QED  BY <1>7, <3>1, <5>1, <5>2, <5>3
      <4> QED  BY <4>1, <4>2
    <3>5. ASSUME ~stale', NEW p \in DOMAIN owner', NEW q \in DOMAIN owner',
                 owner'[p].status = "ACTIVE", owner'[q].status = "ACTIVE", owner'[p].account = owner'[q].account
          PROVE  p = q
      <4>1. ~stale
        BY <1>4, <3>5 DEF StaleGrows
      <4>2. \A s, u \in DOMAIN owner :
              owner[s].status = "ACTIVE" /\ owner[u].status = "ACTIVE" /\ owner[s].account = owner[u].account => s = u
        BY <4>1 DEF RInv, Owners
      <4> QED  BY <1>7, <1>10, <3>1, <3>2, <3>5, <4>2
    <3> QED  BY <3>3, <3>4, <3>5 DEF Owners, ActiveOwner
  <2> QED  BY <1>3, <2>1, <2>2
<1>12. /\ Tuple(payments') /\ Len(payments) \in Nat /\ DOMAIN payments = 1 .. Len(payments)
       /\ DOMAIN payments' = 1 .. Len(payments) + 1
       /\ \A i \in 1 .. Len(payments) : payments'[i] = payments[i]
       /\ payments'[Len(payments) + 1] = paid
  BY <1>1, AppendTuple DEF RInv, Holders
<1>13. Holders'
  <2>1. DOMAIN holder' \subseteq DOMAIN account'
    BY <1>4, <1>5
  <2>2. ASSUME NEW i \in DOMAIN payments
        PROVE  /\ payments[i].request.account \in DOMAIN holder'
               /\ holder'[payments[i].request.account] = [participant |-> payments[i].participant,
                    owner |-> payments[i].request.debtor, currency |-> payments[i].request.currency]
               /\ \E p \in DOMAIN owner' : owner'[p] = [account |-> payments[i].request.account, status |-> "ACTIVE"]
    <3>1. /\ payments[i].request.account \in DOMAIN holder
          /\ holder[payments[i].request.account] = [participant |-> payments[i].participant,
               owner |-> payments[i].request.debtor, currency |-> payments[i].request.currency]
          /\ \E p \in DOMAIN owner : owner[p] = [account |-> payments[i].request.account, status |-> "ACTIVE"]
      BY DEF RInv, Holders, AccountsServeTheirOwner
    <3> QED  BY <1>5, <1>7, <3>1
  <2>3. /\ a \in DOMAIN holder' /\ holder'[a] = held
        /\ \E p \in DOMAIN owner' : owner'[p] = [account |-> a, status |-> "ACTIVE"]
    <3>1. CASE withOpened = {a} /\ r.opens[a] = held
      BY <1>5, <1>7, <1>10, <3>1
    <3>2. CASE withOpened = {} /\ a \in DOMAIN holder /\ holder[a] = held /\ ActiveOwner(a)
      BY <1>5, <1>7, <3>2 DEF ActiveOwner
    <3> QED  BY <1>3, <3>1, <3>2
  <2>4. paid.request = x /\ paid.participant = r.participant
        /\ held = [participant |-> r.participant, owner |-> x.debtor, currency |-> x.currency]
    BY DEF paid, held
  <2>5. ASSUME NEW i \in DOMAIN payments'
        PROVE  /\ payments'[i].request.account \in DOMAIN holder'
               /\ holder'[payments'[i].request.account] = [participant |-> payments'[i].participant,
                    owner |-> payments'[i].request.debtor, currency |-> payments'[i].request.currency]
               /\ \E p \in DOMAIN owner' : owner'[p] = [account |-> payments'[i].request.account, status |-> "ACTIVE"]
    <3>1. CASE i \in DOMAIN payments
      BY <1>12, <2>2, <3>1
    <3>2. CASE i = Len(payments) + 1
      BY <1>12, <2>3, <2>4, <3>2
    <3> QED  BY <1>12, <3>1, <3>2
  <2> QED  BY <1>12, <2>1, <2>5 DEF Holders, AccountsServeTheirOwner
<1>14. Ids' /\ Tokens' /\ Approvals' /\ Audited' /\ Counted'
  BY <1>1, <1>4, <1>8, <1>9, GroupsStay, CountStays DEF RInv, Audited, SameAccess, SameApprovals
<1> QED
  BY <1>1, <1>2, <1>9, <1>11, <1>13, <1>14 DEF RInv

------------------------------------------------------------------------------
(* All steps *)

LEMMA InitAdmission ==
    ASSUME Installation, NEW allowed \in Nat, RequestsInit(allowed)
    PROVE  RInv
<1>1. PICK deployed, rowsGiven, held, given, agreed, owned, issued :
        /\ Opened(held, owned) /\ Issued(issued)
        /\ AdmissionInit(deployed, rowsGiven, held)
        /\ ControlsInit(given, agreed, [a \in DOMAIN held |-> "ACTIVE"], owned)
        /\ AccessInit(issued)
  BY DEF Installation
<1>2. /\ holder = held /\ payments = <<>> /\ approval = <<>> /\ owner = owned /\ decisions = {} /\ audits = <<>>
      /\ account = [a \in DOMAIN held |-> "ACTIVE"] /\ performed = [k \in ManagedKey |-> 0]
      /\ tokens = issued /\ rows = {} /\ forgotten = {} /\ nonces = {} /\ creds = App
      /\ accepted = [x \in Jti \cup Nonce |-> 0]
      /\ req = [c \in Client |-> Idle] /\ stale = FALSE
  BY <1>1 DEF AdmissionInit, ControlsInit, AccessInit, RequestsInit
<1>3. Requests
  <2>1. DOMAIN req = Client /\ \A c \in Client : req[c].op = "idle"
    BY <1>2 DEF Idle
  <2> QED  BY <2>1 DEF Requests, Reads
<1>4. Ids
  BY <1>2 DEF Ids, IdAcceptedOnce
<1>5. Tokens
  BY <1>1, <1>2 DEF Tokens, Issued, LiveTokens
<1>6. Approvals
  BY <1>2 DEF Approvals
<1>7. /\ <<>> \in Seq({}) /\ DOMAIN <<>> = {}
  OBVIOUS
<1>8. Audited
  BY <1>2, <1>7 DEF Audited, Tuple
<1>9. Counted
  <2>1. ASSUME NEW k \in ManagedKey PROVE AuditsOf(k) = {} /\ Unrecorded(k) = {}
    BY <1>2, <1>7 DEF AuditsOf, Unrecorded, Idle
  <2>2. Cardinality({}) = 0
    BY FS_EmptySet
  <2>3. ASSUME NEW k \in ManagedKey
        PROVE  Cardinality(AuditsOf(k)) + Cardinality(Unrecorded(k)) <= performed[k]
    <3>1. Cardinality(AuditsOf(k)) = 0 /\ Cardinality(Unrecorded(k)) = 0
      BY <2>1, <2>2
    <3>2. performed[k] = 0
      BY <1>2
    <3> QED  BY <3>1, <3>2
  <2> QED  BY <1>2, <2>3 DEF Counted
<1>10. Owners
  <2>1. \A o \in DOMAIN owner : \E a \in DOMAIN account : owner[o] = [account |-> a, status |-> "ACTIVE"]
    BY <1>1, <1>2 DEF Opened
  <2>2. \A o \in DOMAIN owner : /\ owner[o] = [account |-> owner[o].account, status |-> owner[o].status]
                                /\ owner[o].account \in DOMAIN account /\ owner[o].status = "ACTIVE"
    BY <2>1
  <2>3. ASSUME NEW a \in DOMAIN account
        PROVE  account[a] = "ACTIVE" /\ \E o \in DOMAIN owner : owner[o] = [account |-> a, status |-> "ACTIVE"]
    <3>1. account[a] = "ACTIVE" /\ \E o \in DOMAIN owner : owner[o].account = a
      BY <1>1, <1>2 DEF Opened
    <3> QED  BY <2>2, <3>1
  <2>4. \A o, p \in DOMAIN owner : owner[o].account = owner[p].account => o = p
    BY <1>1, <1>2 DEF Opened
  <2> QED  BY <2>2, <2>3, <2>4 DEF Owners, ActiveOwner
<1>11. Holders
  BY <1>2, <1>7 DEF Holders, AccountsServeTheirOwner, Tuple
<1> QED
  BY <1>2, <1>3, <1>4, <1>5, <1>6, <1>8, <1>9, <1>10, <1>11 DEF RInv

LEMMA NextAdmission == RInv /\ [AdmissionNext]_rvars => RInv'
<1> SUFFICES ASSUME RInv, [AdmissionNext]_rvars PROVE RInv'
  OBVIOUS
<1>1. CASE UNCHANGED rvars
  <2>1. UNCHANGED <<req, stale>> /\ SameIds /\ SameTokens /\ SameControls
    BY <1>1 DEF rvars, requestVars, controlVars, accessVars, admissionVars, SameIds, SameTokens,
                SameControls, SameApprovals, SameAudits, SameOwners, SameHolders
  <2>2. Requests' /\ NoneOpened /\ StaleGrows /\ Ids' /\ Tokens'
    BY <2>1, SameControlsKeep, RequestsStay, GroupsStay DEF RInv, StaleGrows, SameIds, NoneOpened
  <2> QED  BY <2>1, <2>2, AccessStep
<1>2. ASSUME NEW c \in Client, RollBackAdmission(c) PROVE RInv'
  <2>1. /\ req' = [req EXCEPT ![c] = Idle] /\ stale' = stale /\ SameAccess /\ SameControls
        /\ DOMAIN req = Client
    BY <1>2 DEF RollBackAdmission, RollBack, controlVars, accessVars, admissionVars, SameAccess, SameIds,
                SameTokens, SameControls, SameApprovals, SameAudits, SameOwners, SameHolders, RInv, Requests
  <2>2. Reads(c)' /\ Idle.op \notin {"key", "nonce"}
    BY <2>1, IdleReads DEF Idle
  <2> QED  BY <2>1, <2>2, ControlOpened
<1>3. CASE AdmissionNext
  BY <1>2, <1>3, AccessKeeps, ControlsKeep, AuthenticateKeeps, ReadAdmissionKeeps, CommitAdmissionKeeps
     DEF AdmissionNext
<1> QED
  BY <1>1, <1>3

\* The commits of status changes and of admissions are the only steps that
\* write statuses.
RevokedStays == ~stale' => \A e \in DOMAIN status : status[e] = "REVOKED" => status'[e] = "REVOKED"

LEMMA RevokedStep == RInv /\ [AdmissionNext]_rvars => RevokedStays
<1> SUFFICES ASSUME RInv, [AdmissionNext]_rvars PROVE RevokedStays
  OBVIOUS
<1>1. ASSUME status' = status PROVE RevokedStays
  BY <1>1 DEF RevokedStays
<1>2. CASE UNCHANGED rvars
  BY <1>1, <1>2 DEF rvars, controlVars
<1>3. CASE AccessNext /\ UNCHANGED <<controlVars, admissionVars>>
  BY <1>1, <1>3 DEF controlVars
<1>4. CASE ControlsNext /\ UNCHANGED <<accessVars, admissionVars>>
  <2>1. SameAccess /\ SameHolders
    BY <1>4 DEF SameAccess, SameIds, SameTokens, SameHolders, accessVars, admissionVars
  <2>2. ASSUME NEW c \in Client, CommitStatus(c) PROVE RevokedStays
    BY <2>1, <2>2, CommitStatusKeeps DEF RevokedStays
  <2>3. ASSUME NEW c, NEW a, NEW o, NEW m, NEW s, NEW outcome, NEW k, NEW operation,
               \/ RestartProvider \/ CreateApproval(c, a, m) \/ ReadDecision(c, a, s, outcome)
               \/ CommitDecision(c) \/ ExecuteKeyOperation(c, operation, k, m, s, a) \/ CommitKeyOperation(c)
               \/ CreateAccount(c, a) \/ AddOwnership(c, o, a) \/ ReadActivate(c, a, o, m, s)
               \/ CommitActivate(c) \/ RollBackControl(c)
        PROVE  RevokedStays
    BY <1>1, <2>3 DEF RestartProvider, CreateApproval, ReadDecision, CommitDecision, ExecuteKeyOperation,
       Execute, CommitKeyOperation, CreateAccount, AddOwnership, ReadActivate, CommitActivate,
       RollBackControl, controlVars
  <2>4. ASSUME NEW c, NEW e, NEW f, NEW target, NEW m, NEW s, NEW revoked, NEW late,
               \/ ReadCreate(c, e) \/ ReadIdentityTransition(c, e, target, m, s)
               \/ ReadEntitlementTransition(c, e, target, m, s) \/ ReadRotate(c, e, f, m, s)
               \/ ReadRevokeCertificate(c, e, m, s) \/ CreateEntitlement(c, e)
               \/ ReadAcceptRulebook(c, e) \/ ReadRefresh(c, revoked, late)
        PROVE  RevokedStays
    <3>1. ASSUME NEW read, NEW new, NEW accepts, ChangeStatus(c, read, new, accepts) PROVE RevokedStays
      BY <1>1, <3>1 DEF ChangeStatus, controlVars
    <3> QED
      BY <2>4, <3>1 DEF ReadCreate, ReadIdentityTransition, ReadRotate, ReadRevokeCertificate, ReadRefresh,
         CreateEntitlement, ReadEntitlementTransition, ReadAcceptRulebook
  <2>5. CASE RestartProvider
    BY <2>3, <2>5
  <2>6. CASE ~RestartProvider
    <3>1. PICK c \in Client, m \in Subject, s \in Subject :
            \/ \E a \in Approval :
                 \/ CreateApproval(c, a, m)
                 \/ \E outcome \in {"APPROVED", "REJECTED"} : ReadDecision(c, a, s, outcome)
                 \/ \E k \in ManagedKey, operation \in {"ROTATE", "REVOKE"} : ExecuteKeyOperation(c, operation, k, m, s, a)
            \/ \E e \in Entity :
                 \/ e[1] # "entitlements" /\ ReadCreate(c, e)
                 \/ \E target \in Lifecycle : ReadIdentityTransition(c, e, target, m, s) \/ ReadEntitlementTransition(c, e, target, m, s)
                 \/ \E f \in Entity : ReadRotate(c, e, f, m, s)
                 \/ ReadRevokeCertificate(c, e, m, s)
                 \/ CreateEntitlement(c, e)
                 \/ ReadAcceptRulebook(c, e)
            \/ \E revoked, late \in SUBSET Entity : ReadRefresh(c, revoked, late)
            \/ \E a \in Account : CreateAccount(c, a)
            \/ \E o \in Ownership, a \in Account : AddOwnership(c, o, a) \/ ReadActivate(c, a, o, m, s)
            \/ CommitDecision(c) \/ CommitKeyOperation(c) \/ CommitStatus(c) \/ CommitActivate(c)
            \/ RollBackControl(c)
      BY <1>4, <2>6 DEF ControlsNext
    <3> QED  BY <2>2, <2>3, <2>4, <3>1
  <2> QED  BY <2>5, <2>6
<1>5. ASSUME NEW c \in Client, NEW t, NEW header, NEW n, Authenticate(c, t, header, n) PROVE RevokedStays
  BY <1>1, <1>5 DEF Authenticate, controlVars
<1>6. ASSUME NEW c \in Client, NEW x, ReadAdmission(c, x) PROVE RevokedStays
  BY <1>1, <1>6 DEF ReadAdmission, controlVars
<1>7. ASSUME NEW c \in Client, CommitAdmission(c) PROVE RevokedStays
  BY <1>7, CommitAdmissionKeeps DEF RevokedStays
<1>8. ASSUME NEW c \in Client, RollBackAdmission(c) PROVE RevokedStays
  BY <1>1, <1>8 DEF RollBackAdmission, controlVars
<1>9. CASE AdmissionNext
  BY <1>3, <1>4, <1>5, <1>6, <1>7, <1>8, <1>9 DEF AdmissionNext
<1> QED
  BY <1>2, <1>9

------------------------------------------------------------------------------
(* The theorems *)

\* Along every behaviour open requests rely on what Reads says, and ids, tokens,
\* approvals, audits, ownerships and holders are as above.
THEOREM AdmissionInvariance == AdmissionSpec => []RInv
<1>1. Installation /\ (\E allowed \in Nat : RequestsInit(allowed)) => RInv
  BY InitAdmission
<1> QED
  BY <1>1, NextAdmission, PTL DEF AdmissionSpec, rvars

\* jti_store.py, replay.py: an id is accepted once, whatever the cache loses and
\* whatever overlaps.
THEOREM IdAcceptedOnceHolds == AdmissionSpec => []IdAcceptedOnce
<1>1. RInv => IdAcceptedOnce
  BY DEF RInv, Ids
<1> QED
  BY <1>1, AdmissionInvariance, PTL

\* A set with no two elements has at most one.
LEMMA AtMostOne ==
    ASSUME NEW S, \A x, y \in S : x = y
    PROVE  Cardinality(S) <= 1
<1>1. CASE S = {}
  BY <1>1, FS_EmptySet
<1>2. CASE S # {}
  <2>1. PICK x : S = {x}
    BY <1>2
  <2> QED  BY <2>1, FS_Singleton
<1> QED
  BY <1>1, <1>2

\* oauth.py: without overlap a credential has at most one live token.
THEOREM OneLiveTokenHolds == AdmissionSpec => []OneLiveToken
<1>1. RInv => OneLiveToken
  BY AtMostOne DEF RInv, Tokens, OneLiveToken
<1> QED
  BY <1>1, AdmissionInvariance, PTL

\* What is recorded has been decided and performed.
LEMMA KeyOperationsDecided == RInv => KeyOperationsAreDecided
<1> SUFFICES ASSUME RInv PROVE KeyOperationsAreDecided
  OBVIOUS
<1>1. ASSUME NEW k \in ManagedKey
      PROVE  Cardinality({i \in DOMAIN audits : audits[i].key = k}) <= performed[k]
  <2>1. /\ Cardinality(AuditsOf(k)) \in Nat /\ Cardinality(Unrecorded(k)) \in Nat
        /\ Cardinality(AuditsOf(k)) + Cardinality(Unrecorded(k)) <= performed[k] /\ performed[k] \in Nat
    BY FiniteCounts DEF RInv, Audited, Counted
  <2>2. Cardinality(AuditsOf(k)) <= performed[k]
    BY <2>1
  <2> QED  BY <2>2 DEF AuditsOf
<1> QED  BY <1>1 DEF RInv, Audited, DualControl, Decided, KeyOperationsAreDecided

\* key_operations.py: behind every recorded operation is a decision of its
\* checker, and the provider has performed it.
THEOREM KeyOperationsAreDecidedHolds == AdmissionSpec => []KeyOperationsAreDecided
  BY KeyOperationsDecided, AdmissionInvariance, PTL

\* An ACTIVE account, told by its ownerships.
LEMMA AccountsOwned == RInv => AccountsAreOwned
<1> SUFFICES ASSUME RInv, NEW a \in DOMAIN account
             PROVE  LET owned == {o \in DOMAIN owner : owner[o].account = a /\ owner[o].status = "ACTIVE"}
                    IN  (account[a] = "ACTIVE") = (owned # {}) /\ (~stale => Cardinality(owned) <= 1)
  BY DEF AccountsAreOwned
<1> DEFINE owned == {o \in DOMAIN owner : owner[o].account = a /\ owner[o].status = "ACTIVE"}
<1>1. \A o \in DOMAIN owner : o \in owned <=> owner[o] = [account |-> a, status |-> "ACTIVE"]
  BY DEF RInv, Owners
<1>2. account[a] = "ACTIVE" <=> owned # {}
  BY <1>1 DEF RInv, Owners, ActiveOwner
<1>3. ~stale => \A o, p \in owned : o = p
  BY DEF RInv, Owners
<1>4. ~stale => Cardinality(owned) <= 1
  BY <1>3, AtMostOne
<1>5. (account[a] = "ACTIVE") = (owned # {})
  BY <1>2
<1> QED  BY <1>4, <1>5

\* account_service.py: an account is ACTIVE with an ACTIVE ownership, and
\* without overlap with only one.
THEOREM AccountsAreOwnedHolds == AdmissionSpec => []AccountsAreOwned
  BY AccountsOwned, AdmissionInvariance, PTL

\* security.py: every payment is on an owned account of its debtor, held by the
\* participant that asked for it.
THEOREM AccountsServeTheirOwnerHolds == AdmissionSpec => []AccountsServeTheirOwner
<1>1. RInv => AccountsServeTheirOwner
  BY DEF RInv, Holders
<1> QED
  BY <1>1, AdmissionInvariance, PTL

\* identity_service.py: REVOKED is final, unless changes have overlapped.
THEOREM RevokedIsFinalHolds == AdmissionSpec => RevokedIsFinal
<1>1. RInv /\ [AdmissionNext]_rvars =>
        [\A e \in DOMAIN status : status[e] = "REVOKED" => stale' \/ status'[e] = "REVOKED"]_status
  BY RevokedStep DEF RevokedStays
<1> QED
  BY <1>1, AdmissionInvariance, PTL DEF AdmissionSpec, RevokedIsFinal, rvars

------------------------------------------------------------------------------
(* What the rows are *)

\* What an open request is about to write, and for whom.
TypedRequest(r) ==
    /\ r.op = "decision" => /\ r.approval \in Approval /\ r.row \in ApprovalRow /\ r.new \in ApprovalRow
                            /\ r.outcome \in {"APPROVED", "REJECTED"}
    /\ r.op = "key" => r.audit \in AuditRow
    /\ r.op = "status" => DOMAIN r.new \subseteq Entity /\ r.accepts \subseteq AcceptanceRows \cap DOMAIN status
    /\ r.op = "authenticated" => r.principal.participant \in Entity
    /\ r.op = "admitted" => /\ r.participant \in Entity /\ r.request \in Purchase
                            /\ r.rows \subseteq CorridorAdmissionRow /\ Cardinality(r.rows) <= 1
                            /\ \A e \in r.joins : e[1] \in {"participants", "tenants"}

TypedRequests == \A c \in Client : TypedRequest(req[c])

RTypes ==
    /\ ControlsTypeOK /\ AccessTypeOK /\ AdmissionTypeOK
    /\ now \in Nat
    /\ TypedRequests

LEMMA RequestTypeKept ==
    ASSUME NEW r, TypedRequest(r), DOMAIN status \subseteq DOMAIN status'
    PROVE  TypedRequest(r)'
  BY DEF TypedRequest, ApprovalRow, AuditRow, AcceptanceRows, CorridorAdmissionRow, Window

LEMMA RequestsTyped ==
    ASSUME RInv, TypedRequests, NEW c \in Client, NEW r, req' = [req EXCEPT ![c] = r], TypedRequest(r)',
           DOMAIN status \subseteq DOMAIN status'
    PROVE  TypedRequests'
<1>1. DOMAIN req = Client
  BY DEF RInv, Requests
<1>2. \A d \in Client : req'[d] = IF d = c THEN r ELSE req[d]
  BY <1>1
<1>3. ASSUME NEW d \in Client PROVE TypedRequest(req[d])'
  <2> PICK x : x = req[d]
    OBVIOUS
  <2>1. TypedRequest(x)'
    BY RequestTypeKept DEF TypedRequests
  <2>2. CASE d = c
    BY <1>2, <2>2 DEF TypedRequest, ApprovalRow, AuditRow, AcceptanceRows, CorridorAdmissionRow, Window
  <2>3. CASE d # c
    BY <1>2, <2>1, <2>3 DEF TypedRequest, ApprovalRow, AuditRow, AcceptanceRows, CorridorAdmissionRow, Window
  <2> QED
    BY <2>2, <2>3
<1> QED
  BY <1>3 DEF TypedRequests

LEMMA RequestsTypedStill ==
    ASSUME TypedRequests, UNCHANGED req, DOMAIN status \subseteq DOMAIN status'
    PROVE  TypedRequests'
<1>1. ASSUME NEW d \in Client PROVE TypedRequest(req[d])'
  <2> PICK x : x = req[d]
    OBVIOUS
  <2>1. TypedRequest(x)' /\ req'[d] = x
    BY RequestTypeKept DEF TypedRequests
  <2> QED
    BY <2>1 DEF TypedRequest, ApprovalRow, AuditRow, AcceptanceRows, CorridorAdmissionRow, Window
<1> QED
  BY <1>1 DEF TypedRequests

LEMMA IdleTyped == TypedRequest(Idle)'
  BY DEF TypedRequest, Idle

LEMMA AllIdleTyped == ASSUME req' = [c \in Client |-> Idle] PROVE TypedRequests'
<1>1. \A c \in Client : req'[c].op = "idle"
  BY DEF Idle
<1> QED
  BY <1>1 DEF TypedRequests, TypedRequest

LEMMA SameControlsTyped == ControlsTypeOK /\ UNCHANGED controlVars => ControlsTypeOK'
  BY DEF ControlsTypeOK, controlVars, ApprovalRow, DecisionRow, AuditRow, KeyState, AcceptanceRows, AccountRow, OwnershipRow

LEMMA SameAccessTyped == AccessTypeOK /\ UNCHANGED <<cache, rows, forgotten, nonces, creds, tokens>> => AccessTypeOK'
  BY DEF AccessTypeOK, JtiCache, JtiRows, NonceRows, CredentialRows, TokenRow

LEMMA SameAdmissionTyped ==
    AdmissionTypeOK /\ DOMAIN account \subseteq DOMAIN account' /\ UNCHANGED admissionVars => AdmissionTypeOK'
  BY DEF AdmissionTypeOK, admissionVars, CorridorAdmissionRow, Window, HolderRow

\* A request that only reads, and will write r.
LEMMA ReaderTyped ==
    ASSUME RInv, RTypes, NEW c \in Client, NEW r, req' = [req EXCEPT ![c] = r], TypedRequest(r)',
           UNCHANGED governanceVars
    PROVE  RTypes'
<1>1. UNCHANGED controlVars /\ UNCHANGED accessVars /\ UNCHANGED admissionVars
  BY DEF governanceVars
<1>2. UNCHANGED <<now, cache, rows, forgotten, nonces, creds, tokens, status, account>>
  BY <1>1 DEF controlVars, accessVars
<1> QED
  BY <1>1, <1>2, RequestsTyped, SameControlsTyped, SameAccessTyped, SameAdmissionTyped DEF RTypes

------------------------------------------------------------------------------
(* What the rows of ApiAccess are *)

LEMMA RememberTyped ==
    ASSUME cache \in JtiCache, NEW j \in Jti
    PROVE  Remember(j) \in JtiCache
<1>1. cache \in Seq(Jti) /\ Len(cache) <= Capacity /\ Capacity \in Nat
  BY CapacityAssumption DEF JtiCache
<1> PICK all : all = Append(cache, j)
  OBVIOUS
<1>2. all \in Seq(Jti) /\ Len(all) = Len(cache) + 1 /\ all # <<>>
  BY <1>1
<1>3. CASE Len(all) > Capacity
  <2>1. Tail(all) \in Seq(Jti) /\ Len(Tail(all)) = Len(all) - 1
    BY <1>2
  <2> QED
    BY <1>1, <1>2, <1>3, <2>1 DEF Remember, JtiCache
<1>4. CASE ~(Len(all) > Capacity)
  BY <1>1, <1>2, <1>4 DEF Remember, JtiCache
<1> QED
  BY <1>3, <1>4

LEMMA CleanUpTyped ==
    ASSUME AccessTypeOK, CleanUp
    PROVE  AccessTypeOK'
<1> PICK past : past = {j \in Jti : Exp[j] < now}
  OBVIOUS
<1> PICK stays : stays = {i \in DOMAIN cache : cache[i] \notin past}
  OBVIOUS
<1> PICK m : m = Cardinality(stays)
  OBVIOUS
<1>1. PICK kept \in [1 .. m -> stays] : cache' = [i \in DOMAIN kept |-> cache[kept[i]]]
  BY DEF CleanUp
<1>2. rows' = rows \ past /\ forgotten' = forgotten \cup (rows \cap past) /\ UNCHANGED <<nonces, creds, tokens>>
  BY DEF CleanUp
<1>3. cache \in Seq(Jti) /\ Len(cache) \in Nat /\ Len(cache) <= Capacity /\ DOMAIN cache = 1 .. Len(cache)
  BY DEF AccessTypeOK, JtiCache
<1>4. m \in Nat /\ m <= Len(cache)
  <2>1. IsFiniteSet(1 .. Len(cache)) /\ Cardinality(1 .. Len(cache)) = Len(cache)
    BY <1>3, FS_Interval
  <2>2. stays \subseteq 1 .. Len(cache)
    BY <1>3
  <2> QED
    BY <1>3, <2>1, <2>2, FS_Subset, FS_CardinalityType
<1>5. cache' \in [1 .. m -> Jti]
  BY <1>1, <1>3
<1>6. cache' \in Seq(Jti)
  BY <1>4, <1>5, SegmentSeq
<1>7. Len(cache') = m
  BY <1>4, <1>5, <1>6
<1>8. cache' \in JtiCache
  BY <1>3, <1>4, <1>6, <1>7, CapacityAssumption DEF JtiCache
<1> QED
  BY <1>2, <1>8 DEF AccessTypeOK, JtiCache, JtiRows, NonceRows, CredentialRows, TokenRow

LEMMA CommitTokenTyped ==
    ASSUME RInv, RTypes, NEW c \in Client, NEW t \in TokenId, CommitToken(c, t)
    PROVE  AccessTypeOK'
<1> PICK r : r = req[c]
  OBVIOUS
<1> PICK rest : rest = [u \in DOMAIN tokens |-> IF u \in r.held THEN [tokens[u] EXCEPT !.live = FALSE] ELSE tokens[u]]
  OBVIOUS
<1>1. r.op = "issuing" /\ tokens' = Put(OneRow(t, [app |-> r.app, live |-> TRUE]), rest)
  BY DEF CommitToken
<1>2. r.app \in App
  BY <1>1 DEF RInv, Requests, Reads
<1>3. \A u \in DOMAIN rest : u \in TokenId /\ rest[u] \in TokenRow
  BY DEF RTypes, AccessTypeOK, TokenRow
<1>4. \A u \in DOMAIN tokens' : u \in TokenId /\ tokens'[u] \in TokenRow
  BY <1>1, <1>2, <1>3 DEF Put, OneRow, TokenRow
<1>5. UNCHANGED <<cache, rows, forgotten, nonces, creds>>
  BY DEF CommitToken
<1> QED
  BY <1>4, <1>5 DEF RTypes, AccessTypeOK, JtiCache, JtiRows, NonceRows, CredentialRows, TokenRow

\* The rows of every step of ApiAccess, and the requests it leaves.
LEMMA AccessTyped ==
    ASSUME RInv, RTypes, AccessNext, UNCHANGED <<controlVars, admissionVars>>
    PROVE  RTypes'
<1>1. ControlsTypeOK' /\ AdmissionTypeOK' /\ DOMAIN status' = DOMAIN status
  <2>1. UNCHANGED controlVars /\ UNCHANGED admissionVars
    OBVIOUS
  <2>2. UNCHANGED <<status, account>>
    BY <2>1 DEF controlVars
  <2> QED
    BY <2>1, <2>2, SameControlsTyped, SameAdmissionTyped DEF RTypes
<1>2. now' \in Nat
  <2>1. now' = now \/ now' = now + 1
    BY DEF AccessNext, Tick, CleanUp, RestartApi, CheckJti, RecordJti, RevokeEarlier, CommitToken, RevokeToken,
           CreateCredential, DeleteTokens, CommitDelete, InsertNonce, CommitNonce, RollBackAccess, accessVars
  <2> QED
    BY <2>1 DEF RTypes
<1> SUFFICES AccessTypeOK' /\ TypedRequests'
  BY <1>1, <1>2 DEF RTypes
<1> DEFINE Typed == AccessTypeOK' /\ TypedRequests'
<1>3. ASSUME UNCHANGED req PROVE TypedRequests'
  BY <1>1, <1>3, RequestsTypedStill DEF RTypes
<1>4. ASSUME NEW c \in Client, req' = [req EXCEPT ![c] = Idle] PROVE TypedRequests'
  BY <1>1, <1>4, IdleTyped, RequestsTyped DEF RTypes
<1>5. ASSUME NEW c \in Client, NEW r, req' = [req EXCEPT ![c] = r],
             r.op \in {"jti", "accepted", "issuing", "deleting", "nonce"}
      PROVE  TypedRequests'
  <2>1. TypedRequest(r)'
    BY <1>5 DEF TypedRequest
  <2> QED
    BY <1>1, <1>5, <2>1, RequestsTyped DEF RTypes
<1>6. CASE Tick
  BY <1>3, <1>6, SameAccessTyped DEF Tick, RTypes, requestVars
<1>7. CASE CleanUp
  BY <1>3, <1>7, CleanUpTyped DEF CleanUp, RTypes, requestVars
<1>8. CASE RestartApi
  <2>1. cache' \in JtiCache
    BY <1>8, CapacityAssumption DEF RestartApi, JtiCache
  <2> QED
    BY <1>8, <2>1, AllIdleTyped DEF RestartApi, RTypes, AccessTypeOK, JtiCache, JtiRows, NonceRows, CredentialRows, TokenRow
<1>9. ASSUME NEW c \in Client, NEW j \in Jti, CheckJti(c, j) PROVE Typed
  <2>1. cache' \in JtiCache /\ UNCHANGED <<rows, forgotten, nonces, creds, tokens>>
    BY <1>9, RememberTyped DEF CheckJti, RTypes, AccessTypeOK
  <2>2. AccessTypeOK'
    BY <2>1 DEF RTypes, AccessTypeOK, JtiCache, JtiRows, NonceRows, CredentialRows, TokenRow
  <2>3. CASE AtOnce(c)
    BY <1>3, <2>2, <2>3 DEF AtOnce
  <2>4. CASE Open(c, [op |-> "jti", jti |-> j])
    BY <1>5, <2>2, <2>4 DEF Open
  <2> QED
    BY <1>9, <2>3, <2>4 DEF CheckJti
<1>10. ASSUME NEW c \in Client, RecordJti(c) PROVE Typed
  <2> PICK j : j = req[c].jti
    OBVIOUS
  <2>1. /\ req[c].op = "jti" /\ rows' = rows \cup {j} /\ UNCHANGED <<cache, forgotten, nonces, creds, tokens>>
        /\ IF IsAssertion[j] THEN ReadOn(c, [op |-> "accepted", app |-> AppOf[j]]) ELSE Commit(c, TRUE)
    BY <1>10 DEF RecordJti
  <2>2. j \in Jti
    BY <2>1 DEF RInv, Requests, Reads
  <2>3. AccessTypeOK'
    BY <2>1, <2>2 DEF RTypes, AccessTypeOK, JtiCache, JtiRows, NonceRows, CredentialRows, TokenRow
  <2>4. CASE IsAssertion[j]
    BY <1>5, <2>1, <2>3, <2>4 DEF ReadOn
  <2>5. CASE ~IsAssertion[j]
    BY <1>4, <2>1, <2>3, <2>5 DEF Commit
  <2> QED
    BY <2>4, <2>5
<1>11. ASSUME NEW c \in Client, RevokeEarlier(c) PROVE Typed
  <2>1. UNCHANGED <<cache, rows, forgotten, nonces, creds, tokens>>
    BY <1>11 DEF RevokeEarlier, accessVars
  <2>2. TypedRequests'
    BY <1>5, <1>11 DEF RevokeEarlier, ReadOn
  <2> QED
    BY <2>1, <2>2, SameAccessTyped DEF RTypes
<1>12. ASSUME NEW c \in Client, NEW t \in TokenId, CommitToken(c, t) PROVE Typed
  <2>1. req' = [req EXCEPT ![c] = Idle]
    BY <1>12 DEF CommitToken, Commit
  <2> QED
    BY <1>4, <1>12, <2>1, CommitTokenTyped
<1>13. ASSUME NEW c \in Client, NEW t \in TokenId, RevokeToken(c, t) PROVE Typed
  BY <1>3, <1>13 DEF RevokeToken, AtOnce, RTypes, AccessTypeOK, JtiCache, JtiRows, NonceRows, CredentialRows, TokenRow
<1>14. ASSUME NEW c \in Client, NEW a \in App, CreateCredential(c, a) PROVE Typed
  BY <1>3, <1>14 DEF CreateCredential, AtOnce, RTypes, AccessTypeOK, JtiCache, JtiRows, NonceRows, CredentialRows, TokenRow
<1>15. ASSUME NEW c \in Client, NEW a \in App, DeleteTokens(c, a) PROVE Typed
  <2>1. UNCHANGED <<cache, rows, forgotten, nonces, creds, tokens>>
    BY <1>15 DEF DeleteTokens, accessVars
  <2>2. TypedRequests'
    BY <1>5, <1>15 DEF DeleteTokens, Open
  <2> QED
    BY <2>1, <2>2, SameAccessTyped DEF RTypes
<1>16. ASSUME NEW c \in Client, CommitDelete(c) PROVE Typed
  <2>1. TypedRequests'
    BY <1>4, <1>16 DEF CommitDelete, Commit
  <2> QED
    BY <1>16, <2>1 DEF CommitDelete, RTypes, AccessTypeOK, JtiCache, JtiRows, NonceRows, CredentialRows, TokenRow
<1>17. ASSUME NEW c \in Client, NEW n \in Nonce, InsertNonce(c, n) PROVE Typed
  <2>1. UNCHANGED <<cache, rows, forgotten, nonces, creds, tokens>>
    BY <1>17 DEF InsertNonce, accessVars
  <2>2. TypedRequests'
    BY <1>5, <1>17 DEF InsertNonce, Open
  <2> QED
    BY <2>1, <2>2, SameAccessTyped DEF RTypes
<1>18. ASSUME NEW c \in Client, CommitNonce(c) PROVE Typed
  <2>1. req[c].op = "nonce" /\ nonces' = nonces \cup {req[c].nonce} /\ UNCHANGED <<cache, rows, forgotten, creds, tokens>>
    BY <1>18 DEF CommitNonce
  <2>2. req[c].nonce \in Nonce
    BY <2>1 DEF RInv, Requests, Reads
  <2>3. TypedRequests'
    BY <1>4, <1>18 DEF CommitNonce, Commit
  <2> QED
    BY <2>1, <2>2, <2>3 DEF RTypes, AccessTypeOK, JtiCache, JtiRows, NonceRows, CredentialRows, TokenRow
<1>19. ASSUME NEW c \in Client, RollBackAccess(c) PROVE Typed
  <2>1. UNCHANGED <<cache, rows, forgotten, nonces, creds, tokens>>
    BY <1>19 DEF RollBackAccess, accessVars
  <2>2. TypedRequests'
    BY <1>4, <1>19 DEF RollBackAccess, RollBack
  <2> QED
    BY <2>1, <2>2, SameAccessTyped DEF RTypes
<1> QED
  BY <1>6, <1>7, <1>8, <1>9, <1>10, <1>11, <1>12, <1>13, <1>14, <1>15, <1>16, <1>17, <1>18, <1>19 DEF AccessNext

------------------------------------------------------------------------------
(* What the rows of ProductionControls are *)

LEMMA StatesOfControls ==
    /\ {"PENDING", "APPROVED"} \subseteq ALLOWED_STATES["approvals"]
    /\ "COMPLETED" \in ALLOWED_STATES["key_operation_audits"]
    /\ {"PENDING", "ACTIVE"} \subseteq AccountRow
    /\ {"PENDING", "ACTIVE"} \subseteq ALLOWED_STATES["account_ownerships"]
    /\ "ACTIVE" \in StatusIn("participants") /\ "ACTIVE" \in StatusIn("tenants")
    /\ \A e \in Entity : StatusIn(e[1]) = ALLOWED_STATES[e[1]]
<1>1. /\ {"PENDING", "APPROVED"} \subseteq ALLOWED_STATES["approvals"]
      /\ "COMPLETED" \in ALLOWED_STATES["key_operation_audits"]
      /\ {"PENDING", "ACTIVE"} \subseteq AccountRow
      /\ {"PENDING", "ACTIVE"} \subseteq ALLOWED_STATES["account_ownerships"]
  BY StatesOfParties, StatesOfOperations DEF AccountRow, Validity
<1>2. "ACTIVE" \in StatusIn("participants") /\ "ACTIVE" \in StatusIn("tenants")
  BY StatesOfParties DEF StatusIn, ParticipantStatus, TenantStatus, Lifecycle
<1>3. ASSUME NEW e \in Entity PROVE StatusIn(e[1]) = ALLOWED_STATES[e[1]]
  <2>1. e[1] \in {"tenants", "participants", "service_identities", "certificates", "entitlements"}
    BY EntityAssumption
  <2> QED
    BY <2>1 DEF StatusIn, TenantStatus, ParticipantStatus, IdentityStatus, CertificateStatus, EntitlementStatus
<1> QED
  BY <1>1, <1>2, <1>3

LEMMA CreateApprovalTyped ==
    ASSUME RTypes, NEW c, NEW a \in Approval, NEW maker \in Subject, CreateApproval(c, a, maker)
    PROVE  ControlsTypeOK'
<1> PICK row : row = [maker |-> maker, checker |-> "none", state |-> "PENDING"]
  OBVIOUS
<1>1. /\ approval' = Put(OneRow(a, row), approval)
      /\ UNCHANGED <<decisions, audits, provider, status, acceptances, account, owner>>
  BY DEF CreateApproval
<1>2. row \in ApprovalRow
  BY StatesOfControls DEF ApprovalRow
<1>3. \A b \in DOMAIN approval' : approval'[b] \in ApprovalRow
  BY <1>1, <1>2 DEF RTypes, ControlsTypeOK, Put, OneRow
<1> QED
  BY <1>1, <1>3 DEF RTypes, ControlsTypeOK, ApprovalRow, DecisionRow, AuditRow, KeyState, AcceptanceRows, AccountRow, OwnershipRow

LEMMA ReadDecisionTyped ==
    ASSUME RInv, RTypes, NEW c \in Client, NEW a \in Approval, NEW checker \in Subject,
           NEW outcome \in {"APPROVED", "REJECTED"}, ReadDecision(c, a, checker, outcome)
    PROVE  UNCHANGED controlVars /\ TypedRequests'
<1> PICK new : new = [approval[a] EXCEPT !.checker = checker, !.state = "APPROVED"]
  OBVIOUS
<1> PICK r : r = [op |-> "decision", approval |-> a, row |-> approval[a], new |-> new, outcome |-> outcome]
  OBVIOUS
<1>1. a \in DOMAIN approval /\ req' = [req EXCEPT ![c] = r] /\ UNCHANGED controlVars
  BY DEF ReadDecision, Open
<1>2. approval[a] \in ApprovalRow
  BY <1>1 DEF RTypes, ControlsTypeOK
<1>3. new \in ApprovalRow
  BY <1>2, StatesOfControls DEF ApprovalRow
<1>4. TypedRequest(r)
  BY <1>2, <1>3 DEF TypedRequest
<1>5. TypedRequest(r)'
  BY <1>1, <1>4, RequestTypeKept DEF controlVars
<1> QED
  BY <1>1, <1>5, RequestsTyped DEF RTypes, controlVars

LEMMA FlushedApproval ==
    ASSUME NEW current \in ApprovalRow, NEW loaded \in ApprovalRow, NEW new \in ApprovalRow
    PROVE  Flush(current, loaded, new) \in ApprovalRow
<1>1. DOMAIN current = {"maker", "checker", "state"}
  BY DEF ApprovalRow
<1>2. Flush(current, loaded, new) =
        [maker |-> IF new.maker # loaded.maker THEN new.maker ELSE current.maker,
         checker |-> IF new.checker # loaded.checker THEN new.checker ELSE current.checker,
         state |-> IF new.state # loaded.state THEN new.state ELSE current.state]
  BY <1>1 DEF Flush
<1> QED
  BY <1>2 DEF ApprovalRow

LEMMA CommitDecisionTyped ==
    ASSUME RInv, RTypes, NEW c \in Client, CommitDecision(c)
    PROVE  ControlsTypeOK'
<1> PICK r : r = req[c]
  OBVIOUS
<1> PICK a : a = r.approval
  OBVIOUS
<1> PICK row : row = Flush(approval[a], r.row, r.new)
  OBVIOUS
<1>1. /\ r.op = "decision" /\ approval' = [approval EXCEPT ![a] = row]
      /\ decisions' = decisions \cup {[approval |-> a, checker |-> r.new.checker, outcome |-> r.outcome]}
      /\ UNCHANGED <<audits, provider, status, acceptances, account, owner>>
  BY DEF CommitDecision
<1>2. /\ a \in Approval /\ r.row \in ApprovalRow /\ r.new \in ApprovalRow /\ r.outcome \in {"APPROVED", "REJECTED"}
  BY <1>1 DEF RTypes, TypedRequests, TypedRequest
<1>3. a \in DOMAIN approval /\ r.new.checker \in Subject
  BY <1>1 DEF RInv, Requests, Reads, ReadsPending
<1>4. row \in ApprovalRow
  BY <1>2, <1>3, FlushedApproval DEF RTypes, ControlsTypeOK
<1>5. \A b \in DOMAIN approval' : approval'[b] \in ApprovalRow
  BY <1>1, <1>4 DEF RTypes, ControlsTypeOK
<1>6. decisions' \subseteq DecisionRow
  BY <1>1, <1>2, <1>3 DEF RTypes, ControlsTypeOK, DecisionRow
<1> QED
  BY <1>1, <1>5, <1>6 DEF RTypes, ControlsTypeOK, ApprovalRow, DecisionRow, AuditRow, KeyState, AcceptanceRows, AccountRow, OwnershipRow

LEMMA ExecuteTyped ==
    ASSUME RInv, RTypes, NEW c \in Client, NEW operation \in {"ROTATE", "REVOKE"}, NEW k \in ManagedKey,
           NEW maker \in Subject, NEW checker \in Subject, NEW a \in Approval, Execute(c, operation, k, maker, checker, a)
    PROVE  ControlsTypeOK' /\ TypedRequests'
<1> PICK key : key = Performed(provider[k], operation)
  OBVIOUS
<1> PICK audit : audit = [operation |-> operation, key |-> k, maker |-> maker,
                          checker |-> checker, approval |-> a, status |-> "COMPLETED"]
  OBVIOUS
<1> PICK r : r = [op |-> "key", audit |-> audit]
  OBVIOUS
<1>1. /\ provider' = [provider EXCEPT ![k] = key] /\ req' = [req EXCEPT ![c] = r]
      /\ UNCHANGED <<approval, decisions, audits, status, acceptances, account, owner>>
  BY DEF Execute, Open
<1>2. provider \in [ManagedKey -> KeyState]
  BY DEF RTypes, ControlsTypeOK
<1>3. key \in KeyState
  BY <1>2 DEF KeyState, Performed
<1>4. provider' \in [ManagedKey -> KeyState]
  BY <1>1, <1>2, <1>3
<1>5. audit \in AuditRow
  BY StatesOfControls DEF AuditRow
<1>6. TypedRequest(r)
  BY <1>5 DEF TypedRequest
<1>7. TypedRequests'
  BY <1>1, <1>6, RequestTypeKept, RequestsTyped DEF RTypes
<1> QED
  BY <1>1, <1>4, <1>7 DEF RTypes, ControlsTypeOK, ApprovalRow, DecisionRow, AuditRow, KeyState, AcceptanceRows, AccountRow, OwnershipRow

LEMMA CommitKeyOperationTyped ==
    ASSUME RInv, RTypes, NEW c \in Client, CommitKeyOperation(c)
    PROVE  ControlsTypeOK'
<1> PICK audit : audit = req[c].audit
  OBVIOUS
<1>1. /\ req[c].op = "key" /\ audits' = Append(audits, audit)
      /\ UNCHANGED <<approval, decisions, provider, status, acceptances, account, owner>>
  BY DEF CommitKeyOperation
<1>2. audit \in AuditRow
  BY <1>1 DEF RTypes, TypedRequests, TypedRequest
<1>3. /\ Len(audits) \in Nat /\ DOMAIN audits = 1 .. Len(audits) /\ DOMAIN audits' = 1 .. Len(audits) + 1
      /\ audits'[Len(audits) + 1] = audit /\ \A i \in 1 .. Len(audits) : audits'[i] = audits[i]
  BY <1>1, AppendTuple DEF RInv, Audited
<1>4. \A i \in DOMAIN audits' : audits'[i] \in AuditRow
  BY <1>2, <1>3 DEF RTypes, ControlsTypeOK
<1> QED
  BY <1>1, <1>4 DEF RTypes, ControlsTypeOK, ApprovalRow, DecisionRow, AuditRow, KeyState, AcceptanceRows, AccountRow, OwnershipRow

LEMMA CommitStatusTyped ==
    ASSUME RInv, RTypes, NEW c \in Client, CommitStatus(c)
    PROVE  ControlsTypeOK' /\ DOMAIN status \subseteq DOMAIN status'
<1> PICK r : r = req[c]
  OBVIOUS
<1> PICK new : new = r.new
  OBVIOUS
<1>1. /\ r.op = "status" /\ \A e \in DOMAIN new : new[e] \in ALLOWED_STATES[e[1]]
      /\ status' = Put(new, status) /\ acceptances' = acceptances \cup r.accepts
      /\ UNCHANGED <<approval, decisions, audits, provider, account, owner>>
  BY DEF CommitStatus, StateChecked
<1>2. DOMAIN new \subseteq Entity /\ r.accepts \subseteq AcceptanceRows \cap DOMAIN status
  BY <1>1 DEF RTypes, TypedRequests, TypedRequest
<1>3. DOMAIN status' = DOMAIN new \cup DOMAIN status
      /\ \A e \in DOMAIN status' : status'[e] = IF e \in DOMAIN new THEN new[e] ELSE status[e]
  BY <1>1 DEF Put
<1>4. \A e \in DOMAIN new : new[e] \in StatusIn(e[1])
  BY <1>1, <1>2, StatesOfControls
<1>5. \A e \in DOMAIN status' : status'[e] \in StatusIn(e[1])
  BY <1>3, <1>4 DEF RTypes, ControlsTypeOK
<1>6. acceptances' \subseteq AcceptanceRows \cap DOMAIN status'
  BY <1>1, <1>2, <1>3 DEF RTypes, ControlsTypeOK
<1> QED
  BY <1>1, <1>3, <1>5, <1>6
  DEF RTypes, ControlsTypeOK, ApprovalRow, DecisionRow, AuditRow, KeyState, AcceptanceRows, AccountRow, OwnershipRow

LEMMA ChangeStatusTyped ==
    ASSUME RInv, RTypes, NEW c \in Client, NEW read, NEW new, NEW accepts, ChangeStatus(c, read, new, accepts),
           DOMAIN new \subseteq Entity, accepts \subseteq AcceptanceRows \cap DOMAIN status
    PROVE  UNCHANGED controlVars /\ TypedRequests'
<1> PICK r : r = [op |-> "status", loaded |-> [e \in read |-> status[e]], new |-> new, accepts |-> accepts]
  OBVIOUS
<1>1. req' = [req EXCEPT ![c] = r] /\ UNCHANGED controlVars
  BY DEF ChangeStatus, Open
<1>2. TypedRequest(r)
  BY DEF TypedRequest
<1> QED
  BY <1>1, <1>2, RequestTypeKept, RequestsTyped DEF RTypes, controlVars

LEMMA StatusReadersTyped ==
    ASSUME RInv, RTypes, NEW c \in Client, NEW m, NEW s, NEW e \in Entity,
           \/ ReadCreate(c, e)
           \/ \E target \in Lifecycle : ReadIdentityTransition(c, e, target, m, s) \/ ReadEntitlementTransition(c, e, target, m, s)
           \/ \E f \in Entity : ReadRotate(c, e, f, m, s)
           \/ ReadRevokeCertificate(c, e, m, s)
           \/ CreateEntitlement(c, e)
           \/ ReadAcceptRulebook(c, e)
    PROVE  UNCHANGED controlVars /\ TypedRequests'
<1>1. ASSUME NEW f \in Entity, NEW read, NEW x, ChangeStatus(c, read, OneRow(f, x), {})
      PROVE  UNCHANGED controlVars /\ TypedRequests'
  <2>1. DOMAIN OneRow(f, x) \subseteq Entity
    BY DEF OneRow
  <2> QED
    BY <1>1, <2>1, ChangeStatusTyped
<1>2. ASSUME ReadAcceptRulebook(c, e) PROVE UNCHANGED controlVars /\ TypedRequests'
  <2>1. e \in AcceptanceRows \cap DOMAIN status /\ ChangeStatus(c, {e}, <<>>, {e})
    BY <1>2 DEF ReadAcceptRulebook, AcceptanceRows
  <2>2. DOMAIN <<>> \subseteq Entity
    BY NoRows
  <2> QED
    BY <2>1, <2>2, ChangeStatusTyped
<1>3. ASSUME NEW target, ReadIdentityTransition(c, e, target, m, s) \/ ReadEntitlementTransition(c, e, target, m, s)
      PROVE  UNCHANGED controlVars /\ TypedRequests'
  BY <1>1, <1>3 DEF ReadIdentityTransition, ReadEntitlementTransition
<1>4. ASSUME NEW f \in Entity, ReadRotate(c, e, f, m, s) PROVE UNCHANGED controlVars /\ TypedRequests'
  BY <1>1, <1>4 DEF ReadRotate
<1>5. ASSUME ReadCreate(c, e) PROVE UNCHANGED controlVars /\ TypedRequests'
  BY <1>1, <1>5 DEF ReadCreate
<1>6. ASSUME ReadRevokeCertificate(c, e, m, s) \/ CreateEntitlement(c, e) PROVE UNCHANGED controlVars /\ TypedRequests'
  BY <1>1, <1>6 DEF ReadRevokeCertificate, CreateEntitlement
<1> QED
  BY <1>2, <1>3, <1>4, <1>5, <1>6

LEMMA ReadRefreshTyped ==
    ASSUME RInv, RTypes, NEW c \in Client, NEW revoked \in SUBSET Entity, NEW late \in SUBSET Entity,
           ReadRefresh(c, revoked, late)
    PROVE  UNCHANGED controlVars /\ TypedRequests'
<1> PICK over : over = (revoked \cup late) \cap ActiveCertificates
  OBVIOUS
<1> PICK new : new = [e \in over |-> IF e \in revoked THEN "REVOKED" ELSE "EXPIRED"]
  OBVIOUS
<1>1. ChangeStatus(c, ActiveCertificates, new, {})
  BY DEF ReadRefresh
<1>2. DOMAIN new \subseteq Entity
  OBVIOUS
<1> QED
  BY <1>1, <1>2, ChangeStatusTyped

LEMMA CreateAccountTyped ==
    ASSUME RInv, RTypes, NEW c, NEW a \in Account, CreateAccount(c, a)
    PROVE  ControlsTypeOK' /\ DOMAIN account \subseteq DOMAIN account'
<1>1. /\ account' = Put(OneRow(a, "PENDING"), account)
      /\ UNCHANGED <<approval, decisions, audits, provider, status, acceptances, owner>>
  BY DEF CreateAccount
<1>2. /\ DOMAIN account \subseteq DOMAIN account'
      /\ \A b \in DOMAIN account' : account'[b] = "PENDING" \/ (b \in DOMAIN account /\ account'[b] = account[b])
  BY <1>1 DEF Put, OneRow
<1>3. \A b \in DOMAIN account' : account'[b] \in AccountRow
  BY <1>2, StatesOfControls DEF RTypes, ControlsTypeOK
<1> QED
  BY <1>1, <1>2, <1>3
  DEF RTypes, ControlsTypeOK, ApprovalRow, DecisionRow, AuditRow, KeyState, AcceptanceRows, AccountRow, OwnershipRow

LEMMA AddOwnershipTyped ==
    ASSUME RInv, RTypes, NEW c, NEW o \in Ownership, NEW a \in Account, AddOwnership(c, o, a)
    PROVE  ControlsTypeOK'
<1> PICK row : row = [account |-> a, status |-> "PENDING"]
  OBVIOUS
<1>1. /\ a \in DOMAIN account /\ owner' = Put(OneRow(o, row), owner)
      /\ UNCHANGED <<approval, decisions, audits, provider, status, acceptances, account>>
  BY DEF AddOwnership
<1>2. row \in OwnershipRow /\ row.account = a
  BY StatesOfControls DEF OwnershipRow
<1>3. \A p \in DOMAIN owner' : owner'[p] \in OwnershipRow /\ owner'[p].account \in DOMAIN account
  BY <1>1, <1>2 DEF RTypes, ControlsTypeOK, Put, OneRow
<1> QED
  BY <1>1, <1>3
  DEF RTypes, ControlsTypeOK, ApprovalRow, DecisionRow, AuditRow, KeyState, AcceptanceRows, AccountRow, OwnershipRow

LEMMA CommitActivateTyped ==
    ASSUME RInv, RTypes, NEW c \in Client, CommitActivate(c)
    PROVE  ControlsTypeOK' /\ DOMAIN account' = DOMAIN account
<1> PICK r : r = req[c]
  OBVIOUS
<1>1. /\ r.op = "activate" /\ account' = [account EXCEPT ![r.account] = "ACTIVE"]
      /\ owner' = [owner EXCEPT ![r.ownership].status = "ACTIVE"]
      /\ UNCHANGED <<approval, decisions, audits, provider, status, acceptances>>
  BY DEF CommitActivate
<1>2. DOMAIN account' = DOMAIN account /\ \A b \in DOMAIN account' : account'[b] \in AccountRow
  BY <1>1, StatesOfControls DEF RTypes, ControlsTypeOK
<1>3. \A p \in DOMAIN owner' : owner'[p] \in OwnershipRow /\ owner'[p].account \in DOMAIN account
  BY <1>1, StatesOfControls DEF RTypes, ControlsTypeOK, OwnershipRow
<1> QED
  BY <1>1, <1>2, <1>3
  DEF RTypes, ControlsTypeOK, ApprovalRow, DecisionRow, AuditRow, KeyState, AcceptanceRows, AccountRow, OwnershipRow

\* The rows of every step of ProductionControls, and the requests it leaves.
LEMMA ControlsTyped ==
    ASSUME RInv, RTypes, ControlsNext, UNCHANGED <<accessVars, admissionVars>>
    PROVE  RTypes'
<1>1. AccessTypeOK' /\ now' \in Nat
  <2>1. UNCHANGED <<now, cache, rows, forgotten, nonces, creds, tokens>>
    BY DEF accessVars
  <2> QED
    BY <2>1, SameAccessTyped DEF RTypes
<1>2. ASSUME ControlsTypeOK', TypedRequests', DOMAIN account \subseteq DOMAIN account' PROVE RTypes'
  BY <1>1, <1>2, SameAdmissionTyped DEF RTypes
<1>3. ASSUME UNCHANGED controlVars, TypedRequests' PROVE RTypes'
  BY <1>2, <1>3, SameControlsTyped DEF RTypes, controlVars
<1>4. ASSUME UNCHANGED req, DOMAIN status \subseteq DOMAIN status' PROVE TypedRequests'
  BY <1>4, RequestsTypedStill DEF RTypes
<1>5. ASSUME NEW c \in Client, req' = [req EXCEPT ![c] = Idle], DOMAIN status \subseteq DOMAIN status' PROVE TypedRequests'
  BY <1>5, IdleTyped, RequestsTyped DEF RTypes
<1>6. ASSUME RestartProvider PROVE RTypes'
  <2>1. provider' \in [ManagedKey -> KeyState]
    BY <1>6 DEF RestartProvider, NewKeys, KeyState
  <2>2. ControlsTypeOK'
    BY <1>6, <2>1 DEF RestartProvider, RTypes, ControlsTypeOK, ApprovalRow, DecisionRow, AuditRow, KeyState, AcceptanceRows,
                      AccountRow, OwnershipRow
  <2> QED
    BY <1>2, <1>6, <2>2, AllIdleTyped DEF RestartProvider
<1>7. ASSUME NEW c \in Client, NEW a \in Approval, NEW m \in Subject, CreateApproval(c, a, m) PROVE RTypes'
  BY <1>2, <1>4, <1>7, CreateApprovalTyped DEF CreateApproval, AtOnce
<1>8. ASSUME NEW c \in Client, NEW a \in Approval, NEW s \in Subject, NEW outcome \in {"APPROVED", "REJECTED"},
             ReadDecision(c, a, s, outcome)
      PROVE  RTypes'
  BY <1>3, <1>8, ReadDecisionTyped
<1>9. ASSUME NEW c \in Client, NEW operation \in {"ROTATE", "REVOKE"}, NEW k \in ManagedKey, NEW m \in Subject,
             NEW s \in Subject, NEW a \in Approval, ExecuteKeyOperation(c, operation, k, m, s, a)
      PROVE  RTypes'
  BY <1>2, <1>9, ExecuteTyped DEF ExecuteKeyOperation, Execute
<1>10. ASSUME NEW c \in Client, NEW m \in Subject, NEW s \in Subject, NEW e \in Entity,
              \/ ReadCreate(c, e)
              \/ \E target \in Lifecycle :
                   ReadIdentityTransition(c, e, target, m, s) \/ ReadEntitlementTransition(c, e, target, m, s)
              \/ \E f \in Entity : ReadRotate(c, e, f, m, s)
              \/ ReadRevokeCertificate(c, e, m, s)
              \/ CreateEntitlement(c, e)
              \/ ReadAcceptRulebook(c, e)
       PROVE  RTypes'
  BY <1>3, <1>10, StatusReadersTyped
<1>11. ASSUME NEW c \in Client, NEW revoked \in SUBSET Entity, NEW late \in SUBSET Entity, ReadRefresh(c, revoked, late)
       PROVE  RTypes'
  BY <1>3, <1>11, ReadRefreshTyped
<1>12. ASSUME NEW c \in Client, NEW a \in Account, CreateAccount(c, a) PROVE RTypes'
  BY <1>2, <1>4, <1>12, CreateAccountTyped DEF CreateAccount, AtOnce
<1>13. ASSUME NEW c \in Client, NEW o \in Ownership, NEW a \in Account, AddOwnership(c, o, a) PROVE RTypes'
  BY <1>2, <1>4, <1>13, AddOwnershipTyped DEF AddOwnership, AtOnce
<1>14. ASSUME NEW c \in Client, NEW o \in Ownership, NEW a \in Account, NEW m, NEW s, ReadActivate(c, a, o, m, s) PROVE RTypes'
  <2> PICK r : r = [op |-> "activate", account |-> a, ownership |-> o]
    OBVIOUS
  <2>1. req' = [req EXCEPT ![c] = r] /\ UNCHANGED controlVars
    BY <1>14 DEF ReadActivate, Open
  <2>2. TypedRequest(r)'
    BY DEF TypedRequest
  <2> QED
    BY <1>3, <2>1, <2>2, RequestsTyped DEF RTypes, controlVars
<1>15. ASSUME NEW c \in Client, CommitDecision(c) PROVE RTypes'
  BY <1>2, <1>5, <1>15, CommitDecisionTyped DEF CommitDecision, Commit
<1>16. ASSUME NEW c \in Client, CommitKeyOperation(c) PROVE RTypes'
  BY <1>2, <1>5, <1>16, CommitKeyOperationTyped DEF CommitKeyOperation, Commit
<1>17. ASSUME NEW c \in Client, CommitStatus(c) PROVE RTypes'
  BY <1>2, <1>5, <1>17, CommitStatusTyped DEF CommitStatus, Commit
<1>18. ASSUME NEW c \in Client, CommitActivate(c) PROVE RTypes'
  BY <1>2, <1>5, <1>18, CommitActivateTyped DEF CommitActivate, Commit
<1>19. ASSUME NEW c \in Client, RollBackControl(c) PROVE RTypes'
  BY <1>3, <1>5, <1>19 DEF RollBackControl, RollBack, controlVars
<1> QED
  BY <1>6, <1>7, <1>8, <1>9, <1>10, <1>11, <1>12, <1>13, <1>14, <1>15, <1>16, <1>17, <1>18, <1>19 DEF ControlsNext

------------------------------------------------------------------------------
(* What the rows of RequestAdmission are *)

LEMMA PrincipalsAreEntities ==
    ASSUME RTypes, NEW t, NEW header \in Entity \cup {NoParty}, NEW p \in Principals(t, header)
    PROVE  p.participant \in Entity
<1>1. ASSUME NEW a \in App, p \in OfCredential(a) PROVE p.participant \in Entity
  BY <1>1, PartyAssumption DEF OfCredential
<1>2. CASE t # NoToken
  <2>1. p \in OfToken(t)
    BY <1>2 DEF Principals
  <2>2. t \in DOMAIN tokens /\ p \in OfCredential(tokens[t].app)
    BY <2>1 DEF OfToken
  <2>3. tokens[t].app \in App
    BY <2>2 DEF RTypes, AccessTypeOK, TokenRow
  <2> QED
    BY <1>1, <2>2, <2>3
<1>3. CASE t = NoToken
  <2>1. p = SandboxPrincipal(IF header = NoParty THEN Origin ELSE header)
    BY <1>3 DEF Principals
  <2>2. p.participant = IF header = NoParty THEN Origin ELSE header
    BY <2>1 DEF SandboxPrincipal
  <2> QED
    BY <2>2, PartyAssumption
<1> QED
  BY <1>2, <1>3

LEMMA AuthenticateTyped ==
    ASSUME RInv, RTypes, NEW c \in Client, NEW t, NEW header \in Entity \cup {NoParty}, NEW n \in Nonce \cup {Unsigned},
           Authenticate(c, t, header, n)
    PROVE  RTypes'
<1>1. PICK p \in Principals(t, header) : Open(c, [op |-> "authenticated", principal |-> p])
  BY DEF Authenticate
<1> PICK r : r = [op |-> "authenticated", principal |-> p]
  OBVIOUS
<1>2. /\ req' = [req EXCEPT ![c] = r] /\ UNCHANGED <<controlVars, now, cache, rows, forgotten, creds, tokens, admissionVars>>
      /\ (nonces' = nonces \/ (n \in Nonce /\ nonces' = nonces \cup {n}))
  BY <1>1 DEF Authenticate, Open
<1>3. TypedRequest(r)'
  BY PrincipalsAreEntities DEF TypedRequest
<1>4. UNCHANGED <<status, account>> /\ UNCHANGED controlVars /\ UNCHANGED admissionVars
  BY <1>2 DEF controlVars
<1>5. AccessTypeOK'
  BY <1>2 DEF RTypes, AccessTypeOK, JtiCache, JtiRows, NonceRows, CredentialRows, TokenRow
<1> QED
  BY <1>2, <1>3, <1>4, <1>5, RequestsTyped, SameControlsTyped, SameAdmissionTyped DEF RTypes

LEMMA ReferenceRowsTyped ==
    ASSUME RTypes PROVE ReferenceRows \subseteq CorridorAdmissionRow /\ Cardinality(ReferenceRows) <= 1
<1>1. now \in Nat /\ now + AdmissionLife \in Nat
  BY PartyAssumption DEF RTypes
<1>2. SandboxAdmission \in CorridorAdmissionRow
  <2>1. [from |-> now, to |-> now + AdmissionLife] \in Window
    BY <1>1 DEF Window
  <2>2. {"TRADE"} \in SUBSET {"TRADE", "OTHER"} /\ {"CNY", "HKD"} \in SUBSET {"CNY", "HKD"} /\ 2 \in Nat
        /\ Entity \in SUBSET Entity
    OBVIOUS
  <2> QED
    BY <1>1, <2>1, <2>2 DEF SandboxAdmission, CorridorAdmissionRow
<1>3. Cardinality({}) = 0 /\ Cardinality({SandboxAdmission}) = 1
  BY FS_EmptySet, FS_Singleton
<1> QED
  BY <1>2, <1>3 DEF ReferenceRows

LEMMA ReadAdmissionTyped ==
    ASSUME RInv, RTypes, NEW c \in Client, NEW x \in Purchase, ReadAdmission(c, x)
    PROVE  RTypes'
<1> PICK p : p = req[c].principal
  OBVIOUS
<1> PICK opens : opens = IF Opens(p, x) THEN OneRow(x.account, HeldBy(p, x)) ELSE <<>>
  OBVIOUS
<1> PICK joins : joins = Joins(p.participant)
  OBVIOUS
<1> PICK given : given = ReferenceRows
  OBVIOUS
<1> PICK r : r = [op |-> "admitted", participant |-> p.participant, request |-> x, rows |-> given,
                  joins |-> joins, opens |-> opens]
  OBVIOUS
<1>1. req[c].op = "authenticated" /\ req' = [req EXCEPT ![c] = r] /\ UNCHANGED <<controlVars, accessVars, admissionVars>>
  BY DEF ReadAdmission, ReadOn
<1>2. p.participant \in Entity
  BY <1>1 DEF RTypes, TypedRequests, TypedRequest
<1>3. given \subseteq CorridorAdmissionRow /\ Cardinality(given) <= 1
  BY ReferenceRowsTyped
<1>4. \A e \in joins : e[1] \in {"participants", "tenants"}
  BY PartyAssumption DEF Joins
<1>5. TypedRequest(r)
  BY <1>2, <1>3, <1>4 DEF TypedRequest
<1>6. TypedRequest(r)' /\ UNCHANGED governanceVars
  BY <1>1, <1>5, RequestTypeKept DEF controlVars, governanceVars
<1> QED
  BY <1>1, <1>6, ReaderTyped

LEMMA CommitAdmissionTyped ==
    ASSUME RInv, RTypes, NEW c \in Client, CommitAdmission(c)
    PROVE  RTypes'
<1> PICK r : r = req[c]
  OBVIOUS
<1> PICK x : x = r.request
  OBVIOUS
<1> PICK opens : opens = r.opens
  OBVIOUS
<1> PICK paid : paid = [participant |-> r.participant, request |-> x]
  OBVIOUS
<1> PICK joined : joined = [e \in r.joins |-> "ACTIVE"]
  OBVIOUS
<1> PICK active : active = [a \in DOMAIN opens |-> "ACTIVE"]
  OBVIOUS
<1> PICK owned : owned = [o \in {OwnershipOf[a] : a \in DOMAIN opens} |-> [account |-> x.account, status |-> "ACTIVE"]]
  OBVIOUS
<1>1. /\ r.op = "admitted" /\ (r.rows # {} => admissions = {})
      /\ admissions' = admissions \cup r.rows /\ status' = Put(joined, status) /\ holder' = Put(opens, holder)
      /\ account' = Put(active, account) /\ owner' = Put(owned, owner) /\ payments' = Append(payments, paid)
      /\ req' = [req EXCEPT ![c] = Idle]
      /\ UNCHANGED <<approval, decisions, audits, provider, acceptances>> /\ UNCHANGED accessVars
  BY DEF CommitAdmission, RowsFree, Commit
<1>2. /\ r.participant \in Entity /\ x \in Purchase
      /\ r.rows \subseteq CorridorAdmissionRow /\ Cardinality(r.rows) <= 1
      /\ \A e \in r.joins : e[1] \in {"participants", "tenants"}
  BY <1>1 DEF RTypes, TypedRequests, TypedRequest
<1>3. x.account \in Account /\ x.debtor \in STRING /\ x.currency \in {"CNY", "HKD"}
  BY <1>2, PurchaseAssumption
<1>4. \A a \in DOMAIN opens : a = x.account
        /\ opens[a] = [participant |-> r.participant, owner |-> x.debtor, currency |-> x.currency]
  BY <1>1 DEF RInv, Requests, Reads, HasAccount
<1>5. \A a \in DOMAIN opens : opens[a] \in HolderRow
  BY <1>2, <1>3, <1>4 DEF HolderRow
<1>6. DOMAIN status \subseteq DOMAIN status' /\ \A e \in DOMAIN status' : status'[e] \in StatusIn(e[1])
  <2>1. \A e \in DOMAIN joined : joined[e] \in StatusIn(e[1])
    BY <1>2, StatesOfControls
  <2> QED
    BY <1>1, <2>1 DEF Put, RTypes, ControlsTypeOK
<1>7. DOMAIN account' = DOMAIN opens \cup DOMAIN account /\ \A a \in DOMAIN account' : account'[a] \in AccountRow
  <2>1. \A a \in DOMAIN active : active[a] \in AccountRow
    BY StatesOfControls
  <2> QED
    BY <1>1, <2>1 DEF Put, RTypes, ControlsTypeOK
<1>8. \A o \in DOMAIN owner' : owner'[o] \in OwnershipRow /\ owner'[o].account \in DOMAIN account'
  <2>1. [account |-> x.account, status |-> "ACTIVE"] \in OwnershipRow
    BY <1>3, StatesOfControls DEF OwnershipRow
  <2>2. \A o \in DOMAIN owned : owned[o] \in OwnershipRow /\ owned[o].account \in DOMAIN opens
    BY <1>4, <2>1
  <2> QED
    BY <1>1, <1>7, <2>2 DEF Put, RTypes, ControlsTypeOK
<1>9. acceptances' \subseteq AcceptanceRows \cap DOMAIN status'
  BY <1>1, <1>6 DEF RTypes, ControlsTypeOK
<1>10. ControlsTypeOK'
  BY <1>1, <1>6, <1>7, <1>8, <1>9
  DEF RTypes, ControlsTypeOK, ApprovalRow, DecisionRow, AuditRow, KeyState, AcceptanceRows, AccountRow, OwnershipRow
<1>11. admissions' \subseteq CorridorAdmissionRow /\ Cardinality(admissions') <= 1
  <2>1. admissions' = admissions \/ admissions' = r.rows
    BY <1>1
  <2> QED
    BY <1>2, <2>1 DEF RTypes, AdmissionTypeOK
<1>12. DOMAIN holder' = DOMAIN opens \cup DOMAIN holder /\ \A a \in DOMAIN holder' : holder'[a] \in HolderRow
  BY <1>1, <1>5 DEF Put, RTypes, AdmissionTypeOK
<1>13. \A i \in DOMAIN payments' : payments'[i].request \in Purchase
  <2>1. /\ Len(payments) \in Nat /\ DOMAIN payments = 1 .. Len(payments) /\ DOMAIN payments' = 1 .. Len(payments) + 1
        /\ payments'[Len(payments) + 1] = paid /\ \A i \in 1 .. Len(payments) : payments'[i] = payments[i]
    BY <1>1, AppendTuple DEF RInv, Holders
  <2> QED
    BY <1>2, <2>1 DEF RTypes, AdmissionTypeOK
<1>14. DOMAIN holder' \subseteq DOMAIN account'
  BY <1>7, <1>12 DEF RTypes, AdmissionTypeOK
<1>15. AdmissionTypeOK'
  BY <1>11, <1>12, <1>13, <1>14 DEF AdmissionTypeOK, CorridorAdmissionRow, Window, HolderRow
<1>16. AccessTypeOK' /\ now' \in Nat
  BY <1>1, SameAccessTyped DEF accessVars, RTypes
<1>17. TypedRequests'
  BY <1>1, <1>6, IdleTyped, RequestsTyped DEF RTypes
<1> QED
  BY <1>10, <1>15, <1>16, <1>17 DEF RTypes

------------------------------------------------------------------------------
(* What the rows of admission are: all steps *)

LEMMA InitAdmissionTypes ==
    ASSUME Installation, NEW allowed \in Nat, RequestsInit(allowed)
    PROVE  RTypes
<1>1. PICK deployed, rowsGiven, held, given, agreed, owned, issued :
        /\ Opened(held, owned) /\ Issued(issued) /\ Fitting(rowsGiven, held, given, agreed, issued)
        /\ AdmissionInit(deployed, rowsGiven, held)
        /\ ControlsInit(given, agreed, [a \in DOMAIN held |-> "ACTIVE"], owned)
        /\ AccessInit(issued)
  BY DEF Installation
<1>2. /\ holder = held /\ payments = <<>> /\ admissions = rowsGiven
      /\ approval = <<>> /\ owner = owned /\ decisions = {} /\ audits = <<>> /\ status = given /\ acceptances = agreed
      /\ account = [a \in DOMAIN held |-> "ACTIVE"] /\ provider = NewKeys
      /\ tokens = issued /\ rows = {} /\ forgotten = {} /\ nonces = {} /\ creds = App /\ cache = <<>> /\ now = 0
      /\ req = [c \in Client |-> Idle]
  BY <1>1 DEF AdmissionInit, ControlsInit, AccessInit, RequestsInit
<1>3. DOMAIN <<>> = {}
  BY NoRows
<1>4. ControlsTypeOK
  <2>1. \A o \in DOMAIN owner : owner[o] \in OwnershipRow /\ owner[o].account \in DOMAIN account
    BY <1>1, <1>2, StatesOfControls DEF Opened, Fitting, OwnershipRow
  <2>2. \A a \in DOMAIN account : account[a] \in AccountRow
    BY <1>2, StatesOfControls
  <2>3. provider \in [ManagedKey -> KeyState]
    BY <1>2 DEF NewKeys, KeyState
  <2>4. /\ \A e \in DOMAIN status : status[e] \in StatusIn(e[1])
        /\ acceptances \subseteq AcceptanceRows \cap DOMAIN status
    BY <1>1, <1>2 DEF Fitting
  <2> QED
    BY <1>2, <1>3, <2>1, <2>2, <2>3, <2>4 DEF ControlsTypeOK
<1>5. AccessTypeOK
  <2>1. cache \in JtiCache
    BY <1>2, CapacityAssumption DEF JtiCache
  <2>2. \A t \in DOMAIN tokens : t \in TokenId /\ tokens[t] \in TokenRow
    BY <1>1, <1>2 DEF Issued, Fitting
  <2> QED
    BY <1>2, <2>1, <2>2 DEF AccessTypeOK, JtiRows, NonceRows, CredentialRows
<1>6. AdmissionTypeOK
  BY <1>1, <1>2, <1>3 DEF AdmissionTypeOK, Fitting
<1>7. TypedRequests
  <2>1. \A c \in Client : req[c].op = "idle"
    BY <1>2 DEF Idle
  <2> QED
    BY <2>1 DEF TypedRequests, TypedRequest
<1> QED
  BY <1>2, <1>4, <1>5, <1>6, <1>7 DEF RTypes

LEMMA NextAdmissionTypes == RInv /\ RTypes /\ [AdmissionNext]_rvars => RTypes'
<1> SUFFICES ASSUME RInv, RTypes, [AdmissionNext]_rvars PROVE RTypes'
  OBVIOUS
<1>1. CASE UNCHANGED rvars
  <2>1. UNCHANGED req /\ UNCHANGED controlVars /\ UNCHANGED accessVars /\ UNCHANGED admissionVars
    BY <1>1 DEF rvars, requestVars
  <2>2. UNCHANGED <<now, cache, rows, forgotten, nonces, creds, tokens, status, account>>
    BY <2>1 DEF controlVars, accessVars
  <2> QED
    BY <2>1, <2>2, RequestsTypedStill, SameControlsTyped, SameAccessTyped, SameAdmissionTyped DEF RTypes
<1>2. ASSUME NEW c \in Client, RollBackAdmission(c) PROVE RTypes'
  <2>1. req' = [req EXCEPT ![c] = Idle] /\ UNCHANGED governanceVars
    BY <1>2 DEF RollBackAdmission, RollBack, governanceVars
  <2> QED
    BY <2>1, IdleTyped, ReaderTyped
<1>3. CASE AdmissionNext
  BY <1>2, <1>3, AccessTyped, ControlsTyped, AuthenticateTyped, ReadAdmissionTyped, CommitAdmissionTyped
     DEF AdmissionNext
<1> QED
  BY <1>1, <1>3

------------------------------------------------------------------------------
(* Everything at once: what a service does to the open requests *)

\* The operations of the requests of each service.
LedgerOps == {"ledger"}
IntakeOps == {"payment", "reserved", "quote", "acceptance", "cancellation", "close"}
GovernanceOps == {"jti", "accepted", "issuing", "deleting", "nonce", "decision", "key", "status", "activate",
                  "authenticated", "admitted"}
TrackerOps == {"gpi"}
RecordOps == {"fact", "report"}
AnswerOps == {}

\* A step after which every request is as it was, is over or is one of ops.
ActsBy(ops) ==
    /\ DOMAIN req' = DOMAIN req
    /\ \A c \in DOMAIN req : req'[c] = req[c] \/ req'[c] = Idle \/ req'[c].op \in ops
    /\ stale \in BOOLEAN => stale' \in BOOLEAN
    /\ ~stale' => ~stale

\* The step of one client.
LEMMA OneActs ==
    ASSUME NEW c, NEW ops, NEW r, r = Idle \/ r.op \in ops, req' = [req EXCEPT ![c] = r],
           stale \in BOOLEAN => stale' \in BOOLEAN, ~stale' => ~stale
    PROVE  ActsBy(ops)
  BY DEF ActsBy

LEMMA OpenActs == ASSUME NEW c, NEW ops, NEW r, r.op \in ops, Open(c, r) PROVE ActsBy(ops)
  BY OneActs DEF Open

LEMMA ReadOnActs == ASSUME NEW c, NEW ops, NEW r, r.op \in ops, ReadOn(c, r) PROVE ActsBy(ops)
  BY OneActs DEF ReadOn

LEMMA CommitActs == ASSUME NEW c, NEW ops, NEW fresh, Commit(c, fresh) PROVE ActsBy(ops)
<1>1. req' = [req EXCEPT ![c] = Idle]
  BY DEF Commit
<1>2. stale' = (stale \/ ~fresh)
  BY DEF Commit
<1> QED
  BY <1>1, <1>2, OneActs

LEMMA RollBackActs == ASSUME NEW c, NEW ops, RollBack(c) PROVE ActsBy(ops)
  BY OneActs DEF RollBack

LEMMA NobodyActs == ASSUME NEW ops, UNCHANGED <<req, stale>> PROVE ActsBy(ops)
  BY DEF ActsBy

LEMMA AtOnceActs == ASSUME NEW c, NEW ops, AtOnce(c) PROVE ActsBy(ops)
  BY NobodyActs DEF AtOnce

LEMMA RestartActs ==
    ASSUME NEW ops, DOMAIN req = Client, req' = [c \in Client |-> Idle], stale' = stale
    PROVE  ActsBy(ops)
  BY DEF ActsBy

LEMMA LedgerActs == LedgerNext => ActsBy(LedgerOps)
<1>1. ASSUME NEW c \in Client, NEW new, NEW posts, NEW changed, Change(c, new, posts, changed)
      PROVE  ActsBy(LedgerOps)
  <2> PICK r : r = [op |-> "ledger", loaded |-> [a \in DOMAIN new |-> ledger[a]],
                    new |-> new, posts |-> posts, holds |-> changed]
    OBVIOUS
  <2>1. Open(c, r) /\ r.op \in LedgerOps
    BY <1>1 DEF Change, LedgerOps
  <2> QED
    BY <2>1, OpenActs
<1>2. ASSUME NEW h, PassHoldExpiry(h) PROVE ActsBy(LedgerOps)
  BY <1>2, NobodyActs DEF PassHoldExpiry, requestVars
<1>3. ASSUME NEW c \in Client, NEW a, NEW n, CreateLedgerAccount(c, a, n) PROVE ActsBy(LedgerOps)
  BY <1>3, AtOnceActs DEF CreateLedgerAccount
<1>4. ASSUME NEW c \in Client, NEW j, NEW entries, ReadJournal(c, j, entries) PROVE ActsBy(LedgerOps)
  BY <1>1, <1>4 DEF ReadJournal
<1>5. ASSUME NEW c \in Client, NEW j, NEW entries, CreateDraft(c, j, entries) PROVE ActsBy(LedgerOps)
  BY <1>5, AtOnceActs DEF CreateDraft
<1>6. ASSUME NEW c \in Client, NEW j, NEW t, NEW n, NEW cur, ReadTemplate(c, j, t, n, cur) PROVE ActsBy(LedgerOps)
  BY <1>4, <1>6 DEF ReadTemplate
<1>7. ASSUME NEW c \in Client, NEW j, NEW groups, ReadMultiCurrency(c, j, groups) PROVE ActsBy(LedgerOps)
  BY <1>1, <1>7 DEF ReadMultiCurrency
<1>8. ASSUME NEW c \in Client, NEW id, NEW j, ReadReversal(c, id, j) PROVE ActsBy(LedgerOps)
  BY <1>1, <1>8 DEF ReadReversal
<1>9. ASSUME NEW c \in Client, NEW id, ValidateJournal(c, id) PROVE ActsBy(LedgerOps)
  BY <1>9, AtOnceActs DEF ValidateJournal
<1>10. ASSUME NEW c \in Client, NEW h, NEW a, NEW n, ReadCreateHold(c, h, a, n) PROVE ActsBy(LedgerOps)
  BY <1>1, <1>10 DEF ReadCreateHold
<1>11. ASSUME NEW c \in Client, NEW h, NEW state, NEW v, ReadTransitionHold(c, h, state, v) PROVE ActsBy(LedgerOps)
  BY <1>1, <1>11 DEF ReadTransitionHold
<1>12. ASSUME NEW c \in Client, ReadExpireDue(c) PROVE ActsBy(LedgerOps)
  BY <1>1, <1>12 DEF ReadExpireDue
<1>13. ASSUME NEW c \in Client, CommitLedger(c) PROVE ActsBy(LedgerOps)
  <2>1. \E fresh : Commit(c, fresh)
    BY <1>13 DEF CommitLedger
  <2> QED
    BY <2>1, CommitActs
<1>14. ASSUME NEW c \in Client, RollBackLedger(c) PROVE ActsBy(LedgerOps)
  BY <1>14, RollBackActs DEF RollBackLedger
<1>15. ASSUME NEW c \in Client,
              \/ \E p \in Period : OpenPeriod(c, p) \/ \E m, n \in Officer : ClosePeriod(c, p, m, n)
              \/ \E b \in Glb : PersistBatch(c, b) \/ \E state \in {"ACK", "REJECTED"} : RecordReceipt(c, b, state)
       PROVE  ActsBy(LedgerOps)
  BY <1>15, AtOnceActs DEF OpenPeriod, ClosePeriod, PersistBatch, RecordReceipt
<1> QED
  BY <1>2, <1>3, <1>4, <1>5, <1>6, <1>7, <1>8, <1>9, <1>10, <1>11, <1>12, <1>13, <1>14, <1>15 DEF LedgerNext

LEMMA IntakeActs == IntakeNext => ActsBy(IntakeOps)
<1>1. ASSUME NEW c \in Client, NEW k, NEW body, NEW x, NEW n, BeginPayment(c, k, body, x, n) PROVE ActsBy(IntakeOps)
  <2>1. PICK r : r.op = "payment" /\ Open(c, r)
    BY <1>1 DEF BeginPayment
  <2> QED
    BY <2>1, OpenActs DEF IntakeOps
<1>2. ASSUME NEW c \in Client, ReserveLimit(c) PROVE ActsBy(IntakeOps)
  <2>1. PICK r : r.op = "reserved" /\ ReadOn(c, r)
    BY <1>2 DEF ReserveLimit
  <2> QED
    BY <2>1, ReadOnActs DEF IntakeOps
<1>3. ASSUME NEW c \in Client, NEW i, NEW completed, BeginClose(c, i, completed) PROVE ActsBy(IntakeOps)
  <2>1. PICK r : r.op = "close" /\ Open(c, r)
    BY <1>3 DEF BeginClose
  <2> QED
    BY <2>1, OpenActs DEF IntakeOps
<1>4. ASSUME NEW c \in Client, NEW k, NEW body, BeginQuote(c, k, body) PROVE ActsBy(IntakeOps)
  <2>1. PICK r : r.op = "quote" /\ Open(c, r)
    BY <1>4 DEF BeginQuote
  <2> QED
    BY <2>1, OpenActs DEF IntakeOps
<1>5. ASSUME NEW c \in Client, NEW i, NEW q, NEW k, BeginAcceptance(c, i, q, k) PROVE ActsBy(IntakeOps)
  <2>1. PICK r : r.op = "acceptance" /\ Open(c, r)
    BY <1>5 DEF BeginAcceptance
  <2> QED
    BY <2>1, OpenActs DEF IntakeOps
<1>6. ASSUME NEW c \in Client, NEW i, NEW k, NEW reason, BeginCancellation(c, i, k, reason) PROVE ActsBy(IntakeOps)
  <2>1. PICK r : r.op = "cancellation" /\ Open(c, r)
    BY <1>6 DEF BeginCancellation
  <2> QED
    BY <2>1, OpenActs DEF IntakeOps
<1>7. ASSUME NEW c \in Client,
             CommitPayment(c) \/ CommitClose(c) \/ CommitQuote(c) \/ CommitAcceptance(c) \/ CommitCancellation(c)
      PROVE  ActsBy(IntakeOps)
  <2>1. \E fresh : Commit(c, fresh)
    BY <1>7 DEF CommitPayment, CommitClose, CommitQuote, CommitAcceptance, CommitCancellation
  <2> QED
    BY <2>1, CommitActs
<1>8. ASSUME NEW c \in Client, RollBackIntake(c) PROVE ActsBy(IntakeOps)
  BY <1>8, RollBackActs DEF RollBackIntake
<1>9. ASSUME NewDay \/ (\E profile \in ProfileRow : ProvisionLimitProfile(profile))
             \/ \E q \in DOMAIN quotes : PassQuoteExpiry(q)
      PROVE  ActsBy(IntakeOps)
  BY <1>9, NobodyActs DEF NewDay, ProvisionLimitProfile, PassQuoteExpiry, requestVars
<1> QED
  BY <1>1, <1>2, <1>3, <1>4, <1>5, <1>6, <1>7, <1>8, <1>9 DEF IntakeNext

LEMMA TrackerActs == TrackerNext => ActsBy(TrackerOps)
<1>1. ASSUME NEW c \in Client, NEW u, NEW reported, NEW told, Report(c, u, reported, told) PROVE ActsBy(TrackerOps)
  <2>1. PICK r : r.op = "gpi" /\ Open(c, r)
    BY <1>1 DEF Report
  <2> QED
    BY <2>1, OpenActs DEF TrackerOps
<1>2. ASSUME NEW c \in Client, NEW u, InjectPayment(c, u) \/ DeletePayment(c, u) PROVE ActsBy(TrackerOps)
  BY <1>2, AtOnceActs DEF InjectPayment, DeletePayment
<1>3. ASSUME NEW c \in Client, NEW u,
             ReadGpiCancellation(c, u) \/ ReadInvestigation(c, u) \/ \E confirmed : ReadConfirmation(c, u, confirmed)
      PROVE  ActsBy(TrackerOps)
  BY <1>1, <1>3 DEF ReadGpiCancellation, ReadInvestigation, ReadConfirmation
<1>4. ASSUME NEW c \in Client, CommitReport(c) PROVE ActsBy(TrackerOps)
  <2>1. \E fresh : Commit(c, fresh)
    BY <1>4 DEF CommitReport
  <2> QED
    BY <2>1, CommitActs
<1>5. ASSUME NEW c \in Client, NEW d, SendFin(c, d) \/ AckDistribution(c, d) \/ \E reason : NakDistribution(c, d, reason)
      PROVE  ActsBy(TrackerOps)
  BY <1>5, AtOnceActs DEF SendFin, AckDistribution, NakDistribution
<1>6. ASSUME NEW c \in Client, RollBackTracker(c) PROVE ActsBy(TrackerOps)
  BY <1>6, RollBackActs DEF RollBackTracker
<1> QED
  BY <1>2, <1>3, <1>4, <1>5, <1>6 DEF TrackerNext

LEMMA OperationsAct == OperationsNext => ActsBy(RecordOps)
<1>1. ASSUME NEW c \in Client, NEW o, NEW v, Move(c, o, v) PROVE ActsBy(RecordOps)
  BY <1>1, AtOnceActs DEF Move
<1>2. ASSUME NEW c \in Client, NEW o, NEW ref, NEW state, ReadFact(c, o, ref, state) PROVE ActsBy(RecordOps)
  <2>1. PICK r : r.op = "fact" /\ Open(c, r)
    BY <1>2 DEF ReadFact
  <2> QED
    BY <2>1, OpenActs DEF RecordOps
<1>3. ASSUME NEW c \in Client, NEW i, HoldEvidence(c, i) PROVE ActsBy(RecordOps)
  BY <1>3, AtOnceActs DEF HoldEvidence
<1>4. ASSUME NEW c \in Client, NEW audited, ReadReconciliation(c, audited) PROVE ActsBy(RecordOps)
  <2>1. PICK r : r.op = "report" /\ Open(c, r)
    BY <1>4 DEF ReadReconciliation
  <2> QED
    BY <2>1, OpenActs DEF RecordOps
<1>5. ASSUME NEW c \in Client, CommitFact(c) \/ CommitReconciliation(c) PROVE ActsBy(RecordOps)
  <2>1. \E fresh : Commit(c, fresh)
    BY <1>5 DEF CommitFact, CommitReconciliation
  <2> QED
    BY <2>1, CommitActs
<1>6. ASSUME NEW c \in Client, RollBackOperation(c) PROVE ActsBy(RecordOps)
  BY <1>6, RollBackActs DEF RollBackOperation
<1> QED
  BY <1>1, <1>2, <1>3, <1>4, <1>5, <1>6 DEF OperationsNext

LEMMA PrevalidationActs == PrevalidationNext => ActsBy(AnswerOps)
<1>1. ASSUME NEW c \in Client, NEW about, NEW number, NEW outcome, Answer(c, about, number, outcome)
      PROVE  ActsBy(AnswerOps)
  BY <1>1, AtOnceActs DEF Answer
<1> QED
  BY <1>1 DEF PrevalidationNext, GetBicValidity, ValidateFiIdentity, GetIbanValidity, GetIbanBic, GetIbanDetails,
              ValidateAccountFormat, ValidatePaymentInstruction, GetCurrencyValidity, ValidateAmount

LEMMA AccessActs == ASSUME DOMAIN req = Client, AccessNext PROVE ActsBy(GovernanceOps)
<1>1. CASE Tick \/ CleanUp
  BY <1>1, NobodyActs DEF Tick, CleanUp, requestVars
<1>2. CASE RestartApi
  BY <1>2, RestartActs DEF RestartApi
<1>3. ASSUME NEW c \in Client, NEW j, CheckJti(c, j) PROVE ActsBy(GovernanceOps)
  <2>1. CASE AtOnce(c)
    BY <2>1, AtOnceActs
  <2>2. CASE Open(c, [op |-> "jti", jti |-> j])
    BY <2>2, OpenActs DEF GovernanceOps
  <2> QED
    BY <1>3, <2>1, <2>2 DEF CheckJti
<1>4. ASSUME NEW c \in Client, RecordJti(c) PROVE ActsBy(GovernanceOps)
  <2>1. CASE Commit(c, TRUE)
    BY <2>1, CommitActs
  <2>2. ASSUME NEW a, ReadOn(c, [op |-> "accepted", app |-> a]) PROVE ActsBy(GovernanceOps)
    BY <2>2, ReadOnActs DEF GovernanceOps
  <2> QED
    BY <1>4, <2>1, <2>2 DEF RecordJti
<1>5. ASSUME NEW c \in Client, RevokeEarlier(c) PROVE ActsBy(GovernanceOps)
  <2>1. PICK r : r.op = "issuing" /\ ReadOn(c, r)
    BY <1>5 DEF RevokeEarlier
  <2> QED
    BY <2>1, ReadOnActs DEF GovernanceOps
<1>6. ASSUME NEW c \in Client, NEW t, CommitToken(c, t) \/ CommitDelete(c) \/ CommitNonce(c) PROVE ActsBy(GovernanceOps)
  <2>1. \E fresh : Commit(c, fresh)
    BY <1>6 DEF CommitToken, CommitDelete, CommitNonce
  <2> QED
    BY <2>1, CommitActs
<1>7. ASSUME NEW c \in Client, NEW t, RevokeToken(c, t) \/ CreateCredential(c, t) PROVE ActsBy(GovernanceOps)
  BY <1>7, AtOnceActs DEF RevokeToken, CreateCredential
<1>8. ASSUME NEW c \in Client, NEW a, DeleteTokens(c, a) PROVE ActsBy(GovernanceOps)
  <2>1. PICK r : r.op = "deleting" /\ Open(c, r)
    BY <1>8 DEF DeleteTokens
  <2> QED
    BY <2>1, OpenActs DEF GovernanceOps
<1>9. ASSUME NEW c \in Client, NEW n, InsertNonce(c, n) PROVE ActsBy(GovernanceOps)
  BY <1>9, OpenActs DEF InsertNonce, GovernanceOps
<1>10. ASSUME NEW c \in Client, RollBackAccess(c) PROVE ActsBy(GovernanceOps)
  BY <1>10, RollBackActs DEF RollBackAccess
<1> QED
  BY <1>1, <1>2, <1>3, <1>4, <1>5, <1>6, <1>7, <1>8, <1>9, <1>10 DEF AccessNext

LEMMA ControlsAct == ASSUME DOMAIN req = Client, ControlsNext PROVE ActsBy(GovernanceOps)
<1>1. CASE RestartProvider
  BY <1>1, RestartActs DEF RestartProvider
<1>2. ASSUME NEW c \in Client, NEW x, NEW y,
             CreateApproval(c, x, y) \/ CreateAccount(c, x) \/ AddOwnership(c, x, y)
      PROVE  ActsBy(GovernanceOps)
  BY <1>2, AtOnceActs DEF CreateApproval, CreateAccount, AddOwnership
<1>3. ASSUME NEW c \in Client, NEW a, NEW checker, NEW outcome, ReadDecision(c, a, checker, outcome)
      PROVE  ActsBy(GovernanceOps)
  <2>1. PICK r : r.op = "decision" /\ Open(c, r)
    BY <1>3 DEF ReadDecision
  <2> QED
    BY <2>1, OpenActs DEF GovernanceOps
<1>4. ASSUME NEW c \in Client, NEW operation, NEW k, NEW maker, NEW checker, NEW a,
             ExecuteKeyOperation(c, operation, k, maker, checker, a)
      PROVE  ActsBy(GovernanceOps)
  <2>1. PICK r : r.op = "key" /\ Open(c, r)
    BY <1>4 DEF ExecuteKeyOperation, Execute
  <2> QED
    BY <2>1, OpenActs DEF GovernanceOps
<1>5. ASSUME NEW c \in Client, NEW read, NEW new, NEW accepts, ChangeStatus(c, read, new, accepts)
      PROVE  ActsBy(GovernanceOps)
  <2>1. PICK r : r.op = "status" /\ Open(c, r)
    BY <1>5 DEF ChangeStatus
  <2> QED
    BY <2>1, OpenActs DEF GovernanceOps
<1>6. ASSUME NEW c \in Client, NEW e, NEW f, NEW target, NEW m, NEW s,
             \/ ReadCreate(c, e) \/ ReadIdentityTransition(c, e, target, m, s) \/ ReadEntitlementTransition(c, e, target, m, s)
             \/ ReadRotate(c, e, f, m, s) \/ ReadRevokeCertificate(c, e, m, s) \/ CreateEntitlement(c, e)
             \/ ReadAcceptRulebook(c, e) \/ ReadRefresh(c, e, f)
      PROVE  ActsBy(GovernanceOps)
  <2>1. \E read, new, accepts : ChangeStatus(c, read, new, accepts)
    BY <1>6 DEF ReadCreate, ReadIdentityTransition, ReadEntitlementTransition, ReadRotate, ReadRevokeCertificate,
                CreateEntitlement, ReadAcceptRulebook, ReadRefresh
  <2> QED
    BY <1>5, <2>1
<1>7. ASSUME NEW c \in Client, NEW a, NEW o, NEW maker, NEW checker, ReadActivate(c, a, o, maker, checker)
      PROVE  ActsBy(GovernanceOps)
  BY <1>7, OpenActs DEF ReadActivate, GovernanceOps
<1>8. ASSUME NEW c \in Client, CommitDecision(c) \/ CommitKeyOperation(c) \/ CommitStatus(c) \/ CommitActivate(c)
      PROVE  ActsBy(GovernanceOps)
  <2>1. \E fresh : Commit(c, fresh)
    BY <1>8 DEF CommitDecision, CommitKeyOperation, CommitStatus, CommitActivate
  <2> QED
    BY <2>1, CommitActs
<1>9. ASSUME NEW c \in Client, RollBackControl(c) PROVE ActsBy(GovernanceOps)
  BY <1>9, RollBackActs DEF RollBackControl
<1> QED
  BY <1>1, <1>2, <1>3, <1>4, <1>6, <1>7, <1>8, <1>9 DEF ControlsNext

LEMMA AdmissionActs == ASSUME DOMAIN req = Client, AdmissionNext PROVE ActsBy(GovernanceOps)
<1>1. ASSUME NEW c \in Client, NEW t, NEW header, NEW n, Authenticate(c, t, header, n) PROVE ActsBy(GovernanceOps)
  <2>1. PICK r : r.op = "authenticated" /\ Open(c, r)
    BY <1>1 DEF Authenticate
  <2> QED
    BY <2>1, OpenActs DEF GovernanceOps
<1>2. ASSUME NEW c \in Client, NEW x, ReadAdmission(c, x) PROVE ActsBy(GovernanceOps)
  <2>1. PICK r : r.op = "admitted" /\ ReadOn(c, r)
    BY <1>2 DEF ReadAdmission
  <2> QED
    BY <2>1, ReadOnActs DEF GovernanceOps
<1>3. ASSUME NEW c \in Client, CommitAdmission(c) PROVE ActsBy(GovernanceOps)
  <2>1. \E fresh : Commit(c, fresh)
    BY <1>3 DEF CommitAdmission
  <2> QED
    BY <2>1, CommitActs
<1>4. ASSUME NEW c \in Client, RollBackAdmission(c) PROVE ActsBy(GovernanceOps)
  BY <1>4, RollBackActs DEF RollBackAdmission
<1> QED
  BY <1>1, <1>2, <1>3, <1>4, AccessActs, ControlsAct DEF AdmissionNext

------------------------------------------------------------------------------
(* Everything at once: a step of one service leaves the others as they were *)

\* A request that is none of the step's is as it was.
LEMMA OthersAreAsBefore ==
    ASSUME NEW ops, NEW mine, mine \cap ops = {}, "idle" \notin mine, DOMAIN req = Client, ActsBy(ops)
    PROVE  DOMAIN req' = Client /\ \A c \in Client : req'[c].op \in mine => req'[c] = req[c]
<1>1. Idle.op = "idle"
  BY DEF Idle
<1> QED
  BY <1>1 DEF ActsBy

LEMMA LedgerApart ==
    ASSUME LInv, LTypes, NEW ops, LedgerOps \cap ops = {}, ActsBy(ops), UNCHANGED bookVars
    PROVE  LInv' /\ LTypes'
<1>1. DOMAIN req' = Client /\ \A c \in Client : req'[c].op = "ledger" => req'[c] = req[c]
  BY OthersAreAsBefore DEF LInv, LedgerOps
<1>2. (Accounts /\ Journals /\ Holding /\ Explained)'
  BY DEF bookVars, LInv, Accounts, Journals, Holding, Explained, LedgerBalancesExplained, Reconstructed
<1>3. ASSUME NEW c \in Client PROVE Works(c)'
  <2>1. CASE req'[c].op # "ledger"
    BY <2>1 DEF Works
  <2>2. CASE req'[c] = req[c]
    BY <2>2 DEF bookVars, LInv, Works, Locked, Posting, Reserving
  <2> QED
    BY <1>1, <2>1, <2>2
<1>4. ASSUME NEW c \in Client, NEW d \in Client, c # d PROVE LocksApart(c, d)'
  BY <1>1, <1>4 DEF LInv, LocksApart
<1>5. LedgerTypeOK'
  BY SameBooksTyped DEF LTypes
<1>6. TypedJobs'
  <2> SUFFICES ASSUME NEW c \in Client, NEW r, r = req'[c], r.op = "ledger" PROVE TypedJob(r)'
    BY DEF TypedJobs
  <2>1. TypedJob(r)
    BY <1>1 DEF LTypes, TypedJobs
  <2>2. journal' = journal
    BY DEF bookVars
  <2> QED
    BY <2>1, <2>2, JobKept
<1> QED
  BY <1>1, <1>2, <1>3, <1>4, <1>5, <1>6 DEF LInv, LTypes

LEMMA IntakeApart ==
    ASSUME IInv, LimitsMatchOrders, NEW ops, IntakeOps \cap ops = {}, ActsBy(ops), UNCHANGED intakeVars
    PROVE  IInv' /\ LimitsMatchOrders'
<1>1. DOMAIN req' = Client /\ \A c \in Client : req'[c].op \in IntakeOps => req'[c] = req[c]
  BY OthersAreAsBefore DEF IInv, IntakeRequests, IntakeOps
<1>2. Keyed \cup Held \cup Locking \subseteq IntakeOps /\ {"acceptance", "cancellation", "close", "payment", "reserved"} \subseteq IntakeOps
  BY DEF Keyed, Held, Locking, IntakeOps
<1>3. ASSUME NEW d \in Client PROVE Relies(d)'
  <2>1. CASE req'[d].op \notin IntakeOps
    BY <1>2, <2>1 DEF Relies, KeyFree, InstructionNew, ProfileRead, Reserves, Closes, Refers
  <2>2. CASE req'[d] = req[d]
    BY <2>2, ReadsStay DEF IInv, IntakeRequests
  <2> QED
    BY <1>1, <2>1, <2>2
<1>4. ASSUME NEW c \in Client, NEW d \in Client, c # d PROVE Apart(c, d)'
  <2>1. Apart(c, d)
    BY <1>4 DEF IInv, IntakeRequests
  <2>2. CASE req'[c].op \notin IntakeOps \/ req'[d].op \notin IntakeOps
    BY <1>2, <2>2 DEF Apart
  <2>3. CASE req'[c] = req[c] /\ req'[d] = req[d]
    BY <2>1, <2>3, ApartStays
  <2> QED
    BY <1>1, <2>2, <2>3
<1>5. LimitsMatchOrders'
  BY DEF intakeVars, LimitsMatchOrders, Counter, Sum
<1> QED
  BY <1>1, <1>3, <1>4, <1>5, TablesStay DEF IInv, IntakeRequests

LEMMA GovernanceApart ==
    ASSUME RInv, RTypes, NEW ops, GovernanceOps \cap ops = {}, ActsBy(ops), UNCHANGED governanceVars
    PROVE  RInv' /\ RTypes'
<1>1. DOMAIN req' = Client /\ \A c \in Client : req'[c].op \in GovernanceOps => req'[c] = req[c]
  BY OthersAreAsBefore DEF RInv, Requests, GovernanceOps
<1>2. SameIds /\ SameTokens /\ SameControls
  BY DEF governanceVars, controlVars, accessVars, admissionVars, SameIds, SameTokens, SameControls, SameApprovals,
         SameAudits, SameOwners, SameHolders
<1>3. Kept
  BY <1>2, SameControlsKeep
<1>4. StaleGrows
  BY DEF ActsBy, RInv, StaleGrows
<1>5. NoneOpened
  BY <1>1 DEF NoneOpened, GovernanceOps
<1>6. Requests'
  <2>1. ASSUME NEW d \in Client PROVE Reads(d)'
    <3>1. CASE req'[d].op \notin GovernanceOps
      BY <3>1 DEF Reads, GovernanceOps
    <3>2. CASE req'[d] = req[d]
      <4>1. Reads(d) /\ (req[d].op = "nonce" => req[d].nonce \notin nonces')
        BY <1>2 DEF RInv, Requests, Reads, SameIds
      <4> QED
        BY <1>3, <3>2, <4>1, ReadsKept
    <3> QED
      BY <1>1, <3>1, <3>2
  <2>2. \A c, d \in Client : req'[c].op = "nonce" /\ req'[d].op = "nonce" /\ req'[c].nonce = req'[d].nonce => c = d
    BY <1>1 DEF RInv, Requests, GovernanceOps
  <2> QED
    BY <1>1, <2>1, <2>2 DEF Requests
<1>7. (Ids /\ Tokens /\ Approvals /\ Audited /\ Owners /\ Holders)'
  BY <1>2, <1>3, <1>4, GroupsStay DEF RInv, SameControls, Kept
<1>8. Counted'
  BY <1>2, <1>5, CountStays DEF RInv, Audited, SameControls
<1>9. RInv'
  BY <1>4, <1>6, <1>7, <1>8 DEF RInv, StaleGrows
<1>10. (ControlsTypeOK /\ AccessTypeOK /\ AdmissionTypeOK)' /\ now' = now /\ status' = status
  BY SameControlsTyped, SameAccessTyped, SameAdmissionTyped DEF RTypes, governanceVars, controlVars, accessVars
<1>11. TypedRequests'
  <2>1. ASSUME NEW d \in Client PROVE TypedRequest(req[d])'
    <3>1. CASE req'[d].op \notin GovernanceOps
      BY <3>1 DEF TypedRequest, GovernanceOps
    <3>2. CASE req'[d] = req[d]
      <4> PICK x : x = req[d]
        OBVIOUS
      <4>1. TypedRequest(x)'
        BY <1>10, RequestTypeKept DEF RTypes, TypedRequests
      <4> QED
        BY <3>2, <4>1 DEF TypedRequest, ApprovalRow, AuditRow, AcceptanceRows, CorridorAdmissionRow, Window
    <3> QED
      BY <1>1, <3>1, <3>2
  <2> QED
    BY <2>1 DEF TypedRequests
<1> QED
  BY <1>9, <1>10, <1>11 DEF RTypes

LEMMA TrackerApart ==
    ASSUME TInv, NEW ops, TrackerOps \cap ops = {}, ActsBy(ops), UNCHANGED trackerVars
    PROVE  TInv'
<1>1. DOMAIN req' = Client /\ \A c \in Client : req'[c].op = "gpi" => req'[c] = req[c]
  BY OthersAreAsBefore DEF TInv, TrackerOps
<1>2. payment' = payment /\ injected' = injected /\ inbox' = inbox
  BY DEF trackerVars
<1>3. stale' \in BOOLEAN /\ (~stale' => ~stale)
  BY DEF ActsBy, TInv
<1>4. (Payments /\ Distributions)'
  BY <1>2, <1>3 DEF TInv, Payments, Begun, Distributions
<1>5. ASSUME NEW c \in Client PROVE Reports(c)'
  BY <1>1, <1>2, <1>3 DEF TInv, Reports, Begun
<1> QED
  BY <1>1, <1>3, <1>4, <1>5 DEF TInv

LEMMA OperationsApart ==
    ASSUME OInv, OTypes, NEW ops, RecordOps \cap ops = {}, ActsBy(ops), UNCHANGED operationVars
    PROVE  OInv' /\ OTypes'
<1>1. DOMAIN req' = Client /\ \A c \in Client : req'[c].op \in {"fact", "report"} => req'[c] = req[c]
  BY OthersAreAsBefore DEF OInv, RecordOps
<1>2. UNCHANGED <<views, facts, evidence, events, breaks>>
  BY DEF operationVars
<1>3. stale' \in BOOLEAN /\ (~stale' => ~stale)
  BY DEF ActsBy, OInv
<1>4. (Facts /\ Manifests /\ Breaks)'
  BY <1>2, <1>3 DEF OInv, Facts, Numbered, Chain, Manifests, Breaks, Linked
<1>5. ASSUME NEW c \in Client PROVE Numbers(c)' /\ Unseen(c)'
  BY <1>1, <1>2 DEF OInv, Numbers, Unseen, Chain
<1>6. OTypes'
  BY <1>1, <1>2 DEF OTypes, TypedRows, FactRow, BreakRow, TypedRecords, TypedRecord, FactColumns
<1> QED
  BY <1>1, <1>3, <1>4, <1>5, <1>6 DEF OInv

------------------------------------------------------------------------------
(* Everything at once: the invariant *)

SInv ==
    /\ LInv /\ LTypes
    /\ IInv /\ LimitsMatchOrders
    /\ RInv /\ RTypes
    /\ TInv
    /\ OInv /\ OTypes
    /\ AInv /\ ATyped

LEMMA InitServices == ServicesInit => SInv
<1> SUFFICES ASSUME ServicesInit PROVE SInv
  OBVIOUS
<1>1. PICK allowed \in Nat : RequestsInit(allowed)
  BY DEF ServicesInit
<1>2. LInv /\ LTypes
  BY <1>1, InitLedger, InitLedgerTypes DEF ServicesInit
<1>3. IInv /\ LimitsMatchOrders
  BY <1>1, InitIntake, InitLimitsMatch DEF ServicesInit
<1>4. RInv /\ RTypes
  BY <1>1, InitAdmission, InitAdmissionTypes DEF ServicesInit
<1>5. TInv
  BY <1>1, InitTracker DEF ServicesInit
<1>6. OInv /\ OTypes
  BY <1>1, InitOperations, InitRecordTypes DEF ServicesInit
<1>7. AInv /\ ATyped
  BY InitAnswer DEF ServicesInit
<1> QED
  BY <1>2, <1>3, <1>4, <1>5, <1>6, <1>7 DEF SInv

\* The answer to a question of Prevalidation is nothing a request relies on.
LEMMA AnswerApart == AInv /\ ATyped /\ UNCHANGED answer => AInv' /\ ATyped'
  BY DEF AInv, ATyped

\* The operations of two services are different ones.
LEMMA OpsAreApart ==
    /\ \A other \in {IntakeOps, GovernanceOps, TrackerOps, RecordOps, AnswerOps} : LedgerOps \cap other = {}
    /\ \A other \in {LedgerOps, GovernanceOps, TrackerOps, RecordOps, AnswerOps} : IntakeOps \cap other = {}
    /\ \A other \in {LedgerOps, IntakeOps, TrackerOps, RecordOps, AnswerOps} : GovernanceOps \cap other = {}
    /\ \A other \in {LedgerOps, IntakeOps, GovernanceOps, RecordOps, AnswerOps} : TrackerOps \cap other = {}
    /\ \A other \in {LedgerOps, IntakeOps, GovernanceOps, TrackerOps, AnswerOps} : RecordOps \cap other = {}
  BY DEF LedgerOps, IntakeOps, GovernanceOps, TrackerOps, RecordOps, AnswerOps

LEMMA NextServices == SInv /\ [ServicesNext]_servicesVars => SInv'
<1> SUFFICES ASSUME SInv, [ServicesNext]_servicesVars PROVE SInv'
  OBVIOUS
<1>1. CASE LedgerNext /\ UNCHANGED <<intakeVars, governanceVars, trackerVars, operationVars, answer>>
  <2>1. ActsBy(LedgerOps)
    BY <1>1, LedgerActs
  <2>2. LInv' /\ LTypes'
    BY <1>1, NextLedger, NextLedgerTypes DEF SInv
  <2>3. UNCHANGED intakeVars /\ UNCHANGED governanceVars /\ UNCHANGED trackerVars /\ UNCHANGED operationVars /\ UNCHANGED answer
    BY <1>1
  <2> QED
    BY <2>1, <2>2, <2>3, OpsAreApart, IntakeApart, GovernanceApart, TrackerApart, OperationsApart, AnswerApart
       DEF SInv
<1>2. CASE IntakeNext /\ UNCHANGED <<bookVars, governanceVars, trackerVars, operationVars, answer>>
  <2>1. ActsBy(IntakeOps)
    BY <1>2, IntakeActs
  <2>2. IInv' /\ LimitsMatchOrders'
    BY <1>2, NextIntake, NextLimitsMatch DEF SInv, ivars
  <2>3. UNCHANGED bookVars /\ UNCHANGED governanceVars /\ UNCHANGED trackerVars /\ UNCHANGED operationVars /\ UNCHANGED answer
    BY <1>2
  <2> QED
    BY <2>1, <2>2, <2>3, OpsAreApart, LedgerApart, GovernanceApart, TrackerApart, OperationsApart, AnswerApart
       DEF SInv
<1>3. CASE AdmissionNext /\ UNCHANGED <<bookVars, intakeVars, trackerVars, operationVars, answer>>
  <2>1. ActsBy(GovernanceOps)
    BY <1>3, AdmissionActs DEF SInv, LInv
  <2>2. RInv' /\ RTypes'
    BY <1>3, NextAdmission, NextAdmissionTypes DEF SInv, rvars
  <2>3. UNCHANGED bookVars /\ UNCHANGED intakeVars /\ UNCHANGED trackerVars /\ UNCHANGED operationVars /\ UNCHANGED answer
    BY <1>3
  <2> QED
    BY <2>1, <2>2, <2>3, OpsAreApart, LedgerApart, IntakeApart, TrackerApart, OperationsApart, AnswerApart
       DEF SInv
<1>4. CASE TrackerNext /\ UNCHANGED <<bookVars, intakeVars, governanceVars, operationVars, answer>>
  <2>1. ActsBy(TrackerOps)
    BY <1>4, TrackerActs
  <2>2. TInv'
    BY <1>4, NextTracker DEF SInv, tvars
  <2>3. UNCHANGED bookVars /\ UNCHANGED intakeVars /\ UNCHANGED governanceVars /\ UNCHANGED operationVars /\ UNCHANGED answer
    BY <1>4
  <2> QED
    BY <2>1, <2>2, <2>3, OpsAreApart, LedgerApart, IntakeApart, GovernanceApart, OperationsApart, AnswerApart
       DEF SInv
<1>5. CASE OperationsNext /\ UNCHANGED <<bookVars, intakeVars, governanceVars, trackerVars, answer>>
  <2>1. ActsBy(RecordOps)
    BY <1>5, OperationsAct
  <2>2. OInv' /\ OTypes'
    BY <1>5, NextOperations, NextRecordTypes DEF SInv, ovars
  <2>3. UNCHANGED bookVars /\ UNCHANGED intakeVars /\ UNCHANGED governanceVars /\ UNCHANGED trackerVars /\ UNCHANGED answer
    BY <1>5
  <2> QED
    BY <2>1, <2>2, <2>3, OpsAreApart, LedgerApart, IntakeApart, GovernanceApart, TrackerApart, AnswerApart
       DEF SInv
<1>6. CASE PrevalidationNext /\ UNCHANGED <<bookVars, intakeVars, governanceVars, trackerVars, operationVars>>
  <2>1. ActsBy(AnswerOps)
    BY <1>6, PrevalidationActs
  <2>2. AInv' /\ ATyped'
    BY <1>6, NextAnswer, NextAnswerTypes DEF SInv
  <2>3. UNCHANGED bookVars /\ UNCHANGED intakeVars /\ UNCHANGED governanceVars /\ UNCHANGED trackerVars /\ UNCHANGED operationVars
    BY <1>6
  <2> QED
    BY <2>1, <2>2, <2>3, OpsAreApart, LedgerApart, IntakeApart, GovernanceApart, TrackerApart, OperationsApart
       DEF SInv
<1>7. CASE UNCHANGED servicesVars
  <2>1. /\ UNCHANGED requestVars /\ UNCHANGED bookVars /\ UNCHANGED intakeVars /\ UNCHANGED governanceVars
        /\ UNCHANGED trackerVars /\ UNCHANGED operationVars /\ UNCHANGED answer
    BY <1>7 DEF servicesVars
  <2>2. ActsBy(AnswerOps)
    BY <2>1, NobodyActs DEF requestVars
  <2> QED
    BY <2>1, <2>2, OpsAreApart, LedgerApart, IntakeApart, GovernanceApart, TrackerApart, OperationsApart, AnswerApart
       DEF SInv
<1> QED
  BY <1>1, <1>2, <1>3, <1>4, <1>5, <1>6, <1>7 DEF ServicesNext

------------------------------------------------------------------------------
(* Everything at once: the theorems *)

\* With the requests of all services open at once, what each of them relies on
\* holds: no service reads what another one writes, up to the restarts, which
\* end the requests of all.
THEOREM ServicesInvariance == ServicesSpec => []SInv
  BY InitServices, NextServices, PTL DEF ServicesSpec

\* Every row of every service has its type.
THEOREM ServicesTypeCorrect == ServicesSpec => []ServicesTypeOK
<1>1. SInv => ServicesTypeOK
  BY OperationRowsTyped, TrackerRowsTyped, AnswerTyped DEF SInv, LTypes, RTypes, IInv, Tables, ServicesTypeOK
<1> QED
  BY <1>1, ServicesInvariance, PTL

(* What the services promise, whatever the others do meanwhile: the books, the
   limits and the keys, the key operations and the accounts, the ids and the
   tokens, the history of a payment, the records of an order, the answers. *)
THEOREM ServicesHoldTogether ==
    ServicesSpec => [](/\ LedgerBalancesExplained /\ ReservedIsExplained
                       /\ LimitsMatchOrders /\ DailyLimitHolds /\ CreatedOncePerKey
                       /\ KeyOperationsAreDecided /\ AccountsAreOwned /\ AccountsServeTheirOwner
                       /\ IdAcceptedOnce /\ OneLiveToken
                       /\ HistoryTellsTheStatus /\ RecordsStayLinear /\ SlipsAreRefused)
<1>1. SInv => LedgerBalancesExplained /\ ReservedIsExplained
  BY ReservedExplained DEF SInv, LInv, Explained
<1>2. SInv => LimitsMatchOrders /\ DailyLimitHolds /\ CreatedOncePerKey
  BY DailyLimitKept DEF SInv, IInv
<1>3. SInv => KeyOperationsAreDecided /\ AccountsAreOwned /\ AccountsServeTheirOwner
  BY KeyOperationsDecided, AccountsOwned DEF SInv, RInv, Holders
<1>4. SInv => IdAcceptedOnce
  BY DEF SInv, RInv, Ids
<1>5. SInv => OneLiveToken
  BY AtMostOne DEF SInv, RInv, Tokens, OneLiveToken
<1>6. SInv => HistoryTellsTheStatus
  BY DEF SInv, TInv, Payments, Told, HistoryTellsTheStatus
<1>7. SInv => RecordsStayLinear
  BY DEF SInv, OInv, Facts, Numbered, Manifests, Breaks, Linked, Single, RecordsStayLinear
<1>8. SInv => SlipsAreRefused
  BY SlipsRefused DEF SInv
<1> QED
  BY <1>1, <1>2, <1>3, <1>4, <1>5, <1>6, <1>7, <1>8, ServicesInvariance, PTL

\* identity_service.py: REVOKED is final, unless changes have overlapped,
\* whatever the other services do.
THEOREM RevokedIsFinalTogether == ServicesSpec => RevokedIsFinal
<1>1. SInv /\ [ServicesNext]_servicesVars =>
        [\A e \in DOMAIN status : status[e] = "REVOKED" => stale' \/ status'[e] = "REVOKED"]_status
  <2> SUFFICES ASSUME SInv, [ServicesNext]_servicesVars, status' # status
               PROVE  \A e \in DOMAIN status : status[e] = "REVOKED" => stale' \/ status'[e] = "REVOKED"
    OBVIOUS
  <2>1. AdmissionNext
    BY DEF ServicesNext, servicesVars, governanceVars, controlVars
  <2> QED
    BY <2>1, RevokedStep DEF RevokedStays, SInv
<1> QED
  BY <1>1, ServicesInvariance, PTL DEF ServicesSpec, RevokedIsFinal
=============================================================================
