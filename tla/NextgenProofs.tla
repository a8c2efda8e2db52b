----------------------------- MODULE NextgenProofs -----------------------------
(***************************************************************************)
(* Proofs about the payments of the simulator, its CIPS settlement and the *)
(* simulator as a whole (NextgenPayments, CipsSettlement, EndOfDay), for   *)
(* every set of clients, keys, payloads, participants, batches, accounts   *)
(* and settlements: a key has at most one effect, the outbox tells the     *)
(* life of the payment, the two hash chains verify, the settlements marked *)
(* SETTLED explain every CIPS balance, and all of it holds with the        *)
(* requests of all parts open at the same time.                            *)
(*                                                                         *)
(* What a request has read decides what it commits, so each invariant says *)
(* what every open request may have read.  For the payments (OpenPayments) *)
(* its key has no record and no other request is inserting it, its status  *)
(* follows the one it read, and its link follows the last row it read.  A  *)
(* commit that is not stale then appends to the very row it has read.  For *)
(* CIPS (CipsReads) the settlements it may settle were queued when it read *)
(* them, and its session has moved every balance by the net of those it    *)
(* tells of.  A commit that is not stale then adds that net to the         *)
(* committed balances, however the requests overlap.                       *)
(*                                                                         *)
(* For the whole simulator (PlatformInv) each part keeps its invariant     *)
(* under the steps of the others: a step leaves every open request as it   *)
(* is, ends it or replaces it by one of its own part (ActsBy), changes the *)
(* rows of its own part only, and what is stale for one is stale for all.  *)
(***************************************************************************)
EXTENDS EndOfDay, EcnySystemProofs

\* A tuple of anything.
Tuple(s) == \E S : s \in Seq(S)

\* What an append makes of a tuple.
LEMMA AppendTuple ==
    ASSUME NEW s, Tuple(s), NEW e
    PROVE  /\ Tuple(Append(s, e))
           /\ Len(s) \in Nat /\ DOMAIN s = 1 .. Len(s)
           /\ Len(Append(s, e)) = Len(s) + 1
           /\ DOMAIN Append(s, e) = 1 .. Len(s) + 1
           /\ \A i \in 1 .. Len(s) : Append(s, e)[i] = s[i]
           /\ Append(s, e)[Len(s) + 1] = e
<1>1. PICK S : s \in Seq(S)
  BY DEF Tuple
<1> DEFINE T == S \cup {e}
<1>2. s \in Seq(T) /\ e \in T
  BY <1>1
<1>3. Append(s, e) \in Seq(T)
  BY <1>2
<1> HIDE DEF T
<1> QED
  BY <1>2, <1>3 DEF Tuple

LEMMA EmptyTuple == Tuple(<<>>) /\ Len(<<>>) = 0
<1>1. <<>> \in Seq({})
  OBVIOUS
<1> QED
  BY <1>1 DEF Tuple

\* Only the empty tuple has no element.
LEMMA NoElement ==
    ASSUME NEW s, Tuple(s)
    PROVE  Len(s) \in Nat /\ DOMAIN s = 1 .. Len(s) /\ (Len(s) = 0 <=> s = <<>>)
<1>1. PICK S : s \in Seq(S)
  BY DEF Tuple
<1> QED
  BY <1>1

------------------------------------------------------------------------------
(* Payments: the invariant *)

\* The request has read a row from which its new status may be reached.
Transition(r) ==
    /\ r.row \in LifecycleRow /\ r.row # NoLife
    /\ r.new \in LifecycleRow
    /\ r.new.version = r.row.version + 1
    /\ r.new.status \in ALLOWED_TRANSITIONS(r.row.status)

\* Its link follows the last row of the chain it has read.
CopyLink(r) ==
    /\ r.link.previous = LastOr(r.chain, NoHash)
    /\ r.link.hash = <<r.link.payload>>

EventLink(r) ==
    /\ r.event.previous = LastOr(r.chain, NoHash)
    /\ r.event.hash = <<r.event.previous, r.event.payload>>

\* The request inserts a key without a record, and no other request does.
Inserts(c) ==
    /\ req[c].digest \in Digest
    /\ req[c].key \in Key
    /\ record[req[c].key] = "none"
    /\ \A d \in Client : req[d].op = "enqueue" /\ req[d].key = req[c].key => d = c

OpenPayments ==
    /\ DOMAIN req = Client
    /\ \A c \in Client :
          /\ req[c].op = "enqueue" => Inserts(c)
          /\ req[c].op = "transition" => Transition(req[c])
          /\ req[c].op = "copy" => CopyLink(req[c])
          /\ req[c].op = "audit" => EventLink(req[c])

\* The lifecycle row and the events agree on how many versions there were, and
\* there is a row exactly when there is an event.
Lifecycle ==
    /\ life \in LifecycleRow
    /\ life = NoLife <=> told = <<>>
    /\ life # NoLife => life.status \in LifecycleStatus

PInv ==
    /\ stale \in BOOLEAN
    /\ record \in [Key -> IdempotencyRow] /\ queued \in OutboxRows /\ decided \in Nat
    /\ Tuple(told) /\ Tuple(copies) /\ Tuple(audit)
    /\ OpenPayments
    /\ Lifecycle
    /\ EnqueuedOncePerKey
    /\ EventsTellTheLife
    /\ ChainsVerify

pvars == <<requestVars, paymentsVars>>

------------------------------------------------------------------------------
(* Payments: the steps.  Each leaves a request to what it has read, or      *)
(* replaces it by one that has read the committed rows, or by none.         *)

LEMMA InitPayments ==
    ASSUME PaymentsInit, NEW allowed \in Nat, RequestsInit(allowed)
    PROVE  PInv
<1>1. /\ record = [k \in Key |-> "none"] /\ queued = [k \in Key |-> 0]
      /\ life = NoLife /\ told = <<>> /\ copies = <<>> /\ decided = 0 /\ audit = <<>>
      /\ req = [c \in Client |-> Idle] /\ stale = FALSE
  BY DEF PaymentsInit, RequestsInit
<1>2. Tuple(told) /\ Tuple(copies) /\ Tuple(audit)
      /\ Len(told) = 0 /\ Len(audit) = 0
      /\ DOMAIN told = {} /\ DOMAIN copies = {} /\ DOMAIN audit = {}
  BY <1>1, EmptyTuple
<1>3. OpenPayments
  BY <1>1 DEF OpenPayments, Idle
<1>4. Lifecycle
  BY <1>1 DEF Lifecycle, LifecycleRow, NoLife
<1>5. EnqueuedOncePerKey /\ EventsTellTheLife /\ ChainsVerify
  BY <1>1, <1>2 DEF EnqueuedOncePerKey, EventsTellTheLife, ChainsVerify, CopyChainVerifies,
                    AuditChainVerifies, NoLife
<1> QED
  BY <1>1, <1>2, <1>3, <1>4, <1>5 DEF PInv, IdempotencyRow, OutboxRows

\* The rows of idempotency keys, of the lifecycle and of the chains by turns:
\* what a step leaves alone it need not be asked about.
SameKeys == UNCHANGED <<record, queued>>
SameLife == UNCHANGED <<life, told>>
SameCopies == UNCHANGED copies
SameAudit == UNCHANGED <<audit, decided>>

\* An open request that is new, or gone: the rows stay.
LEMMA OtherRequests ==
    ASSUME PInv, SameKeys, SameLife, SameCopies, SameAudit, stale' = stale,
           OpenPayments'
    PROVE  PInv'
  BY DEF PInv, SameKeys, SameLife, SameCopies, SameAudit, Lifecycle, EnqueuedOncePerKey,
         EventsTellTheLife, ChainsVerify, CopyChainVerifies, AuditChainVerifies

\* OpenPayments after client c has opened r, or ended.
LEMMA RequestOpened ==
    ASSUME PInv, NEW c \in Client, NEW r, req' = [req EXCEPT ![c] = r],
           record' = record,
           r.op = "enqueue" => /\ r.digest \in Digest /\ r.key \in Key
                               /\ record[r.key] = "none" /\ ~Inserting(r.key),
           r.op = "transition" => Transition(r),
           r.op = "copy" => CopyLink(r),
           r.op = "audit" => EventLink(r)
    PROVE  OpenPayments'
<1>1. DOMAIN req = Client /\ DOMAIN req' = Client
  BY DEF PInv, OpenPayments
<1>2. \A d \in Client : req'[d] = IF d = c THEN r ELSE req[d]
  BY <1>1
<1>3. ASSUME NEW d \in Client, req'[d].op = "enqueue"
      PROVE  Inserts(d)'
  <2>1. CASE d = c
    BY <1>2, <1>3, <2>1 DEF Inserts, Inserting
  <2>2. CASE d # c
    <3>1. Inserts(d) /\ req[d].op = "enqueue"
      BY <1>2, <1>3, <2>2 DEF PInv, OpenPayments
    <3>2. r.op = "enqueue" => r.key # req[d].key
      BY <3>1 DEF Inserting
    <3> QED  BY <1>2, <2>2, <3>1, <3>2 DEF Inserts
  <2> QED  BY <2>1, <2>2
<1>4. ASSUME NEW d \in Client
      PROVE  /\ req'[d].op = "transition" => Transition(req'[d])
             /\ req'[d].op = "copy" => CopyLink(req'[d])
             /\ req'[d].op = "audit" => EventLink(req'[d])
  <2>1. /\ req[d].op = "transition" => Transition(req[d])
        /\ req[d].op = "copy" => CopyLink(req[d])
        /\ req[d].op = "audit" => EventLink(req[d])
    BY DEF PInv, OpenPayments
  <2> QED  BY <1>2, <2>1
<1> QED
  BY <1>1, <1>3, <1>4 DEF OpenPayments

LEMMA IdleKeeps ==
    ASSUME PInv, NEW c \in Client, req' = [req EXCEPT ![c] = Idle], record' = record
    PROVE  OpenPayments'
  BY RequestOpened DEF Idle

\* begin() inserts a key that has no record and that no request is inserting.
LEMMA BeginEnqueueKeeps ==
    ASSUME PInv, NEW c \in Client, NEW k \in Key, NEW digest \in Digest,
           BeginEnqueue(c, k, digest)
    PROVE  PInv'
<1> DEFINE r == [op |-> "enqueue", key |-> k, digest |-> digest]
<1>1. /\ req' = [req EXCEPT ![c] = r] /\ stale' = stale
      /\ UNCHANGED paymentsVars
      /\ record[k] = "none" /\ ~Inserting(k)
  BY DEF BeginEnqueue, Open
<1>2. OpenPayments'
  BY <1>1, RequestOpened DEF paymentsVars
<1> QED
  BY <1>1, <1>2, OtherRequests DEF paymentsVars, SameKeys, SameLife, SameCopies, SameAudit

\* Its commit is the only effect of the key, and the other requests insert
\* other keys.
LEMMA CommitEnqueueKeeps ==
    ASSUME PInv, NEW c \in Client, CommitEnqueue(c)
    PROVE  PInv'
<1> DEFINE k == req[c].key
<1>1. /\ req[c].op = "enqueue"
      /\ record' = [record EXCEPT ![k] = req[c].digest]
      /\ queued' = [queued EXCEPT ![k] = queued[k] + 1]
      /\ req' = [req EXCEPT ![c] = Idle]
      /\ stale' = stale
      /\ UNCHANGED <<life, told, copies, casefile, decided, audit>>
  BY DEF CommitEnqueue, Commit, PInv
<1>2. /\ k \in Key /\ req[c].digest \in Digest /\ record[k] = "none"
      /\ \A d \in Client : req[d].op = "enqueue" /\ req[d].key = k => d = c
  BY <1>1 DEF PInv, OpenPayments, Inserts
<1>3. /\ record \in [Key -> IdempotencyRow] /\ queued \in [Key -> Nat]
      /\ \A j \in Key : queued[j] = IF record[j] = "none" THEN 0 ELSE 1
  BY DEF PInv, OutboxRows, EnqueuedOncePerKey
<1> HIDE DEF k
<1>4. /\ record' \in [Key -> IdempotencyRow] /\ queued' \in [Key -> Nat]
      /\ \A j \in Key : /\ record'[j] = IF j = k THEN req[c].digest ELSE record[j]
                        /\ queued'[j] = IF j = k THEN queued[j] + 1 ELSE queued[j]
  BY <1>1, <1>2, <1>3 DEF IdempotencyRow
<1>5. EnqueuedOncePerKey'
  BY <1>2, <1>3, <1>4, DigestAssumption DEF EnqueuedOncePerKey
<1>6. OpenPayments'
  <2>1. DOMAIN req = Client /\ DOMAIN req' = Client
    BY <1>1 DEF PInv, OpenPayments
  <2>2. \A d \in Client : req'[d] = IF d = c THEN Idle ELSE req[d]
    BY <1>1, <2>1
  <2>3. ASSUME NEW d \in Client, req'[d].op = "enqueue"
        PROVE  Inserts(d)'
    <3>1. d # c /\ req'[d] = req[d]
      BY <2>2, <2>3 DEF Idle
    <3>2. Inserts(d)
      BY <2>3, <3>1 DEF PInv, OpenPayments
    <3>3. req[d].key # k
      BY <1>2, <2>3, <3>1
    <3> QED  BY <1>4, <2>2, <3>1, <3>2, <3>3 DEF Inserts, Idle
  <2> QED  BY <2>1, <2>2, <2>3 DEF PInv, OpenPayments, Idle
<1>7. Lifecycle' /\ EventsTellTheLife' /\ ChainsVerify'
  BY <1>1 DEF PInv, Lifecycle, EventsTellTheLife, ChainsVerify, CopyChainVerifies,
              AuditChainVerifies
<1> QED
  BY <1>1, <1>4, <1>5, <1>6, <1>7 DEF PInv, OutboxRows

\* The first event is told with the row.
LEMMA CreatePaymentKeeps ==
    ASSUME PInv, NEW c \in Client, CreatePayment(c)
    PROVE  PInv'
<1>1. /\ req' = req /\ stale' = stale
      /\ life' = [status |-> "RECEIVED", version |-> 1] /\ told' = <<"RECEIVED">>
      /\ SameKeys /\ SameCopies /\ SameAudit
  BY DEF CreatePayment, AtOnce, SameKeys, SameCopies, SameAudit
<1>2. OpenPayments'
  BY <1>1 DEF PInv, OpenPayments, SameKeys, Inserts
<1>3. Tuple(told') /\ Len(told') = 1 /\ told' # <<>> /\ told'[1] = "RECEIVED"
  <2>1. <<"RECEIVED">> \in Seq({"RECEIVED"}) /\ Len(<<"RECEIVED">>) = 1
    OBVIOUS
  <2> QED  BY <1>1, <2>1 DEF Tuple
<1>4. Lifecycle'
  BY <1>1, <1>3 DEF Lifecycle, LifecycleRow, LifecycleStatus, NoLife
<1>5. EventsTellTheLife'
  BY <1>1, <1>3 DEF EventsTellTheLife
<1>6. EnqueuedOncePerKey' /\ ChainsVerify'
  BY <1>1 DEF PInv, SameKeys, SameCopies, SameAudit, EnqueuedOncePerKey, ChainsVerify,
              CopyChainVerifies, AuditChainVerifies
<1> QED
  BY <1>1, <1>2, <1>3, <1>4, <1>5, <1>6 DEF PInv, SameKeys, SameCopies, SameAudit

\* The statuses a transition leads to.
LEMMA AllowedStatuses == \A s : ALLOWED_TRANSITIONS(s) \subseteq LifecycleStatus
  BY DEF ALLOWED_TRANSITIONS, LifecycleStatus

\* A transition reads the version it names and a status it may leave.
LEMMA ReadTransitionKeeps ==
    ASSUME PInv, NEW c \in Client, NEW expected \in Nat, NEW new \in LifecycleStatus,
           ReadTransition(c, expected, new)
    PROVE  PInv'
<1> DEFINE n == [status |-> new, version |-> life.version + 1]
           r == [op |-> "transition", row |-> life, new |-> n]
<1>1. /\ req' = [req EXCEPT ![c] = r] /\ stale' = stale
      /\ UNCHANGED paymentsVars
      /\ life # NoLife /\ new \in ALLOWED_TRANSITIONS(life.status)
  BY DEF ReadTransition, Open
<1>2. life \in LifecycleRow /\ life.version \in Nat
  BY DEF PInv, Lifecycle, LifecycleRow
<1>3. n \in LifecycleRow /\ n.version = life.version + 1 /\ n.status = new
  BY <1>2 DEF LifecycleRow
<1> HIDE DEF n
<1>4. Transition(r)
  BY <1>1, <1>2, <1>3 DEF Transition
<1>5. OpenPayments'
  BY <1>1, <1>4, RequestOpened DEF paymentsVars
<1> QED
  BY <1>1, <1>5, OtherRequests DEF paymentsVars, SameKeys, SameLife, SameCopies, SameAudit

\* A transition that has read the committed row leaves the row and the event
\* of the same version.
LEMMA CommitTransitionKeeps ==
    ASSUME PInv, NEW c \in Client, CommitTransition(c)
    PROVE  PInv'
<1> DEFINE row == req[c].row
           new == req[c].new
<1>1. /\ req[c].op = "transition"
      /\ life' = Flush(life, row, new) /\ told' = Append(told, new.status)
      /\ req' = [req EXCEPT ![c] = Idle]
      /\ stale' = (stale \/ life # row)
      /\ SameKeys /\ SameCopies /\ SameAudit
  BY DEF CommitTransition, Commit, SameKeys, SameCopies, SameAudit
<1>2. Transition(req[c])
  BY <1>1 DEF PInv, OpenPayments
<1> HIDE DEF row, new
<1>3. /\ row \in LifecycleRow /\ new \in LifecycleRow /\ row # NoLife
      /\ new.version = row.version + 1
      /\ new.status \in ALLOWED_TRANSITIONS(row.status)
      /\ new.status \in LifecycleStatus
  BY <1>2, AllowedStatuses DEF Transition, row, new
<1>4. life \in LifecycleRow /\ Tuple(told) /\ (life = NoLife <=> told = <<>>)
      /\ (life # NoLife => life.status \in LifecycleStatus)
  BY DEF PInv, Lifecycle
<1>5. /\ life' \in LifecycleRow
      /\ life'.status = IF new.status # row.status THEN new.status ELSE life.status
      /\ life'.version = IF new.version # row.version THEN new.version ELSE life.version
  BY <1>1, <1>3, <1>4 DEF Flush, LifecycleRow
<1>6. life'.version = new.version /\ life'.version # 0
  <2>1. row.version \in Nat
    BY <1>3 DEF LifecycleRow
  <2> QED  BY <1>3, <1>5, <2>1
<1>7. /\ Tuple(told') /\ Len(told) \in Nat /\ Len(told') = Len(told) + 1
      /\ DOMAIN told' = 1 .. Len(told) + 1
      /\ \A i \in 1 .. Len(told) : told'[i] = told[i]
      /\ told'[Len(told) + 1] = new.status
  BY <1>1, <1>4, AppendTuple
<1>8. told' # <<>>
  BY <1>7, NoElement
<1>9. Lifecycle'
  <2>1. life' # NoLife
    BY <1>6 DEF NoLife
  <2>2. life'.status \in LifecycleStatus
    <3>1. CASE new.status # row.status
      BY <1>3, <1>5, <3>1
    <3>2. CASE new.status = row.status
      <4>1. \A s : s \notin ALLOWED_TRANSITIONS(s)
        BY DEF ALLOWED_TRANSITIONS
      <4> QED  BY <1>3, <3>2, <4>1
    <3> QED  BY <3>1, <3>2
  <2> QED  BY <1>5, <1>8, <2>1, <2>2 DEF Lifecycle
<1>10. EventsTellTheLife'
  <2> SUFFICES ASSUME ~stale'
               PROVE  /\ Len(told') = life'.version
                      /\ \A i \in 2 .. Len(told') : told'[i] \in ALLOWED_TRANSITIONS(told'[i - 1])
                      /\ told'[Len(told')] = life'.status
    BY DEF EventsTellTheLife
  <2>1. ~stale /\ life = row
    BY <1>1
  <2>2. /\ Len(told) = row.version
        /\ \A i \in 2 .. Len(told) : told[i] \in ALLOWED_TRANSITIONS(told[i - 1])
        /\ told[Len(told)] = row.status
    BY <1>3, <1>4, <2>1 DEF PInv, EventsTellTheLife
  <2>3. life'.status = new.status
    BY <1>5, <2>1
  <2>4. row.version # 0
    <3>1. told # <<>>
      BY <1>3, <1>4, <2>1
    <3> QED  BY <1>4, <2>2, <3>1, NoElement
  <2>5. ASSUME NEW i \in 2 .. Len(told')
        PROVE  told'[i] \in ALLOWED_TRANSITIONS(told'[i - 1])
    <3>1. CASE i \in 2 .. Len(told)
      <4>1. told'[i] = told[i] /\ told'[i - 1] = told[i - 1]
        BY <1>7, <3>1
      <4> QED  BY <2>2, <3>1, <4>1
    <3>2. CASE i = Len(told) + 1
      <4>1. told'[i] = new.status /\ told'[i - 1] = told[Len(told)]
        BY <1>7, <2>5, <3>2
      <4> QED  BY <1>3, <2>2, <4>1
    <3> QED  BY <1>7, <2>5, <3>1, <3>2
  <2> QED  BY <1>3, <1>6, <1>7, <2>2, <2>3, <2>5
<1>11. OpenPayments'
  BY <1>1, IdleKeeps DEF SameKeys
<1>12. EnqueuedOncePerKey' /\ ChainsVerify'
  BY <1>1 DEF PInv, SameKeys, SameCopies, SameAudit, EnqueuedOncePerKey, ChainsVerify,
              CopyChainVerifies, AuditChainVerifies
<1> QED
  BY <1>1, <1>7, <1>9, <1>10, <1>11, <1>12 DEF PInv, SameKeys, SameCopies, SameAudit

\* The link of a new copy and of a new event follows the last one read.
LEMMA ReadCopiesKeeps ==
    ASSUME PInv, NEW c \in Client, NEW payload \in Payload, ReadCopies(c, payload)
    PROVE  PInv'
<1> DEFINE r == [op |-> "copy", chain |-> copies, link |-> CopyOf(payload)]
<1>1. req' = [req EXCEPT ![c] = r] /\ stale' = stale /\ UNCHANGED paymentsVars
  BY DEF ReadCopies, Open
<1>2. CopyLink(r)
  BY DEF CopyLink, CopyOf
<1>3. OpenPayments'
  BY <1>1, <1>2, RequestOpened DEF paymentsVars
<1> QED
  BY <1>1, <1>3, OtherRequests DEF paymentsVars, SameKeys, SameLife, SameCopies, SameAudit

LEMMA ReadAuditKeeps ==
    ASSUME PInv, NEW c \in Client, NEW payload \in Payload, ReadAudit(c, payload)
    PROVE  PInv'
<1> DEFINE r == [op |-> "audit", chain |-> audit, event |-> EventOf(payload), decision |-> TRUE]
<1>1. req' = [req EXCEPT ![c] = r] /\ stale' = stale /\ UNCHANGED paymentsVars
  BY DEF ReadAudit, Open
<1>2. EventLink(r)
  BY DEF EventLink, EventOf
<1>3. OpenPayments'
  BY <1>1, <1>2, RequestOpened DEF paymentsVars
<1> QED
  BY <1>1, <1>3, OtherRequests DEF paymentsVars, SameKeys, SameLife, SameCopies, SameAudit

\* A chain that verifies goes on to do so with a link that follows its last row.
LEMMA CommitCopyKeeps ==
    ASSUME PInv, NEW c \in Client, CommitCopy(c)
    PROVE  PInv'
<1> DEFINE link == req[c].link
<1>1. /\ req[c].op = "copy"
      /\ copies' = Append(copies, link)
      /\ req' = [req EXCEPT ![c] = Idle]
      /\ stale' = (stale \/ copies # req[c].chain)
      /\ SameKeys /\ SameLife /\ SameAudit
  BY DEF CommitCopy, Commit, SameKeys, SameLife, SameAudit
<1>2. /\ link.previous = LastOr(req[c].chain, NoHash)
      /\ link.hash = <<link.payload>>
  BY <1>1 DEF PInv, OpenPayments, CopyLink
<1> HIDE DEF link
<1>3. /\ Tuple(copies') /\ Len(copies) \in Nat
      /\ DOMAIN copies = 1 .. Len(copies)
      /\ DOMAIN copies' = 1 .. Len(copies) + 1
      /\ \A i \in 1 .. Len(copies) : copies'[i] = copies[i]
      /\ copies'[Len(copies) + 1] = link
  BY <1>1, AppendTuple DEF PInv
<1>4. ASSUME ~stale' PROVE CopyChainVerifies'
  <2>1. ~stale /\ copies = req[c].chain /\ CopyChainVerifies
    BY <1>1, <1>4 DEF PInv, ChainsVerify
  <2>2. ASSUME NEW i \in DOMAIN copies'
        PROVE  /\ copies'[i].previous = IF i = 1 THEN NoHash ELSE copies'[i - 1].hash
               /\ copies'[i].hash = <<copies'[i].payload>>
    <3>1. CASE i \in DOMAIN copies
      <4>1. copies'[i] = copies[i] /\ (i # 1 => copies'[i - 1] = copies[i - 1])
        BY <1>3, <3>1
      <4> QED  BY <2>1, <3>1, <4>1 DEF CopyChainVerifies
    <3>2. CASE i = Len(copies) + 1
      <4>1. copies'[i] = link /\ (i # 1 => copies'[i - 1] = copies[Len(copies)])
        BY <1>3, <3>2
      <4>2. i = 1 <=> copies = <<>>
        BY <1>3, <3>2, NoElement DEF PInv
      <4> QED  BY <1>2, <2>1, <4>1, <4>2 DEF LastOr
    <3> QED  BY <1>3, <2>2, <3>1, <3>2
  <2> QED  BY <2>2 DEF CopyChainVerifies
<1>5. ChainsVerify'
  BY <1>1, <1>4 DEF PInv, ChainsVerify, SameAudit, AuditChainVerifies
<1>6. OpenPayments'
  BY <1>1, IdleKeeps DEF SameKeys
<1>7. Lifecycle' /\ EventsTellTheLife' /\ EnqueuedOncePerKey'
  BY <1>1 DEF PInv, Lifecycle, EventsTellTheLife, EnqueuedOncePerKey, SameKeys, SameLife
<1> QED
  BY <1>1, <1>3, <1>5, <1>6, <1>7 DEF PInv, SameKeys, SameLife, SameAudit

LEMMA CommitAuditKeeps ==
    ASSUME PInv, NEW c \in Client, CommitAudit(c)
    PROVE  PInv'
<1> DEFINE link == req[c].event
<1>1. /\ req[c].op = "audit"
      /\ audit' = Append(audit, link)
      /\ decided' \in {decided, decided + 1}
      /\ req' = [req EXCEPT ![c] = Idle]
      /\ stale' = (stale \/ audit # req[c].chain)
      /\ SameKeys /\ SameLife /\ SameCopies
  <2>1. decided' = decided + (IF req[c].decision THEN 1 ELSE 0) /\ decided \in Nat
    BY DEF CommitAudit, PInv
  <2>2. decided' \in {decided, decided + 1}
    BY <2>1
  <2> QED  BY <2>2 DEF CommitAudit, Commit, SameKeys, SameLife, SameCopies
<1>2. /\ link.previous = LastOr(req[c].chain, NoHash)
      /\ link.hash = <<link.previous, link.payload>>
  BY <1>1 DEF PInv, OpenPayments, EventLink
<1> HIDE DEF link
<1>3. /\ Tuple(audit') /\ Len(audit) \in Nat /\ Len(audit') = Len(audit) + 1
      /\ DOMAIN audit = 1 .. Len(audit)
      /\ DOMAIN audit' = 1 .. Len(audit) + 1
      /\ \A i \in 1 .. Len(audit) : audit'[i] = audit[i]
      /\ audit'[Len(audit) + 1] = link
  BY <1>1, AppendTuple DEF PInv
<1>4. ASSUME ~stale' PROVE AuditChainVerifies'
  <2>1. ~stale /\ audit = req[c].chain /\ AuditChainVerifies
    BY <1>1, <1>4 DEF PInv, ChainsVerify
  <2>2. ASSUME NEW i \in DOMAIN audit', NEW p, p = IF i = 1 THEN NoHash ELSE audit'[i - 1].hash
        PROVE  audit'[i].previous = p /\ audit'[i].hash = <<p, audit'[i].payload>>
    <3>1. CASE i \in DOMAIN audit
      <4>1. audit'[i] = audit[i] /\ (i # 1 => audit'[i - 1] = audit[i - 1])
        BY <1>3, <3>1
      <4> QED  BY <2>1, <2>2, <3>1, <4>1 DEF AuditChainVerifies
    <3>2. CASE i = Len(audit) + 1
      <4>1. audit'[i] = link /\ (i # 1 => audit'[i - 1] = audit[Len(audit)])
        BY <1>3, <3>2
      <4>2. i = 1 <=> audit = <<>>
        BY <1>3, <3>2, NoElement DEF PInv
      <4> QED  BY <1>2, <2>1, <2>2, <4>1, <4>2 DEF LastOr
    <3> QED  BY <1>3, <2>2, <3>1, <3>2
  <2> QED  BY <2>2 DEF AuditChainVerifies
<1>5. decided \in Nat /\ decided <= Len(audit) /\ decided' \in Nat /\ decided' <= Len(audit')
  BY <1>1, <1>3 DEF PInv, ChainsVerify
<1>6. ChainsVerify'
  BY <1>1, <1>4, <1>5 DEF PInv, ChainsVerify, SameCopies, CopyChainVerifies
<1>7. OpenPayments'
  BY <1>1, IdleKeeps DEF SameKeys
<1>8. Lifecycle' /\ EventsTellTheLife' /\ EnqueuedOncePerKey'
  BY <1>1 DEF PInv, Lifecycle, EventsTellTheLife, EnqueuedOncePerKey, SameKeys, SameLife
<1> QED
  BY <1>1, <1>3, <1>5, <1>6, <1>7, <1>8 DEF PInv, SameKeys, SameLife, SameCopies

\* Cases have rows of their own; a request that ends leaves its rows.
LEMMA CasesKeep ==
    ASSUME PInv, NEW c \in Client,
           \/ OpenCase(c)
           \/ \E new \in CaseStatus : ReadCase(c, new)
           \/ CommitCase(c)
           \/ RollBackPayments(c)
    PROVE  PInv'
<1>1. CASE OpenCase(c)
  <2>1. req' = req /\ stale' = stale /\ SameKeys /\ SameLife /\ SameCopies /\ SameAudit
    BY <1>1 DEF OpenCase, AtOnce, SameKeys, SameLife, SameCopies, SameAudit
  <2>2. OpenPayments'
    BY <2>1 DEF PInv, OpenPayments, Inserts, SameKeys
  <2> QED  BY <2>1, <2>2, OtherRequests
<1>2. ASSUME NEW new \in CaseStatus, ReadCase(c, new)
      PROVE  PInv'
  <2> DEFINE r == [op |-> "case", was |-> casefile, becomes |-> new]
  <2>1. req' = [req EXCEPT ![c] = r] /\ stale' = stale /\ UNCHANGED paymentsVars
    BY <1>2 DEF ReadCase, Open
  <2>2. OpenPayments'
    BY <2>1, RequestOpened DEF paymentsVars
  <2> QED
    BY <2>1, <2>2, OtherRequests DEF paymentsVars, SameKeys, SameLife, SameCopies, SameAudit
<1>3. CASE CommitCase(c)
  <2>1. /\ req' = [req EXCEPT ![c] = Idle] /\ stale' \in {stale, TRUE}
        /\ SameKeys /\ SameLife /\ SameCopies /\ SameAudit
    BY <1>3 DEF CommitCase, Commit, PInv, SameKeys, SameLife, SameCopies, SameAudit
  <2>2. OpenPayments'
    BY <2>1, IdleKeeps DEF SameKeys
  <2> QED
    BY <2>1, <2>2 DEF PInv, SameKeys, SameLife, SameCopies, SameAudit, Lifecycle,
       EnqueuedOncePerKey, EventsTellTheLife, ChainsVerify, CopyChainVerifies,
       AuditChainVerifies
<1>4. CASE RollBackPayments(c)
  <2>1. req' = [req EXCEPT ![c] = Idle] /\ stale' = stale /\ UNCHANGED paymentsVars
    BY <1>4 DEF RollBackPayments, RollBack
  <2>2. OpenPayments'
    BY <2>1, IdleKeeps DEF paymentsVars
  <2> QED
    BY <2>1, <2>2, OtherRequests DEF paymentsVars, SameKeys, SameLife, SameCopies, SameAudit
<1> QED
  BY <1>1, <1>2, <1>3, <1>4

LEMMA NextPayments == PInv /\ [PaymentsNext]_pvars => PInv'
<1> SUFFICES ASSUME PInv, [PaymentsNext]_pvars PROVE PInv'
  OBVIOUS
<1>1. CASE UNCHANGED pvars
  <2>1. UNCHANGED <<req, stale>> /\ SameKeys /\ SameLife /\ SameCopies /\ SameAudit
    BY <1>1 DEF pvars, requestVars, paymentsVars, SameKeys, SameLife, SameCopies, SameAudit
  <2>2. OpenPayments'
    BY <2>1 DEF PInv, OpenPayments, Inserts, SameKeys
  <2> QED  BY <2>1, <2>2, OtherRequests
<1>2. CASE PaymentsNext
  <2>1. PICK c \in Client :
          \/ \E k \in Key, digest \in Digest : BeginEnqueue(c, k, digest)
          \/ CommitEnqueue(c)
          \/ CreatePayment(c)
          \/ \E expected \in Nat, new \in LifecycleStatus : ReadTransition(c, expected, new)
          \/ CommitTransition(c)
          \/ \E payload \in Payload : ReadCopies(c, payload) \/ ReadAudit(c, payload)
          \/ CommitCopy(c)
          \/ OpenCase(c)
          \/ \E new \in CaseStatus : ReadCase(c, new)
          \/ CommitCase(c)
          \/ CommitAudit(c)
          \/ RollBackPayments(c)
    BY <1>2 DEF PaymentsNext
  <2> QED
    BY <2>1, BeginEnqueueKeeps, CommitEnqueueKeeps, CreatePaymentKeeps, ReadTransitionKeeps,
       CommitTransitionKeeps, ReadCopiesKeeps, ReadAuditKeeps, CommitCopyKeeps,
       CommitAuditKeeps, CasesKeep
<1> QED
  BY <1>1, <1>2

------------------------------------------------------------------------------
(* Payments: the theorems *)

\* Along every behaviour open requests have read what OpenPayments says, and the
\* rows are those their commits make.
THEOREM PaymentsInvariance == PaymentsSpec => []PInv
<1>1. PaymentsInit /\ (\E allowed \in Nat : RequestsInit(allowed)) => PInv
  BY InitPayments
<1> QED
  BY <1>1, NextPayments, PTL DEF PaymentsSpec, pvars

\* runtime.py, begin(): a key has at most one effect, whatever overlaps.
THEOREM EnqueuedOncePerKeyHolds == PaymentsSpec => []EnqueuedOncePerKey
<1>1. PInv => EnqueuedOncePerKey
  BY DEF PInv
<1> QED
  BY <1>1, PaymentsInvariance, PTL

\* Without overlap the outbox tells the life of the payment.
THEOREM EventsTellTheLifeHolds == PaymentsSpec => []EventsTellTheLife
<1>1. PInv => EventsTellTheLife
  BY DEF PInv
<1> QED
  BY <1>1, PaymentsInvariance, PTL

\* Without overlap both chains verify, and every decision has its event.
THEOREM ChainsVerifyHolds == PaymentsSpec => []ChainsVerify
<1>1. PInv => ChainsVerify
  BY DEF PInv
<1> QED
  BY <1>1, PaymentsInvariance, PTL

------------------------------------------------------------------------------
(* CIPS settlement: the invariant *)

\* Accounts of some participants, and the settlements whose parties have one.
AccountsOf(accounts, Of) == accounts \in [DOMAIN accounts -> Of]

Placed(row, accounts) == row.debtor \in DOMAIN accounts /\ row.creditor \in DOMAIN accounts

CipsRows ==
    /\ AccountsOf(account, Nat)
    /\ AccountsOf(funded, Nat) /\ DOMAIN funded = DOMAIN account
    /\ settlement \in Seq(SettlementRow)
    /\ settledMsg \in Seq(Nat) /\ Len(settledMsg) = Len(settlement)
    /\ \A i \in DOMAIN settlement : settlement[i].mode = "RTGS" => Placed(settlement[i], account)

Explained ==
    ~stale => /\ SettlementsExplainBalances
              /\ \A i \in Settled(settlement) : Placed(settlement[i], account)

\* A new settlement that may settle at once.
Submits(r, accounts) == r.op = "cips_submit" =>
    /\ r.row \in Submission
    /\ AccountsOf(r.loaded, Nat) /\ DOMAIN r.loaded \subseteq DOMAIN accounts
    /\ Placed(r.row, r.loaded)

\* Settlements that a session has loaded, and those of them that it may settle.
MaySettle(loaded, batch, accounts, rows) ==
    /\ AccountsOf(loaded.account, Nat) /\ DOMAIN loaded.account \subseteq DOMAIN accounts
    /\ loaded.settlement \in Seq(SettlementRow) /\ Len(loaded.settlement) <= Len(rows)
    /\ batch \subseteq DOMAIN loaded.settlement
    /\ \A i \in batch : Placed(loaded.settlement[i], loaded.account)
                        /\ loaded.settlement[i].status = "QUEUED"

ReadsQueue(r, accounts, rows) == r.op = "cips_queue" =>
    /\ MaySettle(r.loaded, r.leases, accounts, rows)
    /\ r.loaded = [account |-> r.loaded.account, settlement |-> r.loaded.settlement, told |-> {}]
    /\ r.s.settlement = r.loaded.settlement

\* What the session s has made of `loaded': the settlements it tells of are
\* settled, and every balance has moved by the net of them.
Nets(s, loaded) ==
    /\ s.account \in [DOMAIN loaded.account -> Int]
    /\ \A p \in DOMAIN loaded.account :
         s.account[p] = loaded.account[p] + Net(loaded.settlement, s.told, p)

Settles(r, accounts, rows) == r.op \in {"cips_release", "cips_dns"} =>
    /\ MaySettle(r.loaded, r.s.told, accounts, rows)
    /\ Nets(r.s, r.loaded)

CipsReads(r, accounts, rows) ==
    Submits(r, accounts) /\ ReadsQueue(r, accounts, rows) /\ Settles(r, accounts, rows)

CipsInv ==
    /\ stale \in BOOLEAN /\ DOMAIN req = Client
    /\ CipsRows
    /\ Explained
    /\ \A c \in Client : CipsReads(req[c], account, settlement)
------------------------------------------------------------------------------
(* CIPS settlement: nets *)

LEMMA ShareIsInt ==
    ASSUME NEW row \in SettlementRow, NEW p
    PROVE  Share(row, p) \in Int
  BY DEF Share, SettlementRow

\* Rows of a session or of the table.
LEMMA RowsFinite ==
    ASSUME NEW rows \in Seq(SettlementRow), NEW batch \in SUBSET DOMAIN rows
    PROVE  IsFiniteSet(batch) /\ \A i \in batch : rows[i] \in SettlementRow
<1>1. DOMAIN rows = 1 .. Len(rows) /\ Len(rows) \in Nat
  OBVIOUS
<1>2. IsFiniteSet(1 .. Len(rows))
  BY <1>1, FS_Interval
<1>3. IsFiniteSet(batch)
  BY <1>1, <1>2, FS_Subset
<1> QED
  BY <1>1, <1>3

LEMMA NetIsInt ==
    ASSUME NEW rows \in Seq(SettlementRow), NEW batch \in SUBSET DOMAIN rows, NEW p
    PROVE  Net(rows, batch, p) \in Int
<1> DEFINE f == [i \in batch |-> Share(rows[i], p)]
<1>1. IsFiniteSet(batch) /\ \A i \in batch : f[i] \in Int
  BY RowsFinite, ShareIsInt
<1> HIDE DEF f
<1>2. SumFunctionOnSet(f, batch) \in Int
  BY <1>1, SumType
<1> QED
  BY <1>2 DEF Net, f

LEMMA NetOfNone == ASSUME NEW rows, NEW p PROVE Net(rows, {}, p) = 0
  BY SumEmpty DEF Net

\* A net depends on the parties and amounts only.
LEMMA NetSame ==
    ASSUME NEW rows \in Seq(SettlementRow), NEW others, NEW batch \in SUBSET DOMAIN rows, NEW p,
           \A i \in batch : Share(others[i], p) = Share(rows[i], p)
    PROVE  Net(others, batch, p) = Net(rows, batch, p)
<1> DEFINE f == [i \in batch |-> Share(rows[i], p)]
           g == [i \in batch |-> Share(others[i], p)]
<1>1. IsFiniteSet(batch) /\ \A i \in batch : g[i] = f[i]
  BY RowsFinite
<1> HIDE DEF f, g
<1>2. SumFunctionOnSet(g, batch) = SumFunctionOnSet(f, batch)
  BY <1>1, SumSame
<1> QED
  BY <1>2 DEF Net, f, g

\* Two batches that share no settlement.
LEMMA NetOfBoth ==
    ASSUME NEW rows \in Seq(SettlementRow), NEW p,
           NEW some \in SUBSET DOMAIN rows, NEW more \in SUBSET DOMAIN rows, some \cap more = {}
    PROVE  Net(rows, some \cup more, p) = Net(rows, some, p) + Net(rows, more, p)
<1> DEFINE f == [i \in some |-> Share(rows[i], p)]
           g == [i \in more |-> Share(rows[i], p)]
           h == [i \in some \cup more |-> Share(rows[i], p)]
<1>1. /\ IsFiniteSet(some) /\ IsFiniteSet(more)
      /\ \A i \in some \cup more : h[i] \in Int
      /\ \A i \in some : h[i] = f[i]
      /\ \A i \in more : h[i] = g[i]
  BY RowsFinite, ShareIsInt
<1> HIDE DEF f, g, h
<1>2. SumFunctionOnSet(h, some \cup more) = SumFunctionOnSet(h, some) + SumFunctionOnSet(h, more)
  BY <1>1, SumUnion
<1>3. SumFunctionOnSet(h, some) = SumFunctionOnSet(f, some)
  BY <1>1, SumSame
<1>4. SumFunctionOnSet(h, more) = SumFunctionOnSet(g, more)
  BY <1>1, SumSame
<1> QED
  BY <1>2, <1>3, <1>4 DEF Net, f, g, h

LEMMA NetOfOne ==
    ASSUME NEW rows \in Seq(SettlementRow), NEW p, NEW i \in DOMAIN rows
    PROVE  Net(rows, {i}, p) = Share(rows[i], p)
<1> DEFINE f == [j \in {i} |-> Share(rows[j], p)]
<1>1. rows[i] \in SettlementRow /\ f[i] = Share(rows[i], p)
  OBVIOUS
<1>2. f[i] \in Int
  BY <1>1, ShareIsInt
<1> HIDE DEF f
<1>3. IsFiniteSet({i}) /\ \A y \in {i} \ {i} : f[y] = 0
  BY FS_Singleton
<1>4. SumFunctionOnSet(f, {i}) = f[i]
  BY <1>2, <1>3, SumOnly
<1> QED
  BY <1>1, <1>4 DEF Net, f

\* Who is not a party of a batch has no share in it.
LEMMA PartiesOf ==
    ASSUME NEW rows, NEW batch, NEW i \in batch
    PROVE  rows[i].debtor \in Parties(rows, batch) /\ rows[i].creditor \in Parties(rows, batch)
  BY DEF Parties

LEMMA PartiesWithin ==
    ASSUME NEW rows, NEW batch, NEW D,
           \A i \in batch : rows[i].debtor \in D /\ rows[i].creditor \in D
    PROVE  \A p \in Parties(rows, batch) : p \in D
  BY DEF Parties

LEMMA NetOfStranger ==
    ASSUME NEW rows \in Seq(SettlementRow), NEW batch \in SUBSET DOMAIN rows, NEW p,
           p \notin Parties(rows, batch)
    PROVE  Net(rows, batch, p) = 0
<1> DEFINE f == [i \in batch |-> Share(rows[i], p)]
<1>1. ASSUME NEW i \in batch PROVE f[i] = 0
  BY DEF Parties, Share
<1>2. IsFiniteSet(batch)
  BY RowsFinite
<1> HIDE DEF f
<1>3. SumFunctionOnSet(f, batch) = 0
  BY <1>1, <1>2, SumZero
<1> QED
  BY <1>3 DEF Net, f

------------------------------------------------------------------------------
(* CIPS settlement: the queue of a session: the fold of settle_rtgs along it *)

\* runs is the function that the fold iterates.
Runs(base, queue, S, runs) ==
    runs = [t \in SUBSET S |-> IF t = {} THEN base
                               ELSE SettleRtgs(runs[t \ {Max(t)}], queue[Max(t)])]

LEMMA FoldUnfolds ==
    ASSUME NEW base, NEW queue
    PROVE  FoldLeft(SettleRtgs, base, queue) =
             (CHOOSE runs : Runs(base, queue, DOMAIN queue, runs))[DOMAIN queue]
  BY DEF FoldLeft, MapThenFoldSet, Runs

LEMMA RunsOf ==
    ASSUME NEW base, NEW queue, NEW S, NEW runs, Runs(base, queue, S, runs), NEW t, t \in SUBSET S
    PROVE  runs[t] = IF t = {} THEN base ELSE SettleRtgs(runs[t \ {Max(t)}], queue[Max(t)])
<1> HIDE DEF Max, SettleRtgs
<1> QED
  BY DEF Runs

LEMMA RunsOn ==
    ASSUME NEW base, NEW queue, NEW S, NEW runs, Runs(base, queue, S, runs), NEW t, t \in SUBSET S, t # {},
           NEW m, m = Max(t)
    PROVE  runs[t] = SettleRtgs(runs[t \ {m}], queue[m])
<1>1. runs[t] = IF t = {} THEN base ELSE SettleRtgs(runs[t \ {Max(t)}], queue[Max(t)])
  BY RunsOf
<1> QED
  BY <1>1

\* The last of some positions.
LEMMA MaxOf ==
    ASSUME NEW n \in Nat, NEW t \in SUBSET (1 .. n), t # {}
    PROVE  Max(t) \in t
<1> DEFINE T == {n - i : i \in t}
<1>1. T \subseteq Nat /\ T # {}
  <2>1. \A i \in t : n - i \in Nat
    OBVIOUS
  <2> QED
    BY <2>1
<1> HIDE DEF T
<1>2. PICK x \in T : \A y \in T : x <= y
  BY <1>1, Least
<1>3. PICK i \in t : x = n - i
  BY <1>2 DEF T
<1>4. \A j \in t : i >= j
  <2> TAKE j \in t
  <2>1. n - j \in T
    BY DEF T
  <2> QED
    BY <1>2, <1>3, <2>1
<1> QED
  BY <1>3, <1>4 DEF Max

\* There is one such function, as far as it goes.
LEMMA RunsAgree ==
    ASSUME NEW base, NEW queue, NEW S, NEW T, NEW g, NEW h,
           IsFiniteSet(S), \A t \in SUBSET S : t # {} => Max(t) \in t,
           Runs(base, queue, S, g), Runs(base, queue, T, h)
    PROVE  \A s \in SUBSET (S \cap T) : g[s] = h[s]
<1> DEFINE Good == {s \in SUBSET (S \cap T) : g[s] = h[s]}
<1>1. IsFiniteSet(S \cap T)
  <2>1. S \cap T \in SUBSET S
    OBVIOUS
  <2> QED
    BY <2>1, FS_Subset
<1>2. ASSUME NEW s \in SUBSET (S \cap T), \A t \in SUBSET s : t # s => t \in Good PROVE s \in Good
  <2>0. s \in SUBSET S /\ s \in SUBSET T
    OBVIOUS
  <2>1. CASE s = {}
    <3>1. g[s] = base /\ h[s] = base
      BY <2>0, <2>1, RunsOf
    <3> QED
      BY <3>1
  <2>2. CASE s # {}
    <3> PICK m : m = Max(s)
      OBVIOUS
    <3>1. m \in s
      BY <2>0, <2>2
    <3>2. g[s \ {m}] = h[s \ {m}]
      BY <1>2, <3>1
    <3>3. g[s] = SettleRtgs(g[s \ {m}], queue[m])
      BY <2>0, <2>2, RunsOn
    <3>4. h[s] = SettleRtgs(h[s \ {m}], queue[m])
      BY <2>0, <2>2, RunsOn
    <3>5. g[s] = h[s]
      BY <3>2, <3>3, <3>4
    <3> QED
      BY <3>5
  <2> QED
    BY <2>1, <2>2
<1> HIDE DEF Good
<1>3. \A s \in SUBSET (S \cap T) : s \in Good
  BY <1>1, <1>2, FiniteSetInduction, ZenonT(90)
<1> QED
  BY <1>3 DEF Good

LEMMA RunsExist ==
    ASSUME NEW base, NEW queue, NEW n \in Nat
    PROVE  \E g : Runs(base, queue, 1 .. n, g)
<1> DEFINE S == 1 .. n
           Good == {s \in SUBSET S : \E g : Runs(base, queue, s, g)}
           runs(s) == CHOOSE g : Runs(base, queue, s, g)
           less(u) == u \ {Max(u)}
<1>1. \A s \in Good : s \in SUBSET S /\ Runs(base, queue, s, runs(s))
  OBVIOUS
<1>2. \A u \in SUBSET S : u # {} => less(u) \in SUBSET u /\ less(u) # u
  <2> TAKE u \in SUBSET S
  <2>1. u # {} => Max(u) \in u
    BY MaxOf
  <2> QED
    BY <2>1
<1>3. ASSUME NEW s \in SUBSET S, \A t \in SUBSET s : t # s => t \in Good PROVE s \in Good
  <2> DEFINE step(u, state) == SettleRtgs(state, queue[Max(u)])
             G == [u \in SUBSET s |-> IF u = {} THEN base ELSE step(u, runs(less(u))[less(u)])]
  <2> HIDE DEF runs, less, Good, S, step
  <2>0. \A v, u : v \in SUBSET S /\ u \in SUBSET v /\ Runs(base, queue, v, runs(v))
                  => runs(v)[u] = IF u = {} THEN base ELSE step(u, runs(v)[less(u)])
    <3> TAKE v, u
    <3> SUFFICES ASSUME u \in SUBSET v, Runs(base, queue, v, runs(v))
                 PROVE  runs(v)[u] = IF u = {} THEN base ELSE step(u, runs(v)[less(u)])
      OBVIOUS
    <3> QED
      BY RunsOf DEF step, less
  <2>1. ASSUME NEW u \in SUBSET s, u # {} PROVE G[less(u)] = runs(less(u))[less(u)]
    <3> PICK v : v = less(u)
      OBVIOUS
    <3>1. v \in SUBSET s /\ v # s /\ v \in SUBSET S
      BY <1>2, <2>1
    <3>2. Runs(base, queue, v, runs(v))
      BY <1>1, <1>3, <3>1
    <3>3. CASE v = {}
      <4>1. runs(v)[v] = base
        BY <2>0, <3>1, <3>2, <3>3
      <4>2. G[v] = base
        BY <3>1, <3>3
      <4> QED
        BY <4>1, <4>2
    <3>4. CASE v # {}
      <4> PICK w : w = less(v)
        OBVIOUS
      <4>1. w \in SUBSET v /\ w # v /\ w \in SUBSET s /\ w # s
        BY <1>2, <3>1, <3>4
      <4>2. Runs(base, queue, w, runs(w))
        BY <1>1, <1>3, <4>1
      <4>3. runs(v)[v] = step(v, runs(v)[w])
        BY <2>0, <3>1, <3>2, <3>4
      <4>4. runs(v)[w] = runs(w)[w]
        <5>1. w \in SUBSET (v \cap w)
          BY <4>1
        <5>3. IsFiniteSet(v) /\ \A t \in SUBSET v : t # {} => Max(t) \in t
          <6>1. v \in SUBSET (1 .. n)
            BY <3>1 DEF S
          <6>2. IsFiniteSet(v)
            <7>1. IsFiniteSet(1 .. n)
              BY FS_Interval
            <7> QED
              BY <6>1, <7>1, FS_Subset
          <6>3. \A t \in SUBSET v : t \in SUBSET (1 .. n)
            BY <6>1
          <6> QED
            BY <6>2, <6>3, MaxOf
        <5> PICK g : g = runs(v)
          OBVIOUS
        <5> PICK h : h = runs(w)
          OBVIOUS
        <5>2. \A t \in SUBSET (v \cap w) : g[t] = h[t]
          BY <3>2, <4>2, <5>3, RunsAgree
        <5> QED
          BY <5>1, <5>2
      <4>5. G[v] = step(v, runs(w)[w])
        BY <3>1, <3>4
      <4> QED
        BY <4>3, <4>4, <4>5
    <3> QED
      BY <3>3, <3>4
  <2>2. G = [u \in SUBSET s |-> IF u = {} THEN base ELSE step(u, G[less(u)])]
    <3> DEFINE H == [u \in SUBSET s |-> IF u = {} THEN base ELSE step(u, G[less(u)])]
    <3>1. \A u \in SUBSET s : u # {} => G[less(u)] = runs(less(u))[less(u)]
      BY <2>1
    <3>2. \A u \in SUBSET s : G[u] = IF u = {} THEN base ELSE step(u, runs(less(u))[less(u)])
      OBVIOUS
    <3> HIDE DEF G
    <3>3. \A u \in SUBSET s : H[u] = G[u]
      BY <3>1, <3>2
    <3>4. DOMAIN G = SUBSET s /\ G = [u \in DOMAIN G |-> G[u]]
      BY DEF G
    <3>5. DOMAIN H = SUBSET s /\ H = [u \in DOMAIN H |-> H[u]]
      OBVIOUS
    <3> HIDE DEF H
    <3>6. G = H
      BY <3>3, <3>4, <3>5
    <3> QED
      BY <3>6 DEF H
  <2>3. Runs(base, queue, s, G)
    <3> HIDE DEF G
    <3> QED
      BY <2>2 DEF Runs, step, less
  <2> QED
    <3> HIDE DEF G
    <3> QED
      BY <2>3 DEF Good
<1>4. IsFiniteSet(S)
  BY FS_Interval
<1> HIDE DEF Good
<1> HIDE DEF S
<1>5. S \in Good
  BY <1>3, <1>4, FiniteSetInduction
<1> QED
  BY <1>5 DEF Good, S

\* Accounts, loaded rows, and those of the rows that are to be settled.
QueueOf(accounts, rows, queue) ==
    /\ AccountsOf(accounts, Nat)
    /\ rows \in Seq(SettlementRow)
    /\ queue \in SUBSET DOMAIN rows
    /\ \A j \in queue : Placed(rows[j], accounts)

\* What settle_rtgs has made of the accounts and rows after some of the queue.
OnTheWay(s, accounts, rows, queue) ==
    /\ s.account \in [DOMAIN accounts -> Int]
    /\ s.told \in SUBSET queue
    /\ DOMAIN s.settlement = DOMAIN rows
    /\ \A i \in DOMAIN rows : s.settlement[i] = IF i \in s.told THEN [rows[i] EXCEPT !.status = "SETTLED"] ELSE rows[i]
    /\ \A p \in DOMAIN accounts : s.account[p] = accounts[p] + Net(rows, s.told, p)

\* The amount of a settlement, taken from one account and added to another
\* or to the same.
LEMMA AmountMoves ==
    ASSUME NEW D, NEW a, a \in [D -> Int], NEW d, d \in D, NEW r, r \in D, NEW n, n \in Nat
    PROVE  /\ MoveAmount(a, d, n, r, n) \in [D -> Int]
           /\ \A p \in D : MoveAmount(a, d, n, r, n)[p] = a[p] + ((IF r = p THEN n ELSE 0) - (IF d = p THEN n ELSE 0))
<1> DEFINE after == MoveAmount(a, d, n, r, n)
<1> DEFINE taken == [a EXCEPT ![d] = a[d] - n]
<1>1. after = [taken EXCEPT ![r] = taken[r] + n]
  BY DEF MoveAmount
<1>2. taken \in [D -> Int] /\ \A p \in D : taken[p] = IF p = d THEN a[p] - n ELSE a[p]
  OBVIOUS
<1> HIDE DEF taken
<1>3. after \in [D -> Int] /\ \A p \in D : after[p] = IF p = r THEN taken[p] + n ELSE taken[p]
  BY <1>1, <1>2
<1>4. \A p \in D : a[p] \in Int
  OBVIOUS
<1> HIDE DEF after
<1>5. after \in [D -> Int]
      /\ \A p \in D : after[p] = a[p] + ((IF r = p THEN n ELSE 0) - (IF d = p THEN n ELSE 0))
  BY <1>2, <1>3, <1>4
<1> QED
  BY <1>5 DEF after

LEMMA SettlementMoves ==
    ASSUME NEW D, NEW a, NEW row, a \in [D -> Int], row.debtor \in D, row.creditor \in D, row.amount \in Nat,
           NEW after, after = MoveAmount(a, row.debtor, row.amount, row.creditor, row.amount)
    PROVE  after \in [D -> Int] /\ \A p \in D : after[p] = a[p] + Share(row, p)
  BY AmountMoves DEF Share

\* One settlement of the queue: it is settled already, or it waits, or its
\* amount moves and it is paid.
LEMMA SettleOne ==
    ASSUME NEW accounts, NEW rows, NEW queue, QueueOf(accounts, rows, queue),
           NEW s, OnTheWay(s, accounts, rows, queue), NEW i, i \in queue
    PROVE  OnTheWay(SettleRtgs(s, i), accounts, rows, queue)
<1> DEFINE t == s.settlement[i]
           after == MoveAmount(s.account, t.debtor, t.amount, t.creditor, t.amount)
           paid == s.told \cup {i}
           next == [account |-> after,
                    settlement |-> [s.settlement EXCEPT ![i].status = "SETTLED"],
                    told |-> paid]
<1>1. CASE t.status = "SETTLED" \/ s.account[t.debtor] < t.amount
  <2>1. SettleRtgs(s, i) = s
    BY <1>1 DEF SettleRtgs
  <2> QED
    BY <2>1
<1>2. CASE ~(t.status = "SETTLED" \/ s.account[t.debtor] < t.amount)
  <2>1. SettleRtgs(s, i) = next
    BY <1>2 DEF SettleRtgs
  <2>2. rows[i] \in SettlementRow /\ rows[i].amount \in Nat /\ Placed(rows[i], accounts) /\ i \in DOMAIN rows
    <3>1. rows[i] \in SettlementRow /\ Placed(rows[i], accounts) /\ i \in DOMAIN rows
      BY DEF QueueOf
    <3> QED
      BY <3>1 DEF SettlementRow
  <2>3. i \notin s.told /\ t = rows[i]
    <3>1. i \in s.told => t.status = "SETTLED"
      BY <2>2 DEF OnTheWay, SettlementRow
    <3> QED
      BY <1>2, <2>2, <3>1 DEF OnTheWay
  <2>4. /\ after \in [DOMAIN accounts -> Int]
        /\ \A p \in DOMAIN accounts : after[p] = s.account[p] + Share(rows[i], p)
    <3>1. s.account \in [DOMAIN accounts -> Int] /\ t.debtor \in DOMAIN accounts /\ t.creditor \in DOMAIN accounts
      BY <2>2, <2>3 DEF OnTheWay, Placed
    <3>2. t.amount \in Nat
      BY <2>2, <2>3
    <3>3. after = MoveAmount(s.account, t.debtor, t.amount, t.creditor, t.amount)
      OBVIOUS
    <3> HIDE DEF after, t
    <3>4. after \in [DOMAIN accounts -> Int] /\ \A p \in DOMAIN accounts : after[p] = s.account[p] + Share(t, p)
      BY <3>1, <3>2, <3>3, SettlementMoves
    <3> QED
      BY <2>3, <3>4
  <2>5. ASSUME NEW p \in DOMAIN accounts PROVE after[p] = accounts[p] + Net(rows, paid, p)
    <3>1. s.told \in SUBSET DOMAIN rows /\ {i} \in SUBSET DOMAIN rows /\ s.told \cap {i} = {}
      BY <2>2, <2>3 DEF OnTheWay, QueueOf
    <3>0. rows \in Seq(SettlementRow)
      BY DEF QueueOf
    <3>2. Net(rows, paid, p) = Net(rows, s.told, p) + Net(rows, {i}, p)
      BY <3>0, <3>1, NetOfBoth
    <3>3. Net(rows, {i}, p) = Share(rows[i], p)
      BY <2>2, <3>0, NetOfOne
    <3>4. s.account[p] = accounts[p] + Net(rows, s.told, p)
      BY DEF OnTheWay
    <3>5. Net(rows, s.told, p) \in Int /\ Share(rows[i], p) \in Int /\ accounts[p] \in Int
      BY <2>2, <3>0, <3>1, NetIsInt, ShareIsInt DEF AccountsOf, QueueOf
    <3> QED
      BY <2>4, <3>2, <3>3, <3>4, <3>5
  <2>6. /\ DOMAIN [s.settlement EXCEPT ![i].status = "SETTLED"] = DOMAIN rows
        /\ \A j \in DOMAIN rows : [s.settlement EXCEPT ![i].status = "SETTLED"][j] =
             IF j \in paid THEN [rows[j] EXCEPT !.status = "SETTLED"] ELSE rows[j]
    BY <2>2, <2>3 DEF OnTheWay
  <2>7. paid \in SUBSET queue
    BY DEF OnTheWay
  <2> HIDE DEF after, paid
  <2>8. OnTheWay(next, accounts, rows, queue)
    BY <2>4, <2>5, <2>6, <2>7 DEF OnTheWay
  <2> QED
    BY <2>1, <2>8
<1> QED
  BY <1>1, <1>2

\* All of the queue, in whatever order.
LEMMA QueueSettles ==
    ASSUME NEW accounts, NEW rows, NEW queue, QueueOf(accounts, rows, queue),
           NEW n \in Nat, NEW q \in [1 .. n -> queue]
    PROVE  OnTheWay(FoldLeft(SettleRtgs, [account |-> accounts, settlement |-> rows, told |-> {}], q),
                    accounts, rows, queue)
<1> DEFINE base == [account |-> accounts, settlement |-> rows, told |-> {}]
           S == 1 .. n
           runs == CHOOSE g : Runs(base, q, S, g)
           Good == {t \in SUBSET S : OnTheWay(runs[t], accounts, rows, queue)}
<1>1. DOMAIN q = S /\ FoldLeft(SettleRtgs, base, q) = runs[S]
  BY FoldUnfolds
<1>2. Runs(base, q, S, runs)
  BY RunsExist
<1>3. OnTheWay(base, accounts, rows, queue)
  BY NetOfNone DEF OnTheWay, AccountsOf, QueueOf
<1> HIDE DEF base, runs
<1>4. ASSUME NEW t \in SUBSET S, \A u \in SUBSET t : u # t => u \in Good PROVE t \in Good
  <2>1. CASE t = {}
    <3>1. runs[t] = base
      BY <1>2, <2>1, RunsOf
    <3> QED
      BY <1>3, <3>1
  <2>2. CASE t # {}
    <3> PICK m : m = Max(t)
      OBVIOUS
    <3>1. m \in t
      BY <2>2, MaxOf
    <3>2. runs[t] = SettleRtgs(runs[t \ {m}], q[m])
      <4> HIDE DEF S
      <4> QED
        BY <1>2, <2>2, RunsOn
    <3>3. OnTheWay(runs[t \ {m}], accounts, rows, queue)
      BY <1>4, <3>1
    <3>4. q[m] \in queue
      BY <3>1
    <3>5. OnTheWay(SettleRtgs(runs[t \ {m}], q[m]), accounts, rows, queue)
      BY <3>3, <3>4, SettleOne
    <3> QED
      BY <3>2, <3>5
  <2> QED
    BY <2>1, <2>2
<1>5. IsFiniteSet(S)
  BY FS_Interval
<1> HIDE DEF Good, S
<1>6. S \in Good
  BY <1>4, <1>5, FiniteSetInduction
<1> QED
  BY <1>1, <1>6 DEF Good, base

------------------------------------------------------------------------------
(* CIPS settlement: what a commit makes of the accounts and the rows *)

\* A session that has moved every balance by the net of what it tells writes
\* just that, if the accounts of the parties are still the ones it had read.
Netted(accounts, loaded, new, rows, paid) ==
    /\ AccountsOf(accounts, Nat) /\ AccountsOf(loaded, Nat)
    /\ DOMAIN loaded \subseteq DOMAIN accounts
    /\ rows \in Seq(SettlementRow) /\ paid \in SUBSET DOMAIN rows
    /\ \A i \in paid : Placed(rows[i], loaded)
    /\ new \in [DOMAIN loaded -> Int]
    /\ \A p \in DOMAIN loaded : new[p] = loaded[p] + Net(rows, paid, p)

Carried(accounts, loaded, rows, paid, written) ==
    /\ written \in [DOMAIN accounts -> Int]
    /\ (\A p \in Parties(rows, paid) : accounts[p] = loaded[p]) =>
         \A p \in DOMAIN accounts : written[p] = accounts[p] + Net(rows, paid, p)

LEMMA AccountsWritten ==
    ASSUME NEW accounts, NEW loaded, NEW new, NEW rows, NEW paid,
           Netted(accounts, loaded, new, rows, paid),
           NEW written, written = Put(Flush([p \in DOMAIN loaded |-> accounts[p]], loaded, new), accounts)
    PROVE  Carried(accounts, loaded, rows, paid, written)
<1>1. \A p \in DOMAIN accounts : accounts[p] \in Nat
  BY DEF AccountsOf, Netted
<1>2. \A p \in DOMAIN loaded : p \in DOMAIN accounts /\ loaded[p] \in Nat /\ new[p] \in Int
  BY DEF AccountsOf, Netted
<1>3. /\ DOMAIN written = DOMAIN accounts /\ written = [p \in DOMAIN written |-> written[p]]
      /\ \A p \in DOMAIN accounts :
           written[p] = IF p \in DOMAIN loaded /\ new[p] # loaded[p] THEN new[p] ELSE accounts[p]
  BY <1>2 DEF Put, Flush
<1>4. written \in [DOMAIN accounts -> Int]
  <2>1. \A p \in DOMAIN accounts : written[p] \in Int
    BY <1>1, <1>2, <1>3
  <2> QED
    BY <1>3, <2>1
<1>5. ASSUME \A p \in Parties(rows, paid) : accounts[p] = loaded[p], NEW p \in DOMAIN accounts
      PROVE  written[p] = accounts[p] + Net(rows, paid, p)
  <2>1. Net(rows, paid, p) \in Int
    BY NetIsInt DEF Netted
  <2>2. CASE p \in Parties(rows, paid)
    <3>1. p \in DOMAIN loaded
      BY <2>2 DEF Parties, Placed, Netted
    <3>2. accounts[p] = loaded[p] /\ new[p] = loaded[p] + Net(rows, paid, p)
      BY <1>5, <2>2, <3>1 DEF Netted
    <3> QED
      BY <1>1, <1>3, <2>1, <3>1, <3>2
  <2>3. CASE p \notin Parties(rows, paid)
    <3>1. Net(rows, paid, p) = 0
      BY <2>3, NetOfStranger DEF Netted
    <3>2. p \in DOMAIN loaded => new[p] = loaded[p]
      BY <1>2, <3>1 DEF Netted
    <3>3. written[p] = accounts[p]
      BY <1>3, <3>2
    <3> QED
      BY <1>1, <3>1, <3>3
  <2> QED
    BY <2>2, <2>3
<1> QED
  BY <1>4, <1>5 DEF Carried

\* Rows that are settled or inserted keep their parties and amounts.
Follow(rows, others) == \A i \in DOMAIN rows : \A p : Share(others[i], p) = Share(rows[i], p)

LEMMA NetGrows ==
    ASSUME NEW rows, NEW others, NEW paid, NEW p,
           rows \in Seq(SettlementRow), others \in Seq(SettlementRow),
           DOMAIN rows \subseteq DOMAIN others, Follow(rows, others),
           paid \in SUBSET DOMAIN others, \A i \in paid : i \notin Settled(rows),
           \A i : i \in Settled(others) <=> i \in Settled(rows) \/ i \in paid
    PROVE  Net(others, Settled(others), p) = Net(rows, Settled(rows), p) + Net(others, paid, p)
<1>1. Settled(rows) \in SUBSET DOMAIN rows /\ Settled(rows) \in SUBSET DOMAIN others
  BY DEF Settled
<1>5. Settled(others) = Settled(rows) \cup paid /\ paid \cap Settled(rows) = {}
  OBVIOUS
<1>2. Net(others, Settled(rows) \cup paid, p) = Net(others, Settled(rows), p) + Net(others, paid, p)
  BY <1>1, <1>5, NetOfBoth
<1>3. \A i \in Settled(rows) : Share(others[i], p) = Share(rows[i], p)
  BY <1>1 DEF Follow
<1>4. Net(others, Settled(rows), p) = Net(rows, Settled(rows), p)
  BY <1>1, <1>3, NetSame
<1> QED
  BY <1>2, <1>4, <1>5

------------------------------------------------------------------------------
(* CIPS settlement: what open requests have read *)

\* What a request has read lasts: accounts and settlements are never deleted.
LEMMA ReadsLast ==
    ASSUME NEW r, NEW accounts, NEW rows, NEW more, NEW longer, CipsReads(r, accounts, rows),
           DOMAIN accounts \subseteq DOMAIN more,
           rows \in Seq(SettlementRow), longer \in Seq(SettlementRow), Len(rows) <= Len(longer)
    PROVE  CipsReads(r, more, longer)
<1>0. Len(rows) \in Int /\ Len(longer) \in Int
  OBVIOUS
<1>1. Submits(r, more)
  BY DEF CipsReads, Submits
<1>2. ASSUME NEW loaded, NEW batch, MaySettle(loaded, batch, accounts, rows)
      PROVE  MaySettle(loaded, batch, more, longer)
  <2>1. Len(loaded.settlement) \in Int
    BY <1>2 DEF MaySettle
  <2>2. Len(loaded.settlement) <= Len(longer)
    BY <1>0, <1>2, <2>1 DEF MaySettle
  <2> QED
    BY <1>2, <2>2 DEF MaySettle
<1>3. ReadsQueue(r, more, longer)
  BY <1>2 DEF CipsReads, ReadsQueue
<1>4. Settles(r, more, longer)
  BY <1>2 DEF CipsReads, Settles
<1> QED
  BY <1>1, <1>3, <1>4 DEF CipsReads

\* The step of client c leaves it with r.
LEMMA CipsStep ==
    ASSUME CipsInv, NEW c \in Client, NEW r, req' = [req EXCEPT ![c] = r], stale' \in BOOLEAN,
           CipsRows', Explained', DOMAIN account \subseteq DOMAIN account',
           Len(settlement) <= Len(settlement'), CipsReads(r, account', settlement')
    PROVE  CipsInv'
<1>1. DOMAIN req = Client /\ DOMAIN req' = Client
  BY DEF CipsInv
<1>2. settlement \in Seq(SettlementRow) /\ settlement' \in Seq(SettlementRow)
  BY DEF CipsInv, CipsRows
<1>3. ASSUME NEW d \in Client PROVE CipsReads(req'[d], account', settlement')
  <2>1. CASE d = c
    BY <1>1, <2>1
  <2>2. CASE d # c
    <3>1. req'[d] = req[d] /\ CipsReads(req[d], account, settlement)
      BY <1>1, <2>2 DEF CipsInv
    <3>2. CipsReads(req[d], account', settlement')
      BY <1>2, <3>1, ReadsLast
    <3> QED
      BY <3>1, <3>2
  <2> QED
    BY <2>1, <2>2
<1> QED
  BY <1>1, <1>3 DEF CipsInv

\* ... without having written.
LEMMA CipsReading ==
    ASSUME CipsInv, NEW c \in Client, NEW r, req' = [req EXCEPT ![c] = r], stale' = stale,
           UNCHANGED cipsVars, CipsReads(r, account, settlement)
    PROVE  CipsInv'
<1>1. CipsRows' /\ Explained' /\ stale' \in BOOLEAN
  BY DEF CipsInv, CipsRows, Explained, SettlementsExplainBalances, cipsVars
<1>2. account' = account /\ settlement' = settlement
  BY DEF cipsVars
<1>3. Len(settlement) <= Len(settlement')
  <2>1. Len(settlement) \in Int
    BY DEF CipsInv, CipsRows
  <2> QED
    BY <1>2, <2>1
<1> QED
  BY <1>1, <1>2, <1>3, CipsStep

LEMMA NoReads == ASSUME NEW accounts, NEW rows PROVE CipsReads(Idle, accounts, rows)
  BY DEF Idle, CipsReads, Submits, ReadsQueue, Settles

\* No request opens or ends.
LEMMA CipsAtOnce ==
    ASSUME CipsInv, UNCHANGED <<req, stale>>, CipsRows', Explained',
           DOMAIN account \subseteq DOMAIN account', Len(settlement) <= Len(settlement')
    PROVE  CipsInv'
<1>1. settlement \in Seq(SettlementRow) /\ settlement' \in Seq(SettlementRow)
  BY DEF CipsInv, CipsRows
<1>2. ASSUME NEW d \in Client PROVE CipsReads(req'[d], account', settlement')
  <2>1. req'[d] = req[d] /\ CipsReads(req[d], account, settlement)
    BY DEF CipsInv
  <2>2. CipsReads(req[d], account', settlement')
    BY <1>1, <2>1, ReadsLast
  <2> QED
    BY <2>1, <2>2
<1> QED
  BY <1>2 DEF CipsInv

LEMMA CipsUnchanged ==
    ASSUME CipsInv, UNCHANGED <<req, stale>>, UNCHANGED <<account, funded, settlement, settledMsg>>
    PROVE  CipsInv'
  BY DEF CipsInv, CipsRows, Explained, SettlementsExplainBalances

------------------------------------------------------------------------------
(* CIPS settlement: the steps *)

\* A new account is that of nobody whose settlements are settled.
LEMMA OpenAccountKeeps ==
    ASSUME CipsInv, NEW c \in Client, NEW p \in Participant, NEW n \in Nat, OpenAccount(c, p, n)
    PROVE  CipsInv'
<1>1. /\ UNCHANGED <<req, stale, settlement, settledMsg>>
      /\ account' = Put(OneRow(p, n), account) /\ funded' = Put(OneRow(p, n), funded)
      /\ p \notin DOMAIN account
  BY DEF OpenAccount, AtOnce
<1>2. /\ AccountsOf(account, Nat) /\ AccountsOf(funded, Nat) /\ DOMAIN funded = DOMAIN account
      /\ settlement \in Seq(SettlementRow)
  BY DEF CipsInv, CipsRows
<1>3. ASSUME NEW accounts, AccountsOf(accounts, Nat)
      PROVE  /\ AccountsOf(Put(OneRow(p, n), accounts), Nat)
             /\ DOMAIN Put(OneRow(p, n), accounts) = DOMAIN accounts \cup {p}
             /\ \A q \in DOMAIN accounts \cup {p} : Put(OneRow(p, n), accounts)[q] = IF q = p THEN n ELSE accounts[q]
  BY <1>3 DEF Put, OneRow, AccountsOf
<1>4. /\ AccountsOf(account', Nat) /\ AccountsOf(funded', Nat)
      /\ DOMAIN account' = DOMAIN account \cup {p} /\ DOMAIN funded' = DOMAIN account'
      /\ \A q \in DOMAIN account : q # p /\ account'[q] = account[q] /\ funded'[q] = funded[q]
      /\ account'[p] = n /\ funded'[p] = n
  BY <1>1, <1>2, <1>3
<1>5. CipsRows'
  BY <1>1, <1>4 DEF CipsInv, CipsRows, Placed
<1>6. Explained'
  <2> SUFFICES ASSUME ~stale' PROVE SettlementsExplainBalances' /\ \A i \in Settled(settlement) : Placed(settlement[i], account')
    BY <1>1 DEF Explained
  <2>1. /\ \A q \in DOMAIN account : account[q] = funded[q] + Net(settlement, Settled(settlement), q)
        /\ \A i \in DOMAIN settlement : settledMsg[i] = IF settlement[i].status = "SETTLED" THEN 1 ELSE 0
        /\ \A i \in Settled(settlement) : Placed(settlement[i], account)
    BY <1>1 DEF CipsInv, Explained, SettlementsExplainBalances
  <2>2. Net(settlement, Settled(settlement), p) = 0
    <3>1. p \notin Parties(settlement, Settled(settlement))
      BY <1>1, <2>1 DEF Parties, Placed
    <3>2. Settled(settlement) \in SUBSET DOMAIN settlement
      BY DEF Settled
    <3> QED
      BY <1>2, <3>1, <3>2, NetOfStranger
  <2>3. \A q \in DOMAIN account' : account'[q] = funded'[q] + Net(settlement, Settled(settlement), q)
    BY <1>4, <2>1, <2>2
  <2> QED
    BY <1>1, <1>4, <2>1, <2>3 DEF SettlementsExplainBalances, Placed
<1>7. Len(settlement) <= Len(settlement')
  BY <1>1, <1>2
<1> QED
  BY <1>1, <1>4, <1>5, <1>6, <1>7, CipsAtOnce

\* A settlement is appended, settled or not.
Extended(rows, row, more, new) ==
    /\ more \in Seq(SettlementRow) /\ Len(rows) \in Nat /\ Len(more) = Len(rows) + 1
    /\ \A i : i \in DOMAIN more <=> i \in DOMAIN rows \/ i = new
    /\ new \notin DOMAIN rows
    /\ \A i \in DOMAIN rows : more[i] = rows[i]
    /\ more[new] = row
    /\ Follow(rows, more)
    /\ \A i : i \in Settled(more) <=> i \in Settled(rows) \/ (row.status = "SETTLED" /\ i = new)

LEMMA Appended ==
    ASSUME NEW rows, rows \in Seq(SettlementRow), NEW row, row \in SettlementRow,
           NEW more, more = Append(rows, row), NEW new, new = Len(rows) + 1
    PROVE  Extended(rows, row, more, new)
<1>1. /\ more \in Seq(SettlementRow) /\ Len(rows) \in Nat /\ Len(more) = Len(rows) + 1
      /\ \A i : i \in DOMAIN more <=> i \in DOMAIN rows \/ i = new
      /\ new \notin DOMAIN rows
      /\ \A i \in DOMAIN rows : more[i] = rows[i]
      /\ more[new] = row
  OBVIOUS
<1>2. Follow(rows, more)
  BY <1>1 DEF Follow
<1>3. \A i : i \in Settled(more) <=> i \in Settled(rows) \/ (row.status = "SETTLED" /\ i = new)
  BY <1>1 DEF Settled
<1> QED
  BY <1>1, <1>2, <1>3 DEF Extended

LEMMA CountAppended ==
    ASSUME NEW counts, counts \in Seq(Nat), NEW n, n \in Nat, NEW more, more = Append(counts, n)
    PROVE  /\ more \in Seq(Nat) /\ Len(more) = Len(counts) + 1
           /\ DOMAIN counts = 1 .. Len(counts)
           /\ \A i \in DOMAIN counts : more[i] = counts[i]
           /\ more[Len(counts) + 1] = n
  OBVIOUS

\* The row is inserted, announced n times, and if it is settled its amount
\* has moved.
Appends(row, n) ==
    /\ row \in SettlementRow /\ n \in Nat
    /\ settlement' = Append(settlement, row) /\ settledMsg' = Append(settledMsg, n)
    /\ AccountsOf(account', Nat) /\ DOMAIN account' = DOMAIN account /\ funded' = funded
    /\ row.mode = "RTGS" => Placed(row, account)
    /\ ~stale' => /\ ~stale
                  /\ n = IF row.status = "SETTLED" THEN 1 ELSE 0
                  /\ row.status = "SETTLED" => Placed(row, account)
                  /\ \A p \in DOMAIN account : account'[p] = account[p] +
                       (IF row.status = "SETTLED" THEN Share(row, p) ELSE 0)

LEMMA AppendKeeps ==
    ASSUME CipsInv, NEW row, NEW n, Appends(row, n)
    PROVE  CipsRows' /\ Explained' /\ Len(settlement) <= Len(settlement')
<1> PICK rows : rows = settlement
  OBVIOUS
<1> PICK more : more = settlement'
  OBVIOUS
<1> PICK new : new = Len(rows) + 1
  OBVIOUS
<1>1. /\ rows \in Seq(SettlementRow) /\ settledMsg \in Seq(Nat) /\ Len(settledMsg) = Len(rows)
      /\ AccountsOf(account, Nat) /\ AccountsOf(funded, Nat) /\ DOMAIN funded = DOMAIN account
      /\ \A i \in DOMAIN rows : rows[i].mode = "RTGS" => Placed(rows[i], account)
      /\ row \in SettlementRow /\ n \in Nat
      /\ more = Append(rows, row)
  BY DEF CipsInv, CipsRows, Appends
<1>2. /\ more \in Seq(SettlementRow) /\ Len(rows) \in Nat /\ Len(more) = Len(rows) + 1
      /\ \A i : i \in DOMAIN more <=> i \in DOMAIN rows \/ i = new
      /\ new \notin DOMAIN rows
      /\ \A i \in DOMAIN rows : more[i] = rows[i]
      /\ more[new] = row
      /\ Follow(rows, more)
      /\ \A i : i \in Settled(more) <=> i \in Settled(rows) \/ (row.status = "SETTLED" /\ i = new)
  <2>1. Extended(rows, row, more, new)
    BY <1>1, Appended
  <2> QED
    BY <2>1 DEF Extended
<1>3. /\ settledMsg' \in Seq(Nat) /\ Len(settledMsg') = Len(settledMsg) + 1
      /\ \A i \in DOMAIN rows : settledMsg'[i] = settledMsg[i]
      /\ settledMsg'[new] = n
  <2>1. settledMsg' = Append(settledMsg, n)
    BY DEF Appends
  <2> QED
    BY <1>1, <1>2, <2>1, CountAppended
<1>4. CipsRows'
  <2>1. AccountsOf(account', Nat) /\ DOMAIN account' = DOMAIN account /\ funded' = funded
        /\ (row.mode = "RTGS" => Placed(row, account))
    BY DEF Appends
  <2> QED
    BY <1>1, <1>2, <1>3, <2>1 DEF CipsRows, Placed
<1>5. ASSUME ~stale' PROVE SettlementsExplainBalances' /\ \A i \in Settled(more) : Placed(more[i], account')
  <2>0. /\ ~stale /\ DOMAIN account' = DOMAIN account /\ funded' = funded
        /\ n = IF row.status = "SETTLED" THEN 1 ELSE 0
        /\ row.status = "SETTLED" => Placed(row, account)
        /\ \A p \in DOMAIN account : account'[p] = account[p] +
             (IF row.status = "SETTLED" THEN Share(row, p) ELSE 0)
    BY <1>5 DEF Appends
  <2> PICK paid : paid = IF row.status = "SETTLED" THEN {new} ELSE {}
    OBVIOUS
  <2>1. /\ \A p \in DOMAIN account : account[p] = funded[p] + Net(rows, Settled(rows), p)
        /\ \A i \in DOMAIN rows : settledMsg[i] = IF rows[i].status = "SETTLED" THEN 1 ELSE 0
        /\ \A i \in Settled(rows) : Placed(rows[i], account)
    BY <2>0 DEF CipsInv, Explained, SettlementsExplainBalances
  <2>2. \A i \in Settled(more) : Placed(more[i], account')
    BY <1>2, <2>0, <2>1 DEF Placed, Settled
  <2>3. \A i \in DOMAIN more : settledMsg'[i] = IF more[i].status = "SETTLED" THEN 1 ELSE 0
    BY <1>2, <1>3, <2>0, <2>1
  <2>4. ASSUME NEW p \in DOMAIN account PROVE account'[p] = funded[p] + Net(more, Settled(more), p)
    <3>1. paid \in SUBSET DOMAIN more /\ (\A i \in paid : i \notin Settled(rows)) /\ DOMAIN rows \subseteq DOMAIN more
      BY <1>2 DEF Settled
    <3>2. Net(more, Settled(more), p) = Net(rows, Settled(rows), p) + Net(more, paid, p)
      <4>1. \A i : i \in Settled(more) <=> i \in Settled(rows) \/ i \in paid
        BY <1>2
      <4> QED
        <5>1. rows \in Seq(SettlementRow) /\ more \in Seq(SettlementRow) /\ Follow(rows, more)
          BY <1>1, <1>2
        <5> QED
          BY <3>1, <4>1, <5>1, NetGrows
    <3>3. Net(more, paid, p) = IF row.status = "SETTLED" THEN Share(row, p) ELSE 0
      <4>1. Net(more, {new}, p) = Share(more[new], p)
        BY <1>2, NetOfOne
      <4>2. Net(more, {}, p) = 0
        BY NetOfNone
      <4> QED
        BY <1>2, <4>1, <4>2
    <3>4. /\ account'[p] = account[p] + (IF row.status = "SETTLED" THEN Share(row, p) ELSE 0)
          /\ account[p] = funded[p] + Net(rows, Settled(rows), p)
      BY <2>0, <2>1
    <3>5. funded[p] \in Int /\ Net(rows, Settled(rows), p) \in Int /\ Share(row, p) \in Int
      <4>1. Settled(rows) \in SUBSET DOMAIN rows
        BY DEF Settled
      <4> QED
        BY <1>1, <4>1, NetIsInt, ShareIsInt DEF AccountsOf
    <3> QED
      BY <3>2, <3>3, <3>4, <3>5
  <2> QED
    BY <1>1, <2>0, <2>2, <2>3, <2>4 DEF SettlementsExplainBalances
<1>6. Explained'
  BY <1>5 DEF Explained
<1> QED
  BY <1>2, <1>4, <1>6

LEMMA SubmitDnsKeeps ==
    ASSUME CipsInv, NEW c \in Client, NEW row \in Submission, SubmitDns(c, row)
    PROVE  CipsInv'
<1>1. /\ UNCHANGED <<req, stale, account, funded>>
      /\ settlement' = Append(settlement, row) /\ settledMsg' = Append(settledMsg, 0)
      /\ row.mode = "DNS"
  BY DEF SubmitDns, AtOnce
<1>2. row \in SettlementRow /\ row.status = "QUEUED"
  BY DEF Submission
<1>3. /\ AccountsOf(account, Nat) /\ \A p \in DOMAIN account : account[p] = account[p] + 0
  <2>1. AccountsOf(account, Nat)
    BY DEF CipsInv, CipsRows
  <2> QED
    BY <2>1 DEF AccountsOf
<1>4. CipsRows' /\ Explained' /\ Len(settlement) <= Len(settlement')
  <2>1. Appends(row, 0)
    BY <1>1, <1>2, <1>3 DEF Appends
  <2> QED
    BY <2>1, AppendKeeps
<1> QED
  BY <1>1, <1>4, CipsAtOnce

LEMMA ReadSubmitRtgsKeeps ==
    ASSUME CipsInv, NEW c \in Client, NEW row \in Submission, ReadSubmitRtgs(c, row)
    PROVE  CipsInv'
<1> PICK r : r = [op |-> "cips_submit", row |-> row, loaded |-> account]
  OBVIOUS
<1>1. /\ req' = [req EXCEPT ![c] = r] /\ stale' = stale /\ UNCHANGED cipsVars
      /\ Placed(row, account)
  BY DEF ReadSubmitRtgs, Open, HasAccount, Placed
<1>2. AccountsOf(account, Nat)
  BY DEF CipsInv, CipsRows
<1>3. CipsReads(r, account, settlement)
  BY <1>1, <1>2 DEF CipsReads, Submits, ReadsQueue, Settles
<1> QED
  BY <1>1, <1>3, CipsReading

\* The session that has read the accounts settles its own row or leaves it.
SettledOnce(one, row, loaded) ==
    /\ OnTheWay(one, loaded, <<row>>, {1})
    /\ one.settlement[1] \in SettlementRow
    /\ one.settlement[1].mode = row.mode
    /\ one.settlement[1].debtor = row.debtor /\ one.settlement[1].creditor = row.creditor
    /\ \A p : Share(one.settlement[1], p) = Share(row, p)
    /\ one.settlement[1].status = IF 1 \in one.told THEN "SETTLED" ELSE "QUEUED"
    /\ one.told \in {{}, {1}}

LEMMA OneSettles ==
    ASSUME NEW row, row \in Submission, NEW loaded, AccountsOf(loaded, Nat), Placed(row, loaded),
           NEW one, one = SettleRtgs([account |-> loaded, settlement |-> <<row>>, told |-> {}], 1)
    PROVE  SettledOnce(one, row, loaded)
<1> PICK rows : rows = <<row>>
  OBVIOUS
<1> PICK base : base = [account |-> loaded, settlement |-> rows, told |-> {}]
  OBVIOUS
<1>1. row \in SettlementRow /\ row.status = "QUEUED"
  BY DEF Submission
<1>2. rows \in Seq(SettlementRow) /\ DOMAIN rows = {1} /\ rows[1] = row
  BY <1>1
<1>3. QueueOf(loaded, rows, {1})
  BY <1>2 DEF QueueOf
<1>4. OnTheWay(base, loaded, rows, {1})
  BY <1>2, NetOfNone DEF OnTheWay, AccountsOf
<1>5. OnTheWay(one, loaded, rows, {1})
  <2>1. one = SettleRtgs(base, 1)
    OBVIOUS
  <2> QED
    BY <1>3, <1>4, <2>1, SettleOne
<1>6. /\ one.told \in SUBSET {1}
      /\ one.settlement[1] = IF 1 \in one.told THEN [row EXCEPT !.status = "SETTLED"] ELSE row
  BY <1>2, <1>5 DEF OnTheWay
<1>7. one.settlement[1] \in SettlementRow
  BY <1>1, <1>6 DEF SettlementRow, SettlementStatus
<1>8. /\ one.settlement[1].mode = row.mode
      /\ one.settlement[1].debtor = row.debtor /\ one.settlement[1].creditor = row.creditor
      /\ one.settlement[1].amount = row.amount
      /\ one.settlement[1].status = IF 1 \in one.told THEN "SETTLED" ELSE "QUEUED"
  BY <1>1, <1>6 DEF SettlementRow
<1>9. \A p : Share(one.settlement[1], p) = Share(row, p)
  BY <1>8 DEF Share
<1>10. one.told \in {{}, {1}}
  BY <1>6
<1> QED
  BY <1>5, <1>7, <1>8, <1>9, <1>10 DEF SettledOnce

LEMMA CommitSubmitRtgsKeeps ==
    ASSUME CipsInv, NEW c \in Client, CommitSubmitRtgs(c)
    PROVE  CipsInv'
<1> PICK r : r = req[c]
  OBVIOUS
<1> PICK row : row = r.row
  OBVIOUS
<1> PICK loaded : loaded = r.loaded
  OBVIOUS
<1> PICK one : one = SettleRtgs([account |-> loaded, settlement |-> <<row>>, told |-> {}], 1)
  OBVIOUS
<1>1. /\ r.op = "cips_submit"
      /\ account' = WriteAccounts(loaded, one.account)
      /\ BalancesChecked
      /\ settlement' = Append(settlement, one.settlement[1])
      /\ settledMsg' = Append(settledMsg, Cardinality(one.told))
      /\ req' = [req EXCEPT ![c] = Idle] /\ funded' = funded
      /\ stale' = (stale \/ ~(\A p \in {row.debtor, row.creditor} : account[p] = loaded[p]))
  BY DEF CommitSubmitRtgs, Commit
<1>2. /\ row \in Submission /\ AccountsOf(loaded, Nat) /\ DOMAIN loaded \subseteq DOMAIN account
      /\ Placed(row, loaded) /\ AccountsOf(account, Nat) /\ stale \in BOOLEAN
  BY <1>1 DEF CipsInv, CipsReads, Submits, CipsRows
<1>3. /\ OnTheWay(one, loaded, <<row>>, {1})
      /\ one.settlement[1] \in SettlementRow
      /\ one.settlement[1].mode = row.mode
      /\ one.settlement[1].debtor = row.debtor /\ one.settlement[1].creditor = row.creditor
      /\ \A p : Share(one.settlement[1], p) = Share(row, p)
      /\ one.settlement[1].status = IF 1 \in one.told THEN "SETTLED" ELSE "QUEUED"
      /\ one.told \in {{}, {1}}
  <2>1. SettledOnce(one, row, loaded)
    BY <1>2, OneSettles
  <2> QED
    BY <2>1 DEF SettledOnce
<1> PICK rows : rows = <<row>>
  OBVIOUS
<1>4. rows \in Seq(SettlementRow) /\ DOMAIN rows = {1} /\ rows[1] = row
  BY <1>2 DEF Submission
<1>5. Carried(account, loaded, rows, one.told, account')
  <2>1. Netted(account, loaded, one.account, rows, one.told)
    <3>1. /\ one.account \in [DOMAIN loaded -> Int]
          /\ \A p \in DOMAIN loaded : one.account[p] = loaded[p] + Net(rows, one.told, p)
      BY <1>3 DEF OnTheWay
    <3>2. one.told \in SUBSET DOMAIN rows /\ \A i \in one.told : Placed(rows[i], loaded)
      BY <1>2, <1>3, <1>4
    <3> QED
      BY <1>2, <1>4, <3>1, <3>2 DEF Netted
  <2>2. account' = Put(Flush([p \in DOMAIN loaded |-> account[p]], loaded, one.account), account)
    BY <1>1 DEF WriteAccounts
  <2> QED
    BY <2>1, <2>2, AccountsWritten
<1>6. AccountsOf(account', Nat) /\ DOMAIN account' = DOMAIN account
  <2>1. account' \in [DOMAIN account -> Int]
    BY <1>5 DEF Carried
  <2>2. DOMAIN account' = DOMAIN account /\ account' = [p \in DOMAIN account' |-> account'[p]]
        /\ \A p \in DOMAIN account' : account'[p] \in Int
    BY <2>1
  <2>3. \A p \in DOMAIN account' : account'[p] \in Nat
    <3>1. \A p \in DOMAIN account' : account'[p] >= 0
      BY <1>1 DEF BalancesChecked
    <3> QED
      BY <3>1, <2>2
  <2> QED
    BY <2>2, <2>3 DEF AccountsOf
<1>7. Cardinality(one.told) = IF 1 \in one.told THEN 1 ELSE 0
  <2>1. one.told = {} \/ one.told = {1}
    BY <1>3
  <2>2. CASE one.told = {}
    BY <2>2, FS_EmptySet
  <2>3. CASE one.told = {1}
    <3>1. Cardinality({1}) = 1
      BY FS_Singleton
    <3> QED
      BY <2>3, <3>1
  <2> QED
    BY <2>1, <2>2, <2>3
<1>8. ASSUME ~stale', NEW p \in DOMAIN account
      PROVE  account'[p] = account[p] + (IF 1 \in one.told THEN Share(row, p) ELSE 0)
  <2>1. \A q \in Parties(rows, one.told) : account[q] = loaded[q]
    <3>1. \A q \in {row.debtor, row.creditor} : account[q] = loaded[q]
      BY <1>1, <1>8
    <3>2. \A q \in Parties(rows, one.told) : q \in {row.debtor, row.creditor}
      <4> PICK tells : tells = one.told
        OBVIOUS
      <4> PICK both : both = {row.debtor, row.creditor}
        OBVIOUS
      <4>1. \A i \in tells : rows[i].debtor \in both /\ rows[i].creditor \in both
        BY <1>3, <1>4
      <4>2. \A q \in Parties(rows, tells) : q \in both
        BY <4>1, PartiesWithin
      <4> QED
        BY <4>2
    <3> QED
      BY <3>1, <3>2
  <2>2. Net(rows, one.told, p) = IF 1 \in one.told THEN Share(row, p) ELSE 0
    <3>1. Net(rows, {1}, p) = Share(rows[1], p)
      BY <1>4, NetOfOne
    <3>2. Net(rows, {}, p) = 0
      BY NetOfNone
    <3> QED
      BY <1>3, <1>4, <3>1, <3>2
  <2> QED
    BY <1>5, <2>1, <2>2 DEF Carried
<1>9. Appends(one.settlement[1], Cardinality(one.told))
  <2>1. Placed(row, account) /\ Placed(one.settlement[1], account)
    BY <1>2, <1>3 DEF Placed
  <2>2. ~stale' => ~stale
    BY <1>1
  <2>3. Cardinality(one.told) \in Nat
    BY <1>7
  <2> QED
    <3> PICK new, paid : new = one.settlement[1] /\ paid = one.told
      OBVIOUS
    <3>1. /\ new \in SettlementRow /\ Placed(new, account)
          /\ (new.status = "SETTLED" <=> 1 \in paid)
          /\ \A p : Share(new, p) = Share(row, p)
          /\ Cardinality(paid) = IF 1 \in paid THEN 1 ELSE 0
      BY <1>3, <1>7, <2>1
    <3>2. \A p \in DOMAIN account : ~stale' =>
            account'[p] = account[p] + (IF new.status = "SETTLED" THEN Share(new, p) ELSE 0)
      BY <1>8, <3>1
    <3>3. /\ settlement' = Append(settlement, new) /\ settledMsg' = Append(settledMsg, Cardinality(paid))
          /\ funded' = funded
      BY <1>1
    <3>4. Appends(new, Cardinality(paid))
      BY <1>6, <2>2, <2>3, <3>1, <3>2, <3>3 DEF Appends
    <3> QED
      BY <3>4
<1>10. CipsRows' /\ Explained' /\ Len(settlement) <= Len(settlement')
  BY <1>9, AppendKeeps
<1> QED
  <2>1. stale' \in BOOLEAN
    BY <1>1, <1>2
  <2>2. CipsReads(Idle, account', settlement')
    BY NoReads
  <2> QED
    BY <1>1, <1>6, <1>10, <2>1, <2>2, CipsStep

LEMMA RegisterParticipantKeeps ==
    ASSUME CipsInv, NEW c \in Client, NEW p \in Participant, RegisterParticipant(c, p)
    PROVE  CipsInv'
  BY CipsUnchanged DEF RegisterParticipant, AtOnce

LEMMA RollBackCipsKeeps ==
    ASSUME CipsInv, NEW c \in Client, RollBackCips(c)
    PROVE  CipsInv'
<1>1. req' = [req EXCEPT ![c] = Idle] /\ stale' = stale /\ UNCHANGED cipsVars
  BY DEF RollBackCips, RollBack
<1>2. CipsReads(Idle, account, settlement)
  BY NoReads
<1> QED
  BY <1>1, <1>2, CipsReading

LEMMA ReadQueueKeeps ==
    ASSUME CipsInv, NEW c \in Client, ReadQueue(c)
    PROVE  CipsInv'
<1> PICK queue : queue = Queue
  OBVIOUS
<1> PICK loaded : loaded = [account |-> account, settlement |-> settlement, told |-> {}]
  OBVIOUS
<1> PICK r : r = [op |-> "cips_queue", loaded |-> loaded, s |-> loaded, leases |-> queue]
  OBVIOUS
<1>1. req' = [req EXCEPT ![c] = r] /\ stale' = stale /\ UNCHANGED cipsVars
  BY DEF ReadQueue, Open, OnCips, Loaded
<1>2. /\ AccountsOf(account, Nat) /\ settlement \in Seq(SettlementRow)
      /\ \A i \in DOMAIN settlement : settlement[i].mode = "RTGS" => Placed(settlement[i], account)
  BY DEF CipsInv, CipsRows
<1>3. /\ queue \subseteq DOMAIN settlement
      /\ \A i \in queue : settlement[i].mode = "RTGS" /\ settlement[i].status = "QUEUED"
  BY DEF Queue, Queued
<1>4. MaySettle(loaded, queue, account, settlement)
  BY <1>2, <1>3 DEF MaySettle
<1>5. CipsReads(r, account, settlement)
  BY <1>4 DEF CipsReads, Submits, ReadsQueue, Settles
<1> QED
  BY <1>1, <1>5, CipsReading

\* The queue goes through settle_rtgs with the accounts as they are now.
LEMMA SettleQueueKeeps ==
    ASSUME CipsInv, NEW c \in Client, SettleQueue(c)
    PROVE  CipsInv'
<1> PICK r : r = req[c]
  OBVIOUS
<1> PICK rows : rows = r.loaded.settlement
  OBVIOUS
<1>1. /\ r.op = "cips_queue" /\ CipsReads(r, account, settlement)
      /\ AccountsOf(account, Nat)
  BY DEF SettleQueue, CipsInv, CipsRows
<1>2. /\ MaySettle(r.loaded, r.leases, account, settlement)
      /\ r.loaded = [account |-> r.loaded.account, settlement |-> rows, told |-> {}]
      /\ r.s.settlement = rows
  BY <1>1 DEF CipsReads, ReadsQueue
<1>3. /\ DOMAIN r.loaded.account \subseteq DOMAIN account
      /\ rows \in Seq(SettlementRow) /\ Len(rows) <= Len(settlement)
      /\ r.leases \in SUBSET DOMAIN rows
      /\ \A i \in r.leases : Placed(rows[i], r.loaded.account) /\ rows[i].status = "QUEUED"
  BY <1>2 DEF MaySettle
<1>4. \A i \in r.leases : Placed(rows[i], account)
  BY <1>3 DEF Placed
<1> PICK loaded : loaded = [account |-> account, settlement |-> rows, told |-> {}]
  OBVIOUS
<1>5. [r.loaded EXCEPT !.account = account] = loaded
  BY <1>2
<1> PICK queue : /\ queue \in InOrder(r.leases, rows)
                 /\ ReadOn(c, OnCips("cips_release", loaded,
                      FoldLeft(SettleRtgs, [account |-> account, settlement |-> rows, told |-> {}], queue),
                      r.leases))
  BY <1>2, <1>5 DEF SettleQueue
<1> PICK s : s = FoldLeft(SettleRtgs, [account |-> account, settlement |-> rows, told |-> {}], queue)
  OBVIOUS
<1> PICK new : new = [op |-> "cips_release", loaded |-> loaded, s |-> s, leases |-> r.leases]
  OBVIOUS
<1>6. req' = [req EXCEPT ![c] = new] /\ stale' = stale /\ UNCHANGED cipsVars
  BY DEF ReadOn, OnCips, SettleQueue
<1>7. OnTheWay(s, account, rows, r.leases)
  <2>1. QueueOf(account, rows, r.leases)
    BY <1>1, <1>3, <1>4 DEF QueueOf
  <2>2. Cardinality(r.leases) \in Nat
    BY <1>3, RowsFinite, FS_CardinalityType
  <2>3. queue \in [1 .. Cardinality(r.leases) -> r.leases]
    BY DEF InOrder
  <2> QED
    BY <2>1, <2>2, <2>3, QueueSettles
<1>8. /\ s.told \in SUBSET r.leases /\ s.account \in [DOMAIN account -> Int]
      /\ \A p \in DOMAIN account : s.account[p] = account[p] + Net(rows, s.told, p)
  BY <1>7 DEF OnTheWay
<1>9. MaySettle(loaded, s.told, account, settlement)
  BY <1>1, <1>3, <1>4, <1>8 DEF MaySettle
<1>10. Nets(s, loaded)
  BY <1>8 DEF Nets
<1>11. CipsReads(new, account, settlement)
  BY <1>9, <1>10 DEF CipsReads, Submits, ReadsQueue, Settles
<1> QED
  BY <1>6, <1>11, CipsReading

LEMMA ReadBatchKeeps ==
    ASSUME CipsInv, NEW c \in Client, NEW b \in Batch, ReadBatch(c, b)
    PROVE  CipsInv'
<1> PICK batch : batch = Queued("DNS", {b})
  OBVIOUS
<1> PICK loaded : loaded = [account |-> account, settlement |-> settlement, told |-> {}]
  OBVIOUS
<1>1. AccountsOf(account, Nat) /\ settlement \in Seq(SettlementRow)
  BY DEF CipsInv, CipsRows
<1>2. batch \in SUBSET DOMAIN settlement /\ \A i \in batch : settlement[i].status = "QUEUED"
  BY DEF Queued
<1>3. ASSUME NEW i \in batch PROVE Placed(settlement[i], account)
  <2>1. \A p \in Parties(settlement, batch) : p \in DOMAIN account
    BY DEF ReadBatch, Covered, HasAccount
  <2> QED
    BY <2>1, PartiesOf DEF Placed
<1>4. ASSUME NEW p \in DOMAIN account PROVE account[p] + Net(settlement, batch, p) \in Int
  <2>1. account[p] \in Int
    BY <1>1 DEF AccountsOf
  <2>2. Net(settlement, batch, p) \in Int
    BY <1>1, <1>2, NetIsInt
  <2> QED
    BY <2>1, <2>2
<1>5. MaySettle(loaded, batch, account, settlement)
  <2>1. Len(settlement) <= Len(settlement)
    BY <1>1
  <2> QED
    BY <1>1, <1>2, <1>3, <2>1 DEF MaySettle
<1> PICK s : s = [account |-> [p \in DOMAIN account |-> account[p] + Net(settlement, batch, p)],
                  settlement |-> [i \in DOMAIN settlement |->
                     IF i \in batch THEN [settlement[i] EXCEPT !.status = "SETTLED"] ELSE settlement[i]],
                  told |-> batch]
  OBVIOUS
<1>6. Nets(s, loaded) /\ s.told = batch
  BY <1>4 DEF Nets
<1> PICK r : r = [op |-> "cips_dns", loaded |-> loaded, s |-> s, leases |-> {}]
  OBVIOUS
<1>7. req' = [req EXCEPT ![c] = r] /\ stale' = stale /\ UNCHANGED cipsVars
  BY DEF ReadBatch, Open, OnCips, Loaded
<1>8. CipsReads(r, account, settlement)
  BY <1>5, <1>6 DEF CipsReads, Submits, ReadsQueue, Settles
<1> QED
  BY <1>7, <1>8, CipsReading

\* Rows of which some have been marked as settled.
Marked(rows, paid, more) ==
    /\ more \in Seq(SettlementRow) /\ Len(more) = Len(rows)
    /\ DOMAIN more = DOMAIN rows
    /\ paid \in SUBSET DOMAIN rows
    /\ \A i \in DOMAIN rows : more[i] = IF i \in paid THEN [rows[i] EXCEPT !.status = "SETTLED"] ELSE rows[i]
    /\ \A i \in DOMAIN rows : /\ more[i].debtor = rows[i].debtor /\ more[i].creditor = rows[i].creditor
                              /\ more[i].mode = rows[i].mode /\ more[i].amount = rows[i].amount
                              /\ (more[i].status = "SETTLED" <=> i \in paid \/ rows[i].status = "SETTLED")

LEMMA RowsMarked ==
    ASSUME NEW rows, rows \in Seq(SettlementRow), NEW paid, paid \in SUBSET DOMAIN rows,
           NEW more, more = [i \in DOMAIN rows |-> IF i \in paid THEN [rows[i] EXCEPT !.status = "SETTLED"] ELSE rows[i]]
    PROVE  Marked(rows, paid, more)
<1>1. DOMAIN rows = 1 .. Len(rows) /\ Len(rows) \in Nat /\ \A i \in DOMAIN rows : rows[i] \in SettlementRow
  OBVIOUS
<1>2. ASSUME NEW row \in SettlementRow
      PROVE  /\ [row EXCEPT !.status = "SETTLED"] \in SettlementRow
             /\ [row EXCEPT !.status = "SETTLED"].debtor = row.debtor
             /\ [row EXCEPT !.status = "SETTLED"].creditor = row.creditor
             /\ [row EXCEPT !.status = "SETTLED"].mode = row.mode
             /\ [row EXCEPT !.status = "SETTLED"].amount = row.amount
             /\ [row EXCEPT !.status = "SETTLED"].status = "SETTLED"
  BY DEF SettlementRow, SettlementStatus
<1>3. /\ DOMAIN more = DOMAIN rows
      /\ \A i \in DOMAIN rows : more[i] = IF i \in paid THEN [rows[i] EXCEPT !.status = "SETTLED"] ELSE rows[i]
  OBVIOUS
<1>4. \A i \in DOMAIN rows : more[i] \in SettlementRow
  BY <1>1, <1>2, <1>3
<1>5. more \in [1 .. Len(rows) -> SettlementRow]
  BY <1>1, <1>3, <1>4
<1>6. more \in Seq(SettlementRow) /\ Len(more) = Len(rows)
  BY <1>1, <1>5
<1>7. \A i \in DOMAIN rows : /\ more[i].debtor = rows[i].debtor /\ more[i].creditor = rows[i].creditor
                             /\ more[i].mode = rows[i].mode /\ more[i].amount = rows[i].amount
                             /\ (more[i].status = "SETTLED" <=> i \in paid \/ rows[i].status = "SETTLED")
  BY <1>1, <1>2, <1>3
<1> QED
  BY <1>3, <1>6, <1>7 DEF Marked

\* The outcomes paid at a commit, one more for each settlement of `paid'.
LEMMA Announced ==
    ASSUME NEW counts, counts \in Seq(Nat), NEW paid,
           NEW more, more = [i \in DOMAIN counts |-> counts[i] + (IF i \in paid THEN 1 ELSE 0)]
    PROVE  more \in Seq(Nat) /\ Len(more) = Len(counts)
<1>1. more \in [1 .. Len(counts) -> Nat] /\ Len(counts) \in Nat
  OBVIOUS
<1> QED
  BY <1>1

LEMMA CommitCipsKeeps ==
    ASSUME CipsInv, NEW c \in Client, CommitCips(c)
    PROVE  CipsInv'
<1> PICK r : r = req[c]
  OBVIOUS
<1> PICK loaded : loaded = r.loaded.account
  OBVIOUS
<1> PICK old : old = r.loaded.settlement
  OBVIOUS
<1> PICK paid : paid = r.s.told
  OBVIOUS
<1> PICK rows : rows = settlement
  OBVIOUS
<1> PICK more : more = settlement'
  OBVIOUS
<1>1. /\ r.op \in {"cips_release", "cips_dns"}
      /\ account' = WriteAccounts(loaded, r.s.account)
      /\ BalancesChecked
      /\ more = [i \in DOMAIN rows |-> IF i \in paid THEN [rows[i] EXCEPT !.status = "SETTLED"] ELSE rows[i]]
      /\ settledMsg' = [i \in DOMAIN rows |-> settledMsg[i] + (IF i \in paid THEN 1 ELSE 0)]
      /\ req' = [req EXCEPT ![c] = Idle] /\ funded' = funded
      /\ stale' = (stale \/ ~(/\ \A p \in Parties(old, paid \cup r.leases) : account[p] = loaded[p]
                              /\ \A i \in paid \cup r.leases : rows[i] = old[i]))
  BY DEF CommitCips, Commit
<1>2. /\ stale \in BOOLEAN /\ AccountsOf(account, Nat)
      /\ AccountsOf(funded, Nat) /\ DOMAIN funded = DOMAIN account
      /\ rows \in Seq(SettlementRow) /\ settledMsg \in Seq(Nat) /\ Len(settledMsg) = Len(rows)
      /\ \A i \in DOMAIN rows : rows[i].mode = "RTGS" => Placed(rows[i], account)
  BY DEF CipsInv, CipsRows
<1>3. /\ MaySettle(r.loaded, paid, account, rows) /\ Nets(r.s, r.loaded)
  BY <1>1 DEF CipsInv, CipsReads, Settles
<1>4. /\ AccountsOf(loaded, Nat) /\ DOMAIN loaded \subseteq DOMAIN account
      /\ old \in Seq(SettlementRow) /\ Len(old) <= Len(rows)
      /\ paid \in SUBSET DOMAIN old
      /\ \A i \in paid : Placed(old[i], loaded) /\ old[i].status = "QUEUED"
  BY <1>3 DEF MaySettle
<1>5. paid \in SUBSET DOMAIN rows
  <2>1. DOMAIN old = 1 .. Len(old) /\ DOMAIN rows = 1 .. Len(rows) /\ Len(old) \in Nat /\ Len(rows) \in Nat
    BY <1>2, <1>4
  <2>2. DOMAIN old \subseteq DOMAIN rows
    BY <1>4, <2>1
  <2> QED
    BY <1>4, <2>2
<1>6. Marked(rows, paid, more)
  BY <1>1, <1>2, <1>5, RowsMarked
<1>7. /\ more \in Seq(SettlementRow) /\ Len(more) = Len(rows) /\ DOMAIN more = DOMAIN rows
      /\ \A i \in DOMAIN rows : /\ more[i].debtor = rows[i].debtor /\ more[i].creditor = rows[i].creditor
                                /\ more[i].mode = rows[i].mode /\ more[i].amount = rows[i].amount
                                /\ (more[i].status = "SETTLED" <=> i \in paid \/ rows[i].status = "SETTLED")
  BY <1>6 DEF Marked
<1>8. Follow(rows, more) /\ \A i : i \in Settled(more) <=> i \in Settled(rows) \/ i \in paid
  <2>1. Follow(rows, more)
    BY <1>7 DEF Follow, Share
  <2>2. \A i : i \in Settled(more) <=> i \in Settled(rows) \/ i \in paid
    BY <1>5, <1>7 DEF Settled
  <2> QED
    BY <2>1, <2>2
<1>9. DOMAIN settledMsg = DOMAIN rows
  BY <1>2
<1>10. settledMsg' \in Seq(Nat) /\ Len(settledMsg') = Len(more)
  <2>1. settledMsg' = [i \in DOMAIN settledMsg |-> settledMsg[i] + (IF i \in paid THEN 1 ELSE 0)]
    BY <1>1, <1>9
  <2> PICK counts, new : counts = settledMsg /\ new = settledMsg'
    OBVIOUS
  <2>2. counts \in Seq(Nat) /\ new = [i \in DOMAIN counts |-> counts[i] + (IF i \in paid THEN 1 ELSE 0)]
    BY <1>2, <2>1
  <2>3. new \in Seq(Nat) /\ Len(new) = Len(counts)
    BY <2>2, Announced
  <2> QED
    BY <1>2, <1>7, <2>3
<1>11. Carried(account, loaded, old, paid, account')
  <2>1. Netted(account, loaded, r.s.account, old, paid)
    <3>1. /\ r.s.account \in [DOMAIN loaded -> Int]
          /\ \A p \in DOMAIN loaded : r.s.account[p] = loaded[p] + Net(old, paid, p)
      BY <1>3 DEF Nets
    <3> QED
      BY <1>2, <1>4, <3>1 DEF Netted
  <2>2. account' = Put(Flush([p \in DOMAIN loaded |-> account[p]], loaded, r.s.account), account)
    BY <1>1 DEF WriteAccounts
  <2> QED
    BY <2>1, <2>2, AccountsWritten
<1>12. AccountsOf(account', Nat) /\ DOMAIN account' = DOMAIN account
  <2>1. account' \in [DOMAIN account -> Int]
    BY <1>11 DEF Carried
  <2>2. DOMAIN account' = DOMAIN account /\ account' = [p \in DOMAIN account' |-> account'[p]]
        /\ \A p \in DOMAIN account' : account'[p] \in Int
    BY <2>1
  <2>3. \A p \in DOMAIN account' : account'[p] >= 0
    BY <1>1 DEF BalancesChecked
  <2>4. \A p \in DOMAIN account' : account'[p] \in Nat
    BY <2>2, <2>3
  <2> QED
    BY <2>2, <2>4 DEF AccountsOf
<1>13. CipsRows'
  <2>1. \A i \in DOMAIN more : more[i].mode = "RTGS" => Placed(more[i], account')
    BY <1>2, <1>7, <1>12 DEF Placed
  <2> QED
    BY <1>1, <1>2, <1>7, <1>10, <1>12, <2>1 DEF CipsRows
<1>14. ASSUME ~stale' PROVE SettlementsExplainBalances' /\ \A i \in Settled(more) : Placed(more[i], account')
  <2>1. /\ ~stale
        /\ \A p \in Parties(old, paid \cup r.leases) : account[p] = loaded[p]
        /\ \A i \in paid : rows[i] = old[i]
    BY <1>1, <1>2, <1>14
  <2>2. /\ \A p \in DOMAIN account : account[p] = funded[p] + Net(rows, Settled(rows), p)
        /\ \A i \in DOMAIN rows : settledMsg[i] = IF rows[i].status = "SETTLED" THEN 1 ELSE 0
        /\ \A i \in Settled(rows) : Placed(rows[i], account)
    BY <2>1 DEF CipsInv, Explained, SettlementsExplainBalances
  <2>3. \A i \in paid : i \notin Settled(rows) /\ rows[i].status = "QUEUED"
    BY <1>4, <2>1 DEF Settled
  <2>4. \A p \in DOMAIN account : account'[p] = account[p] + Net(old, paid, p)
    <3>1. \A p \in Parties(old, paid) : account[p] = loaded[p]
      <4>1. \A p \in Parties(old, paid) : p \in Parties(old, paid \cup r.leases)
        BY DEF Parties
      <4> QED
        BY <2>1, <4>1
    <3> QED
      BY <1>11, <3>1 DEF Carried
  <2>5. ASSUME NEW p \in DOMAIN account PROVE account'[p] = funded[p] + Net(more, Settled(more), p)
    <3>1. Net(more, Settled(more), p) = Net(rows, Settled(rows), p) + Net(more, paid, p)
      <4>1. paid \in SUBSET DOMAIN more /\ (\A i \in paid : i \notin Settled(rows)) /\ DOMAIN rows \subseteq DOMAIN more
        BY <1>5, <1>7, <2>3
      <4>2. rows \in Seq(SettlementRow) /\ more \in Seq(SettlementRow)
        BY <1>2, <1>7
      <4> QED
        BY <1>8, <4>1, <4>2, NetGrows
    <3>2. Net(more, paid, p) = Net(old, paid, p)
      <4>1. \A i \in paid : Share(more[i], p) = Share(old[i], p)
        BY <1>5, <1>8, <2>1 DEF Follow
      <4> QED
        BY <1>4, <4>1, NetSame
    <3>3. funded[p] \in Int /\ Net(rows, Settled(rows), p) \in Int /\ Net(old, paid, p) \in Int
      <4>1. Settled(rows) \in SUBSET DOMAIN rows
        BY DEF Settled
      <4>2. funded[p] \in Int
        BY <1>2 DEF AccountsOf
      <4> QED
        BY <1>2, <1>4, <4>1, <4>2, NetIsInt
    <3>4. account'[p] = account[p] + Net(old, paid, p) /\ account[p] = funded[p] + Net(rows, Settled(rows), p)
      BY <2>2, <2>4
    <3> QED
      BY <3>1, <3>2, <3>3, <3>4
  <2>6. \A i \in DOMAIN more : settledMsg'[i] = IF more[i].status = "SETTLED" THEN 1 ELSE 0
    BY <1>1, <1>7, <2>2, <2>3
  <2>7. \A i \in Settled(more) : Placed(more[i], account')
    <3>1. \A i \in paid : Placed(old[i], account)
      BY <1>4 DEF Placed
    <3> QED
      BY <1>5, <1>7, <1>8, <1>12, <2>1, <2>2, <3>1 DEF Placed, Settled
  <2>8. \A p \in DOMAIN account' : account'[p] = funded'[p] + Net(more, Settled(more), p)
    BY <1>1, <1>12, <2>5
  <2>9. SettlementsExplainBalances'
    BY <2>6, <2>8 DEF SettlementsExplainBalances
  <2> QED
    BY <2>7, <2>9
<1>15. Explained'
  BY <1>14 DEF Explained
<1> QED
  <2>1. stale' \in BOOLEAN
    BY <1>1, <1>2
  <2>2. CipsReads(Idle, account', settlement')
    BY NoReads
  <2>3. Len(settlement) <= Len(settlement')
    BY <1>2, <1>7
  <2>4. DOMAIN account \subseteq DOMAIN account'
    BY <1>12
  <2> QED
    BY <1>1, <1>13, <1>15, <2>1, <2>2, <2>3, <2>4, CipsStep

------------------------------------------------------------------------------
(* CIPS settlement: the theorems *)

LEMMA CipsInitially ==
    ASSUME NEW allowed \in Nat, RequestsInit(allowed),
           NEW holders \in SUBSET (Participant \cap Direct), NEW accounts \in [holders -> AccountRow],
           CipsInit(accounts)
    PROVE  CipsInv
<1>1. /\ account = accounts /\ funded = accounts /\ settlement = <<>> /\ settledMsg = <<>>
      /\ stale = FALSE /\ req = [c \in Client |-> Idle]
  BY DEF CipsInit, RequestsInit
<1>2. AccountsOf(accounts, Nat)
  BY DEF AccountsOf, AccountRow
<1>3. CipsRows
  BY <1>1, <1>2 DEF CipsRows
<1>4. Settled(settlement) = {}
  BY <1>1 DEF Settled
<1>5. \A p \in DOMAIN account : account[p] = funded[p] + Net(settlement, Settled(settlement), p)
  <2>1. \A p \in DOMAIN accounts : accounts[p] \in Int
    BY <1>2 DEF AccountsOf
  <2>2. \A p : Net(settlement, {}, p) = 0
    BY NetOfNone
  <2>3. \A p \in DOMAIN accounts : Net(settlement, Settled(settlement), p) = 0
    BY <1>4, <2>2
  <2>4. \A p \in DOMAIN accounts : accounts[p] = accounts[p] + 0
    BY <2>1
  <2> QED
    BY <1>1, <2>3, <2>4
<1>6. Explained
  BY <1>1, <1>4, <1>5 DEF Explained, SettlementsExplainBalances
<1>7. \A c \in Client : CipsReads(req[c], account, settlement)
  BY <1>1, NoReads
<1> QED
  BY <1>1, <1>3, <1>6, <1>7 DEF CipsInv

LEMMA CipsStepKeeps ==
    ASSUME CipsInv, [\E c \in Client : CipsNext(c)]_<<requestVars, cipsVars>>
    PROVE  CipsInv'
<1>1. ASSUME NEW c \in Client, CipsNext(c) PROVE CipsInv'
  <2>1. ASSUME NEW p \in Participant, RegisterParticipant(c, p) PROVE CipsInv'
    BY <2>1, RegisterParticipantKeeps
  <2>2. ASSUME NEW p \in Participant, NEW n \in Nat, OpenAccount(c, p, n) PROVE CipsInv'
    BY <2>2, OpenAccountKeeps
  <2>3. ASSUME NEW row \in Submission, SubmitDns(c, row) PROVE CipsInv'
    BY <2>3, SubmitDnsKeeps
  <2>4. ASSUME NEW row \in Submission, ReadSubmitRtgs(c, row) PROVE CipsInv'
    BY <2>4, ReadSubmitRtgsKeeps
  <2>5. CASE CommitSubmitRtgs(c)
    BY <2>5, CommitSubmitRtgsKeeps
  <2>6. CASE ReadQueue(c)
    BY <2>6, ReadQueueKeeps
  <2>7. CASE SettleQueue(c)
    BY <2>7, SettleQueueKeeps
  <2>8. ASSUME NEW b \in Batch, ReadBatch(c, b) PROVE CipsInv'
    BY <2>8, ReadBatchKeeps
  <2>9. CASE CommitCips(c)
    BY <2>9, CommitCipsKeeps
  <2>10. CASE RollBackCips(c)
    BY <2>10, RollBackCipsKeeps
  <2> QED
    BY <1>1, <2>1, <2>2, <2>3, <2>4, <2>5, <2>6, <2>7, <2>8, <2>9, <2>10 DEF CipsNext
<1>2. CASE UNCHANGED <<requestVars, cipsVars>>
  BY <1>2, CipsUnchanged DEF requestVars, cipsVars
<1> QED
  BY <1>1, <1>2

\* The invariant of the CIPS service, whatever its requests and their order.
THEOREM CipsInvariance == CipsSpec => []CipsInv
<1>1. (\E allowed \in Nat : RequestsInit(allowed))
      /\ (\E holders \in SUBSET (Participant \cap Direct) : \E accounts \in [holders -> AccountRow] : CipsInit(accounts))
      => CipsInv
  BY CipsInitially
<1>2. CipsInv /\ [\E c \in Client : CipsNext(c)]_<<requestVars, cipsVars>> => CipsInv'
  BY CipsStepKeeps
<1> QED
  BY <1>1, <1>2, PTL DEF CipsSpec

(* As long as no request commits over a row that it had read and another has
   changed, each CIPS account is what it was opened with plus the settlements
   marked SETTLED, RTGS, released from the queue or netted in a batch, and each
   of these was announced once. *)
THEOREM SettlementsExplainBalancesHolds == CipsSpec => []SettlementsExplainBalances
<1>1. CipsInv => SettlementsExplainBalances
  BY DEF CipsInv, Explained, SettlementsExplainBalances
<1> QED
  BY <1>1, CipsInvariance, PTL

------------------------------------------------------------------------------
(* Everything at once: what a part of the simulator does to the open requests *)

\* The operations of the requests of each part.
EcnyOps == {"ecny"}
InstrumentOps == {"issue", "redeem", "create", "execute"}
PvpOps == {"pvp_lock", "pvp_commit", "pvp_legs"}
IssuanceOps == {"operator", "merchant"}
LedgerOps == EcnyOps \cup InstrumentOps \cup PvpOps \cup IssuanceOps
CipsOps == {"cips_submit", "cips_queue", "cips_release", "cips_dns"}
PaymentOps == {"enqueue", "transition", "copy", "case", "audit"}

\* A step after which every request is as it was, is over or is one of ops.
ActsBy(ops) ==
    /\ DOMAIN req' = DOMAIN req
    /\ \A c \in DOMAIN req : req'[c] = req[c] \/ req'[c] = Idle \/ req'[c].op \in ops
    /\ ~stale' => ~stale

\* The step of one client.
LEMMA OneActs ==
    ASSUME NEW c, NEW ops, NEW r, r = Idle \/ r.op \in ops, req' = [req EXCEPT ![c] = r],
           ~stale' => ~stale
    PROVE  ActsBy(ops)
  BY DEF ActsBy

LEMMA OpenActs == ASSUME NEW c, NEW ops, NEW r, r.op \in ops, Open(c, r) PROVE ActsBy(ops)
  BY OneActs DEF Open

LEMMA ReadOnActs == ASSUME NEW c, NEW ops, NEW r, r.op \in ops, ReadOn(c, r) PROVE ActsBy(ops)
  BY OneActs DEF ReadOn

LEMMA CommitActs == ASSUME NEW c, NEW ops, NEW fresh, Commit(c, fresh) PROVE ActsBy(ops)
  BY OneActs DEF Commit

LEMMA RollBackActs == ASSUME NEW c, NEW ops, RollBack(c) PROVE ActsBy(ops)
  BY OneActs DEF RollBack

LEMMA AtOnceActs == ASSUME NEW c, NEW ops, AtOnce(c) PROVE ActsBy(ops)
  BY DEF AtOnce, ActsBy

LEMMA NobodyActs == ASSUME NEW ops, UNCHANGED <<req, stale>> PROVE ActsBy(ops)
  BY DEF ActsBy

LEMMA MoreActs == ASSUME NEW ops, NEW more, ops \subseteq more, ActsBy(ops) PROVE ActsBy(more)
  BY DEF ActsBy

LEMMA CipsActs == ASSUME NEW c \in Client, CipsNext(c) PROVE ActsBy(CipsOps)
<1>1. ASSUME NEW p \in Participant, RegisterParticipant(c, p) PROVE ActsBy(CipsOps)
  BY <1>1, AtOnceActs DEF RegisterParticipant
<1>2. ASSUME NEW p \in Participant, NEW n \in Nat, OpenAccount(c, p, n) PROVE ActsBy(CipsOps)
  BY <1>2, AtOnceActs DEF OpenAccount
<1>3. ASSUME NEW row, SubmitDns(c, row) PROVE ActsBy(CipsOps)
  BY <1>3, AtOnceActs DEF SubmitDns
<1>4. ASSUME NEW row, ReadSubmitRtgs(c, row) PROVE ActsBy(CipsOps)
  BY <1>4, OpenActs DEF ReadSubmitRtgs, CipsOps
<1>5. CASE CommitSubmitRtgs(c)
  BY <1>5, CommitActs DEF CommitSubmitRtgs
<1>6. CASE ReadQueue(c)
  BY <1>6, OpenActs DEF ReadQueue, OnCips, CipsOps
<1>7. CASE SettleQueue(c)
  <2>1. PICK loaded, s, leases : ReadOn(c, OnCips("cips_release", loaded, s, leases))
    BY <1>7 DEF SettleQueue
  <2> QED
    BY <2>1, ReadOnActs DEF OnCips, CipsOps
<1>8. ASSUME NEW b \in Batch, ReadBatch(c, b) PROVE ActsBy(CipsOps)
  <2>1. PICK loaded, s, leases : Open(c, OnCips("cips_dns", loaded, s, leases))
    BY <1>8 DEF ReadBatch
  <2> QED
    BY <2>1, OpenActs DEF OnCips, CipsOps
<1>9. CASE CommitCips(c)
  <2>1. PICK fresh : Commit(c, fresh)
    BY <1>9 DEF CommitCips
  <2> QED
    BY <2>1, CommitActs
<1>10. CASE RollBackCips(c)
  BY <1>10, RollBackActs DEF RollBackCips
<1> QED
  BY <1>1, <1>2, <1>3, <1>4, <1>5, <1>6, <1>7, <1>8, <1>9, <1>10 DEF CipsNext

LEMMA PaymentsAct == PaymentsNext => ActsBy(PaymentOps)
<1>1. ASSUME NEW c \in Client, NEW k \in Key, NEW digest \in Digest, BeginEnqueue(c, k, digest) PROVE ActsBy(PaymentOps)
  BY <1>1, OpenActs DEF BeginEnqueue, PaymentOps
<1>2. ASSUME NEW c \in Client, CommitEnqueue(c) \/ CommitTransition(c) \/ CommitCopy(c) \/ CommitCase(c) \/ CommitAudit(c)
      PROVE  ActsBy(PaymentOps)
  <2>1. \E fresh : Commit(c, fresh)
    BY <1>2 DEF CommitEnqueue, CommitTransition, CommitCopy, CommitCase, CommitAudit
  <2> QED
    BY <2>1, CommitActs
<1>3. ASSUME NEW c \in Client, CreatePayment(c) \/ OpenCase(c) PROVE ActsBy(PaymentOps)
  BY <1>3, AtOnceActs DEF CreatePayment, OpenCase
<1>4. ASSUME NEW c \in Client, NEW expected \in Nat, NEW new, ReadTransition(c, expected, new) PROVE ActsBy(PaymentOps)
  BY <1>4, OpenActs DEF ReadTransition, PaymentOps
<1>5. ASSUME NEW c \in Client, NEW payload, ReadCopies(c, payload) \/ ReadAudit(c, payload) PROVE ActsBy(PaymentOps)
  <2>1. CASE ReadCopies(c, payload)
    BY <2>1, OpenActs DEF ReadCopies, PaymentOps
  <2>2. CASE ReadAudit(c, payload)
    BY <2>2, OpenActs DEF ReadAudit, PaymentOps
  <2> QED
    BY <1>5, <2>1, <2>2
<1>6. ASSUME NEW c \in Client, NEW new, ReadCase(c, new) PROVE ActsBy(PaymentOps)
  BY <1>6, OpenActs DEF ReadCase, PaymentOps
<1>7. ASSUME NEW c \in Client, RollBackPayments(c) PROVE ActsBy(PaymentOps)
  BY <1>7, RollBackActs DEF RollBackPayments
<1> QED
  BY <1>1, <1>2, <1>3, <1>4, <1>5, <1>6, <1>7 DEF PaymentsNext

LEMMA EcnyActs ==
    ASSUME NEW c \in Client, EcnyNext(c)
    PROVE  ActsBy(EcnyOps)
<1>1. ASSUME NEW w, NEW named, NEW o, OpenWallet(c, w, named, o) PROVE ActsBy(EcnyOps)
  BY <1>1, AtOnceActs DEF OpenWallet
<1>2. ASSUME NEW a, NEW n, ProvisionOperator(c, a) \/ SeedForeignAccount(c, a, n) PROVE ActsBy(EcnyOps)
  BY <1>2, AtOnceActs DEF ProvisionOperator, SeedForeignAccount
<1>3. ASSUME NEW payer, NEW read, NEW s, NEW rep, NEW br, Open(c, RequestOf("ecny", payer, read, s, rep, br))
      PROVE  ActsBy(EcnyOps)
  BY <1>3, OpenActs DEF RequestOf, EcnyOps
<1>4. ASSUME NEW w, NEW v, NEW n, ReadTransfer(c, w, v, n) PROVE ActsBy(EcnyOps)
  BY <1>3, <1>4 DEF ReadTransfer, Payment
<1>5. ASSUME NEW a, NEW n, ReadMint(c, a, n) PROVE ActsBy(EcnyOps)
  BY <1>3, <1>5 DEF ReadMint, Request
<1>6. ASSUME NEW a, NEW n, ReadBurn(c, a, n) PROVE ActsBy(EcnyOps)
  BY <1>3, <1>6 DEF ReadBurn, Request
<1>7. ASSUME NEW a, NEW w, NEW n, ReadExchangeToWallet(c, a, w, n) PROVE ActsBy(EcnyOps)
  BY <1>3, <1>7 DEF ReadExchangeToWallet, Request
<1>8. ASSUME NEW a, NEW w, NEW n, ReadRedeemFromWallet(c, w, a, n) PROVE ActsBy(EcnyOps)
  BY <1>3, <1>8 DEF ReadRedeemFromWallet, Payment
<1>9. ASSUME NEW w, NEW b, NEW cur, NEW asked, NEW n, ReadCrossBorder(c, w, b, cur, asked, n) PROVE ActsBy(EcnyOps)
  BY <1>3, <1>9 DEF ReadCrossBorder, SettleViaCips, SettleViaMbridge, Payment
<1>10. CASE CommitEcny(c)
  BY <1>10, CommitActs DEF CommitEcny, CommitRequest
<1>11. CASE RollBackEcny(c)
  BY <1>11, RollBackActs DEF RollBackEcny
<1> QED
  BY <1>1, <1>2, <1>4, <1>5, <1>6, <1>7, <1>8, <1>9, <1>10, <1>11 DEF EcnyNext

LEMMA InstrumentsAct == ASSUME NEW c \in Client, InstrumentNext(c) PROVE ActsBy(InstrumentOps)
<1>1. ASSUME NEW op \in {"issue", "redeem", "create", "execute"}, NEW x, NEW row, NEW read, NEW s, NEW n,
             Open(c, OnEscrow(op, x, row, read, s, n))
      PROVE  ActsBy(InstrumentOps)
  BY <1>1, OpenActs DEF OnEscrow, InstrumentOps
<1>2. ASSUME NEW v, NEW w, NEW n, ReadIssueVoucher(c, v, w, n) PROVE ActsBy(InstrumentOps)
  BY <1>1, <1>2 DEF ReadIssueVoucher
<1>3. ASSUME NEW v, NEW m, ReadRedeemVoucher(c, v, m) PROVE ActsBy(InstrumentOps)
  BY <1>1, <1>3 DEF ReadRedeemVoucher
<1>4. ASSUME NEW i, NEW w, NEW n, NEW t, NEW max, ReadCreateInstrument(c, i, w, n, t, max) PROVE ActsBy(InstrumentOps)
  BY <1>1, <1>4 DEF ReadCreateInstrument
<1>5. ASSUME NEW i, NEW w, NEW n, NEW granted, ReadExecute(c, i, w, n, granted) PROVE ActsBy(InstrumentOps)
  BY <1>1, <1>5 DEF ReadExecute
<1>6. CASE CommitIssueVoucher(c) \/ CommitRedeemVoucher(c) \/ CommitCreateInstrument(c) \/ CommitExecute(c)
  <2>1. \E fresh : Commit(c, fresh)
    BY <1>6 DEF CommitIssueVoucher, CommitRedeemVoucher, CommitCreateInstrument, CommitExecute
  <2> QED
    BY <2>1, CommitActs
<1>7. CASE RollBackInstrument(c)
  BY <1>7, RollBackActs DEF RollBackInstrument
<1> QED
  BY <1>2, <1>3, <1>4, <1>5, <1>6, <1>7 DEF InstrumentNext

LEMMA PvpActs == ASSUME NEW c \in Client, PvpNext(c) PROVE ActsBy(PvpOps)
<1>1. CASE CreateFxQuote(c)
  BY <1>1, AtOnceActs DEF CreateFxQuote
<1>2. ASSUME NEW p, NEW legs, CreatePvp(c, p, legs) PROVE ActsBy(PvpOps)
  BY <1>2, AtOnceActs DEF CreatePvp
<1>3. ASSUME NEW p, NEW expected, ReadLockPvp(c, p, expected) PROVE ActsBy(PvpOps)
  BY <1>3, OpenActs DEF ReadLockPvp, OnPvp, PvpOps
<1>4. ASSUME NEW p, NEW expected, ReadCommitPvp(c, p, expected) PROVE ActsBy(PvpOps)
  BY <1>4, OpenActs DEF ReadCommitPvp, OnPvp, PvpOps
<1>5. CASE TakeLeases(c)
  BY <1>5, ReadOnActs DEF TakeLeases, PvpOps
<1>6. CASE CommitLockPvp(c) \/ CommitPvp(c)
  <2>1. \E fresh : Commit(c, fresh)
    BY <1>6 DEF CommitLockPvp, CommitPvp
  <2> QED
    BY <2>1, CommitActs
<1>7. CASE RollBackPvp(c)
  BY <1>7, RollBackActs DEF RollBackPvp
<1> QED
  BY <1>1, <1>2, <1>3, <1>4, <1>5, <1>6, <1>7 DEF PvpNext

LEMMA IssuanceActs == ASSUME NEW c \in Client, IssuanceNext(c) PROVE ActsBy(IssuanceOps)
<1>1. ASSUME NEW a, NEW w, RegisterOperator(c, a) \/ CreateHkWallet(c, w, a) PROVE ActsBy(IssuanceOps)
  BY <1>1, AtOnceActs DEF RegisterOperator, CreateHkWallet
<1>2. ASSUME NEW a, NEW d, NEW read, NEW s, NEW top, Open(c, OnOperator(a, d, read, s, top)) PROVE ActsBy(IssuanceOps)
  BY <1>2, OpenActs DEF OnOperator, IssuanceOps
<1>3. ASSUME NEW a, NEW n, ReadIssue(c, a, n) PROVE ActsBy(IssuanceOps)
  BY <1>2, <1>3 DEF ReadIssue
<1>4. ASSUME NEW a, NEW n, ReadRedeem(c, a, n) PROVE ActsBy(IssuanceOps)
  BY <1>2, <1>4 DEF ReadRedeem
<1>5. ASSUME NEW a, NEW w, NEW n, ReadTopUp(c, a, w, n) PROVE ActsBy(IssuanceOps)
  BY <1>2, <1>5 DEF ReadTopUp
<1>6. ASSUME NEW w, NEW m, NEW n, ReadMerchantPayment(c, w, m, n) PROVE ActsBy(IssuanceOps)
  BY <1>6, OpenActs DEF ReadMerchantPayment, RequestOf, IssuanceOps
<1>7. CASE CommitOperator(c) \/ CommitMerchantPayment(c)
  <2>1. \E fresh : Commit(c, fresh)
    BY <1>7 DEF CommitOperator, CommitMerchantPayment, CommitRequest
  <2> QED
    BY <2>1, CommitActs
<1>8. CASE RollBackOperator(c)
  BY <1>8, RollBackActs DEF RollBackOperator
<1> QED
  BY <1>1, <1>3, <1>4, <1>5, <1>6, <1>7, <1>8 DEF IssuanceNext

LEMMA LedgerActs == ASSUME EcnySystemNext PROVE ActsBy(LedgerOps)
<1>1. CASE \E c \in Client : EcnyNext(c)
  BY <1>1, EcnyActs, MoreActs DEF LedgerOps
<1>2. CASE \E c \in Client : InstrumentNext(c)
  BY <1>2, InstrumentsAct, MoreActs DEF LedgerOps
<1>3. CASE \E c \in Client : PvpNext(c)
  BY <1>3, PvpActs, MoreActs DEF LedgerOps
<1>4. CASE \E c \in Client : IssuanceNext(c)
  BY <1>4, IssuanceActs, MoreActs DEF LedgerOps
<1>5. CASE NewDay \/ ExpireQuote \/ \E x \in Voucher \cup Instrument : PassExpiry(x)
  BY <1>5, NobodyActs DEF NewDay, ExpireQuote, PassExpiry, requestVars
<1> QED
  BY <1>1, <1>2, <1>3, <1>4, <1>5 DEF EcnySystemNext

------------------------------------------------------------------------------
(* What the other parts leave alone *)

\* The requests of the other parts have read nothing of the ledger.
LEMMA LedgerKept ==
    ASSUME EInv, ActsBy(CipsOps \cup PaymentOps), stale' \in BOOLEAN, UNCHANGED ledgerRows
    PROVE  EInv'
<1>1. /\ UNCHANGED <<opened, bal, posted, booked, sent, reports, bridged, voucher, instrument, announced>>
      /\ UNCHANGED <<quote, pvp, moved, issued, topped>>
  BY DEF ledgerRows, ledgerVars, walletVars, instrumentVars, pvpVars, issuanceVars
<1>2. Rows'
  <2>1. /\ AccountsTyped' /\ Unopened' /\ EscrowsOpen' /\ OperatorsOpen' /\ ReportsCounted'
        /\ (pvp \in [Pvp -> PvpRow])' /\ (moved \in [Pvp -> MovedRow])'
    BY <1>1 DEF EInv, Rows, AccountsTyped, Unopened, EscrowsOpen, InstrumentsTypeOK, OperatorsOpen, IssuanceTypeOK,
                OperatorRows, ReportsCounted, ReportsMatchBridge, Settlements
  <2>2. Balanced'
    BY <1>1 DEF EInv, Rows, Balanced, ActsBy
  <2>3. Settlements'
    BY <1>1, <2>1 DEF EInv, Rows, Settlements, LegsArePaired, ActsBy
  <2> QED
    BY <2>1, <2>2, <2>3 DEF Rows
<1>3. ASSUME NEW c \in Client PROVE Reads(c)'
  <2>1. CASE req'[c] = req[c]
    <3>1. Reads(c)
      BY DEF EInv, Requests
    <3>2. Moves(c)' /\ Funds(c)' /\ Tells(c)' /\ MovesLegs(c)'
      BY <1>1, <2>1, <3>1 DEF Reads, Moves, Funds, Tells, MovesLegs
    <3>3. Releases(c)' /\ OnOperatorRow(c)' /\ OnSettlement(c)'
      BY <1>1, <2>1, <3>1 DEF Reads, Releases, OnOperatorRow, OnSettlement
    <3> QED
      BY <3>2, <3>3 DEF Reads
  <2>2. CASE req'[c] # req[c]
    <3>1. req'[c].op \in {"idle"} \cup CipsOps \cup PaymentOps
      BY <2>2 DEF EInv, Requests, ActsBy, Idle
    <3>2. req'[c].op \notin Moving \cup Funding \cup Settling \cup {"operator"}
      BY <3>1 DEF CipsOps, PaymentOps, Moving, Funding, Settling
    <3> QED
      BY <3>2 DEF Reads, Moves, Funds, Releases, Tells, OnOperatorRow, OnSettlement, MovesLegs, Moving, Funding, Settling
  <2> QED
    BY <2>1, <2>2
<1> QED
  BY <1>2, <1>3 DEF EInv, Requests, ActsBy

\* ... nothing of CIPS ...
LEMMA CipsKept ==
    ASSUME CipsInv, ActsBy(LedgerOps \cup PaymentOps), stale' \in BOOLEAN, UNCHANGED cipsVars
    PROVE  CipsInv'
<1>1. UNCHANGED <<account, funded, settlement, settledMsg>>
  BY DEF cipsVars
<1>2. CipsRows' /\ Explained'
  BY <1>1 DEF CipsInv, CipsRows, Explained, SettlementsExplainBalances, ActsBy
<1>3. ASSUME NEW c \in Client PROVE CipsReads(req'[c], account', settlement')
  <2>1. CASE req'[c] = req[c]
    BY <1>1, <2>1 DEF CipsInv
  <2>2. CASE req'[c] # req[c]
    <3>1. req'[c].op \in {"idle"} \cup LedgerOps \cup PaymentOps
      BY <2>2 DEF CipsInv, ActsBy, Idle
    <3>2. req'[c].op \notin CipsOps
      BY <3>1 DEF LedgerOps, EcnyOps, InstrumentOps, PvpOps, IssuanceOps, PaymentOps, CipsOps
    <3> QED
      BY <3>2 DEF CipsReads, Submits, ReadsQueue, Settles, CipsOps
  <2> QED
    BY <2>1, <2>2
<1> QED
  BY <1>2, <1>3 DEF CipsInv, ActsBy

\* ... and nothing of the payments.
LEMMA PaymentsKept ==
    ASSUME PInv, ActsBy(LedgerOps \cup CipsOps), stale' \in BOOLEAN, UNCHANGED paymentsVars
    PROVE  PInv'
<1>1. UNCHANGED <<record, queued, life, told, copies, casefile, decided, audit>>
  BY DEF paymentsVars
<1>2. ASSUME NEW c \in Client, req'[c].op \in PaymentOps PROVE req'[c] = req[c]
  BY <1>2 DEF PInv, OpenPayments, ActsBy, Idle, PaymentOps, LedgerOps, EcnyOps, InstrumentOps, PvpOps, IssuanceOps, CipsOps
<1>3. OpenPayments'
  <2>1. ASSUME NEW c \in Client, req'[c].op = "enqueue" PROVE Inserts(c)'
    <3>1. req'[c] = req[c] /\ Inserts(c)
      BY <1>2, <2>1 DEF PaymentOps, PInv, OpenPayments
    <3>2. \A d \in Client : req'[d].op = "enqueue" => req'[d] = req[d]
      BY <1>2 DEF PaymentOps
    <3> QED
      BY <1>1, <3>1, <3>2 DEF Inserts
  <2>2. ASSUME NEW c \in Client
        PROVE  /\ req'[c].op = "transition" => Transition(req'[c])
               /\ req'[c].op = "copy" => CopyLink(req'[c])
               /\ req'[c].op = "audit" => EventLink(req'[c])
    BY <1>2 DEF PaymentOps, PInv, OpenPayments
  <2> QED
    BY <2>1, <2>2 DEF PInv, OpenPayments, ActsBy
<1>4. Lifecycle' /\ EnqueuedOncePerKey' /\ EventsTellTheLife' /\ ChainsVerify'
  BY <1>1 DEF PInv, Lifecycle, EnqueuedOncePerKey, EventsTellTheLife, ChainsVerify, CopyChainVerifies,
              AuditChainVerifies, ActsBy
<1> QED
  BY <1>1, <1>3, <1>4 DEF PInv

------------------------------------------------------------------------------
(* The reconciliation report *)

\* An open request leaves the row of its operator within the limit, and no
\* event tells of failures.
OperatorsInRange ==
    /\ \A a \in Registered : issued[a] \in 0 .. OperatorLimit[a]
    /\ \A c \in Client : req[c].op = "operator" => req[c].row + req[c].d \in 0 .. OperatorLimit[req[c].a]

NothingReported ==
    /\ \A i \in DOMAIN audit : audit[i].payload # "failures"
    /\ \A c \in Client : req[c].op = "audit" => req[c].event.payload # "failures"

\* The requests that are no operator's leave the operators' rows alone.
LEMMA RangesKept ==
    ASSUME EInv, OperatorsInRange, NEW ops, "operator" \notin ops, ActsBy(ops), UNCHANGED issuanceVars
    PROVE  OperatorsInRange'
<1>1. issued' = issued
  BY DEF issuanceVars
<1>2. ASSUME NEW c \in Client, req'[c].op = "operator" PROVE req'[c] = req[c]
  BY <1>2 DEF EInv, Requests, ActsBy, Idle
<1> QED
  BY <1>1, <1>2 DEF OperatorsInRange, Registered

\* A request that would leave its row in range, having read it.
LEMMA OperatorStaysInRange ==
    ASSUME EInv, OperatorsInRange, NEW c \in Client, NEW a \in Registered, NEW d \in Int, NEW read, NEW s, NEW top,
           issued[a] + d \in 0 .. OperatorLimit[a], Open(c, OnOperator(a, d, read, s, top)),
           UNCHANGED issuanceVars
    PROVE  OperatorsInRange'
<1> DEFINE r == OnOperator(a, d, read, s, top)
<1>1. issued' = issued /\ req' = [req EXCEPT ![c] = r] /\ DOMAIN req = Client
  BY DEF issuanceVars, Open, EInv, Requests
<1>2. r.a = a /\ r.row = issued[a] /\ r.d = d
  BY DEF OnOperator
<1> HIDE DEF r
<1>3. ASSUME NEW e \in Client, req'[e].op = "operator"
      PROVE  req'[e].row + req'[e].d \in 0 .. OperatorLimit[req'[e].a]
  <2>1. CASE e = c
    <3>1. req'[e] = r
      BY <1>1, <2>1
    <3> QED
      BY <1>2, <3>1
  <2>2. CASE e # c
    <3>1. req'[e] = req[e]
      BY <1>1, <2>2
    <3> QED
      BY <1>3, <3>1 DEF OperatorsInRange
  <2> QED
    BY <2>1, <2>2
<1> QED
  BY <1>1, <1>3 DEF OperatorsInRange, Registered

\* What an operator's row may be.
LEMMA RowInRange ==
    ASSUME EInv, OperatorsInRange, NEW a \in Registered
    PROVE  OperatorLimit[a] \in Nat /\ issued[a] \in Int /\ issued[a] >= 0 /\ issued[a] <= OperatorLimit[a]
<1>1. a \in Operators
  BY DEF EInv, Rows, OperatorsOpen, IssuanceTypeOK, Registered
<1>2. OperatorLimit[a] \in Nat
  BY <1>1, LimitAssumption
<1> QED
  BY <1>2 DEF OperatorsInRange

LEMMA ReadsInRange ==
    ASSUME EInv, OperatorsInRange, NEW c \in Client, NEW a \in Operators, NEW n \in Amount,
           \/ ReadIssue(c, a, n)
           \/ ReadRedeem(c, a, n)
           \/ \E w \in Wallets : ReadTopUp(c, a, w, n)
    PROVE  OperatorsInRange'
<1>0. n \in Nat
  BY AmountsAreNat
<1>1. ASSUME CanIssue(a, n), NEW read, NEW s, NEW top, Open(c, OnOperator(a, n, read, s, top)), UNCHANGED issuanceVars
      PROVE  OperatorsInRange'
  <2>1. a \in Registered /\ issued[a] + n <= OperatorLimit[a]
    BY <1>1 DEF CanIssue
  <2>2. issued[a] + n \in 0 .. OperatorLimit[a]
    BY <1>0, <2>1, RowInRange
  <2> QED
    BY <1>0, <1>1, <2>1, <2>2, OperatorStaysInRange
<1>2. CASE ReadIssue(c, a, n)
  BY <1>1, <1>2 DEF ReadIssue
<1>3. ASSUME NEW w, ReadTopUp(c, a, w, n) PROVE OperatorsInRange'
  BY <1>1, <1>3 DEF ReadTopUp
<1>4. CASE ReadRedeem(c, a, n)
  <2>1. a \in Registered /\ n <= issued[a]
    BY <1>4 DEF ReadRedeem
  <2>2. issued[a] + (-n) \in 0 .. OperatorLimit[a] /\ -n \in Int
    BY <1>0, <2>1, RowInRange
  <2>3. UNCHANGED issuanceVars /\ \E read, s, top : Open(c, OnOperator(a, -n, read, s, top))
    BY <1>4 DEF ReadRedeem
  <2> QED
    BY <2>1, <2>2, <2>3, OperatorStaysInRange
<1> QED
  BY <1>2, <1>3, <1>4

LEMMA CommitInRange ==
    ASSUME EInv, OperatorsInRange, NEW c \in Client, CommitOperator(c)
    PROVE  OperatorsInRange'
<1> PICK a, n : a = req[c].a /\ n = req[c].row + req[c].d
  OBVIOUS
<1>1. /\ req[c].op = "operator" /\ issued' = [issued EXCEPT ![a] = n]
      /\ req' = [req EXCEPT ![c] = Idle] /\ DOMAIN req = Client
  BY DEF CommitOperator, Commit, EInv, Requests
<1>2. n \in 0 .. OperatorLimit[a]
  BY <1>1 DEF OperatorsInRange
<1>3. DOMAIN issued' = DOMAIN issued /\ \A b \in Registered : issued'[b] = IF b = a THEN n ELSE issued[b]
  BY <1>1 DEF EInv, Rows, OperatorsOpen, IssuanceTypeOK, OperatorRows, Registered
<1>4. \A b \in Registered' : issued'[b] \in 0 .. OperatorLimit[b]
  BY <1>2, <1>3 DEF OperatorsInRange, Registered
<1>5. \A e \in Client : req'[e].op = "operator" => req'[e] = req[e]
  BY <1>1 DEF Idle
<1> QED
  BY <1>4, <1>5 DEF OperatorsInRange

LEMMA IssuanceInRange ==
    ASSUME EInv, OperatorsInRange, NEW c \in Client, IssuanceNext(c)
    PROVE  OperatorsInRange'
<1>1. ASSUME NEW a \in Operators, RegisterOperator(c, a) PROVE OperatorsInRange'
  <2>1. issued' = Put(OneRow(a, 0), issued) /\ req' = req /\ a \notin Registered /\ Registered = DOMAIN issued
    BY <1>1 DEF RegisterOperator, AtOnce, Registered
  <2>2. Registered' = Registered \cup {a} /\ \A b \in Registered' : issued'[b] = IF b = a THEN 0 ELSE issued[b]
    BY <2>1 DEF Put, OneRow, Registered
  <2>3. OperatorLimit[a] \in Nat
    BY LimitAssumption
  <2>4. 0 \in 0 .. OperatorLimit[a]
    BY <2>3
  <2>5. \A b \in Registered' : issued'[b] \in 0 .. OperatorLimit[b]
    BY <2>2, <2>4 DEF OperatorsInRange
  <2> QED
    BY <2>1, <2>5 DEF OperatorsInRange
<1>2. ASSUME NEW w, NEW a, CreateHkWallet(c, w, a) PROVE OperatorsInRange'
  <2>1. ActsBy({}) /\ UNCHANGED issuanceVars
    BY <1>2, AtOnceActs DEF CreateHkWallet
  <2> QED
    BY <2>1, RangesKept
<1>3. ASSUME NEW w, NEW m, NEW n, ReadMerchantPayment(c, w, m, n) PROVE OperatorsInRange'
  <2>1. PICK r : r.op = "merchant" /\ Open(c, r)
    BY <1>3 DEF ReadMerchantPayment, RequestOf
  <2>2. ActsBy({"merchant"}) /\ UNCHANGED issuanceVars
    BY <1>3, <2>1, OpenActs DEF ReadMerchantPayment
  <2> QED
    BY <2>2, RangesKept
<1>4. CASE CommitOperator(c)
  BY <1>4, CommitInRange
<1>5. CASE CommitMerchantPayment(c)
  <2>1. ActsBy({}) /\ UNCHANGED issuanceVars
    BY <1>5, CommitActs DEF CommitMerchantPayment, CommitRequest
  <2> QED
    BY <2>1, RangesKept
<1>6. CASE RollBackOperator(c)
  <2>1. ActsBy({}) /\ UNCHANGED issuanceVars
    BY <1>6, RollBackActs DEF RollBackOperator
  <2> QED
    BY <2>1, RangesKept
<1> QED
  BY <1>1, <1>2, <1>3, <1>4, <1>5, <1>6, ReadsInRange DEF IssuanceNext

LEMMA LedgerInRange ==
    ASSUME EInv, OperatorsInRange, EcnySystemNext
    PROVE  OperatorsInRange'
<1>1. ASSUME NEW c \in Client, EcnyNext(c), UNCHANGED issuanceVars PROVE OperatorsInRange'
  BY <1>1, EcnyActs, RangesKept DEF EcnyOps
<1>2. ASSUME NEW c \in Client, InstrumentNext(c), UNCHANGED issuanceVars PROVE OperatorsInRange'
  BY <1>2, InstrumentsAct, RangesKept DEF InstrumentOps
<1>3. ASSUME NEW c \in Client, PvpNext(c), UNCHANGED issuanceVars PROVE OperatorsInRange'
  BY <1>3, PvpActs, RangesKept DEF PvpOps
<1>4. ASSUME NEW c \in Client, IssuanceNext(c) PROVE OperatorsInRange'
  BY <1>4, IssuanceInRange
<1>5. ASSUME NewDay \/ ExpireQuote \/ \E x \in Voucher \cup Instrument : PassExpiry(x), UNCHANGED issuanceVars
      PROVE  OperatorsInRange'
  <2>1. ActsBy({})
    BY <1>5, NobodyActs DEF NewDay, ExpireQuote, PassExpiry, requestVars
  <2> QED
    BY <1>5, <2>1, RangesKept
<1> QED
  BY <1>1, <1>2, <1>3, <1>4, <1>5 DEF EcnySystemNext

\* The requests that append nothing to the audit chain leave it as it is.
LEMMA ReportsKept ==
    ASSUME DOMAIN req = Client, NothingReported, NEW ops, "audit" \notin ops, ActsBy(ops), UNCHANGED audit
    PROVE  NothingReported'
<1>1. ASSUME NEW c \in Client, req'[c].op = "audit" PROVE req'[c] = req[c]
  BY <1>1 DEF ActsBy, Idle
<1> QED
  BY <1>1 DEF NothingReported

\* A request that will append an event that is no such report.
LEMMA EventReportsNothing ==
    ASSUME DOMAIN req = Client, NothingReported, NEW c \in Client, NEW payload, payload # "failures",
           NEW chain, NEW decision, UNCHANGED audit,
           Open(c, [op |-> "audit", chain |-> chain, event |-> EventOf(payload), decision |-> decision])
    PROVE  NothingReported'
<1> DEFINE r == [op |-> "audit", chain |-> chain, event |-> EventOf(payload), decision |-> decision]
<1>1. r.event.payload = payload /\ req' = [req EXCEPT ![c] = r]
  BY DEF EventOf, Open
<1> HIDE DEF r
<1>2. \A d \in Client : req'[d] = IF d = c THEN r ELSE req[d]
  BY <1>1
<1> QED
  BY <1>1, <1>2 DEF NothingReported

LEMMA PaymentsReportNothing ==
    ASSUME PInv, NothingReported, PaymentsNext
    PROVE  NothingReported'
<1>0. DOMAIN req = Client
  BY DEF PInv, OpenPayments
<1>1. ASSUME NEW c \in Client, NEW k \in Key, NEW digest \in Digest, BeginEnqueue(c, k, digest) PROVE NothingReported'
  <2>1. ActsBy({"enqueue"}) /\ UNCHANGED audit
    BY <1>1, OpenActs DEF BeginEnqueue, paymentsVars
  <2> QED
    BY <1>0, <2>1, ReportsKept
<1>2. ASSUME NEW c \in Client, CommitEnqueue(c) \/ CommitTransition(c) \/ CommitCopy(c) \/ CommitCase(c)
      PROVE  NothingReported'
  <2>1. UNCHANGED audit /\ \E fresh : Commit(c, fresh)
    BY <1>2 DEF CommitEnqueue, CommitTransition, CommitCopy, CommitCase
  <2>2. ActsBy({})
    BY <2>1, CommitActs
  <2> QED
    BY <1>0, <2>1, <2>2, ReportsKept
<1>3. ASSUME NEW c \in Client, CreatePayment(c) \/ OpenCase(c) PROVE NothingReported'
  <2>1. UNCHANGED audit /\ ActsBy({})
    BY <1>3, AtOnceActs DEF CreatePayment, OpenCase
  <2> QED
    BY <1>0, <2>1, ReportsKept
<1>4. ASSUME NEW c \in Client, NEW expected, NEW new, ReadTransition(c, expected, new) PROVE NothingReported'
  <2>1. UNCHANGED audit /\ ActsBy({"transition"})
    BY <1>4, OpenActs DEF ReadTransition, paymentsVars
  <2> QED
    BY <1>0, <2>1, ReportsKept
<1>5. ASSUME NEW c \in Client, NEW payload, ReadCopies(c, payload) PROVE NothingReported'
  <2>1. UNCHANGED audit /\ ActsBy({"copy"})
    BY <1>5, OpenActs DEF ReadCopies, paymentsVars
  <2> QED
    BY <1>0, <2>1, ReportsKept
<1>6. ASSUME NEW c \in Client, NEW new, ReadCase(c, new) PROVE NothingReported'
  <2>1. UNCHANGED audit /\ ActsBy({"case"})
    BY <1>6, OpenActs DEF ReadCase, paymentsVars
  <2> QED
    BY <1>0, <2>1, ReportsKept
<1>7. ASSUME NEW c \in Client, RollBackPayments(c) PROVE NothingReported'
  <2>1. UNCHANGED audit /\ ActsBy({})
    BY <1>7, RollBackActs DEF RollBackPayments, paymentsVars
  <2> QED
    BY <1>0, <2>1, ReportsKept
<1>8. ASSUME NEW c \in Client, NEW payload \in Payload, ReadAudit(c, payload) PROVE NothingReported'
  <2>1. payload # "failures"
    BY ReportAssumption
  <2> QED
    BY <1>0, <1>8, <2>1, EventReportsNothing DEF ReadAudit, paymentsVars
<1>9. ASSUME NEW c \in Client, CommitAudit(c) PROVE NothingReported'
  <2>1. /\ audit' = Append(audit, req[c].event) /\ req' = [req EXCEPT ![c] = Idle]
        /\ req[c].event.payload # "failures"
    BY <1>9 DEF CommitAudit, Commit, NothingReported
  <2>2. /\ DOMAIN audit = 1 .. Len(audit) /\ DOMAIN audit' = 1 .. Len(audit) + 1 /\ Len(audit) \in Nat
        /\ \A i \in 1 .. Len(audit) : audit'[i] = audit[i]
        /\ audit'[Len(audit) + 1] = req[c].event
    BY <2>1, AppendTuple DEF PInv
  <2>3. \A i \in DOMAIN audit' : i \in DOMAIN audit \/ i = Len(audit) + 1
    BY <2>2
  <2>4. \A i \in DOMAIN audit' : audit'[i].payload # "failures"
    BY <2>1, <2>2, <2>3 DEF NothingReported
  <2>5. \A d \in Client : req'[d].op = "audit" => req'[d] = req[d]
    BY <1>0, <2>1 DEF Idle
  <2> QED
    BY <2>4, <2>5 DEF NothingReported
<1> QED
  BY <1>1, <1>2, <1>3, <1>4, <1>5, <1>6, <1>7, <1>8, <1>9 DEF PaymentsNext

\* The rows a report lists are in their ranges, however requests overlap.
LEMMA NothingFails ==
    ASSUME EInv, CipsInv, OperatorsInRange
    PROVE  Failures = {}
<1>1. \A p \in DOMAIN account : ~(account[p] < 0)
  BY DEF CipsInv, CipsRows, AccountsOf
<1>2. ASSUME NEW a \in Registered PROVE ~(issued[a] < 0 \/ issued[a] > OperatorLimit[a])
  BY RowInRange
<1>3. ASSUME NEW p \in Pvp PROVE pvp[p].state \in {"NONE", "CREATED", "LOCKED", "COMMITTED", "ABORTED"}
  <2>1. pvp[p] \in PvpRow
    BY DEF EInv, Rows, Settlements
  <2> QED
    BY <2>1 DEF PvpRow, NoPvp
<1>4. /\ {p \in DOMAIN account : account[p] < 0} = {}
      /\ {a \in Registered : issued[a] < 0 \/ issued[a] > OperatorLimit[a]} = {}
      /\ {p \in Pvp : pvp[p].state \notin {"NONE", "CREATED", "LOCKED", "COMMITTED", "ABORTED"}} = {}
  BY <1>1, <1>2, <1>3
<1> QED
  BY <1>4 DEF Failures

------------------------------------------------------------------------------
(* Everything at once: the invariant of the simulator *)

PlatformInv == EInv /\ CipsInv /\ PInv /\ OperatorsInRange /\ NothingReported

\* A report that will be appended tells of nothing.
LEMMA ReconciliationKeeps ==
    ASSUME PlatformInv, NEW c \in Client, ReadReconciliation(c)
    PROVE  PlatformInv'
<1>1. /\ Open(c, [op |-> "audit", chain |-> audit, event |-> EventOf(Report), decision |-> FALSE])
      /\ UNCHANGED <<ledgerRows, cipsVars, paymentsVars>> /\ UNCHANGED <<stale, issuanceVars, audit>>
  BY DEF ReadReconciliation, Open, ledgerRows, paymentsVars
<1>2. ActsBy({"audit"}) /\ stale' \in BOOLEAN /\ DOMAIN req = Client
  <2>1. ActsBy({"audit"})
    BY <1>1, OpenActs
  <2> QED
    BY <1>1, <2>1 DEF PlatformInv, CipsInv
<1>3. EInv'
  <2>1. ActsBy(CipsOps \cup PaymentOps)
    BY <1>2, MoreActs DEF PaymentOps
  <2> QED
    BY <1>1, <1>2, <2>1, LedgerKept DEF PlatformInv
<1>4. CipsInv'
  <2>1. ActsBy(LedgerOps \cup PaymentOps)
    BY <1>2, MoreActs DEF PaymentOps
  <2> QED
    BY <1>1, <1>2, <2>1, CipsKept DEF PlatformInv
<1>5. OperatorsInRange'
  BY <1>1, <1>2, RangesKept DEF PlatformInv
<1>6. NothingReported'
  <2>1. Report # "failures"
    BY NothingFails DEF PlatformInv, Report
  <2> QED
    BY <1>1, <1>2, <2>1, EventReportsNothing DEF PlatformInv
<1>7. PInv'
  <2> DEFINE r == [op |-> "audit", chain |-> audit, event |-> EventOf(Report), decision |-> FALSE]
  <2>1. req' = [req EXCEPT ![c] = r] /\ stale' = stale /\ UNCHANGED paymentsVars
    BY <1>1 DEF Open
  <2>2. EventLink(r)
    BY DEF EventLink, EventOf
  <2>3. OpenPayments'
    BY <2>1, <2>2, RequestOpened DEF paymentsVars, PlatformInv
  <2> QED
    BY <2>1, <2>3, OtherRequests DEF paymentsVars, SameKeys, SameLife, SameCopies, SameAudit, PlatformInv
<1> QED
  BY <1>3, <1>4, <1>5, <1>6, <1>7 DEF PlatformInv

\* A step of the platform that is none of the ledger.
ApartStep ==
    \/ (\E c \in Client : CipsNext(c)) /\ UNCHANGED <<ledgerRows, paymentsVars>>
    \/ PaymentsNext /\ UNCHANGED <<ledgerRows, cipsVars>>
    \/ \E c \in Client : ReadReconciliation(c)
    \/ UNCHANGED platformVars

\* What the ledger sees of it: other requests.
LEMMA ApartFromLedger ==
    ASSUME ApartStep
    PROVE  ActsBy(CipsOps \cup PaymentOps) /\ UNCHANGED ledgerRows
<1>1. CASE (\E c \in Client : CipsNext(c)) /\ UNCHANGED <<ledgerRows, paymentsVars>>
  BY <1>1, CipsActs, MoreActs
<1>2. CASE PaymentsNext /\ UNCHANGED <<ledgerRows, cipsVars>>
  BY <1>2, PaymentsAct, MoreActs
<1>3. ASSUME NEW c \in Client, ReadReconciliation(c) PROVE ActsBy(CipsOps \cup PaymentOps) /\ UNCHANGED ledgerRows
  <2>1. Open(c, [op |-> "audit", chain |-> audit, event |-> EventOf(Report), decision |-> FALSE]) /\ UNCHANGED ledgerRows
    BY <1>3 DEF ReadReconciliation
  <2> QED
    BY <2>1, OpenActs DEF PaymentOps
<1>4. CASE UNCHANGED platformVars
  BY <1>4, NobodyActs DEF platformVars, requestVars
<1> QED
  BY <1>1, <1>2, <1>3, <1>4 DEF ApartStep

LEMMA ApartKeeps ==
    ASSUME PlatformInv, ApartStep
    PROVE  PlatformInv'
<1>1. ActsBy(CipsOps \cup PaymentOps) /\ UNCHANGED ledgerRows /\ UNCHANGED issuanceVars
  BY ApartFromLedger DEF ledgerRows
<1>2. OperatorsInRange'
  BY <1>1, RangesKept DEF PlatformInv, CipsOps, PaymentOps
<1>3. ASSUME NEW c \in Client, CipsNext(c), UNCHANGED paymentsVars PROVE PlatformInv'
  <2>1. CipsInv'
    BY <1>3, CipsStepKeeps DEF PlatformInv
  <2>2. ActsBy(CipsOps) /\ ActsBy(LedgerOps \cup CipsOps) /\ stale' \in BOOLEAN /\ DOMAIN req = Client
    BY <1>3, <2>1, CipsActs, MoreActs DEF CipsInv, PlatformInv
  <2>3. NothingReported'
    BY <1>3, <2>2, ReportsKept DEF PlatformInv, CipsOps, paymentsVars
  <2> QED
    BY <1>1, <1>2, <1>3, <2>1, <2>2, <2>3, LedgerKept, PaymentsKept DEF PlatformInv
<1>4. ASSUME PaymentsNext, UNCHANGED cipsVars PROVE PlatformInv'
  <2>1. PInv'
    BY <1>4, NextPayments DEF PlatformInv
  <2>2. ActsBy(LedgerOps \cup PaymentOps) /\ stale' \in BOOLEAN
    BY <1>4, <2>1, PaymentsAct, MoreActs DEF PInv
  <2>3. NothingReported'
    BY <1>4, PaymentsReportNothing DEF PlatformInv
  <2> QED
    BY <1>1, <1>2, <1>4, <2>1, <2>2, <2>3, LedgerKept, CipsKept DEF PlatformInv
<1>5. CASE UNCHANGED platformVars
  <2>1. /\ UNCHANGED <<req, stale>> /\ UNCHANGED cipsVars /\ UNCHANGED paymentsVars /\ UNCHANGED pvars /\ UNCHANGED audit
    BY <1>5 DEF platformVars, requestVars, paymentsVars, pvars
  <2>2. stale' \in BOOLEAN /\ DOMAIN req = Client
    BY <2>1 DEF PlatformInv, CipsInv
  <2>3. ActsBy({}) /\ ActsBy(LedgerOps \cup PaymentOps)
    BY <2>1, NobodyActs
  <2>4. NothingReported'
    BY <2>1, <2>2, <2>3, ReportsKept DEF PlatformInv
  <2> QED
    BY <1>1, <1>2, <2>1, <2>2, <2>3, <2>4, LedgerKept, CipsKept, NextPayments DEF PlatformInv
<1> QED
  BY <1>3, <1>4, <1>5, ReconciliationKeeps DEF ApartStep

LEMMA LedgerKeeps ==
    ASSUME PlatformInv, EcnySystemNext, UNCHANGED <<cipsVars, paymentsVars>>
    PROVE  PlatformInv'
<1>1. EInv'
  BY NextEcny DEF PlatformInv
<1>2. ActsBy(LedgerOps) /\ stale' \in BOOLEAN /\ DOMAIN req = Client
  BY <1>1, LedgerActs DEF EInv, Requests, PlatformInv
<1>3. ActsBy(LedgerOps \cup PaymentOps) /\ ActsBy(LedgerOps \cup CipsOps)
  BY <1>2, MoreActs
<1>4. OperatorsInRange'
  BY LedgerInRange DEF PlatformInv
<1>5. NothingReported'
  BY <1>2, ReportsKept DEF PlatformInv, paymentsVars, LedgerOps, EcnyOps, InstrumentOps, PvpOps, IssuanceOps
<1> QED
  BY <1>1, <1>2, <1>3, <1>4, <1>5, CipsKept, PaymentsKept DEF PlatformInv

\* Nothing is open and nothing told at first.
LEMMA InitPlatform == PlatformInit => PlatformInv
<1> SUFFICES ASSUME PlatformInit PROVE PlatformInv
  OBVIOUS
<1>1. EInv
  BY InitEcny DEF PlatformInit
<1>2. PICK allowed \in Nat : RequestsInit(allowed)
  BY DEF PlatformInit, EcnySystemInit
<1>3. CipsInv
  BY <1>2, CipsInitially DEF PlatformInit
<1>4. PInv
  BY <1>2, InitPayments DEF PlatformInit
<1>5. \A c \in Client : req[c].op = "idle"
  BY <1>2 DEF RequestsInit, Idle
<1>6. OperatorsInRange
  <2>1. Registered = {}
    BY DEF PlatformInit, EcnySystemInit, IssuanceInit, Registered
  <2> QED
    BY <1>5, <2>1 DEF OperatorsInRange
<1>7. NothingReported
  <2>1. audit = <<>>
    BY DEF PlatformInit, PaymentsInit
  <2>2. DOMAIN audit = {}
    BY <2>1, EmptyTuple
  <2> QED
    BY <1>5, <2>2 DEF NothingReported
<1> QED
  BY <1>1, <1>3, <1>4, <1>6, <1>7 DEF PlatformInv

\* The steps of the platform, by what the ledger does.
LEMMA PlatformSteps ==
    ASSUME [PlatformNext]_platformVars
    PROVE  ApartStep \/ (EcnySystemNext /\ UNCHANGED <<cipsVars, paymentsVars>>)
  BY DEF PlatformNext, ApartStep

------------------------------------------------------------------------------
(* The types of what no invariant above speaks of *)

QuoteTyped == quote \in QuoteStatus

MembersTyped == member \in ParticipantRows

\* An open request leaves a case in a status there is.
CasesTyped ==
    /\ casefile \in CaseStatus
    /\ \A c \in Client : req[c].op = "case" => req[c].becomes \in CaseStatus

\* ... and appends a copy of its payload, whatever it has read.
CopiesTyped ==
    /\ \A i \in DOMAIN copies : copies[i] \in CopyRow
    /\ \A c \in Client : req[c].op = "copy" => req[c].link \in CopyRow

TypesInv == QuoteTyped /\ MembersTyped /\ CasesTyped /\ CopiesTyped

LEMMA QuoteStays ==
    ASSUME QuoteTyped, EcnySystemNext
    PROVE  QuoteTyped'
<1>1. ASSUME UNCHANGED pvpVars PROVE QuoteTyped'
  BY <1>1 DEF QuoteTyped, pvpVars
<1>2. ASSUME NEW c \in Client, PvpNext(c) PROVE QuoteTyped'
  <2>1. quote' = quote \/ quote' = "active"
    <3>1. CASE CreateFxQuote(c)
      BY <3>1 DEF CreateFxQuote
    <3>2. ASSUME NEW p, NEW legs, CreatePvp(c, p, legs) PROVE quote' = quote
      BY <3>2 DEF CreatePvp
    <3>3. ASSUME NEW p, NEW expected, ReadLockPvp(c, p, expected) \/ ReadCommitPvp(c, p, expected) PROVE quote' = quote
      BY <3>3 DEF ReadLockPvp, ReadCommitPvp, pvpVars
    <3>4. CASE CommitLockPvp(c)
      BY <3>4 DEF CommitLockPvp
    <3>5. CASE TakeLeases(c) \/ RollBackPvp(c)
      BY <3>5 DEF TakeLeases, RollBackPvp, pvpVars
    <3>6. CASE CommitPvp(c)
      BY <3>6, ZenonT(60) DEF CommitPvp
    <3> QED
      BY <1>2, <3>1, <3>2, <3>3, <3>4, <3>5, <3>6 DEF PvpNext
  <2> QED
    BY <2>1 DEF QuoteTyped, QuoteStatus
<1>3. CASE ExpireQuote
  BY <1>3 DEF ExpireQuote, QuoteTyped, QuoteStatus
<1> QED
  BY <1>1, <1>2, <1>3 DEF EcnySystemNext

LEMMA MembersStay == ASSUME MembersTyped, NEW c \in Client, CipsNext(c) PROVE MembersTyped'
<1>1. ASSUME NEW p \in Participant, RegisterParticipant(c, p) PROVE MembersTyped'
  BY <1>1 DEF RegisterParticipant, MembersTyped, ParticipantRows
<1>2. ASSUME member' = member PROVE MembersTyped'
  BY <1>2 DEF MembersTyped
<1>3. ASSUME NEW p, NEW n, OpenAccount(c, p, n) PROVE member' = member
  BY <1>3 DEF OpenAccount
<1>4. ASSUME NEW row, SubmitDns(c, row) \/ ReadSubmitRtgs(c, row) PROVE member' = member
  BY <1>4 DEF SubmitDns, ReadSubmitRtgs, cipsVars
<1>5. ASSUME NEW b, ReadQueue(c) \/ SettleQueue(c) \/ ReadBatch(c, b) \/ RollBackCips(c) PROVE member' = member
  BY <1>5 DEF ReadQueue, SettleQueue, ReadBatch, RollBackCips, cipsVars
<1>6. ASSUME CommitSubmitRtgs(c) \/ CommitCips(c) PROVE member' = member
  BY <1>6, ZenonT(60) DEF CommitSubmitRtgs, CommitCips
<1> QED
  BY <1>1, <1>2, <1>3, <1>4, <1>5, <1>6 DEF CipsNext

\* Requests that are about no copies and no case.
LEMMA RecordsKept ==
    ASSUME DOMAIN req = Client, CasesTyped, CopiesTyped, NEW ops, ops \cap {"copy", "case"} = {}, ActsBy(ops),
           UNCHANGED <<casefile, copies>>
    PROVE  CasesTyped' /\ CopiesTyped'
<1>1. ASSUME NEW c \in Client, req'[c].op \in {"copy", "case"} PROVE req'[c] = req[c]
  BY <1>1 DEF ActsBy, Idle
<1> QED
  BY <1>1 DEF CasesTyped, CopiesTyped

LEMMA ReadCopiesTyped ==
    ASSUME DOMAIN req = Client, CasesTyped, CopiesTyped, Tuple(copies), NEW c \in Client, NEW payload \in Payload,
           ReadCopies(c, payload)
    PROVE  CasesTyped' /\ CopiesTyped'
<1> DEFINE r == [op |-> "copy", chain |-> copies, link |-> CopyOf(payload)]
<1>1. req' = [req EXCEPT ![c] = r] /\ copies' = copies /\ casefile' = casefile
  BY DEF ReadCopies, Open, paymentsVars
<1>2. CopyOf(payload) \in CopyRow
  <2>1. <<>> \in Seq(Payload) /\ <<payload>> \in Seq(Payload)
    OBVIOUS
  <2>2. LastOr(copies, NoHash) \in Seq(Payload)
    <3>1. CASE copies = <<>>
      BY <2>1, <3>1 DEF LastOr, NoHash
    <3>2. CASE copies # <<>>
      <4>1. Len(copies) \in Nat /\ DOMAIN copies = 1 .. Len(copies) /\ Len(copies) # 0
        BY <3>2, NoElement
      <4>2. copies[Len(copies)] \in CopyRow
        BY <4>1 DEF CopiesTyped
      <4> QED
        BY <3>2, <4>2 DEF LastOr, CopyRow
    <3> QED
      BY <3>1, <3>2
  <2> QED
    BY <2>1, <2>2 DEF CopyOf, CopyRow
<1>3. r.op = "copy" /\ r.link \in CopyRow
  BY <1>2
<1> HIDE DEF r
<1>4. \A d \in Client : req'[d] = IF d = c THEN r ELSE req[d]
  BY <1>1
<1> QED
  BY <1>1, <1>3, <1>4 DEF CasesTyped, CopiesTyped

LEMMA CommitCopyTyped ==
    ASSUME DOMAIN req = Client, CasesTyped, CopiesTyped, Tuple(copies), NEW c \in Client, CommitCopy(c)
    PROVE  CasesTyped' /\ CopiesTyped'
<1>1. /\ copies' = Append(copies, req[c].link) /\ req' = [req EXCEPT ![c] = Idle]
      /\ casefile' = casefile /\ req[c].link \in CopyRow
  BY DEF CommitCopy, Commit, CopiesTyped
<1>2. /\ DOMAIN copies = 1 .. Len(copies) /\ DOMAIN copies' = 1 .. Len(copies) + 1 /\ Len(copies) \in Nat
      /\ \A i \in 1 .. Len(copies) : copies'[i] = copies[i]
      /\ copies'[Len(copies) + 1] = req[c].link
  BY <1>1, AppendTuple
<1>3. \A i \in DOMAIN copies' : i \in DOMAIN copies \/ i = Len(copies) + 1
  BY <1>2
<1>4. \A i \in DOMAIN copies' : copies'[i] \in CopyRow
  BY <1>1, <1>2, <1>3 DEF CopiesTyped
<1>5. \A d \in Client : req'[d].op \in {"copy", "case"} => req'[d] = req[d]
  BY <1>1 DEF Idle
<1> QED
  BY <1>1, <1>4, <1>5 DEF CasesTyped, CopiesTyped

LEMMA CasesStayTyped ==
    ASSUME DOMAIN req = Client, CasesTyped, CopiesTyped, NEW c \in Client,
           \/ \E new \in CaseStatus : ReadCase(c, new)
           \/ CommitCase(c)
           \/ OpenCase(c)
    PROVE  CasesTyped' /\ CopiesTyped'
<1>1. ASSUME NEW new \in CaseStatus, ReadCase(c, new) PROVE CasesTyped' /\ CopiesTyped'
  <2> PICK r : r = [op |-> "case", was |-> casefile, becomes |-> new]
    OBVIOUS
  <2>1. req' = [req EXCEPT ![c] = r] /\ copies' = copies /\ casefile' = casefile
    BY <1>1 DEF ReadCase, Open, paymentsVars
  <2>2. r.op = "case" /\ r.becomes = new
    OBVIOUS
  <2>3. \A d \in Client : req'[d] = IF d = c THEN r ELSE req[d]
    BY <2>1
  <2> QED
    BY <2>1, <2>2, <2>3 DEF CasesTyped, CopiesTyped
<1>2. CASE CommitCase(c)
  <2>1. /\ casefile' = req[c].becomes /\ req[c].op = "case" /\ req' = [req EXCEPT ![c] = Idle] /\ copies' = copies
    BY <1>2 DEF CommitCase, Commit
  <2>2. \A d \in Client : req'[d].op \in {"copy", "case"} => req'[d] = req[d]
    BY <2>1 DEF Idle
  <2> QED
    BY <2>1, <2>2 DEF CasesTyped, CopiesTyped
<1>3. CASE OpenCase(c)
  <2>1. casefile' = "OPEN" /\ req' = req /\ copies' = copies
    BY <1>3 DEF OpenCase, AtOnce
  <2> QED
    BY <2>1 DEF CasesTyped, CopiesTyped, CaseStatus
<1> QED
  BY <1>1, <1>2, <1>3

LEMMA PaymentsTyped ==
    ASSUME PInv, CasesTyped, CopiesTyped, PaymentsNext
    PROVE  CasesTyped' /\ CopiesTyped'
<1>0. DOMAIN req = Client /\ Tuple(copies)
  BY DEF PInv, OpenPayments
<1>1. ASSUME ActsBy({"enqueue", "transition", "audit"}), UNCHANGED <<casefile, copies>> PROVE CasesTyped' /\ CopiesTyped'
  BY <1>0, <1>1, RecordsKept
<1>2. ASSUME NEW c \in Client, NEW k \in Key, NEW digest \in Digest, BeginEnqueue(c, k, digest) PROVE CasesTyped' /\ CopiesTyped'
  BY <1>1, <1>2, OpenActs DEF BeginEnqueue, paymentsVars
<1>3. ASSUME NEW c \in Client, CommitEnqueue(c) \/ CommitTransition(c) \/ CommitAudit(c) PROVE CasesTyped' /\ CopiesTyped'
  <2>1. UNCHANGED <<casefile, copies>> /\ \E fresh : Commit(c, fresh)
    BY <1>3 DEF CommitEnqueue, CommitTransition, CommitAudit
  <2> QED
    BY <1>1, <2>1, CommitActs
<1>4. ASSUME NEW c \in Client, CreatePayment(c) PROVE CasesTyped' /\ CopiesTyped'
  BY <1>1, <1>4, AtOnceActs DEF CreatePayment
<1>5. ASSUME NEW c \in Client, NEW expected, NEW new, ReadTransition(c, expected, new) PROVE CasesTyped' /\ CopiesTyped'
  BY <1>1, <1>5, OpenActs DEF ReadTransition, paymentsVars
<1>6. ASSUME NEW c \in Client, NEW payload, ReadAudit(c, payload) PROVE CasesTyped' /\ CopiesTyped'
  BY <1>1, <1>6, OpenActs DEF ReadAudit, paymentsVars
<1>7. ASSUME NEW c \in Client, RollBackPayments(c) PROVE CasesTyped' /\ CopiesTyped'
  BY <1>1, <1>7, RollBackActs DEF RollBackPayments, paymentsVars
<1>8. ASSUME NEW c \in Client, NEW payload \in Payload, ReadCopies(c, payload) PROVE CasesTyped' /\ CopiesTyped'
  BY <1>0, <1>8, ReadCopiesTyped
<1>9. ASSUME NEW c \in Client, CommitCopy(c) PROVE CasesTyped' /\ CopiesTyped'
  BY <1>0, <1>9, CommitCopyTyped
<1>10. ASSUME NEW c \in Client, OpenCase(c) \/ CommitCase(c) \/ \E new \in CaseStatus : ReadCase(c, new)
       PROVE  CasesTyped' /\ CopiesTyped'
  BY <1>0, <1>10, CasesStayTyped
<1> QED
  BY <1>2, <1>3, <1>4, <1>5, <1>6, <1>7, <1>8, <1>9, <1>10 DEF PaymentsNext

\* What the rows keep count of stays when the ledger is left alone ...
LEMMA ApartCounts ==
    ASSUME EInv, CInv, ActsBy(CipsOps \cup PaymentOps), UNCHANGED ledgerRows
    PROVE  CInv'
<1>1. UNCHANGED <<booked, voucher, instrument, announced, issued, topped>> /\ (~stale' => ~stale)
  BY DEF ledgerRows, ledgerVars, instrumentVars, issuanceVars, ActsBy
<1>2. ASSUME NEW d \in Client PROVE req'[d] = req[d] \/ Keeps(req'[d])
  <2>1. CASE req'[d] # req[d]
    <3>1. req'[d].op \in {"idle"} \cup CipsOps \cup PaymentOps
      BY <2>1 DEF EInv, Requests, ActsBy, Idle
    <3> QED
      BY <3>1 DEF Keeps, EscrowOps, CipsOps, PaymentOps
  <2> QED
    BY <2>1
<1> QED
  BY <1>1, <1>2, CountsStay

\* ... and so does what the requests of the e-CNY API have compared.
LEMMA ApartLimits ==
    ASSUME EInv, LInv, ActsBy(CipsOps \cup PaymentOps)
    PROVE  LInv'
<1>1. ASSUME NEW d \in Client PROVE Limited(req'[d]) /\ Capped(req'[d])
  <2>1. CASE req'[d] = req[d]
    BY <2>1 DEF LInv
  <2>2. CASE req'[d] # req[d]
    <3>1. req'[d].op \in {"idle"} \cup CipsOps \cup PaymentOps
      BY <2>2 DEF EInv, Requests, ActsBy, Idle
    <3> QED
      BY <3>1 DEF Limited, Capped, CipsOps, PaymentOps
  <2> QED
    BY <2>1, <2>2
<1> QED
  BY <1>1 DEF LInv

------------------------------------------------------------------------------
(* Everything at once: the theorems *)

\* However the requests of all parts of the simulator overlap, each part keeps
\* its invariant: none reads or writes a row of another, and what one commits
\* over stale reads is stale for all.
THEOREM PlatformInvariance == PlatformSpec => []PlatformInv
<1>1. PlatformInv /\ [PlatformNext]_platformVars => PlatformInv'
  BY PlatformSteps, ApartKeeps, LedgerKeeps
<1> QED
  BY <1>1, InitPlatform, PTL DEF PlatformSpec

\* What the parts promise on their own they promise together: balances are
\* explained by entries and by settlements, legs are paired, reports and chains
\* tell what happened, and a key has one effect.
THEOREM PartsHoldTogether ==
    PlatformSpec => []( /\ BalancesMatchEntries /\ ReportsMatchBridge /\ LegsArePaired
                        /\ SettlementsExplainBalances
                        /\ EnqueuedOncePerKey /\ EventsTellTheLife /\ ChainsVerify )
<1>1. PlatformInv => /\ BalancesMatchEntries /\ ReportsMatchBridge /\ LegsArePaired
                     /\ SettlementsExplainBalances
                     /\ EnqueuedOncePerKey /\ EventsTellTheLife /\ ChainsVerify
  <2> SUFFICES ASSUME PlatformInv
               PROVE  /\ BalancesMatchEntries /\ ReportsMatchBridge /\ LegsArePaired
                      /\ SettlementsExplainBalances
                      /\ EnqueuedOncePerKey /\ EventsTellTheLife /\ ChainsVerify
    OBVIOUS
  <2>1. EInv /\ CipsInv /\ PInv
    BY DEF PlatformInv
  <2>2. BalancesMatchEntries
    BY <2>1 DEF EInv, Rows, AccountsTyped, Balanced, BalancesMatchEntries, Holder
  <2>3. ReportsMatchBridge /\ LegsArePaired
    BY <2>1 DEF EInv, Rows, ReportsCounted, Settlements
  <2>4. SettlementsExplainBalances
    BY <2>1 DEF CipsInv, Explained, SettlementsExplainBalances
  <2>5. EnqueuedOncePerKey /\ EventsTellTheLife /\ ChainsVerify
    BY <2>1 DEF PInv
  <2> QED
    BY <2>2, <2>3, <2>4, <2>5
<1> QED
  BY <1>1, PlatformInvariance, PTL

\* ReconciliationService: whatever requests overlap, no report finds an account,
\* an operator row or a settlement out of its range.
THEOREM ReportsFindNothingHolds == PlatformSpec => []ReportsFindNothing
<1>1. PlatformInv => ReportsFindNothing
  BY NothingFails DEF PlatformInv, NothingReported, ReportsFindNothing
<1> QED
  BY <1>1, PlatformInvariance, PTL

\* What the rows count and what open requests have compared with the limits,
\* with the requests of all parts open.
THEOREM PlatformPromises == PlatformSpec => [](PlatformInv /\ CInv /\ LInv)
<1>1. PlatformInit => PlatformInv /\ CInv /\ LInv
  BY InitPlatform, InitCounts, InitLimits DEF PlatformInit
<1>2. PlatformInv /\ CInv /\ LInv /\ [PlatformNext]_platformVars => PlatformInv' /\ CInv' /\ LInv'
  <2> SUFFICES ASSUME PlatformInv, CInv, LInv, [PlatformNext]_platformVars PROVE PlatformInv' /\ CInv' /\ LInv'
    OBVIOUS
  <2>1. CASE ApartStep
    BY <2>1, ApartKeeps, ApartFromLedger, ApartCounts, ApartLimits DEF PlatformInv
  <2>2. CASE EcnySystemNext /\ UNCHANGED <<cipsVars, paymentsVars>>
    BY <2>2, LedgerKeeps, NextCounts, NextLimits DEF PlatformInv
  <2> QED
    BY <2>1, <2>2, PlatformSteps
<1> QED
  BY <1>1, <1>2, PTL DEF PlatformSpec

(* ReconciliationService: whatever requests of all parts overlap, no report
   finds anything; and without overlap the operator rows account for all the CNY
   in the ledger but for the entries no row counts, which POST /issuance, the
   bridges and the central bank's accounts make on the same accounts. *)
THEOREM ReconciliationHoldsHolds == PlatformSpec => []ReconciliationHolds
<1>1. PlatformInv /\ CInv => ReconciliationHolds
  BY NothingFails, RowsAccount DEF PlatformInv, NothingReported, ReportsFindNothing, ReconciliationHolds
<1> QED
  BY <1>1, PlatformPromises, PTL

\* cbdc.py and wallet/service.py, with the requests of all parts open at once
\* and whatever accounts their callers name: escrows hold what their rows promise
\* and what no row has counted, and no payment of the e-CNY API that has not
\* overlapped another request takes its payer over the daily limit, nor a mint
\* the outstanding CNY over the cap.
THEOREM PromisesHoldTogether ==
    PlatformSpec => /\ []EscrowCoversInstruments
                    /\ DailyOutgoingWithinLimit
                    /\ IssuanceStaysWithinCap
<1> DEFINE Daily1 == \A c \in Client, w \in Wallets :
             req[c].op = "ecny" /\ req[c].payer = w /\ req'[c] = Idle /\ sent'[w] > sent[w]
               => stale' \/ sent'[w] <= Daily[Tier[w]]
           Cap1 == \A c \in Client :
             req[c].op = "ecny" /\ req'[c] = Idle
             /\ NetIssuance(bal') > IssuanceCap /\ NetIssuance(bal') > NetIssuance(bal)
               => \/ stale'
                  \/ bridged' # bridged
                  \/ \E cb \in CentralBanks("CNY") : sent'[cb] > sent[cb]
<1>1. PlatformInv /\ LInv /\ EcnySystemNext => Daily1 /\ Cap1
  <2>1. PlatformInv /\ LInv /\ EcnySystemNext => Daily1
    BY DailyKept DEF PlatformInv
  <2>2. PlatformInv /\ LInv /\ EcnySystemNext => Cap1
    <3> SUFFICES ASSUME EInv, LInv, EcnySystemNext, NEW c \in Client, req[c].op = "ecny", req'[c] = Idle,
                        NetIssuance(bal') > IssuanceCap, NetIssuance(bal') > NetIssuance(bal),
                        ~stale', bridged' = bridged,
                        \A cb \in CentralBanks("CNY") : ~(sent'[cb] > sent[cb])
                 PROVE  FALSE
      BY DEF PlatformInv
    <3>1. NetIssuance(bal') <= IssuanceCap
      BY CapKept
    <3>2. NetIssuance(bal') \in Int
      BY NetStaysInt
    <3> QED
      BY <3>1, <3>2, CapAssumption
  <2> QED
    BY <2>1, <2>2
<1>2. PlatformInv /\ ApartStep => Daily1 /\ Cap1
  <2> SUFFICES ASSUME PlatformInv, ApartStep PROVE Daily1 /\ Cap1
    OBVIOUS
  <2>1. sent' = sent /\ bal' = bal /\ bal \in AccountRows /\ sent \in TransactionRows
    BY ApartFromLedger DEF ledgerRows, ledgerVars, PlatformInv, EInv, Rows, AccountsTyped
  <2>2. ~(NetIssuance(bal') > NetIssuance(bal))
    <3>1. NetIssuance(bal) \in Int
      BY <2>1, NetOf
    <3> QED
      BY <2>1, <3>1
  <2>3. \A w \in Wallets : ~(sent'[w] > sent[w])
    BY <2>1 DEF TransactionRows, Wallets
  <2> QED
    BY <2>2, <2>3
<1>3. PlatformInv /\ LInv /\ [PlatformNext]_platformVars
        => [Daily1]_<<req, sent, stale>> /\ [Cap1]_<<req, bal, sent, bridged, stale>>
  BY <1>1, <1>2, PlatformSteps
<1> HIDE DEF Daily1, Cap1
<1>4. PlatformInv /\ CInv => EscrowCoversInstruments
  BY EscrowsCover DEF PlatformInv
<1>5. PlatformSpec => [][Daily1]_<<req, sent, stale>> /\ [][Cap1]_<<req, bal, sent, bridged, stale>>
  BY <1>3, PlatformPromises, PTL DEF PlatformSpec
<1>6. PlatformSpec => DailyOutgoingWithinLimit /\ IssuanceStaysWithinCap
  BY <1>5 DEF Daily1, Cap1, DailyOutgoingWithinLimit, IssuanceStaysWithinCap
<1> QED
  BY <1>4, <1>6, PlatformPromises, PTL

\* The ledger and the CIPS accounts have no copies and no cases.
LEMMA OthersKeepRecords ==
    ASSUME PlatformInv, CasesTyped, CopiesTyped, NEW ops, ops \cap {"copy", "case"} = {}, ActsBy(ops),
           UNCHANGED paymentsVars
    PROVE  CasesTyped' /\ CopiesTyped'
<1>1. DOMAIN req = Client /\ UNCHANGED <<casefile, copies>>
  BY DEF PlatformInv, CipsInv, paymentsVars
<1> QED
  BY <1>1, RecordsKept

LEMMA TypesKept ==
    ASSUME PlatformInv, TypesInv, [PlatformNext]_platformVars
    PROVE  TypesInv'
<1>0. QuoteTyped /\ MembersTyped /\ CasesTyped /\ CopiesTyped
  BY DEF TypesInv
<1>1. ASSUME UNCHANGED quote PROVE QuoteTyped'
  BY <1>0, <1>1 DEF QuoteTyped
<1>2. ASSUME UNCHANGED member PROVE MembersTyped'
  BY <1>0, <1>2 DEF MembersTyped
<1>3. ASSUME NEW c \in Client, CipsNext(c), UNCHANGED <<ledgerRows, paymentsVars>> PROVE TypesInv'
  <2>1. UNCHANGED quote /\ UNCHANGED paymentsVars
    BY <1>3 DEF ledgerRows, pvpVars
  <2>2. MembersTyped'
    BY <1>0, <1>3, MembersStay
  <2>3. CasesTyped' /\ CopiesTyped'
    BY <1>0, <1>3, <2>1, CipsActs, OthersKeepRecords DEF CipsOps
  <2> QED
    BY <1>1, <2>1, <2>2, <2>3 DEF TypesInv
<1>4. ASSUME PaymentsNext, UNCHANGED <<ledgerRows, cipsVars>> PROVE TypesInv'
  <2>1. UNCHANGED quote /\ UNCHANGED member
    BY <1>4 DEF ledgerRows, pvpVars, cipsVars
  <2>2. CasesTyped' /\ CopiesTyped'
    BY <1>0, <1>4, PaymentsTyped DEF PlatformInv
  <2> QED
    BY <1>1, <1>2, <2>1, <2>2 DEF TypesInv
<1>5. ASSUME NEW c \in Client, ReadReconciliation(c) PROVE TypesInv'
  <2>1. /\ UNCHANGED quote /\ UNCHANGED member /\ UNCHANGED paymentsVars
        /\ Open(c, [op |-> "audit", chain |-> audit, event |-> EventOf(Report), decision |-> FALSE])
    BY <1>5 DEF ReadReconciliation, ledgerRows, pvpVars, cipsVars
  <2>2. ActsBy({"audit"})
    BY <2>1, OpenActs
  <2> QED
    BY <1>0, <1>1, <1>2, <2>1, <2>2, OthersKeepRecords DEF TypesInv
<1>6. CASE UNCHANGED platformVars
  <2>1. /\ UNCHANGED quote /\ UNCHANGED member /\ UNCHANGED paymentsVars /\ UNCHANGED <<req, stale>>
    BY <1>6 DEF platformVars, requestVars, ledgerRows, pvpVars, cipsVars
  <2>2. ActsBy({})
    BY <2>1, NobodyActs
  <2>3. CasesTyped' /\ CopiesTyped'
    BY <1>0, <2>1, <2>2, OthersKeepRecords
  <2> QED
    BY <1>1, <1>2, <2>1, <2>3 DEF TypesInv
<1>7. ASSUME EcnySystemNext, UNCHANGED <<cipsVars, paymentsVars>> PROVE TypesInv'
  <2>1. UNCHANGED member /\ UNCHANGED paymentsVars
    BY <1>7 DEF cipsVars
  <2>2. QuoteTyped'
    BY <1>0, <1>7, QuoteStays
  <2>3. ActsBy(LedgerOps)
    BY <1>7, LedgerActs DEF EInv, Requests, PlatformInv
  <2>4. LedgerOps \cap {"copy", "case"} = {}
    BY DEF LedgerOps, EcnyOps, InstrumentOps, PvpOps, IssuanceOps
  <2> QED
    BY <1>0, <1>2, <2>1, <2>2, <2>3, <2>4, OthersKeepRecords DEF TypesInv
<1> QED
  BY <1>3, <1>4, <1>5, <1>6, <1>7, PlatformSteps DEF ApartStep

LEMMA InitTypes == PlatformInit => TypesInv
<1> SUFFICES ASSUME PlatformInit PROVE TypesInv
  OBVIOUS
<1>1. QuoteTyped
  BY DEF PlatformInit, EcnySystemInit, PvpInit, QuoteTyped, QuoteStatus
<1>2. MembersTyped
  <2>1. PICK holders \in SUBSET (Participant \cap Direct) : \E accounts \in [holders -> AccountRow] : CipsInit(accounts)
    BY DEF PlatformInit
  <2>2. PICK accounts \in [holders -> AccountRow] : CipsInit(accounts)
    BY <2>1
  <2> QED
    BY <2>2 DEF CipsInit, MembersTyped, ParticipantRows
<1>3. \A c \in Client : req[c].op = "idle"
  BY DEF PlatformInit, EcnySystemInit, RequestsInit, Idle
<1>4. casefile = "none" /\ copies = <<>>
  BY DEF PlatformInit, PaymentsInit
<1>5. DOMAIN copies = {}
  BY <1>4, EmptyTuple
<1>6. casefile \in CaseStatus
  BY <1>4 DEF CaseStatus
<1> QED
  BY <1>1, <1>2, <1>3, <1>5, <1>6 DEF TypesInv, CasesTyped, CopiesTyped

LEMMA CipsTyped == ASSUME CipsInv, MembersTyped PROVE CipsTypeOK
<1>1. /\ AccountsOf(account, Nat) /\ DOMAIN funded = DOMAIN account
      /\ settlement \in Seq(SettlementRow) /\ settledMsg \in Seq(Nat) /\ Len(settledMsg) = Len(settlement)
  BY DEF CipsInv, CipsRows
<1>2. \A p \in DOMAIN account : account[p] \in Nat
  BY <1>1 DEF AccountsOf
<1>3. DOMAIN settledMsg = DOMAIN settlement
  BY <1>1
<1> QED
  BY <1>1, <1>2, <1>3 DEF CipsTypeOK, MembersTyped, AccountRow

\* Every row of every part has its type, with the requests of all parts open.
THEOREM PlatformTypeCorrect == PlatformSpec => []PlatformTypeOK
<1>1. PlatformInv /\ TypesInv => PlatformTypeOK
  <2> SUFFICES ASSUME PlatformInv, TypesInv PROVE PlatformTypeOK
    OBVIOUS
  <2>0. EInv /\ CipsInv /\ PInv
    BY DEF PlatformInv
  <2>1. WalletsTypeOK
    BY <2>0 DEF EInv, Rows, AccountsTyped, ReportsCounted, WalletsTypeOK, LedgerTypeOK
  <2>2. InstrumentsTypeOK /\ IssuanceTypeOK
    BY <2>0 DEF EInv, Rows, EscrowsOpen, OperatorsOpen
  <2>3. PvpTypeOK
    BY <2>0 DEF EInv, Rows, Settlements, TypesInv, QuoteTyped, PvpTypeOK
  <2>4. CipsTypeOK
    BY <2>0, CipsTyped DEF TypesInv
  <2>5. PaymentsTypeOK
    BY <2>0 DEF PInv, Lifecycle, TypesInv, CasesTyped, CopiesTyped, DecisionRows, PaymentsTypeOK
  <2> QED
    BY <2>1, <2>2, <2>3, <2>4, <2>5 DEF PlatformTypeOK
<1>2. PlatformInv /\ TypesInv /\ [PlatformNext]_platformVars => PlatformInv' /\ TypesInv'
  BY TypesKept, PlatformSteps, ApartKeeps, LedgerKeeps
<1> QED
  BY <1>1, <1>2, InitPlatform, InitTypes, PTL DEF PlatformSpec

=============================================================================
