--------------------------- MODULE CipsSettlement ---------------------------
(***************************************************************************)
(* CIPS settlement of the simulator (CipsService in backend/nextgen/       *)
(* cips.py): direct participants with one account each, settlements that   *)
(* settle at once and one by one (RTGS, queued when the debtor lacks       *)
(* liquidity) or netted in a batch (DNS).  settle_rtgs reads the row, then *)
(* takes a lease on the settlement; the lease row lives and dies in the    *)
(* request's own transaction, so another request waits for it and then     *)
(* goes on with the row it had read.  The account rows are not locked, and *)
(* no code assigns `reserved'.                                             *)
(***************************************************************************)
EXTENDS OpenRequests, SequencesExt

CONSTANTS
    Participant,
    Direct,         \* the direct participants among them
    Settlement,     \* settlement identifiers
    Opening,        \* balances an account is opened with
    Batch           \* DNS batches

VARIABLES
    member,      \* registered participants
    account,     \* CipsAccount.balance of the participants with an account
    funded,      \* what the account was opened with
    settlement,  \* CipsSettlement rows, in order of their id
    settledMsg   \* committed settlement outcomes: how often each settlement
                 \* was announced as SETTLED (outbox and payment lens)

cipsVars == <<member, account, funded, settlement, settledMsg>>

\* Participants with accounts, before the first settlement.
CipsInit(accounts) ==
    /\ member = DOMAIN accounts
    /\ account = accounts
    /\ funded = accounts
    /\ settlement = <<>>
    /\ settledMsg = <<>>

HasAccount(p) == p \in DOMAIN account

\* POST /cips/participants
RegisterParticipant(c, p) ==
    /\ AtOnce(c)
    /\ p \in Participant \ member
    /\ member' = member \cup {p}
    /\ UNCHANGED <<account, funded, settlement, settledMsg>>

\* POST /cips/accounts (a second account of a participant is never found)
OpenAccount(c, p, n) ==
    /\ AtOnce(c)
    /\ p \in (member \cap Direct) \ DOMAIN account
    /\ account' = Put(OneRow(p, n), account)
    /\ funded' = Put(OneRow(p, n), funded)
    /\ UNCHANGED <<member, settlement, settledMsg>>

\* What a session has made of the accounts and settlements it has loaded.
Loaded == [account |-> account, settlement |-> settlement, told |-> {}]

\* settle_rtgs() on settlement number i of the session s.
SettleRtgs(s, i) ==
    LET t == s.settlement[i] IN
    IF t.status = "SETTLED" \/ s.account[t.debtor] < t.amount THEN s
    ELSE [account |-> MoveAmount(s.account, t.debtor, t.amount, t.creditor, t.amount),
          settlement |-> [s.settlement EXCEPT ![i].status = "SETTLED"],
          told |-> s.told \cup {i}]

\* A request that will commit the session s.
OnCips(op, loaded, s, leases) ==
    [op |-> op, loaded |-> loaded, s |-> s, leases |-> leases]

\* The changed rows of what was loaded, over what is there at the commit.
WriteAccounts(loaded, new) == Put(Flush([p \in DOMAIN loaded |-> account[p]], loaded, new), account)

\* The table's CHECK refuses a negative balance, and with it the commit.
BalancesChecked == \A p \in DOMAIN account' : account'[p] >= 0

(* POST /cips/settlements.  A missing account raises, and the insert is rolled
   back with the rest; the debtor may be the creditor.  DNS only inserts. *)
SubmitDns(c, row) ==
    /\ AtOnce(c)
    /\ row.mode = "DNS"
    /\ Len(settlement) < Cardinality(Settlement)
    /\ settlement' = Append(settlement, row)
    /\ settledMsg' = Append(settledMsg, 0)
    /\ UNCHANGED <<member, account, funded>>

\* The new settlement has its identifier and lease to itself.
ReadSubmitRtgs(c, row) ==
    /\ row.mode = "RTGS"
    /\ HasAccount(row.debtor) /\ HasAccount(row.creditor)
    /\ Len(settlement) < Cardinality(Settlement)
    /\ Open(c, [op |-> "cips_submit", row |-> row, loaded |-> account])
    /\ UNCHANGED cipsVars

CommitSubmitRtgs(c) ==
    LET r == req[c]
        one == SettleRtgs([account |-> r.loaded, settlement |-> <<r.row>>, told |-> {}], 1)
    IN
    /\ r.op = "cips_submit"
    /\ Len(settlement) < Cardinality(Settlement)
    /\ account' = WriteAccounts(r.loaded, one.account)
    /\ BalancesChecked
    /\ settlement' = Append(settlement, one.settlement[1])
    /\ settledMsg' = Append(settledMsg, Cardinality(one.told))
    /\ Commit(c, \A p \in {r.row.debtor, r.row.creditor} : account[p] = r.loaded[p])
    /\ UNCHANGED <<member, funded>>

\* A batch that takes in what has been settled before.
QueuedOrSettled(mode, batches) == {i \in DOMAIN settlement :
    settlement[i].mode = mode /\ settlement[i].batch \in batches}

Queued(mode, batches) == {i \in DOMAIN settlement :
    /\ settlement[i].status = "QUEUED"
    /\ settlement[i].mode = mode
    /\ settlement[i].batch \in batches}

\* The queue does not ask for the batch that a settlement may name.
Queue == Queued("RTGS", Batch \cup {"none"})

\* POST /cips/rtgs/release: the queue is read ...
ReadQueue(c) ==
    /\ Queue # {}
    /\ Open(c, OnCips("cips_queue", Loaded, Loaded, Queue))
    /\ UNCHANGED cipsVars

\* ORDER BY priority DESC, id
Before(rows, i, j) == rows[i].priority > rows[j].priority
                      \/ (rows[i].priority = rows[j].priority /\ i < j)

InOrder(queue, rows) == {q \in [1 .. Cardinality(queue) -> queue] :
    \A i, j \in DOMAIN q : i < j => Before(rows, q[i], q[j])}

LeasedSettlement(c, queue) ==
    \E d \in Client \ {c} : req[d].op = "cips_release" /\ req[d].leases \cap queue # {}

\* ... each settlement in turn is leased, its accounts read, and settled ...
SettleQueue(c) ==
    LET r == req[c]
        rows == r.s.settlement
    IN
    /\ r.op = "cips_queue"
    /\ ~LeasedSettlement(c, r.leases)
    /\ \E queue \in InOrder(r.leases, rows) :
         ReadOn(c, OnCips("cips_release", [r.loaded EXCEPT !.account = account],
           FoldLeft(SettleRtgs, [account |-> account, settlement |-> rows, told |-> {}], queue),
           r.leases))
    /\ UNCHANGED cipsVars

\* What a settlement moves to or from a participant, and the net position of
\* the participant in a batch.
Share(row, p) == (IF row.creditor = p THEN row.amount ELSE 0) - (IF row.debtor = p THEN row.amount ELSE 0)

Net(rows, batch, p) == SumFunctionOnSet([i \in batch |-> Share(rows[i], p)], batch)

Parties(rows, batch) == UNION {{rows[i].debtor, rows[i].creditor} : i \in batch}

\* Every net debtor has the liquidity, and every party an account.
Covered(batch) == \A p \in Parties(settlement, batch) :
    HasAccount(p) /\ account[p] + Net(settlement, batch, p) >= 0

\* POST /cips/dns/{batch}/settle
ReadBatch(c, b) ==
    LET batch == Queued("DNS", {b}) IN
    /\ batch # {}
    /\ Covered(batch)
    /\ Open(c, OnCips("cips_dns", Loaded,
         [account |-> [p \in DOMAIN account |-> account[p] + Net(settlement, batch, p)],
          settlement |-> [i \in DOMAIN settlement |->
             IF i \in batch THEN [settlement[i] EXCEPT !.status = "SETTLED"] ELSE settlement[i]],
          told |-> batch], {}))
    /\ UNCHANGED cipsVars

(* The commit writes the rows the session has changed; rows inserted since are
   not in it. *)
CommitCips(c) ==
    LET r == req[c]
        parties == Parties(r.loaded.settlement, r.s.told \cup r.leases)
    IN
    /\ r.op \in {"cips_release", "cips_dns"}
    /\ account' = WriteAccounts(r.loaded.account, r.s.account)
    /\ BalancesChecked
    /\ settlement' = [i \in DOMAIN settlement |->
         IF i \in r.s.told THEN [settlement[i] EXCEPT !.status = "SETTLED"] ELSE settlement[i]]
    /\ settledMsg' = [i \in DOMAIN settlement |-> settledMsg[i] + (IF i \in r.s.told THEN 1 ELSE 0)]
    /\ Commit(c, /\ \A p \in parties : account[p] = r.loaded.account[p]
                 /\ \A i \in r.s.told \cup r.leases : settlement[i] = r.loaded.settlement[i])
    /\ UNCHANGED <<member, funded>>

RollBackCips(c) ==
    /\ req[c].op \in {"cips_submit", "cips_queue", "cips_release", "cips_dns"}
    /\ RollBack(c)
    /\ UNCHANGED cipsVars
-----------------------------------------------------------------------------
ParticipantRows == SUBSET Participant
AccountRow == Nat
SettlementStatus == {"QUEUED", "SETTLED"}
SettlementRow == [debtor : Participant, creditor : Participant, amount : Nat \ {0},
                  priority : 0 .. 9, batch : Batch \cup {"none"}, mode : {"RTGS", "DNS"},
                  status : SettlementStatus]

Settled(rows) == {i \in DOMAIN rows : rows[i].status = "SETTLED"}

\* A settlement as it is submitted.
Submission == {row \in SettlementRow : row.status = "QUEUED"}

CipsNext(c) ==
    \/ \E p \in Participant : RegisterParticipant(c, p)
    \/ \E p \in Participant, n \in Nat : OpenAccount(c, p, n)
    \/ \E row \in Submission : SubmitDns(c, row) \/ ReadSubmitRtgs(c, row)
    \/ CommitSubmitRtgs(c)
    \/ ReadQueue(c)
    \/ SettleQueue(c)
    \/ \E b \in Batch : ReadBatch(c, b)
    \/ CommitCips(c)
    \/ RollBackCips(c)

\* Any requests, from any balances of direct participants.
CipsSpec ==
    /\ \E allowed \in Nat : RequestsInit(allowed)
    /\ \E holders \in SUBSET (Participant \cap Direct) : \E accounts \in [holders -> AccountRow] : CipsInit(accounts)
    /\ [][\E c \in Client : CipsNext(c)]_<<requestVars, cipsVars>>

CipsTypeOK ==
    /\ member \in ParticipantRows
    /\ DOMAIN account = DOMAIN funded
    /\ \A p \in DOMAIN account : account[p] \in AccountRow
    /\ settlement \in Seq(SettlementRow)
    /\ DOMAIN settledMsg = DOMAIN settlement

(* Without overlap each account is what it was opened with plus the settlements
   marked SETTLED, and each of these was announced once: RTGS, queue releases
   and netted batches lose and create nothing between them. *)
SettlementsExplainBalances ==
    ~stale =>
      /\ \A p \in DOMAIN account :
           account[p] = funded[p] + Net(settlement, Settled(settlement), p)
      /\ \A i \in DOMAIN settlement :
           settledMsg[i] = IF settlement[i].status = "SETTLED" THEN 1 ELSE 0
=============================================================================
