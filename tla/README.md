# A formal model of 00SWIFT

TLA+ models, TLC model checking and TLAPS proofs for the 00SWIFT backend: the
production payment component (outbox, saga, ledger, limits, controls), the
e-CNY and CIPS simulator beside it, and the access and tracking services in
front of both.

All paths below are relative to the repository; those without a first
directory are under `src/backend/`. Line numbers are in `PROJECT.json`, under
`map`.

## 1. The system

00SWIFT is a FastAPI process over one SQL database (SQLite by default,
PostgreSQL where `config.py` asks for a durable profile). Its parts:

| Part | State it keeps | Operations | What makes it correct |
|---|---|---|---|
| Production outbox and workers (`production/runtime.py`, `worker.py`, `dlq_replay.py`) | outbox rows (status, attempts, lease), inbox receipts, replay requests | enqueue, claim, complete, fail, run_once, replay under dual control | each event's business effect happens at most once, nothing unhandled is acknowledged, nothing is lost or given up early, a lease protects its owner |
| Payment saga (`production/worker.py`, `service.py`, `cancellation_service.py`, `return_service.py`, `completion_policy.py`) | the order with its version, compliance, reservations, FX intents and trades, legs, credit, cancellation, return, reconciliation | eight event handlers; FX acceptance, cancellation, return | terminal orders are immutable, one trade, complete closes, no hold in a closed order, nothing moves unscreened |
| Intake, idempotency, quotes, limits (`production/service.py`, `router.py`, `runtime.py`, `limit_reservation.py`) | request records, orders, quotes, intents, daily counters, exposure positions | create, quote, accept, cancel under a key; reserve, finalize | one effect per key, one order per instruction, counters that match the orders, totals within the limit |
| Ledger, journals, holds (`production/_ledger_core.py`, `funding_service.py`, `ledger_service.py`, `gl_bridge.py`) | accounts, journals, entries, holds, periods, batches | post, reverse, draft, hold, consume, release, expire, close | balances are what the entries say; what is reserved is what is held |
| Approvals, keys, identities, certificates, entitlements, accounts (`production/approval_api.py`, `key_operations.py`, `identity_service.py`, `certificate_service.py`, `entitlement_service.py`, `account_service.py`, `rulebook_service.py`) | one status per row, decisions, key operations, ownerships | maker/checker transitions, rotate, refresh, execute, activate | two different people; REVOKED is final; an active account has its owner |
| Admission of a payment (`production/security.py`, `integrity.py`, `corridors.py`) | nothing of its own; sandbox rows it makes up | principal, signature, corridor, entitlement, limit, account | a payment only from an account of its own participant and debtor |
| Facts, evidence, audit, breaks (`production/service.py`, `runtime.py`, `operations.py`) | append-only rows, chained | record, append, hold, reconcile | numbered without gaps, one chain |
| Tokens and one-time ids (`auth/`, `admin/credentials.py`, `production/replay.py`) | tokens, cached and stored jti, nonces | exchange, revoke, check and record, clean up | an id is accepted once; one live token per credential |
| Tracker and messages (`api/gpi`, `iso20022/states.py`, `admin/payments.py`, `api/messaging`) | payment status and its history, distributions | inject, confirm, cancel, investigate, delete, ack, nak | the history is a path of the state machine that ends in the status |
| Pre-validation and directory (`api/preval`, `api/swiftref`, `core/iban.py`, `core/bic.py`) | seeded tables, read only | validity of BIC, IBAN, currency, instruction | no mistyped account passes |
| e-CNY (`ecny/`, `api/ecny`, `admin/ecny_admin.py`) | accounts, entries, wallets, reports, bridge rows | open, transfer, issue, redeem, bridge, administer | conservation, caps and daily limits, a report for each bridge row |
| Nextgen CBDC (`nextgen/cbdc.py`) | vouchers, programmable instruments, PvP, HK wallets | lock, commit, redeem, release, top up | both legs or none; escrow pays out what it holds |
| Nextgen CIPS (`nextgen/cips.py`) | participants, accounts, settlements, operators | settle, queue, net, issue, reconcile | balances are explained by settlements, no overdraft |
| Nextgen payments and runtime (`nextgen/payments.py`, `platform.py`, `runtime.py`) | payment, copies, cases, keys, outbox, audit chain | transition, copy, enqueue, decide, reconcile | one event per key; history, copies and audit verify |
| Configuration, migrations, admin pages, frontend, scripts | settings, CHECK constraints | startup, display | the CHECK constraints of migration 0034 are part of the models; the rest displays |

**How they interact.** The parts share the database and nothing else. A
production API command commits its own rows together with an outbox event; a
worker claims events in one transaction (`FOR UPDATE SKIP LOCKED`), and for
each of them runs a second transaction that inserts the inbox receipt, calls
the handler, marks the event PUBLISHED and commits, so that a handler's effect,
the events it enqueues and its own completion are atomic. A handler may call a
connector, which no rollback undoes. Endpoints run in a thread pool, each with
a session of its own (`get_db`): a request reads, computes in memory and
commits at its end, and what happened meanwhile is seen by a lock, a unique
key, a CHECK constraint, or not at all.

**What is hard.** Several workers may run at once (the loop in `main.py`,
`scripts/run_production_worker.py`, `POST /worker/run`); a lease of 60 seconds
can run out under a worker that is still at its batch; every session reads its
rows once and keeps them (SQLAlchemy's identity map), so decisions are taken
on copies; only the order row carries a version that is compared in the update
(`set_order_state`); all other rows are written column by column over whatever
has been committed meanwhile; the simulator's ledger writes absolute balances;
its leases are rows of the request's own transaction, so they make others
wait, but protect nothing read before them; caches and key providers are memory of the
process, which a rollback does not reach and a restart empties; processes
die; commands arrive at any moment of a saga; and keys are retried.
`PROJECT.json` lists these hazards at their lines with the properties that
watch them.

## 2. The modules

| Module | Models |
|---|---|
| `RowUpdate` | `Flush`: how a session writes a row it loaded earlier: the changed columns, onto the row as it is now committed. `MoveAmount`: an amount taken from one balance and added to another, or to the same one. `OneRow`, `Put`: a row inserted under its id, or written over the one there. External (SQLAlchemy). |
| `OpenRequests` | A request of the API from its first read to its commit or rollback, and whether what it had read was still there. Used by all modules below the line. |
| `ExactlyOnceDelivery` | Abstract specification: events enqueued, effects, acknowledgements. |
| `ProductionOutbox` | The outbox service, `run_once`, the inbox and the dead-letter replay. |
| `PaymentHandlers` | The eight handlers, `set_order_state`, the completion policy, cancellation and return, as functions from the rows read to the rows left in the session. No variables. |
| `ProductionPayment` | One order under API commands and overlapping handler transactions. |
| `MCProductionOutbox`, `MCProductionPayment` | Symmetry sets and bounds for TLC. |
| *requests:* | |
| `ProductionStates` | The states that the CHECK constraints allow, by table and column. |
| `ProductionIntake` | Payments, quotes, acceptances, cancellations and closes under their keys, with the limits they reserve and settle. |
| `ProductionLedger` | The subledger: journals, templates, currencies, reversals, drafts, holds, periods, GL batches. |
| `ProductionControls` | Approvals, key operations, identity lifecycles, certificates, entitlements, accounts and rulebook acceptance. |
| `ApiAccess` | Tokens, credentials, one-time ids in cache and table, nonces. |
| `RequestAdmission` | What a payment request must pass; composes `ProductionControls` and `ApiAccess`. |
| `GpiTracker` | The tracker's payments and the distributions of FIN messages. |
| `ProductionOperations` | Facts, evidence and audit chains, breaks. |
| `Prevalidation` | The IBAN algorithm, the directory, the verdict on an instruction. |
| `EcnyLedger`, `EcnyWallets` | The e-CNY engine; wallets, issuance, reports, bridges and administration on it. |
| `CbdcInstruments`, `PvpSettlement`, `OperatorIssuance` | Vouchers and instruments, PvP, operators and HK wallets, all on the e-CNY engine. |
| `CipsSettlement` | CIPS accounts, RTGS, queue and netting. |
| `NextgenPayments` | Lifecycle, copies, cases, keys with the outbox, the audit chain. |
| `EndOfDay` | The reconciliation; composes `EcnySystem`, `CipsSettlement` and `NextgenPayments` into the whole simulator. |
| `ProductionServices` | Subledger, intake, admission, tracker, operations and pre-validation as one specification, with the requests of all of them open at once. |
| `EcnySystem` | All requests that meet on the e-CNY ledger in one specification: wallets, bridges, vouchers, instruments, PvP, operators and HK wallets. |
| `MCNextgenPlatform`, `MCProductionServices` | The two compositions for TLC, with their instances. |
| *proofs:* | |
| `SumTheorems` | Sums over finite sets, for the modules below. |
| `ProductionOutboxProofs`, `ProductionPaymentProofs` | The outbox; the payment saga. |
| `ProductionIntakeProofs` | Intake with its limits. |
| `RecordsProofs` | The tracker, facts and evidence, the subledger, check digits. |
| `ProductionServicesProofs` | Admission with approvals, controls and access; then the services together. |
| `EcnySystemProofs`, `NextgenProofs` | `EcnySystem`; the nextgen payment service, CIPS settlement and the simulator as a whole. |

**ProductionOutbox.** `row[e]` holds the columns status, attempts and
lease_owner; time is two sets, the events whose lease has `expired` and those
that are `due`. A worker's position in `run_once` is `pc[w]`; its step is cut
wherever the code uses later what it read earlier. `Load` is the load of the
event's row by `_register_inbox` (the commit before expired it), `CheckInbox`
the query for a receipt, `InsertReceipt` the flush that meets the unique key
(and waits for a transaction that holds it), `HandleAndComplete` the handler,
`complete()` and the commit. The copy `seen[w]` is what `complete()` and
`fail()` decide on. `HandleRaises`, `CompleteRejected`, `FailLoad` and
`FailWrite` are the except branch. `Crash` drops a worker's batch and open
transaction.

**PaymentHandlers and ProductionPayment.** A transaction is a record
`[ok, db]`; a handler maps the rows it reads to the rows it leaves, or to
`ok = FALSE` when the code raises. `BeginHandler(w, e)` takes the snapshot
(after the receipt), `CommitHandler(w)` runs the handler on it and commits:
the order only if its version is still the one read, inserted rows only if
their key is still free, the limit counter by its increments (it is locked),
everything else through `Flush`. `AbortHandler(w)` is every way an attempt can
end without a commit; the connector may nevertheless have been told to settle
the value (`valueSent`).

**Requests.** `req[c]` is what the open request of client c has read; an
action that opens one (`Read...`, `Begin...`, `Check...`) takes the guards the
code tests on the way, one that ends it (`Commit...`) writes from the record
what the code writes from its loaded rows, onto the rows as they are then.
Where the database would make it wait or refuse it, the commit has the guard:
a unique key, a row lock that another open request holds (in
`ProductionIntake` and `ProductionLedger`), a lease row, a CHECK constraint
(`ProductionStates`), a nonnegative balance. `RollBack...` is an
exception, a lost connection or the death of the process, at any point.
The history variable `stale` says that some request has committed although a
row it had read was changed in between. A property guarded by `~stale` is what
the code keeps when requests do not collide like that, in any order and with
any rollbacks; those without the guard hold whatever collides. The guard is
used exactly where the code has neither lock, version nor constraint; the
hazard list names the line.

What happens at such a collision a guarded property does not say, and it is
often the very hazard of the line: of two overlapping transfers one update is
lost (`ecny/ledger/engine.py:72`), two token exchanges leave two live tokens
(`auth/oauth.py:192`), two transitions that read one version both commit and two
appends fork a chain (`nextgen/payments.py:135`, `production/service.py:690`), a
status report overwrites the history with another in it
(`iso20022/states.py:76`), a second commit of a settlement moves its legs again
(`nextgen/cbdc.py:605`), two issues count once in an operator's row
(`nextgen/cips.py:317`), netting and a release of the queue write balances over
each other's (`nextgen/cips.py:153`), two mints pass the cap and two payments
the daily limit (`ecny/issuance/service.py:48`, `ecny/wallet/service.py:164`),
and a refresh writes over a revocation (`production/certificate_service.py:46`).
The models have these steps; `BalancesMatchEntries`, `OneLiveToken`,
`EventsTellTheLife`, `ChainsVerify`, `HistoryTellsTheStatus`,
`SettlementsExplainBalances`, `EscrowCoversInstruments`,
`DailyOutgoingWithinLimit`, `IssuanceStaysWithinCap` and `RevokedIsFinal`, and
parts of `LegsArePaired`, `RecordsStayLinear`, `AccountsAreOwned` and
`ReconciliationHolds`, are silent after one. What they do cover is every order
of requests that do not collide, every rollback, and every request that fails
halfway. Where a text of the repository speaks against the collision itself it
is a violated property (`RedeemedOnce`).

**Specifications.** Each request module has a specification of its own, which
the theorems are about: `IntakeSpec`, `AdmissionSpec` (of `ControlsNext`,
`AccessNext` and the admission), `LedgerSpec`, `TrackerSpec`,
`OperationsSpec`, `PaymentsSpec`, `CipsSpec` and `EcnySystemSpec`. In them any client may
send any request at any moment with any argument its schema lets pass,
`calls` begins as any number, and the initial rows are any the program starts
from; e-CNY callers name any account where the endpoint takes one.
`PlatformSpec` of `EndOfDay` is `EcnySystemSpec`, `CipsSpec` and
`PaymentsSpec` at once, with the reconciliation and one `stale` for all.
`ServicesSpec` of `ProductionServices` is `LedgerSpec`, `IntakeSpec`,
`AdmissionSpec`, `TrackerSpec`, `OperationsSpec` and pre-validation at once.

**Compositions.** `MCNextgenPlatform` and `MCProductionServices` choose a part
in `Init` and let its actions interleave. Parts that write disjoint rows are
apart, since an interleaving of two of them reaches for each only what it
reaches alone; that is proved, not assumed (section 4: `PlatformSpec` and
`ServicesSpec` have all parts at once). Where components interact the part is
the composition: `admission` has tokens expire and be revoked, participants and
identities suspended and certificates run out while requests pass through
`RequestAdmission`; `pvp`, `issuance`, `cips` and `payments` have the
reconciliation of `EndOfDay` read them while they change; and two parts open the
e-CNY API on the accounts that another component uses, `wallets` with
`instruments` and `wallets` with `issuance`. There, as everywhere in
`EcnyWallets`, a caller names any account where the endpoint compares it with
nothing: as the operator of `POST /issuance`, which may be a wallet, an escrow
or the central bank's, and as the target of a bridge payment.

Requests that write a voucher, an instrument or an operator row keep count in it
of what they move; all others move money on the same accounts without counting.
The history variable `booked` is the part of an account's entries that comes
from the former and `Uncounted` the rest, so that `EscrowCoversInstruments` and
`ReconciliationHolds` say what the rows do account for while the others are at
work.

**Abstractions.**
- *One event, one receipt.* `ProductionPayment` takes from the outbox only what
  `ProductionOutbox` establishes: a handler's transaction commits at most once
  per event, no two open ones for the same event, in any order (retries are
  delayed, and other workers take other batches). Replay of a dead letter is
  left out of it: for the saga it equals an event that stayed pending.
- *Snapshot.* The reads of one handler transaction are one committed state.
  Under READ COMMITTED later reads of the same transaction may be fresher; the
  model keeps the staleest combination. API commands are one atomic step.
- *Saturation.* `attempts` stops at `MaxAttempts`, the only value it is
  compared with. The partition gate of `claim` compares `aggregate_sequence`,
  which no producer sets (always 1), and therefore excludes nothing.
- *Data.* Amounts are the order's amount; the limit counter is two units, this
  order's and another payment's. Screening's verdict and the currency pair are
  fixed with the payload (`clean`, `cross`) and chosen in `Init`. Facts,
  evidence and audit rows are left out: the required facts of the completion
  profile exist when the rows the model keeps are in the state it tests.
- *Connectors* are the simulators of `connectors.py`: they accept at once, or
  the call fails. The qualified connectors raise on every call, so an order
  makes progress in sandbox mode only; authorization passes there.
- *Worker names.* Each `run_once` starts with a new owner id; `Worker` reuses
  its names, which is sound because no step reads a lease of a dead
  incarnation before a claim has overwritten it.
- *Requests.* The reads of a request are one step: reads made at several
  moments that still hold at the commit are reads of one moment, and one that
  no longer holds makes it `stale`. Reads before and after a wait are separate
  steps. A request takes all its row locks at once; a deadlock is one of the
  ways to end in `RollBack`.
- *Time* is a set of things that have expired, or a few ticks (`ApiAccess`),
  since nothing is compared with a duration but the moment of its end.
- *Cryptography* is a choice whether a signature is good, made by who has the
  key; ids of rows are numbers in the order of insertion.

## 3. The runs

| Run | Instance | Shows |
|---|---|---|
| `outbox_safety` | 2 events, 2 workers, 2 principals, 2 attempts, batches of 2, 1 crash, constraint `OneReplay`; symmetry | `TypeOK`, `ExactlyOnce`, `PublishedWasHandled`, `DeadLetterIsExhausted` |
| `outbox_liveness` | 1 event, 2 workers, 3 attempts, 1 crash, fairness, no symmetry | `EventuallySettled`, and `DeliverySpec`: the refinement of `ExactlyOnceDelivery` |
| `outbox_fencing` | 1 event, 2 workers | violated: `LiveLeaseIsRespected` |
| `payment_safety` | 2 quotes, 2 workers, all verdicts and currency cases, constraint `OneQuoteOrTradeRace`; symmetry | `TypeOK`, `LimitIsSettledOnce`, `CloseIsComplete`, `CancelExcludesCredit`, `DirectPaymentIsScreened`, `AtMostOneTrade`, `TerminalIsImmutable` |
| `payment_hold`, `payment_status`, `payment_screening`, `payment_barrier` | 1 quote, 2 workers | violated, see below |
| `payment_return` | 1 quote, 1 worker, fairness (`RetrySpec`) | violated: `ReturnIsAnswered` |
| `production_services` | `MCProductionServices`, 2 clients, 12 parts | see the next table |
| `nextgen_platform` | `MCNextgenPlatform`, 2 clients, 8 parts | see the next table |
| `voucher_once` | the same instance | violated: `RedeemedOnce` |

| Part | Requests | Properties |
|---|---|---|
| `ledger`, `holds` | 5 | `LedgerBalancesExplained` (a balance is its opening plus the signed entries of POSTED journals, through reversals that overlap postings), `ReservedIsExplained` (the reserved amount is what is HELD or UNKNOWN) |
| `limits`, `keys` | 4 | `LimitsMatchOrders` and `DailyLimitHolds` (counters against orders; totals against the day's limit), `CreatedOncePerKey` |
| `approvals`, `identity`, `accounts` | 4, 4, 6 | `KeyOperationsAreDecided` (two people and a decision of the checker behind each key operation recorded, and none recorded that the provider did not do), `RevokedIsFinal`, `AccountsAreOwned` |
| `access` | 5 | `IdAcceptedOnce` (through cache eviction, restart, cleanup), `OneLiveToken` |
| `tracker` | 5 | `HistoryTellsTheStatus` |
| `admission` | 4 | `AccountsServeTheirOwner` |
| `operations` | 4 | `RecordsStayLinear` |
| `validation` | 1 | `SlipsAreRefused`: of two real accounts, every mistyped character and every swap of two neighbours, letters staying letters and digits digits, is refused on every path |
| `wallets` | 3 | `BalancesMatchEntries`, `ReportsMatchBridge`, `DailyOutgoingWithinLimit`, `IssuanceStaysWithinCap` |
| `instruments` | 5 | `EscrowCoversInstruments`; violated: `RedeemedOnce` |
| `wallets` with `instruments` | 3 | `EscrowCoversInstruments` beside e-CNY requests that may name an escrow, and the four of `wallets` |
| `pvp` | 7 | `LegsArePaired` |
| `issuance` | 7 | `ReconciliationHolds` |
| `wallets` with `issuance` | 4 | `ReconciliationHolds` beside `POST /issuance` and the bridges, on the same operators; without reports |
| `cips` | 5 | `SettlementsExplainBalances`, `ReconciliationHolds` |
| `payments` | 5 | `EnqueuedOncePerKey`, `EventsTellTheLife`, `ChainsVerify` |

**Why these bounds are enough to be interesting.** Two workers suffice for
every race between an old and a new owner of an event; two events make a batch
whose second event waits while its lease runs out; two attempts reach the
dead letter with one failure retried; one crash and unlimited lease expiries
give the redelivery cases, three attempts let a replayed and a retried event
race. `OneReplay` lets one of the two events be replayed, not both: replays of
different events touch different rows, and the theorems of section 4 have no such
bound. One order with one quote has two reservations to interleave; the second
quote is only needed for two trades: `OneQuoteOrTradeRace` lets both be accepted
where nothing else goes on (a screened cross-currency order, without cases,
returns and exhausted events), and has all of these in an order with one quote.

In the request models `Calls` bounds the requests of a behaviour, committed or
rolled back, by part. Two clients give every overlap of two requests, and the
other requests are what comes before and after: an account, a token or an
escrow to fight for, a retry with the same key, a reversal of the reversal,
a reconciliation between two commits. `pvp` and `issuance` need seven, a quote, two
settlements, locks and commits being requests of their own. The two parts that add the e-CNY
API ask for one amount, 2, and fewer requests: enough to lock money in an
escrow, mint to an operator or issue to one, and have another
request name that account before the row is used again; what longer sequences do
is proved. Amounts are 1 or 2 (2 alone where the `wallets` part burns, seeds a foreign
account or pays across the border) and balances and limits so low that
each limit is met and missed. Two keys, bodies and instructions give replay,
conflict and the same instruction under another key. `SYMMETRY` permutes the
clients, which no action and no property tells apart. The instances are in the MC
modules, with the reason where a choice matters.

`CHECK_DEADLOCK FALSE` everywhere: a system whose events are all settled
rightly stops, and so does a behaviour whose requests are used up.

**Fairness.** `EventuallySettled` and `DeliverySpec` are checked under
`FairSpec`: each worker goes on with the event it has begun, idle workers poll
(both loops run for ever), a lease and a backoff elapse. Nothing is assumed of
producers, crashes (bounded by `MaxCrashes`), or of the people who replay
(at most one request per event, by its unique key). The safety runs assume no
fairness. `payment_return` refutes a liveness property and therefore assumes
more than the code gives: `RetrySpec` has handlers that begin end, lets no event run
out of attempts, has the return's event taken again and again, and has its handler
commit if it is ever able to. Even so the return is not answered. The request models
have no fairness: a client need not come back, and
no loop in the process completes what a request has left.

**What the violated properties say.**
- `LiveLeaseIsRespected`: the lease is not a fence. `complete()` compares the
  owner it loaded before the handler ran, and `fail()` compares none, so a
  worker that lost its lease still changes the row. That the effect is applied
  only once all the same (`ExactlyOnce`) is owed to the inbox receipt alone.
- `UnsuccessfulCloseHoldsNothing`: rejection releases no reservation,
  cancellation those it finds, and `_funding_reserve` never looks at the order.
- `CancelledValueIsNotSent`: the value is submitted before the completion
  policy decides; its rejection rolls back the record that it was sent.
- `DeliveryIsScreened`: the FX acceptance command drives an order up to
  MESSAGE_DELIVERED without its screening.
- `BarrierIsPassed`: two reservations handled at once each see the other
  PENDING, and the saga waits for ever.
- `ReturnIsAnswered`: the connector answers a return with FINAL, the return's own
  table takes FINAL only from ACCEPTED, and nothing in the program makes the two
  transitions before it; the handler raises at every attempt, and the return is
  REQUESTED for ever.
- `RedeemedOnce`: a voucher is read without a lock and its status written
  without a comparison, so overlapping redemptions both pay out of its escrow.

`DirectPaymentIsScreened` and `CancelExcludesCredit` are the parts of these
promises the code does keep.

**Met on the way.** Behaviour of the code that no text of the repository
speaks against, and which the models therefore have without a property that
forbids it:
- `issue_to_wallet` of `POST /issuance` transfers out of whatever account the
  caller names as the operator's and checks the receiving wallet alone
  (`ecny/issuance/service.py:83`). A wallet named there sends more than its daily
  limit, an escrow no longer covers its voucher, and an account of the central
  bank puts CNY into circulation past the cap; no overlap is needed.
  `DailyOutgoingWithinLimit` is therefore about the three endpoints that check a
  payer, `IssuanceStaysWithinCap` names this way past the cap, and
  `EscrowCoversInstruments` counts what such requests take as `Uncounted`.
- PvP: a second commit that read LOCKED before it waited for the lease goes on
  after the first and may write ABORTED over COMMITTED (`nextgen/cbdc.py:605`);
  `LegsArePaired` is what remains true. An expired voucher's mark is rolled
  back with the exception, and its escrow stays (`nextgen/cbdc.py:280`).
- The retry of a quote's acceptance after its expiry gets 409, not the
  recorded answer (`production/service.py:467`); the mark EXPIRED is rolled back.
- `operations_summary` adds breaks and does not commit; nothing closes a break
  (`production/operations.py:74`).
- `reconcile()` of an operator says "not reconciled" as soon as part of what it
  was issued is held elsewhere (`nextgen/cips.py:343`).
- A decision REJECTED sets the approval to APPROVED all the same (`approval_api.py:43`);
  an approval names no key and is never used up.
- A GL receipt may turn ACK into REJECTED (`gl_bridge.py:50`); two reversals of
  one journal are both posted (`_ledger_core.py:186`): balances still agree
  with the entries.
- The sandbox admits a participant for 365 days and never renews it
  (`security.py:186`); an ownership's id keeps 40 characters of the account's
  (`security.py:243`), so two long ids collide and the second account cannot be opened.
- Outside the sandbox, signed requests are 503 until a verifier is configured,
  which only tests do (`integrity.py:59`).
- `core/iban.py` announces a mod-97 fallback for unknown countries, and
  `validate_iban` refuses them; `data/ibans.json` has a row marked valid whose
  check digits fail, so the directory and the algorithm disagree about it.

## 4. The proofs

Each theorem holds for every value of the constants, so for any number of
clients, workers, rows, accounts and requests. They are listed in
`PROJECT.json`; the ones that say what a run checks name its property.

| Module | Proved of | Properties |
|---|---|---|
| `ProductionOutboxProofs` | `ProductionOutbox!Spec` | `TypeOK`, `ExactlyOnce`, `PublishedWasHandled`, `DeadLetterIsExhausted`, and the refinement `DeliverySpec` |
| `ProductionPaymentProofs` | `ProductionPayment!Spec` | `TypeOK`, `LimitIsSettledOnce`, `TerminalIsImmutable`, `CloseIsComplete`, `CancelExcludesCredit`, `AtMostOneTrade`, `DirectPaymentIsScreened` |
| `ProductionIntakeProofs` | `IntakeSpec` | `CreatedOncePerKey`, `LimitsMatchOrders`, `DailyLimitHolds` |
| `ProductionServicesProofs` | `AdmissionSpec` | `IdAcceptedOnce`, `OneLiveToken`, `KeyOperationsAreDecided`, `RevokedIsFinal`, `AccountsAreOwned`, `AccountsServeTheirOwner` |
| | `ServicesSpec` | `ServicesTypeOK`; every other property of the last four rows with the requests of all services open at once (`ServicesHoldTogether`, `RevokedIsFinalTogether`) |
| `RecordsProofs` | `TrackerSpec`, `OperationsSpec`, `LedgerSpec` | `HistoryTellsTheStatus`; `RecordsStayLinear`; `LedgerBalancesExplained`, `ReservedIsExplained` |
| | `PrevalidationSpec` | `SlipsAreRefused` |
| `EcnySystemProofs` | `EcnySystemSpec` | `BalancesMatchEntries`, `ReportsMatchBridge`, `LegsArePaired`, `EscrowCoversInstruments`, `DailyOutgoingWithinLimit`, `IssuanceStaysWithinCap`, and `~stale => RowsAccountForLedger` |
| `NextgenProofs` | `PaymentsSpec`, `CipsSpec` | `EnqueuedOncePerKey`, `EventsTellTheLife`, `ChainsVerify`; `SettlementsExplainBalances` |
| | `PlatformSpec` | `PlatformTypeOK`, `ReconciliationHolds` (and `ReportsFindNothing`, its first part), and with all parts open at once the ten just named of `EcnySystemSpec`, `PaymentsSpec` and `CipsSpec` (`PartsHoldTogether`, `PromisesHoldTogether`) |

None of these properties is inductive: what a request or a handler commits was
decided when it read, and in between others commit. Each invariant
therefore says of every open request, or every open transaction, what it may
still rely on at its commit.

**The outbox.** `IInv` adds to the three safety properties:
- `HandlerExclusive`: at most one worker is in the handler of an event, and no
  receipt exists for it then: the unique key's wait. Without it two workers
  could commit the effect.
- `DuplicateHasReceipt`: a worker about to complete a duplicate has seen a
  receipt, and receipts are never removed. Without it `CompleteDuplicate`
  could acknowledge an unhandled event.
- `SeenIsPast`: the attempts in a worker's copy never exceed the committed
  ones, and a copy that reads PUBLISHED implies a receipt. Without it the
  column-wise write of a stale copy could dead-letter an event early, or leave
  an unhandled one PUBLISHED.
- `BatchIsEnqueued`: events of a batch are in the table.

The proof takes one step per action; the refinement maps `HandleAndComplete`
to `Apply`, `CompleteDuplicate` to `Ack` or a stutter, `FailWrite` over a
published row to `Reoffer`, and the rest to `Enqueue` or stuttering.

**One payment: the order.**

- *A handler alone.* `HandlerResult`: started on rows whose limit counter
  belongs to the order's state, a handler that returns leaves the order as it
  read it, or moves an order that was open to a higher version, and the limit
  counter again belongs to the state it leaves. One lemma per handler; they
  share `SetOrderStateResult` for the moves of the order and `BesideResult` for
  every other write.
- *A handler next to others.* `IInv` is `TypeOK`, the limit property of
  the committed rows, and `SnapshotIsPast`: an open transaction's snapshot was
  consistent, is no newer than the committed order, and is the committed order
  if the version is still the same. The last part is what makes the version
  check sufficient: a commit that changed the order did so from the very row
  it replaces, so the limit's increments, which are applied to the committed
  counter, are those that row asks for. Without `SnapshotIsPast` neither
  property is inductive: a handler could close an order it remembers as open.

**One payment: the rows beside the order.** Only the order carries a version;
reservations, intents, legs and the credit are written column by column over
whatever is there. The invariant `Saga` has three parts.
- `Rows`: what the committed rows say of each other: which reservations go
  with the order's state and with an event, that an intent is ready only
  when it is funded, that there is one trade, that the value follows the
  message and a same-currency message the screening, that a closed order is
  complete.
- `Jobs`: every snapshot of an open transaction satisfies `Rows` too and is a
  `Past` of the committed rows: each row moves only forward along its own
  life, and an order with the same version has the same FX legs; and its event
  is pending, and no other worker's.
- `ValueIsAsked`: the connector was told to settle only by the handler of the
  value event.

`HandlerWrote` says, per handler, in which few ways what it leaves differs from
what it read; `CommitKeepsRows` that those changes, flushed onto rows that are
further along, keep `Rows`. There the unique (order, leg role) decides between
two trades, the version between a close and a cancellation, the receipt
between two attempts of one event. Without `Past` in `Jobs`,
`CloseIsComplete` and the others are true of a handler's snapshot only, which
says nothing of the rows it commits onto. TLC checked `Rows`, `Jobs` and
`ValueIsAsked` on instances with one and with two quotes (295,130 and 330,934
states) first.

**Intake.** `Relies` says what an open request knows (the key and the
instruction it inserts are not there, the limit rows it has locked are as it
read them, the order and quote it names exist), `Apart` that no two have
inserted one key, instruction or cancellation or locked one row, and
`LimitsAreKept` that a counter row never exceeds the limit of the profile it
was checked against. Without `Apart` two commits could write the same
counter from the same old value, since `Flush` would let them. The
proofs of the sums go through an action property, `LimitsFollowOrders`: a step
leaves a day's orders and counter alone, or opens an order and reserves its
amount, or closes one and consumes or releases it; with `SumTheorems` the
counter then keeps pace with the sum. TLC checked the invariant on an
exhaustive run (2,790,542 states).

**Admission, controls, access.** No locks: a request may rely on rows that
never change again (a decision, the holder of an account, an active
ownership), on what its unique key will refuse, or on the row as it was read,
which makes the commit stale when it is no longer there. `RInv` collects these,
with what the rows say (`Tokens`, `Approvals`, `Audited`, `Owners`, `Holders`)
and `Counted`: the operations recorded for a key and those that open requests
will record are no more than the provider has done.
TLC looked at about 600,000 states for a violation of it before the proof, not
at all of them.

**Tracker and operations.** `TInv`: an open report continues a history that
was true when it was read. `OInv`: the number an open fact
has computed is at most one more than there are facts of its chain, so
that the unique key refuses all but the next one; an open reconciliation opens
no break that it has seen.

**The subledger.** `LInv`: every open request has accounts locked (`LocksApart`)
and unchanged since it loaded them, and the rows it is going to write differ from those by
exactly the entries, reversals and holds it is going to insert (`Works`); the
books are explained before it commits, so they are after. The sums are over
all entries of all journals, and `SumTheorems` takes them apart by journal. TLC
checked `LInv` on an exhaustive run of the `ledger` and `holds` parts
(57,169 states).

The types of the rows are a second invariant, `LTypes`: the rows that an open
request holds, computed or loaded, have the types of the rows it is going to write
(`LedgerTypeCorrect`).

**Check digits.** `SlipsAreRefused` is proved for any directory, any country,
any length and any string of letters and digits a caller may send; the run asks
about the slips of two accounts. A character takes the remainder `r` to
`10 r + x` or `100 r + x` modulo 97. Both keep different remainders apart
(`StepKeepsApart`) and tell two characters of a kind, alone or in either order
(`StepTells`, `StepsTell`); where two numbers begin to differ, and that they
still do at the end, is by the least counterexample (`SameUpTo`, `ApartAfter`).
One slip is different: the first four characters are read last, so the fourth
and the fifth, neighbours in the account, are the two ends of the number.
`EndsExchangeShows` follows the weight of the first character, a power of 10
(`Powers`), to the last, where it could only hide the exchange as the inverse of
10, which is `10 ^ 95`: no account is that long. `AInv` says of the last answer
that nobody is vouched for whose account the account check calls invalid.

**e-CNY.** `EInv` is about all requests that meet on the ledger, with any
account where a caller may name one. Balances are written as absolute values
and entries added, so it says that an open session explains each
balance it has changed by the entries it has added (`Explains`), and has read
and found open what it moves (`Moves`); the escrow of a new voucher is
not read, it is empty because it is not open yet (`Unopened`). For PvP it says
what a request knows after the wait for its lease. TLC looked at 1.3 million
states of it, and at 10 million in simulation.

What a row counts is a second invariant, `CInv`, and no caller is excluded from
it: requests that write no voucher, instrument or operator row may move money on
any account at any moment. It is about `booked`, the entries of the requests that
do write one. `AllCounted` says, of the committed rows while nothing is stale,
that the booked entries of an escrow are the amount of its voucher or
instrument, and `Tallied` that those of all the CNY are the sum of the operator
rows, and what the rows exceed those of the operators' accounts by is what has been
topped up. `Keeps` says of an open request what its session is going to book, so
that row and entries move together: `PaysEscrow` for an escrow, `Passes` for an
operator, who creates what it will add to the row, and whose account gets that
less what is passed on. Balances come in only at the end: `EInv` has
`bal = posted` without overlap, so what a balance is more or less than its
row says is `Uncounted`, entries of the other requests
(`EscrowCoversInstruments`, `RowsAccountForLedger`). A row may be written
from a stale amount, so all of this needs `~stale`; that a request names
an escrow as its operator, or the central bank, does not disturb it.

The limits are a third, `LInv`. An open request of the e-CNY API has
compared what its payer sends with the daily limit, on the day's sum it has
read (`Limited`); and it mints below the cap, or creates
outstanding CNY by a bridge payment or out of an account of the central bank, or
creates none (`Capped`). For the cap, `NetCommitted` says that the sum of
the balances changes by what the session has changed, although each
balance is written as an absolute value, which is so only when those balances are
still the ones loaded. A mint reads every account, so a mint that is not stale ends
where its session said. `Daily` and the cap hold of each request at its commit, not
of the state: other endpoints (vouchers, PvP, the Hong Kong wallets,
`issue_to_wallet`, `POST /ecny/operators/{id}/issue`) send from a wallet or
issue without a look at either.

**Nextgen payments.** `PInv`: the key of an open request has no record and no
other open request has it, the new status follows the one it has read, the
link it appends follows the last row it has read.

**CIPS settlement.** `CipsInv`: the settlements marked SETTLED explain the
balances, and of every open request, the settlements it may settle were
queued when it read them, their parties have accounts among those it has loaded, and
each of its balances is the loaded one plus the net of the
settlements it tells of (`Nets`). For the release of the queue that is
`QueueSettles`, by induction along the fold of `SettleRtgs`, whatever the
order: each settlement either finds the liquidity and moves its amount, or
leaves the session as it is. `AccountsWritten` says what the commit makes of it:
a row the session has not changed keeps what another has committed, a changed one
is written as an absolute value, so the two agree with the net only if the
parties' accounts are still those loaded, which is what a commit that
is not stale knows. `NetGrows` adds the net of the rows newly marked to
the sum. TLC checked `CipsInv` first, on the `cips` part of
`nextgen_platform` (38,780 states).

**Everything at once.** The run `nextgen_platform` opens the requests of one
part per behaviour, or of the e-CNY API beside one; `PlatformSpec` opens those of all parts together, with the
reconciliation among them. `PlatformInv` is the conjunction of `EInv`,
`CipsInv` and `PInv` with what a report relies on, and it is kept because of
three facts, each a lemma per action. A step leaves every open request as it
is, ends it, or replaces it by one of its own part (`ActsBy`); it changes rows of its own
part only; and `stale`, which all share, never becomes false again, so that a promise that
starts with `~stale` loses nothing by a collision elsewhere (`LedgerKept`,
`CipsKept`, `PaymentsKept`). For the report: an open request of an operator leaves
its row between zero and its limit, because the row is written as the value it has
checked and not as an increment (`OperatorsInRange`); with the CHECK constraint on the
CIPS balances and the states of a settlement, a report has nothing to
list whatever overlaps, although nothing locks what it reads
(`ReportsFindNothing`). `PlatformPromises` carries `CInv` and `LInv` along, which
steps of CIPS and of the payments leave alone (`ApartCounts`, `ApartLimits`): from
them follow `ReconciliationHolds`, the escrows, the limits and the cap, with
everything open at once and any account named. `TypesInv` is about the few
columns that no other invariant speaks of.

**The services together.** The run `production_services` opens the requests of
one part per behaviour; `ServicesSpec` those of all services around the payment
flow. `SInv` is the conjunction of `LInv`, `IInv` with `LimitsMatchOrders`,
`RInv`, `TInv`, `OInv` and `AInv` with the types (`LTypes`, `RTypes`, `OTypes`,
`ATyped`). As in the simulator, a step of one service leaves the requests of the others as
they are; only a restart, which is an action of `ApiAccess`, ends them, and each
invariant allows a request to end at any point. None of the services writes a
table that another reads under its invariant; where they do share rows
(approvals, identities and tokens, of admission, controls and access) they are
one specification already. `stale` they share. The types needed more than
`ServicesTypeOK` says: a row is typed because the request that commits it holds
typed values, which for evidence, key operations and admissions means values it
has read. This is also what `Fitting` and the named assumptions above are for:
the rows an installation begins with fit their tables.

**Sums.** The fold of the community modules picks the elements of a set in an
order of its own. `SumTheorems` proves that it does not matter: a recursive
function on the subsets exists and is unique, any element may be taken out
(`SumRemove`), and from this what an added index, a changed term or a
disjoint union does to the sum. The library's induction theorems take an
operator as an argument, which no prover here can instantiate;
`FiniteSetInduction` is about the *set* of the subsets for which a fact holds, an
ordinary value, and rests on the well-foundedness of the natural numbers.

**Assumptions.** The theorems rest on these, which TLC evaluates in the
runs: events are numbers, bounds are positive and the null values are no
workers or principals (`ProductionOutbox`); `DirectAssumption` (the direct
reservation is no quote); `ClientAssumption` (the thread pool is finite);
`LastDayAssumption`; `IdAssumption` (a jti is no nonce: two tables);
`SubjectAssumption` and `DigestAssumption` (the null value is no subject, no
digest); `CapacityAssumption` (the cache has a size), `EntityAssumption`,
`PartyAssumption` and `PurchaseAssumption` (payloads and identities name
entities, accounts and currencies of the tables), `DirectoryAssumption`
(the directory's rows fit their columns); `PaymentAssumption`; `TemplateAssumption` (templates are
tuples); `AmountAssumption` (the schemas refuse negative amounts),
`CapAssumption` (the cap is a natural number), `WalletAssumption` (wallets'
accounts are in CNY), `NoneAssumption` (the null value is no account), `AccountAssumption` (a table has
finitely many rows), `RateAssumption` (rates are positive fractions), `EscrowAssumption` (each
voucher and instrument has an escrow account of its own, in CNY), `LegAssumption`,
`LimitAssumption` (an operator is registered with a positive limit),
`ReportAssumption` (what a report says is the payload of no other event).
No theorem has a hypothesis about which accounts callers name.

**Only model-checked.** One property of the passing runs is no theorem:
`EventuallySettled`, liveness under fairness, is out of the prover's reach. So
are the properties of the violation runs, which the code does not have.

## 5. Not modelled, or not called

Beyond the models:
- *Modelled although nothing in the process calls it.* `CertificateService`
  (`rotate`, `revoke`, `refresh_external_status`) and the lifecycle of
  `EntitlementService` (`create_pending`, `activate`, `revoke`) are actions of
  `ProductionControls`, because the rows they write are those admission judges a
  request by. Their callers are tests; what the models say of them, the part of
  `RevokedIsFinal` about rotations and refreshes in particular, is about a process
  that wires them.
- *Code that nothing calls*, not modelled. `TimerService` and the signature verifier are
  wired by tests only; `abort_pvp`, `refund`, `invalidate`, the nextgen
  workflow service and `claim` of its outbox, `release` of the limits,
  `recover_started`, report batches and receipts, the client-certificate
  authenticator and the routes of limit profiles and entitlements that
  `production/router.py` removes have no caller in the process. Reserve,
  release and consume of order funds in the ledger name an order id that is no
  order (foreign key).
- *Messages and formats.* Building and parsing of ISO 20022 and FIN messages,
  standards and schemas, reporting and telemetry, frontend, scripts.
- *Startup.* Qualification and configuration gates are conditions on settings;
  what they fix (isolation, autoflush, profiles) is assumed by the models.
- *Connectors* beyond an answer or a failure: the qualified ones raise.
- Pricing of quotes, contents of policies, quality assessments, jurisdictions
  and nodes: reference data no settlement reads.
- Several returns of one order, and replay of dead letters inside the saga.
