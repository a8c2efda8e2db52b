-------------------------- MODULE ProductionOutbox --------------------------
(***************************************************************************)
(* The transactional outbox of backend/production and the workers that     *)
(* drain it: ProductionOutboxService (runtime.py), ProductionWorker.run_   *)
(* once and _register_inbox (worker.py) and the dead-letter replay         *)
(* (dlq_replay.py).                                                        *)
(*                                                                         *)
(* Several workers may run at once (the loop thread of main.py, the worker *)
(* script, POST /worker/run).  Each transaction of a worker is split at    *)
(* the reads whose result it uses later: the event's row is loaded into    *)
(* the session once (`seen') and the decisions of complete() and fail()    *)
(* are taken on that copy, whatever other workers commit meanwhile.        *)
(*                                                                         *)
(* Time is abstracted to two facts about a row: its lease has run out      *)
(* (`expired'), and its available_at has passed (`due').                   *)
(***************************************************************************)
EXTENDS Naturals, FiniteSets, RowUpdate

CONSTANTS
    Event,        \* outbox rows, named by their primary key (a number)
    Worker,       \* concurrently running workers
    Subject,      \* principals who may request and approve a replay
    None,         \* the null lease_owner
    NoReplay,     \* no replay request exists for the event
    Approved,     \* the event's only replay request has been approved
    MaxAttempts,  \* attempts at which fail() dead-letters (8 in the code)
    BatchLimit,   \* rows a claim takes at most
    MaxCrashes    \* bound on the worker crashes of a behaviour

ASSUME EventAssumption == Event \subseteq Nat
ASSUME BoundAssumption ==
    /\ MaxAttempts \in Nat \ {0}
    /\ BatchLimit \in Nat \ {0}
    /\ MaxCrashes \in Nat
ASSUME NullAssumption ==
    /\ None \notin Worker
    /\ NoReplay \notin Subject \cup {Approved}
    /\ Approved \notin Subject

VARIABLES
    row,      \* row[e]: the committed status, attempts and lease_owner
    expired,  \* events whose lease_until has passed
    due,      \* events whose available_at has passed
    inbox,    \* committed receipts of consumer production-worker-v1
    effects,  \* effects[e]: handler transactions committed for e
    replay,   \* replay[e]: NoReplay, the maker of a pending request, Approved
    pc,       \* pc[w]: where worker w is in run_once
    batch,    \* batch[w]: claimed events w has not finished with
    seen,     \* seen[w]: the copy of the current event's row in w's session
    crashes   \* crashes so far

vars == <<row, expired, due, inbox, effects, replay, pc, batch, seen, crashes>>
rowVars == <<row, expired, due>>
workerVars == <<pc, batch, seen>>

Status == {"ABSENT", "PENDING", "PROCESSING", "PUBLISHED", "DEAD_LETTER"}

Row == [status : Status, attempts : 0 .. MaxAttempts, owner : Worker \cup {None}]

NewRow == [status |-> "ABSENT", attempts |-> 0, owner |-> None]

Init ==
    /\ row = [e \in Event |-> NewRow]
    /\ expired = {}
    /\ due = {}
    /\ inbox = {}
    /\ effects = [e \in Event |-> 0]
    /\ replay = [e \in Event |-> NoReplay]
    /\ pc = [w \in Worker |-> "idle"]
    /\ batch = [w \in Worker |-> {}]
    /\ seen = [w \in Worker |-> NewRow]
    /\ crashes = 0

------------------------------------------------------------------------------
(* The outbox service *)

\* A business transaction commits event e.  The unique key on (topic,
\* aggregate_id, aggregate_sequence) with the default sequence 1 lets an
\* event in only once.
Enqueue(e) ==
    /\ row[e].status = "ABSENT"
    /\ row' = [row EXCEPT ![e].status = "PENDING"]
    /\ due' = due \cup {e}
    /\ UNCHANGED <<expired, inbox, effects, replay, workerVars, crashes>>

\* Variant for mutation testing: a claim that forgets to reclaim.
ReclaimableNever == {}

\* Rows whose lease ran out, which a claim first puts back to PENDING.
Reclaimable ==
    {e \in Event : /\ row[e].status = "PROCESSING"
                   /\ e \in expired \/ row[e].owner = None}

\* Rows a claim may take after that.  The partition gate compares
\* aggregate_sequence, which every producer leaves at 1, and so excludes none.
Claimable ==
    {e \in Event : \/ e \in Reclaimable /\ e \in due
                   \/ row[e].status = "PENDING" /\ e \in due}

\* ORDER BY id LIMIT n.
LowestIds(S, n) ==
    {e \in S : Cardinality({f \in S : f < e}) < n}

\* attempts + 1, saturated at the only value it is compared with.
Attempted(n) == IF n < MaxAttempts THEN n + 1 ELSE n

\* One claim and the commit that follows it in run_once.
Claim(w) ==
    LET taken == LowestIds(Claimable, BatchLimit) IN
    /\ pc[w] = "idle"
    /\ Reclaimable \cup taken # {}
    /\ row' = [e \in Event |->
          IF e \in taken
          THEN [status |-> "PROCESSING",
                attempts |-> Attempted(row[e].attempts),
                owner |-> w]
          ELSE IF e \in Reclaimable
          THEN [row[e] EXCEPT !.status = "PENDING", !.owner = None]
          ELSE row[e]]
    /\ expired' = expired \ (Reclaimable \cup taken)
    /\ batch' = [batch EXCEPT ![w] = taken]
    /\ pc' = [pc EXCEPT ![w] = IF taken = {} THEN "idle" ELSE "load"]
    /\ UNCHANGED <<due, inbox, effects, replay, seen, crashes>>

\* complete() refuses a row it sees leased to nobody or to someone else.
Fenced(w) == seen[w].status = "PROCESSING" /\ seen[w].owner # w

\* The row complete() leaves in the session.
CompletedRow(r) ==
    IF r.status = "PUBLISHED" THEN r
    ELSE [status |-> "PUBLISHED", attempts |-> r.attempts, owner |-> None]

\* Variants: a status outside the state machine; giving up one attempt early.
FailedRowUnlisted(r) ==
    [status |-> IF r.attempts >= MaxAttempts THEN "FAILED" ELSE "PENDING",
     attempts |-> r.attempts,
     owner |-> None]

FailedRowEarly(r) ==
    [status |-> IF r.attempts + 1 >= MaxAttempts THEN "DEAD_LETTER" ELSE "PENDING",
     attempts |-> r.attempts,
     owner |-> None]

\* The row fail() leaves in the session: nothing about who holds the lease.
FailedRow(r) ==
    [status |-> IF r.attempts >= MaxAttempts THEN "DEAD_LETTER" ELSE "PENDING",
     attempts |-> r.attempts,
     owner |-> None]

------------------------------------------------------------------------------
(* ProductionWorker.run_once, one event of the batch at a time *)

\* The event worker w is at: batches are processed in the order of the ids.
At(w, e) == e \in batch[w] /\ \A f \in batch[w] : e <= f

\* The loop moves to the next event of the batch, or run_once returns.
NextEvent(w, e) ==
    /\ batch' = [batch EXCEPT ![w] = @ \ {e}]
    /\ pc' = [pc EXCEPT ![w] = IF batch[w] = {e} THEN "idle" ELSE "load"]

Goto(w, label) == pc' = [pc EXCEPT ![w] = label] /\ UNCHANGED batch

\* _register_inbox touches event.event_id: the row, expired by the previous
\* commit, is loaded into the session.
Load(w) == \E e \in Event :
    /\ pc[w] = "load" /\ At(w, e)
    /\ seen' = [seen EXCEPT ![w] = row[e]]
    /\ Goto(w, "check")
    /\ UNCHANGED <<rowVars, inbox, effects, replay, crashes>>

\* _register_inbox looks for the receipt of an earlier delivery.
CheckInbox(w) == \E e \in Event :
    /\ pc[w] = "check" /\ At(w, e)
    /\ Goto(w, IF e \in inbox THEN "complete" ELSE "insert")
    /\ UNCHANGED <<rowVars, inbox, effects, replay, seen, crashes>>

\* Variant: the inbox table without its unique key.
InsertReceiptUnkeyed(w) == \E e \in Event :
    /\ pc[w] = "insert" /\ At(w, e)
    /\ Goto(w, "handle")
    /\ UNCHANGED <<rowVars, inbox, effects, replay, seen, crashes>>

\* The flush of the receipt.  The unique index on (consumer, event_id) makes
\* it wait for a transaction that has inserted the same key and not ended,
\* and fail if that transaction committed.
InsertReceipt(w) == \E e \in Event :
    /\ pc[w] = "insert" /\ At(w, e)
    /\ \A v \in Worker \ {w} : ~(pc[v] = "handle" /\ At(v, e))
    /\ Goto(w, IF e \in inbox THEN "fail" ELSE "handle")
    /\ UNCHANGED <<rowVars, inbox, effects, replay, seen, crashes>>

\* Variant: the handler's effect without its receipt.
HandleWithoutReceipt(w) == \E e \in Event :
    /\ pc[w] = "handle" /\ At(w, e)
    /\ ~Fenced(w)
    /\ row' = [row EXCEPT ![e] = Flush(row[e], seen[w], CompletedRow(seen[w]))]
    /\ effects' = [effects EXCEPT ![e] = @ + 1]
    /\ NextEvent(w, e)
    /\ UNCHANGED <<expired, due, inbox, replay, seen, crashes>>

\* The handler returns and complete() accepts: receipt, business effect and
\* the row are committed in one transaction.
HandleAndComplete(w) == \E e \in Event :
    /\ pc[w] = "handle" /\ At(w, e)
    /\ ~Fenced(w)
    /\ row' = [row EXCEPT ![e] = Flush(row[e], seen[w], CompletedRow(seen[w]))]
    /\ inbox' = inbox \cup {e}
    /\ effects' = [effects EXCEPT ![e] = @ + 1]
    /\ NextEvent(w, e)
    /\ UNCHANGED <<expired, due, replay, seen, crashes>>

\* Variant: the handler's exception is swallowed and the event completed.
HandleRaisesSwallowed(w) ==
    /\ pc[w] = "handle"
    /\ Goto(w, "complete")
    /\ UNCHANGED <<rowVars, inbox, effects, replay, seen, crashes>>

\* The handler raises, or complete() rejects the lease: all is rolled back.
HandleRaises(w) ==
    /\ pc[w] = "handle"
    /\ Goto(w, "fail")
    /\ UNCHANGED <<rowVars, inbox, effects, replay, seen, crashes>>

\* The receipt of an earlier delivery exists: the row alone is completed.
CompleteDuplicate(w) == \E e \in Event :
    /\ pc[w] = "complete" /\ At(w, e)
    /\ ~Fenced(w)
    /\ row' = [row EXCEPT ![e] = Flush(row[e], seen[w], CompletedRow(seen[w]))]
    /\ NextEvent(w, e)
    /\ UNCHANGED <<expired, due, inbox, effects, replay, seen, crashes>>

CompleteRejected(w) ==
    /\ pc[w] = "complete"
    /\ Fenced(w)
    /\ Goto(w, "fail")
    /\ UNCHANGED <<rowVars, inbox, effects, replay, seen, crashes>>

\* The except branch: after the rollback the row is loaded again ...
FailLoad(w) == \E e \in Event :
    /\ pc[w] = "fail" /\ At(w, e)
    /\ seen' = [seen EXCEPT ![w] = row[e]]
    /\ Goto(w, "fail_write")
    /\ UNCHANGED <<rowVars, inbox, effects, replay, crashes>>

\* ... and fail() writes it, whoever holds the lease by now.
FailWrite(w) == \E e \in Event :
    /\ pc[w] = "fail_write" /\ At(w, e)
    /\ row' = [row EXCEPT ![e] = Flush(row[e], seen[w], FailedRow(seen[w]))]
    /\ due' = IF FailedRow(seen[w]).status = "PENDING" THEN due \ {e} ELSE due
    /\ NextEvent(w, e)
    /\ UNCHANGED <<expired, inbox, effects, replay, seen, crashes>>

\* The worker process dies (or the except branch itself raises): its open
\* transaction is rolled back, its batch is forgotten.  Every run_once starts
\* with a fresh owner id; w can stand for it because nothing reads a lease the
\* dead incarnation held before a claim has overwritten it.
Crash(w) ==
    /\ pc[w] # "idle"
    /\ crashes < MaxCrashes
    /\ crashes' = crashes + 1
    /\ pc' = [pc EXCEPT ![w] = "idle"]
    /\ batch' = [batch EXCEPT ![w] = {}]
    /\ UNCHANGED <<rowVars, inbox, effects, replay, seen>>

------------------------------------------------------------------------------
(* Time *)

LeaseExpires(e) ==
    /\ row[e].status = "PROCESSING" /\ e \notin expired
    /\ expired' = expired \cup {e}
    /\ UNCHANGED <<row, due, inbox, effects, replay, workerVars, crashes>>

RetryFallsDue(e) ==
    /\ row[e].status # "ABSENT" /\ e \notin due
    /\ due' = due \cup {e}
    /\ UNCHANGED <<row, expired, inbox, effects, replay, workerVars, crashes>>

------------------------------------------------------------------------------
(* Dead-letter replay under dual control *)

CreateReplay(e, maker) ==
    /\ row[e].status = "DEAD_LETTER"
    /\ replay[e] = NoReplay
    /\ replay' = [replay EXCEPT ![e] = maker]
    /\ UNCHANGED <<rowVars, inbox, effects, workerVars, crashes>>

ApproveReplay(e, checker) ==
    /\ replay[e] \in Subject
    /\ replay[e] # checker
    /\ row[e].status = "DEAD_LETTER"
    /\ replay' = [replay EXCEPT ![e] = Approved]
    /\ row' = [row EXCEPT ![e].status = "PENDING", ![e].owner = None]
    /\ due' = due \cup {e}
    /\ UNCHANGED <<expired, inbox, effects, workerVars, crashes>>

------------------------------------------------------------------------------
WorkerStep(w) ==
    \/ Load(w) \/ CheckInbox(w) \/ InsertReceipt(w)
    \/ HandleAndComplete(w) \/ HandleRaises(w)
    \/ CompleteDuplicate(w) \/ CompleteRejected(w)
    \/ FailLoad(w) \/ FailWrite(w)

Next ==
    \/ \E w \in Worker : Claim(w) \/ WorkerStep(w) \/ Crash(w)
    \/ \E e \in Event : Enqueue(e) \/ LeaseExpires(e) \/ RetryFallsDue(e)
    \/ \E e \in Event, s \in Subject : CreateReplay(e, s) \/ ApproveReplay(e, s)

Spec == Init /\ [][Next]_vars

\* A worker that has begun an event goes on with it, idle workers poll
\* (main.py and the worker script loop forever), and the clock runs.  Nothing
\* is assumed of the producers, of crashes or of the operators who replay.
Fairness ==
    /\ \A w \in Worker : WF_vars(WorkerStep(w)) /\ WF_vars(Claim(w))
    /\ \A e \in Event : WF_vars(LeaseExpires(e)) /\ WF_vars(RetryFallsDue(e))

FairSpec == Spec /\ Fairness

------------------------------------------------------------------------------
(* Properties *)

Labels == {"idle", "load", "check", "insert", "handle", "complete", "fail",
           "fail_write"}

\* Types of the outbox tables and of the workers' local state.
TypeOK ==
    /\ row \in [Event -> Row]
    /\ expired \subseteq Event
    /\ due \subseteq Event
    /\ inbox \subseteq Event
    /\ effects \in [Event -> Nat]
    /\ replay \in [Event -> Subject \cup {NoReplay, Approved}]
    /\ pc \in [Worker -> Labels]
    /\ batch \in [Worker -> SUBSET Event]
    /\ seen \in [Worker -> Row]
    /\ crashes \in 0 .. MaxCrashes

\* Business exactly-once: however often an event is claimed, reclaimed,
\* failed, replayed or lost in a crash, the handler transaction of
\* run_once commits at most once for it, and it has when there is a receipt.
ExactlyOnce ==
    \A e \in Event : effects[e] = IF e \in inbox THEN 1 ELSE 0

\* complete() never acknowledges an event nobody handled, although it decides
\* on a stale row and accepts rows that are not leased at all.
PublishedWasHandled ==
    \A e \in Event : row[e].status = "PUBLISHED" => e \in inbox

\* An event is given up only after MaxAttempts deliveries, also when fail()
\* writes a count that another worker's claim has since raised.
DeadLetterIsExhausted ==
    \A e \in Event :
        row[e].status = "DEAD_LETTER" => row[e].attempts = MaxAttempts

\* No event is lost: whatever the interleaving of claims, lease expiries,
\* stale failures and (finitely many) crashes, run_once leaves every enqueued
\* event acknowledged or dead-lettered for good.
EventuallySettled ==
    \A e \in Event :
        <>[](row[e].status \in {"ABSENT", "PUBLISHED", "DEAD_LETTER"})

\* Ownership fencing: while a worker's lease on a row runs, only a step of
\* that worker changes the row.
LiveLeaseIsRespected ==
    [][\A e \in Event, w \in Worker :
          (/\ row[e].status = "PROCESSING"
           /\ row[e].owner = w
           /\ e \notin expired
           /\ row'[e] # row[e]) => pc'[w] # pc[w]]_vars

\* The outbox implements exactly-once delivery: receipts, effects and
\* acknowledgements of run_once are steps of the abstract specification.
Delivery == INSTANCE ExactlyOnceDelivery WITH
    enqueued <- {e \in Event : row[e].status # "ABSENT"},
    acked <- {e \in Event : row[e].status = "PUBLISHED"}

DeliverySpec == Delivery!Spec
==============================================================================
