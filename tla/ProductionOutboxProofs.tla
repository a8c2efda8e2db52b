----------------------- MODULE ProductionOutboxProofs -----------------------
(***************************************************************************)
(* Proofs about ProductionOutbox for every set of events, workers and      *)
(* subjects, every attempt limit, batch limit and number of crashes: type  *)
(* correctness, exactly-once effects, no acknowledgement of an unhandled   *)
(* event, dead letters only after MaxAttempts, and the implementation of   *)
(* ExactlyOnceDelivery.                                                    *)
(***************************************************************************)
EXTENDS ProductionOutbox, TLAPS

\* The labels at which the session of a worker holds the current event's row.
Loaded == {"check", "insert", "handle", "complete", "fail_write"}

\* What the invariants rest on.  A worker's batch holds enqueued events only; a
\* worker inside the handler has the receipt of its event to itself; a worker
\* about to complete a duplicate has seen the receipt; and the row in a
\* worker's session is no newer than the committed one.
HandlerExclusive ==
    \A w \in Worker, e \in Event :
        pc[w] = "handle" /\ At(w, e) =>
            /\ e \notin inbox
            /\ \A v \in Worker : pc[v] = "handle" /\ At(v, e) => v = w

DuplicateHasReceipt ==
    \A w \in Worker, e \in Event : pc[w] = "complete" /\ At(w, e) => e \in inbox

SeenIsPast ==
    \A w \in Worker, e \in Event :
        pc[w] \in Loaded /\ At(w, e) =>
            /\ seen[w].attempts <= row[e].attempts
            /\ seen[w].status = "PUBLISHED" => e \in inbox

BatchIsEnqueued ==
    \A w \in Worker : \A e \in batch[w] : row[e].status # "ABSENT"

IInv ==
    /\ TypeOK
    /\ ExactlyOnce
    /\ PublishedWasHandled
    /\ DeadLetterIsExhausted
    /\ HandlerExclusive
    /\ DuplicateHasReceipt
    /\ SeenIsPast
    /\ BatchIsEnqueued

------------------------------------------------------------------------------
(* Lemmas *)

\* A flush writes each column of an outbox row independently of the others.
LEMMA FlushRow ==
    ASSUME NEW cur \in Row, NEW old \in Row, NEW new \in Row
    PROVE  /\ Flush(cur, old, new) \in Row
           /\ Flush(cur, old, new) =
                [status |-> IF new.status # old.status THEN new.status
                                                       ELSE cur.status,
                 attempts |-> IF new.attempts # old.attempts THEN new.attempts
                                                             ELSE cur.attempts,
                 owner |-> IF new.owner # old.owner THEN new.owner
                                                    ELSE cur.owner]
BY DEF Flush, Row

\* complete() and fail() leave rows; neither touches the attempts.
LEMMA SessionRows ==
    ASSUME NEW r \in Row
    PROVE  /\ CompletedRow(r) \in Row
           /\ CompletedRow(r).status = "PUBLISHED"
           /\ CompletedRow(r).attempts = r.attempts
           /\ FailedRow(r) \in Row
           /\ FailedRow(r).attempts = r.attempts
           /\ FailedRow(r).status \in {"PENDING", "DEAD_LETTER"}
           /\ FailedRow(r).status = "DEAD_LETTER" => r.attempts = MaxAttempts
<1>1. r.attempts >= MaxAttempts => r.attempts = MaxAttempts
  BY BoundAssumption DEF Row
<1>2. QED BY <1>1 DEF CompletedRow, FailedRow, Row, Status

\* The committed row after a completion.
LEMMA FlushCompleted ==
    ASSUME NEW cur \in Row, NEW old \in Row
    PROVE  LET r == Flush(cur, old, CompletedRow(old)) IN
           /\ r \in Row
           /\ r.attempts = cur.attempts
           /\ r.status = IF old.status = "PUBLISHED" THEN cur.status
                                                     ELSE "PUBLISHED"
<1> DEFINE new == CompletedRow(old)
<1>1. new \in Row /\ new.attempts = old.attempts
      /\ new.status = "PUBLISHED"
  BY SessionRows
<1> HIDE DEF new
<1>2. /\ Flush(cur, old, new) \in Row
      /\ Flush(cur, old, new) =
           [status |-> IF new.status # old.status THEN new.status ELSE cur.status,
            attempts |-> IF new.attempts # old.attempts THEN new.attempts
                                                        ELSE cur.attempts,
            owner |-> IF new.owner # old.owner THEN new.owner ELSE cur.owner]
  BY <1>1, FlushRow
<1>3. QED BY <1>1, <1>2 DEF new

\* The committed row after a failure.
LEMMA FlushFailed ==
    ASSUME NEW cur \in Row, NEW old \in Row
    PROVE  LET r == Flush(cur, old, FailedRow(old)) IN
           /\ r \in Row
           /\ r.attempts = cur.attempts
           /\ r.status \in {cur.status, "PENDING", "DEAD_LETTER"}
           /\ r.status = "DEAD_LETTER" =>
                cur.status = "DEAD_LETTER" \/ old.attempts = MaxAttempts
<1> DEFINE new == FailedRow(old)
<1>1. new \in Row /\ new.attempts = old.attempts
      /\ new.status \in {"PENDING", "DEAD_LETTER"}
      /\ (new.status = "DEAD_LETTER" => old.attempts = MaxAttempts)
  BY SessionRows
<1> HIDE DEF new
<1>2. /\ Flush(cur, old, new) \in Row
      /\ Flush(cur, old, new) =
           [status |-> IF new.status # old.status THEN new.status ELSE cur.status,
            attempts |-> IF new.attempts # old.attempts THEN new.attempts
                                                        ELSE cur.attempts,
            owner |-> IF new.owner # old.owner THEN new.owner ELSE cur.owner]
  BY <1>1, FlushRow
<1>3. QED BY <1>1, <1>2 DEF new

\* A worker is at no more than one event.
LEMMA AtUnique ==
    ASSUME NEW w \in Worker, NEW e \in Event, NEW f \in Event, At(w, e), At(w, f)
    PROVE  e = f
BY EventAssumption DEF At

------------------------------------------------------------------------------
(* The inductive invariant *)

LEMMA InitInv == Init => IInv
<1> SUFFICES ASSUME Init PROVE IInv
  OBVIOUS
<1>1. NewRow \in Row
  BY BoundAssumption DEF NewRow, Row, Status
<1>2. TypeOK
  BY <1>1, BoundAssumption DEF Init, TypeOK, Labels
<1>3. ExactlyOnce /\ PublishedWasHandled /\ DeadLetterIsExhausted
  BY DEF Init, ExactlyOnce, PublishedWasHandled, DeadLetterIsExhausted, NewRow
<1>4. HandlerExclusive /\ DuplicateHasReceipt /\ SeenIsPast /\ BatchIsEnqueued
  BY DEF Init, HandlerExclusive, DuplicateHasReceipt, SeenIsPast,
         BatchIsEnqueued, Loaded
<1>5. QED BY <1>2, <1>3, <1>4 DEF IInv

\* Steps that change no outbox row, receipt or batch: what is left of the
\* invariant speaks of the labels and of the rows in the sessions.
LEMMA LocalSteps ==
    ASSUME IInv, TypeOK', UNCHANGED <<row, inbox, effects, batch>>,
           HandlerExclusive', DuplicateHasReceipt', SeenIsPast'
    PROVE  IInv'
BY DEF IInv, ExactlyOnce, PublishedWasHandled, DeadLetterIsExhausted,
       BatchIsEnqueued

LEMMA LoadInv == ASSUME IInv, NEW w \in Worker, Load(w) PROVE IInv'
<1> USE DEF IInv
<1>1. PICK e \in Event : pc[w] = "load" /\ At(w, e)
                         /\ seen' = [seen EXCEPT ![w] = row[e]]
                         /\ Goto(w, "check")
                         /\ UNCHANGED <<rowVars, inbox, effects, replay, crashes>>
  BY DEF Load
<1>2. TypeOK'
  BY <1>1 DEF TypeOK, Goto, rowVars, Labels
<1>3. HandlerExclusive' /\ DuplicateHasReceipt'
  BY <1>1 DEF TypeOK, Goto, HandlerExclusive, DuplicateHasReceipt, At
<1>4. SeenIsPast'
  <2> SUFFICES ASSUME NEW v \in Worker, NEW f \in Event, pc'[v] \in Loaded, At(v, f)'
               PROVE  /\ seen'[v].attempts <= row'[f].attempts
                      /\ seen'[v].status = "PUBLISHED" => f \in inbox'
    BY DEF SeenIsPast
  <2>0. At(v, f)
    BY <1>1 DEF At, Goto
  <2>1. CASE v = w
    <3>1. f = e
      BY <1>1, <2>0, <2>1, AtUnique
    <3>2. seen'[v] = row[f] /\ row'[f] = row[f] /\ inbox' = inbox
      BY <1>1, <2>1, <3>1 DEF TypeOK, rowVars
    <3>3. row[f].attempts \in Nat
      BY DEF TypeOK, Row
    <3>4. QED BY <3>2, <3>3 DEF PublishedWasHandled
  <2>2. CASE v # w
    BY <1>1, <2>0, <2>2 DEF TypeOK, Goto, SeenIsPast, rowVars
  <2>3. QED BY <2>1, <2>2
<1>5. QED BY <1>1, <1>2, <1>3, <1>4, LocalSteps DEF Goto, rowVars

LEMMA CheckInboxInv == ASSUME IInv, NEW w \in Worker, CheckInbox(w) PROVE IInv'
<1> USE DEF IInv
<1>1. PICK e \in Event :
        /\ pc[w] = "check" /\ At(w, e)
        /\ Goto(w, IF e \in inbox THEN "complete" ELSE "insert")
        /\ UNCHANGED <<rowVars, inbox, effects, replay, seen, crashes>>
  BY DEF CheckInbox
<1>2. TypeOK'
  BY <1>1 DEF TypeOK, Goto, rowVars, Labels
<1>3. HandlerExclusive' /\ SeenIsPast'
  BY <1>1 DEF TypeOK, Goto, HandlerExclusive, SeenIsPast, At, Loaded, rowVars
<1>4. DuplicateHasReceipt'
  BY <1>1, AtUnique DEF TypeOK, Goto, DuplicateHasReceipt, At
<1>5. QED BY <1>1, <1>2, <1>3, <1>4, LocalSteps DEF Goto, rowVars

LEMMA InsertReceiptInv == ASSUME IInv, NEW w \in Worker, InsertReceipt(w) PROVE IInv'
<1> USE DEF IInv
<1>1. PICK e \in Event :
        /\ pc[w] = "insert" /\ At(w, e)
        /\ \A v \in Worker \ {w} : ~(pc[v] = "handle" /\ At(v, e))
        /\ Goto(w, IF e \in inbox THEN "fail" ELSE "handle")
        /\ UNCHANGED <<rowVars, inbox, effects, replay, seen, crashes>>
  BY DEF InsertReceipt
<1>2. TypeOK'
  BY <1>1 DEF TypeOK, Goto, rowVars, Labels
<1>3. DuplicateHasReceipt' /\ SeenIsPast'
  BY <1>1 DEF TypeOK, Goto, DuplicateHasReceipt, SeenIsPast, At, Loaded, rowVars
<1>4. HandlerExclusive'
  <2> SUFFICES ASSUME NEW v \in Worker, NEW f \in Event, pc'[v] = "handle", At(v, f)'
               PROVE  /\ f \notin inbox'
                      /\ \A u \in Worker : pc'[u] = "handle" /\ At(u, f)' => u = v
    BY DEF HandlerExclusive
  <2>0. At(v, f) /\ \A u \in Worker : At(u, f)' => At(u, f)
    BY <1>1 DEF At, Goto
  <2>1. CASE v = w
    <3>1. f = e /\ e \notin inbox
      BY <1>1, <2>0, <2>1, AtUnique DEF TypeOK, Goto
    <3>2. QED BY <1>1, <2>0, <2>1, <3>1 DEF TypeOK, Goto
  <2>2. CASE v # w
    <3>1. pc[v] = "handle"
      BY <1>1, <2>2 DEF TypeOK, Goto
    <3>2. f # e
      BY <1>1, <2>0, <2>2, <3>1
    <3>3. ~At(w, f)
      BY <1>1, <3>2, AtUnique
    <3>4. QED BY <1>1, <2>0, <3>1, <3>3 DEF TypeOK, Goto, HandlerExclusive
  <2>3. QED BY <2>1, <2>2
<1>5. QED BY <1>1, <1>2, <1>3, <1>4, LocalSteps DEF Goto, rowVars

\* Steps to the label "fail" and steps that touch neither labels nor sessions.
LEMMA RaisingInv ==
    ASSUME IInv, NEW w \in Worker, HandleRaises(w) \/ CompleteRejected(w)
    PROVE  IInv'
<1> USE DEF IInv
<1>1. /\ pc' = [pc EXCEPT ![w] = "fail"]
      /\ UNCHANGED <<batch, row, expired, due, inbox, effects, replay, seen, crashes>>
  BY DEF HandleRaises, CompleteRejected, Goto, rowVars
<1>2. TypeOK'
  BY <1>1 DEF TypeOK, Labels
<1>3. HandlerExclusive' /\ DuplicateHasReceipt' /\ SeenIsPast'
  BY <1>1 DEF TypeOK, HandlerExclusive, DuplicateHasReceipt, SeenIsPast, At, Loaded
<1>4. QED BY <1>1, <1>2, <1>3, LocalSteps

LEMMA FailLoadInv == ASSUME IInv, NEW w \in Worker, FailLoad(w) PROVE IInv'
<1> USE DEF IInv
<1>1. PICK e \in Event : pc[w] = "fail" /\ At(w, e)
                         /\ seen' = [seen EXCEPT ![w] = row[e]]
                         /\ Goto(w, "fail_write")
                         /\ UNCHANGED <<rowVars, inbox, effects, replay, crashes>>
  BY DEF FailLoad
<1>2. TypeOK'
  BY <1>1 DEF TypeOK, Goto, rowVars, Labels
<1>3. HandlerExclusive' /\ DuplicateHasReceipt'
  BY <1>1 DEF TypeOK, Goto, HandlerExclusive, DuplicateHasReceipt, At
<1>4. SeenIsPast'
  <2> SUFFICES ASSUME NEW v \in Worker, NEW f \in Event, pc'[v] \in Loaded, At(v, f)'
               PROVE  /\ seen'[v].attempts <= row'[f].attempts
                      /\ seen'[v].status = "PUBLISHED" => f \in inbox'
    BY DEF SeenIsPast
  <2>0. At(v, f)
    BY <1>1 DEF At, Goto
  <2>1. CASE v = w
    <3>1. f = e
      BY <1>1, <2>0, <2>1, AtUnique
    <3>2. seen'[v] = row[f] /\ row'[f] = row[f] /\ inbox' = inbox
      BY <1>1, <2>1, <3>1 DEF TypeOK, rowVars
    <3>3. row[f].attempts \in Nat
      BY DEF TypeOK, Row
    <3>4. QED BY <3>2, <3>3 DEF PublishedWasHandled
  <2>2. CASE v # w
    BY <1>1, <2>0, <2>2 DEF TypeOK, Goto, SeenIsPast, rowVars
  <2>3. QED BY <2>1, <2>2
<1>5. QED BY <1>1, <1>2, <1>3, <1>4, LocalSteps DEF Goto, rowVars

LEMMA CrashInv == ASSUME IInv, NEW w \in Worker, Crash(w) PROVE IInv'
<1> USE DEF IInv
<1>1. TypeOK'
  BY BoundAssumption DEF Crash, TypeOK, rowVars, Labels
<1>2. HandlerExclusive' /\ DuplicateHasReceipt' /\ SeenIsPast'
  BY DEF Crash, TypeOK, HandlerExclusive, DuplicateHasReceipt, SeenIsPast, At,
         Loaded, rowVars
<1>3. ExactlyOnce' /\ PublishedWasHandled' /\ DeadLetterIsExhausted' /\ BatchIsEnqueued'
  BY DEF Crash, TypeOK, ExactlyOnce, PublishedWasHandled, DeadLetterIsExhausted,
         BatchIsEnqueued, rowVars
<1>4. QED BY <1>1, <1>2, <1>3

LEMMA ClockInv ==
    ASSUME IInv, NEW e \in Event,
           \/ LeaseExpires(e)
           \/ RetryFallsDue(e)
           \/ \E s \in Subject : CreateReplay(e, s)
    PROVE  IInv'
<1> USE DEF IInv
<1>1. TypeOK'
  BY DEF LeaseExpires, RetryFallsDue, CreateReplay, TypeOK, workerVars, rowVars
<1>2. UNCHANGED <<row, inbox, effects, pc, batch, seen>>
  BY DEF LeaseExpires, RetryFallsDue, CreateReplay, workerVars, rowVars
<1>3. HandlerExclusive' /\ DuplicateHasReceipt' /\ SeenIsPast'
  BY <1>2 DEF HandlerExclusive, DuplicateHasReceipt, SeenIsPast, At
<1>4. QED BY <1>1, <1>2, <1>3, LocalSteps

------------------------------------------------------------------------------
(* Steps that write outbox rows *)

\* A row that changes its status to PENDING outside the workers' loop.
LEMMA ToPendingInv ==
    ASSUME IInv, NEW e \in Event,
           Enqueue(e) \/ \E s \in Subject : ApproveReplay(e, s)
    PROVE  IInv'
<1> USE DEF IInv
<1>1. /\ row' \in [Event -> Row]
      /\ \A f \in Event : /\ row'[f].attempts = row[f].attempts
                          /\ row'[f].status \in {row[f].status, "PENDING"}
  BY SMTT(30) DEF Enqueue, ApproveReplay, TypeOK, Row, Status
<1>2. UNCHANGED <<inbox, effects, pc, batch, seen, crashes, expired>>
  BY DEF Enqueue, ApproveReplay, workerVars
<1>3. TypeOK'
  BY <1>1, <1>2 DEF Enqueue, ApproveReplay, TypeOK
<1>4. ExactlyOnce' /\ PublishedWasHandled' /\ DeadLetterIsExhausted'
  BY <1>1, <1>2 DEF ExactlyOnce, PublishedWasHandled, DeadLetterIsExhausted
<1>5. HandlerExclusive' /\ DuplicateHasReceipt'
  BY <1>2 DEF HandlerExclusive, DuplicateHasReceipt, At
<1>6. SeenIsPast'
  BY <1>1, <1>2 DEF SeenIsPast, At
<1>7. BatchIsEnqueued'
  BY <1>1, <1>2 DEF BatchIsEnqueued, TypeOK
<1>8. QED BY <1>3, <1>4, <1>5, <1>6, <1>7

LEMMA ClaimInv == ASSUME IInv, NEW w \in Worker, Claim(w) PROVE IInv'
<1> USE DEF IInv
<1> DEFINE taken == LowestIds(Claimable, BatchLimit)
<1>1. /\ taken \subseteq Event
      /\ \A f \in taken : row[f].status \in {"PENDING", "PROCESSING"}
      /\ Reclaimable \subseteq Event
      /\ \A f \in Reclaimable : row[f].status = "PROCESSING"
  BY DEF LowestIds, Claimable, Reclaimable
<1>2. /\ pc[w] = "idle"
      /\ row' = [f \in Event |->
          IF f \in taken
          THEN [status |-> "PROCESSING",
                attempts |-> Attempted(row[f].attempts),
                owner |-> w]
          ELSE IF f \in Reclaimable
          THEN [row[f] EXCEPT !.status = "PENDING", !.owner = None]
          ELSE row[f]]
      /\ expired' = expired \ (Reclaimable \cup taken)
      /\ batch' = [batch EXCEPT ![w] = taken]
      /\ pc' = [pc EXCEPT ![w] = IF taken = {} THEN "idle" ELSE "load"]
      /\ UNCHANGED <<due, inbox, effects, replay, seen, crashes>>
  BY DEF Claim
<1> HIDE DEF taken
<1>3. \A n \in 0 .. MaxAttempts : Attempted(n) \in 0 .. MaxAttempts /\ n <= Attempted(n)
  BY BoundAssumption DEF Attempted
<1>4. \A f \in Event :
        /\ row'[f] \in Row
        /\ row[f].attempts <= row'[f].attempts
        /\ row'[f].status \in {row[f].status, "PENDING", "PROCESSING"}
        /\ row'[f].status = "PENDING" \/ row'[f].status = "PROCESSING"
             \/ row'[f] = row[f]
        /\ row[f].status # "ABSENT" => row'[f].status # "ABSENT"
        /\ f \in taken => row'[f].status = "PROCESSING"
  <2> SUFFICES ASSUME NEW f \in Event
               PROVE  /\ row'[f] \in Row
                      /\ row[f].attempts <= row'[f].attempts
                      /\ row'[f].status \in {row[f].status, "PENDING", "PROCESSING"}
                      /\ row'[f].status = "PENDING" \/ row'[f].status = "PROCESSING"
                           \/ row'[f] = row[f]
                      /\ row[f].status # "ABSENT" => row'[f].status # "ABSENT"
                      /\ f \in taken => row'[f].status = "PROCESSING"
    OBVIOUS
  <2>0. row[f] \in Row /\ row[f].attempts \in 0 .. MaxAttempts
    BY DEF TypeOK, Row
  <2>1. CASE f \in taken
    <3>1. row'[f] = [status |-> "PROCESSING",
                    attempts |-> Attempted(row[f].attempts),
                    owner |-> w]
      BY <1>2, <2>1
    <3>2. QED BY <1>3, <2>0, <3>1 DEF Row, Status
  <2>2. CASE f \notin taken /\ f \in Reclaimable
    <3>1. row'[f] = [row[f] EXCEPT !.status = "PENDING", !.owner = None]
      BY <1>2, <2>2
    <3>2. row'[f].status = "PENDING" /\ row'[f].attempts = row[f].attempts
          /\ row'[f] \in Row
      BY <2>0, <3>1 DEF Row, Status
    <3>3. QED BY <2>0, <2>2, <3>2
  <2>3. CASE f \notin taken /\ f \notin Reclaimable
    <3>1. row'[f] = row[f]
      BY <1>2, <2>3
    <3>2. QED BY <2>0, <2>3, <3>1
  <2>4. QED BY <2>1, <2>2, <2>3
<1>5. TypeOK'
  BY <1>1, <1>2, <1>4 DEF TypeOK, Labels
<1>6. ExactlyOnce' /\ PublishedWasHandled' /\ DeadLetterIsExhausted'
  BY <1>2, <1>4 DEF ExactlyOnce, PublishedWasHandled, DeadLetterIsExhausted
<1>7. HandlerExclusive' /\ DuplicateHasReceipt'
  <2>1. \A v \in Worker : pc'[v] \in {"handle", "complete"} =>
           pc'[v] = pc[v] /\ batch'[v] = batch[v]
    BY <1>2 DEF TypeOK
  <2>2. \A v \in Worker, f \in Event :
           pc'[v] \in {"handle", "complete"} /\ At(v, f)' =>
              pc[v] = pc'[v] /\ At(v, f)
    BY <2>1 DEF At
  <2>3. HandlerExclusive'
    BY <1>2, <2>2 DEF HandlerExclusive
  <2>4. DuplicateHasReceipt'
    BY <1>2, <2>2 DEF DuplicateHasReceipt
  <2>5. QED BY <2>3, <2>4
<1>8. SeenIsPast'
  <2> SUFFICES ASSUME NEW v \in Worker, NEW f \in Event, pc'[v] \in Loaded, At(v, f)'
               PROVE  /\ seen'[v].attempts <= row'[f].attempts
                      /\ seen'[v].status = "PUBLISHED" => f \in inbox'
    BY DEF SeenIsPast
  <2>1. v # w /\ pc[v] \in Loaded /\ At(v, f)
    BY <1>2 DEF TypeOK, Loaded, At
  <2>2. seen[v].attempts \in Nat /\ row[f].attempts \in Nat /\ row'[f].attempts \in Nat
    BY <1>4 DEF TypeOK, Row
  <2>3. seen[v].attempts <= row'[f].attempts
    BY <2>1, <2>2, <1>4 DEF SeenIsPast
  <2>4. QED BY <1>2, <2>1, <2>3 DEF SeenIsPast
<1>9. BatchIsEnqueued'
  BY <1>1, <1>2, <1>4 DEF BatchIsEnqueued, TypeOK
<1>10. QED BY <1>5, <1>6, <1>7, <1>8, <1>9

\* A worker writes its event's row back and goes on to the next event, with or
\* without a new receipt, which only the worker inside the handler adds.
LEMMA WriteBackInv ==
    ASSUME IInv, NEW w \in Worker, NEW e \in Event, At(w, e),
           NEW r \in Row,
           r.attempts = row[e].attempts,
           r.status # "ABSENT",
           r.status = "DEAD_LETTER" => r.attempts = MaxAttempts,
           r.status = "PUBLISHED" => e \in inbox',
           row' = [row EXCEPT ![e] = r],
           NextEvent(w, e),
           \/ UNCHANGED <<inbox, effects>>
           \/ /\ pc[w] = "handle"
              /\ inbox' = inbox \cup {e}
              /\ effects' = [effects EXCEPT ![e] = @ + 1],
           due' \subseteq Event,
           UNCHANGED <<expired, replay, seen, crashes>>
    PROVE  IInv'
<1> USE DEF IInv
<1>1. /\ batch' = [batch EXCEPT ![w] = @ \ {e}]
      /\ pc' = [pc EXCEPT ![w] = IF batch[w] = {e} THEN "idle" ELSE "load"]
  BY DEF NextEvent
<1>2. inbox \subseteq inbox' /\ inbox' \subseteq Event
  BY DEF TypeOK
<1>3. TypeOK'
  BY <1>1, <1>2 DEF TypeOK, Labels
<1>4. ExactlyOnce'
  <2>1. CASE UNCHANGED <<inbox, effects>>
    BY <2>1 DEF ExactlyOnce
  <2>2. CASE /\ pc[w] = "handle"
             /\ inbox' = inbox \cup {e}
             /\ effects' = [effects EXCEPT ![e] = @ + 1]
    <3>1. e \notin inbox
      BY <2>2 DEF HandlerExclusive
    <3>2. QED BY <2>2, <3>1 DEF ExactlyOnce, TypeOK
  <2>3. QED BY <2>1, <2>2
<1>5. PublishedWasHandled' /\ DeadLetterIsExhausted'
  BY <1>2 DEF PublishedWasHandled, DeadLetterIsExhausted, TypeOK
<1>6. \A v \in Worker, f \in Event :
         pc'[v] \in Loaded /\ At(v, f)' => v # w /\ pc'[v] = pc[v] /\ At(v, f)
  BY <1>1 DEF TypeOK, Loaded, At
<1>7. HandlerExclusive'
  <2> SUFFICES ASSUME NEW v \in Worker, NEW f \in Event, pc'[v] = "handle", At(v, f)'
               PROVE  /\ f \notin inbox'
                      /\ \A u \in Worker : pc'[u] = "handle" /\ At(u, f)' => u = v
    BY DEF HandlerExclusive
  <2>1. v # w /\ pc[v] = "handle" /\ At(v, f)
    BY <1>6 DEF Loaded
  <2>2. \A u \in Worker : pc'[u] = "handle" /\ At(u, f)' => u = v
    BY <1>6, <2>1 DEF Loaded, HandlerExclusive
  <2>3. pc[w] = "handle" => f # e
    BY <2>1 DEF HandlerExclusive
  <2>4. f \notin inbox
    BY <2>1 DEF HandlerExclusive
  <2>5. QED BY <2>2, <2>3, <2>4
<1>8. DuplicateHasReceipt'
  BY <1>2, <1>6 DEF DuplicateHasReceipt, Loaded
<1>9. SeenIsPast'
  <2>1. \A f \in Event : row'[f].attempts = row[f].attempts
    BY DEF TypeOK
  <2>2. QED BY <1>2, <1>6, <2>1 DEF SeenIsPast
<1>10. BatchIsEnqueued'
  BY <1>1 DEF BatchIsEnqueued, TypeOK
<1>11. QED BY <1>3, <1>4, <1>5, <1>7, <1>8, <1>9, <1>10

\* The row complete() leaves behind is never absent or dead-lettered by it.
LEMMA CompletionInv ==
    ASSUME IInv, NEW w \in Worker, HandleAndComplete(w) \/ CompleteDuplicate(w)
    PROVE  IInv'
<1> USE DEF IInv
<1>1. PICK e \in Event :
        /\ pc[w] \in {"handle", "complete"} /\ At(w, e)
        /\ row' = [row EXCEPT ![e] = Flush(row[e], seen[w], CompletedRow(seen[w]))]
        /\ NextEvent(w, e)
        /\ UNCHANGED <<expired, due, replay, seen, crashes>>
        /\ \/ /\ pc[w] = "complete" /\ UNCHANGED <<inbox, effects>>
           \/ /\ pc[w] = "handle"
              /\ inbox' = inbox \cup {e}
              /\ effects' = [effects EXCEPT ![e] = @ + 1]
  BY DEF HandleAndComplete, CompleteDuplicate
<1> DEFINE r == Flush(row[e], seen[w], CompletedRow(seen[w]))
<1>2. row[e] \in Row /\ seen[w] \in Row
  BY DEF TypeOK
<1>3. /\ r \in Row
      /\ r.attempts = row[e].attempts
      /\ r.status = IF seen[w].status = "PUBLISHED" THEN row[e].status ELSE "PUBLISHED"
  BY <1>2, FlushCompleted
<1>4. row[e].status # "ABSENT"
  BY <1>1 DEF BatchIsEnqueued, At
<1>5. e \in inbox'
  BY <1>1 DEF DuplicateHasReceipt
<1>6. /\ r.status # "ABSENT"
      /\ r.status = "DEAD_LETTER" => r.attempts = MaxAttempts
  BY <1>3, <1>4 DEF DeadLetterIsExhausted
<1>7. due' \subseteq Event
  BY <1>1 DEF TypeOK
<1> HIDE DEF r
<1>8. row' = [row EXCEPT ![e] = r]
  BY <1>1 DEF r
<1>9. QED BY <1>1, <1>3, <1>5, <1>6, <1>7, <1>8, WriteBackInv

LEMMA FailWriteInv == ASSUME IInv, NEW w \in Worker, FailWrite(w) PROVE IInv'
<1> USE DEF IInv
<1>1. PICK e \in Event :
        /\ pc[w] = "fail_write" /\ At(w, e)
        /\ row' = [row EXCEPT ![e] = Flush(row[e], seen[w], FailedRow(seen[w]))]
        /\ due' = IF FailedRow(seen[w]).status = "PENDING" THEN due \ {e} ELSE due
        /\ NextEvent(w, e)
        /\ UNCHANGED <<expired, inbox, effects, replay, seen, crashes>>
  BY DEF FailWrite
<1> DEFINE r == Flush(row[e], seen[w], FailedRow(seen[w]))
<1>2. row[e] \in Row /\ seen[w] \in Row
  BY DEF TypeOK
<1>3. /\ r \in Row
      /\ r.attempts = row[e].attempts
      /\ r.status \in {row[e].status, "PENDING", "DEAD_LETTER"}
      /\ r.status = "DEAD_LETTER" =>
            row[e].status = "DEAD_LETTER" \/ seen[w].attempts = MaxAttempts
  BY <1>2, FlushFailed
<1>4. row[e].status # "ABSENT"
  BY <1>1 DEF BatchIsEnqueued, At
<1>5. seen[w].attempts = MaxAttempts => row[e].attempts = MaxAttempts
  BY <1>1, <1>2, BoundAssumption DEF SeenIsPast, Loaded, Row
<1>6. /\ r.status # "ABSENT"
      /\ r.status = "DEAD_LETTER" => r.attempts = MaxAttempts
      /\ r.status = "PUBLISHED" => e \in inbox'
  BY <1>1, <1>3, <1>4, <1>5 DEF DeadLetterIsExhausted, PublishedWasHandled
<1>7. due' \subseteq Event
  BY <1>1 DEF TypeOK
<1> HIDE DEF r
<1>8. row' = [row EXCEPT ![e] = r]
  BY <1>1 DEF r
<1>9. QED BY <1>1, <1>3, <1>6, <1>7, <1>8, WriteBackInv

LEMMA StutterInv == ASSUME IInv, UNCHANGED vars PROVE IInv'
BY DEF vars, IInv, TypeOK, ExactlyOnce, PublishedWasHandled,
       DeadLetterIsExhausted, HandlerExclusive, DuplicateHasReceipt, SeenIsPast,
       BatchIsEnqueued, At

LEMMA NextInv == ASSUME IInv, [Next]_vars PROVE IInv'
<1>1. ASSUME NEW w \in Worker, Claim(w) \/ WorkerStep(w) \/ Crash(w) PROVE IInv'
  BY <1>1, ClaimInv, LoadInv, CheckInboxInv, InsertReceiptInv, CompletionInv,
     RaisingInv, FailLoadInv, FailWriteInv, CrashInv DEF WorkerStep
<1>2. ASSUME NEW e \in Event, Enqueue(e) \/ LeaseExpires(e) \/ RetryFallsDue(e)
      PROVE  IInv'
  BY <1>2, ToPendingInv, ClockInv
<1>3. ASSUME NEW e \in Event, NEW s \in Subject,
             CreateReplay(e, s) \/ ApproveReplay(e, s)
      PROVE  IInv'
  BY <1>3, ToPendingInv, ClockInv
<1>4. CASE UNCHANGED vars
  BY <1>4, StutterInv
<1>5. QED BY <1>1, <1>2, <1>3, <1>4 DEF Next

LEMMA InvariantHolds == Spec => []IInv
<1>1. IInv /\ [Next]_vars => IInv'
  BY NextInv
<1>2. QED BY InitInv, <1>1, PTL DEF Spec

------------------------------------------------------------------------------
(* Theorems *)

\* The outbox tables and the workers' sessions keep their types.
THEOREM TypeCorrect == Spec => []TypeOK
<1>1. IInv => TypeOK
  BY DEF IInv
<1>2. QED BY InvariantHolds, <1>1, PTL

\* However events are claimed, reclaimed, failed, replayed and lost in crashes,
\* each is handled at most once, and has been when there is a receipt.
THEOREM ExactlyOnceHolds == Spec => []ExactlyOnce
<1>1. IInv => ExactlyOnce
  BY DEF IInv
<1>2. QED BY InvariantHolds, <1>1, PTL

\* complete() acknowledges only events whose handler has committed, although
\* its lease check is taken on a stale row.
THEOREM PublishedWasHandledHolds == Spec => []PublishedWasHandled
<1>1. IInv => PublishedWasHandled
  BY DEF IInv
<1>2. QED BY InvariantHolds, <1>1, PTL

\* fail() dead-letters only events that were delivered MaxAttempts times.
THEOREM DeadLetterIsExhaustedHolds == Spec => []DeadLetterIsExhausted
<1>1. IInv => DeadLetterIsExhausted
  BY DEF IInv
<1>2. QED BY InvariantHolds, <1>1, PTL

\* The refinement of ExactlyOnceDelivery: initial states, then steps.
LEMMA DeliveryInit == Init => Delivery!Init
BY DEF Init, Delivery!Init, NewRow

\* Steps after which the outbox reports the same enqueued and published events.
LEMMA SilentStep ==
    ASSUME UNCHANGED effects,
           \A e \in Event : row'[e].status = "ABSENT" <=> row[e].status = "ABSENT",
           \A e \in Event : row'[e].status = "PUBLISHED" <=> row[e].status = "PUBLISHED"
    PROVE  UNCHANGED Delivery!vars
BY DEF Delivery!vars

LEMMA EnqueueRefines ==
    ASSUME IInv, NEW e \in Event, Enqueue(e) PROVE Delivery!Enqueue(e)
<1>1. /\ row[e].status = "ABSENT"
      /\ row'[e].status = "PENDING"
      /\ \A f \in Event \ {e} : row'[f] = row[f]
      /\ UNCHANGED effects
  BY DEF Enqueue, IInv, TypeOK, Row
<1>2. QED BY <1>1 DEF Delivery!Enqueue

LEMMA ClaimRefines ==
    ASSUME IInv, NEW w \in Worker, Claim(w) PROVE UNCHANGED Delivery!vars
<1>1. \A e \in Event :
        \/ row'[e] = row[e]
        \/ /\ row[e].status \in {"PENDING", "PROCESSING"}
           /\ row'[e].status \in {"PENDING", "PROCESSING"}
  <2> SUFFICES ASSUME NEW e \in Event, row'[e] # row[e]
               PROVE  /\ row[e].status \in {"PENDING", "PROCESSING"}
                      /\ row'[e].status \in {"PENDING", "PROCESSING"}
    OBVIOUS
  <2> DEFINE taken == LowestIds(Claimable, BatchLimit)
  <2>1. taken \subseteq Claimable
    BY DEF LowestIds
  <2>2. row'[e] = IF e \in taken
                  THEN [status |-> "PROCESSING",
                        attempts |-> Attempted(row[e].attempts),
                        owner |-> w]
                  ELSE IF e \in Reclaimable
                  THEN [row[e] EXCEPT !.status = "PENDING", !.owner = None]
                  ELSE row[e]
    BY DEF Claim
  <2>3. row[e] \in Row
    BY DEF IInv, TypeOK
  <2>4. e \in taken \/ e \in Reclaimable
    BY <2>2
  <2>5. row[e].status \in {"PENDING", "PROCESSING"}
    BY <2>1, <2>4 DEF Claimable, Reclaimable
  <2> HIDE DEF taken
  <2>6. row'[e].status \in {"PENDING", "PROCESSING"}
    BY <2>2, <2>3, <2>4 DEF Row
  <2>7. QED BY <2>5, <2>6
<1>2. UNCHANGED effects
  BY DEF Claim
<1>3. QED BY <1>1, <1>2, SilentStep

\* What a write-back does to the abstract acknowledgements.
LEMMA CompletionRefines ==
    ASSUME IInv, NEW w \in Worker, HandleAndComplete(w) \/ CompleteDuplicate(w)
    PROVE  Delivery!Next \/ UNCHANGED Delivery!vars
<1> USE DEF IInv
<1>1. PICK e \in Event :
        /\ pc[w] \in {"handle", "complete"} /\ At(w, e)
        /\ row' = [row EXCEPT ![e] = Flush(row[e], seen[w], CompletedRow(seen[w]))]
        /\ \/ pc[w] = "complete" /\ UNCHANGED effects
           \/ pc[w] = "handle" /\ effects' = [effects EXCEPT ![e] = @ + 1]
  BY DEF HandleAndComplete, CompleteDuplicate
<1>2. row[e] \in Row /\ seen[w] \in Row
  BY DEF TypeOK
<1>3. row'[e].status =
        IF seen[w].status = "PUBLISHED" THEN row[e].status ELSE "PUBLISHED"
  BY <1>1, <1>2, FlushCompleted DEF TypeOK
<1>4. row[e].status # "ABSENT" /\ \A f \in Event \ {e} : row'[f] = row[f]
  BY <1>1 DEF BatchIsEnqueued, At, TypeOK
<1>5. CASE pc[w] = "handle"
  <2>1. e \notin inbox /\ seen[w].status # "PUBLISHED"
    BY <1>1, <1>5 DEF HandlerExclusive, SeenIsPast, Loaded
  <2>2. effects[e] = 0 /\ effects' = [effects EXCEPT ![e] = 1]
    BY <1>1, <1>5, <2>1 DEF ExactlyOnce, TypeOK
  <2>3. row'[e].status = "PUBLISHED"
    BY <1>3, <2>1
  <2>4. Delivery!Apply(e)
    BY <1>4, <2>2, <2>3 DEF Delivery!Apply
  <2>5. QED BY <2>4 DEF Delivery!Next
<1>6. CASE pc[w] = "complete"
  <2>1. e \in inbox /\ UNCHANGED effects
    BY <1>1, <1>6 DEF DuplicateHasReceipt
  <2>2. effects[e] = 1
    BY <2>1 DEF ExactlyOnce
  <2>3. CASE seen[w].status = "PUBLISHED"
    <3>1. row'[e].status = row[e].status
      BY <1>3, <2>3
    <3>2. QED BY <1>4, <2>1, <3>1, SilentStep
  <2>4. CASE seen[w].status # "PUBLISHED"
    <3>1. row'[e].status = "PUBLISHED"
      BY <1>3, <2>4
    <3>2. Delivery!Ack(e)
      BY <1>4, <2>1, <2>2, <3>1 DEF Delivery!Ack
    <3>3. QED BY <3>2 DEF Delivery!Next
  <2>5. QED BY <2>3, <2>4
<1>7. QED BY <1>1, <1>5, <1>6

LEMMA FailWriteRefines ==
    ASSUME IInv, NEW w \in Worker, FailWrite(w)
    PROVE  Delivery!Next \/ UNCHANGED Delivery!vars
<1> USE DEF IInv
<1>1. PICK e \in Event :
        /\ At(w, e)
        /\ row' = [row EXCEPT ![e] = Flush(row[e], seen[w], FailedRow(seen[w]))]
        /\ UNCHANGED effects
  BY DEF FailWrite
<1>2. row[e] \in Row /\ seen[w] \in Row
  BY DEF TypeOK
<1>3. row'[e].status \in {row[e].status, "PENDING", "DEAD_LETTER"}
  BY <1>1, <1>2, FlushFailed DEF TypeOK
<1>4. row[e].status # "ABSENT" /\ \A f \in Event \ {e} : row'[f] = row[f]
  BY <1>1 DEF BatchIsEnqueued, At, TypeOK
<1>5. CASE row[e].status = "PUBLISHED" /\ row'[e].status # "PUBLISHED"
  <2>1. Delivery!Reoffer(e)
    BY <1>1, <1>3, <1>4, <1>5 DEF Delivery!Reoffer
  <2>2. QED BY <2>1 DEF Delivery!Next
<1>6. CASE ~(row[e].status = "PUBLISHED" /\ row'[e].status # "PUBLISHED")
  BY <1>1, <1>3, <1>4, <1>6, SilentStep
<1>7. QED BY <1>5, <1>6

LEMMA ApproveReplayRefines ==
    ASSUME IInv, NEW e \in Event, NEW s \in Subject, ApproveReplay(e, s)
    PROVE  UNCHANGED Delivery!vars
<1>1. /\ row[e].status = "DEAD_LETTER"
      /\ row'[e].status = "PENDING"
      /\ \A f \in Event \ {e} : row'[f] = row[f]
      /\ UNCHANGED effects
  BY DEF ApproveReplay, IInv, TypeOK, Row
<1>2. QED BY <1>1, SilentStep

\* Steps that leave the outbox rows and the effects alone.
LEMMA OtherRefines ==
    ASSUME UNCHANGED <<row, effects>> PROVE UNCHANGED Delivery!vars
BY DEF Delivery!vars

LEMMA NextRefines ==
    ASSUME IInv, [Next]_vars PROVE Delivery!Next \/ UNCHANGED Delivery!vars
<1>1. ASSUME NEW w \in Worker, Claim(w) \/ WorkerStep(w) \/ Crash(w)
      PROVE  Delivery!Next \/ UNCHANGED Delivery!vars
  <2>1. CASE HandleAndComplete(w) \/ CompleteDuplicate(w)
    BY <2>1, CompletionRefines
  <2>2. CASE FailWrite(w)
    BY <2>2, FailWriteRefines
  <2>3. CASE Claim(w)
    BY <2>3, ClaimRefines
  <2>4. CASE \/ Load(w) \/ CheckInbox(w) \/ InsertReceipt(w)
             \/ HandleRaises(w) \/ CompleteRejected(w) \/ FailLoad(w) \/ Crash(w)
    BY <2>4, OtherRefines DEF Load, CheckInbox, InsertReceipt, HandleRaises,
       CompleteRejected, FailLoad, Crash, rowVars
  <2>5. QED BY <1>1, <2>1, <2>2, <2>3, <2>4 DEF WorkerStep
<1>2. ASSUME NEW e \in Event, Enqueue(e) \/ LeaseExpires(e) \/ RetryFallsDue(e)
      PROVE  Delivery!Next \/ UNCHANGED Delivery!vars
  BY <1>2, EnqueueRefines, OtherRefines
     DEF LeaseExpires, RetryFallsDue, Delivery!Next
<1>3. ASSUME NEW e \in Event, NEW s \in Subject,
             CreateReplay(e, s) \/ ApproveReplay(e, s)
      PROVE  Delivery!Next \/ UNCHANGED Delivery!vars
  BY <1>3, ApproveReplayRefines, OtherRefines DEF CreateReplay, rowVars
<1>4. CASE UNCHANGED vars
  BY <1>4, OtherRefines DEF vars
<1>5. QED BY <1>1, <1>2, <1>3, <1>4 DEF Next

\* The outbox with its racing workers implements exactly-once delivery.
THEOREM OutboxRefinesDelivery == Spec => DeliverySpec
<1>1. IInv /\ [Next]_vars => [Delivery!Next]_(Delivery!vars)
  BY NextRefines
<1>2. QED BY DeliveryInit, <1>1, InvariantHolds, PTL
         DEF Spec, DeliverySpec, Delivery!Spec
==============================================================================
