---------------------------- MODULE OpenRequests ----------------------------
(***************************************************************************)
(* The synchronous endpoints of the simulator run in a thread pool, each   *)
(* with a database session of its own (get_db).  A request reads rows and  *)
(* computes new values from them without locking; what it writes is seen   *)
(* by the others when it commits.  A request is therefore                  *)
(*    idle -> what it has read -> ... -> committed or rolled back,         *)
(* and what it has read is the record kept for its client.  The reads of a *)
(* request are one step: reads made at several moments that still hold at  *)
(* the commit are reads of one moment, and one that no longer holds makes  *)
(* the commit stale.  Where a request blocks on another between its reads  *)
(* (a lease row, a lock), the reads before and after are separate steps.   *)
(***************************************************************************)
EXTENDS Integers, FiniteSets, RowUpdate

CONSTANT Client     \* the callers of the API, one request at a time each

ASSUME ClientAssumption == IsFiniteSet(Client)   \* the threads of the pool

VARIABLES
    req,    \* req[c]: the open request of client c, with what it has read
    calls,  \* bound: how many more requests the behaviour may open
    stale   \* history: a request has committed although a row it had read
            \* was changed by another request in between

requestVars == <<req, calls, stale>>

Idle == [op |-> "idle"]

RequestsInit(allowed) ==
    /\ req = [c \in Client |-> Idle]
    /\ calls = allowed
    /\ stale = FALSE

\* A request opens with the record r of its arguments and of its first reads.
Open(c, r) ==
    /\ req[c] = Idle
    /\ calls > 0
    /\ req' = [req EXCEPT ![c] = r]
    /\ calls' = calls - 1
    /\ UNCHANGED stale

\* It goes on to read more.
ReadOn(c, r) ==
    /\ req' = [req EXCEPT ![c] = r]
    /\ UNCHANGED <<calls, stale>>

\* It commits; `fresh' says whether what it had read is still there.
Commit(c, fresh) ==
    /\ req' = [req EXCEPT ![c] = Idle]
    /\ stale' = (stale \/ ~fresh)
    /\ UNCHANGED calls

\* It ends without committing: an exception of the service, a lost connection,
\* a crash of the process.  get_db closes the session, which rolls back.
RollBack(c) ==
    /\ req[c] # Idle
    /\ req' = [req EXCEPT ![c] = Idle]
    /\ UNCHANGED <<calls, stale>>

\* A request that reads, writes and commits in one go: nothing it has read
\* can change in between (an insert alone, or a single conditional update).
AtOnce(c) ==
    /\ req[c] = Idle
    /\ calls > 0
    /\ calls' = calls - 1
    /\ UNCHANGED <<req, stale>>
=============================================================================
