--------------------------- MODULE PvpSettlement ---------------------------
(***************************************************************************)
(* Payment-versus-payment of the multi-CBDC service (MultiCbdcService in   *)
(* backend/nextgen/cbdc.py): an FX quote, a settlement row that goes       *)
(* CREATED -> LOCKED -> COMMITTED | ABORTED, and two ledger transfers in   *)
(* one savepoint.  LOCKED reserves nothing.  The commit takes a lease per  *)
(* source account; the lease row is inserted and deleted in the request's  *)
(* own transaction, so it blocks the others until that transaction ends    *)
(* and protects the account rows, read after it, but not the settlement    *)
(* row, read before.  abort_pvp is called by no endpoint and is left out.  *)
(***************************************************************************)
EXTENDS EcnyWallets

CONSTANTS
    Pvp,       \* settlements
    LegPairs,  \* the pairs of legs callers propose
    QuoteRate, QuoteFee, QuoteMax  \* the quote: <<n, d>>, fee, capacity

LegRow == [from : Account, to : Account, amount : Nat, currency : STRING]

ASSUME LegAssumption == LegPairs \subseteq [debit : LegRow, credit : LegRow]

VARIABLES
    quote,     \* FxQuote: "none", "active" or "expired"
    pvp,       \* PvpSettlement rows
    moved      \* committed ledger transactions per settlement and leg, and
               \* committed "cbdc.pvp.committed" events

pvpVars == <<quote, pvp, moved>>

NoPvp == [state |-> "NONE", version |-> 0, debit |-> <<>>, credit |-> <<>>]

PvpInit ==
    /\ quote = "none"
    /\ pvp = [p \in Pvp |-> NoPvp]
    /\ moved = [p \in Pvp |-> [debit |-> 0, credit |-> 0, event |-> 0]]

\* quote_amount(): converted and rounded down, less the fee.
QuoteAmount(n) == ((n * QuoteRate[1]) \div QuoteRate[2]) - QuoteFee

\* _active_quote()
ActiveQuote(n) == quote = "active" /\ n > 0 /\ n <= QuoteMax

Sources(row) == {row.debit.from, row.credit.from}

\* The leases of another open commit on one of these accounts.
Leased(c, accounts) ==
    \E d \in Client \ {c} : req[d].op = "pvp_legs" /\ Sources(req[d].row) \cap accounts # {}

\* POST /fx/quotes
CreateFxQuote(c) ==
    /\ AtOnce(c)
    /\ quote = "none"
    /\ quote' = "active"
    /\ UNCHANGED <<ledgerVars, walletVars, pvp, moved>>

\* expires_at passes.
ExpireQuote ==
    /\ quote = "active"
    /\ quote' = "expired"
    /\ UNCHANGED <<requestVars, ledgerVars, walletVars, pvp, moved>>

\* POST /pvp: the credit leg is what the quote makes of the debit leg.
CreatePvp(c, p, legs) ==
    /\ AtOnce(c)
    /\ pvp[p].state = "NONE"
    /\ ActiveQuote(legs.debit.amount)
    /\ QuoteAmount(legs.debit.amount) > 0
    /\ legs.credit.amount = QuoteAmount(legs.debit.amount)
    /\ pvp' = [pvp EXCEPT ![p] = [state |-> "CREATED", version |-> 1,
                                  debit |-> legs.debit, credit |-> legs.credit]]
    /\ UNCHANGED <<ledgerVars, walletVars, quote, moved>>

\* A request on the settlement row it has read.
OnPvp(op, p) == [op |-> op, p |-> p, row |-> pvp[p], loaded |-> bal, quote |-> quote]

\* POST /pvp/{id}/lock
ReadLockPvp(c, p, expected) ==
    /\ pvp[p].version = expected
    /\ pvp[p].state = "CREATED"
    /\ ActiveQuote(pvp[p].debit.amount)
    /\ \A leg \in {pvp[p].debit, pvp[p].credit} :
         /\ leg.from \in opened
         /\ CurrencyOf[leg.from] = leg.currency
         /\ bal[leg.from] >= leg.amount
    /\ Open(c, OnPvp("pvp_lock", p))
    /\ UNCHANGED <<ledgerVars, walletVars, pvpVars>>

Stepped(row, state) == [row EXCEPT !.state = state, !.version = @ + 1]

CommitLockPvp(c) ==
    LET r == req[c] IN
    /\ r.op = "pvp_lock"
    /\ pvp' = [pvp EXCEPT ![r.p] = Flush(pvp[r.p], r.row, Stepped(r.row, "LOCKED"))]
    /\ Commit(c, /\ pvp[r.p] = r.row /\ quote = r.quote
                 /\ \A a \in Sources(r.row) : bal[a] = r.loaded[a])
    /\ UNCHANGED <<ledgerVars, walletVars, quote, moved>>

\* POST /pvp/{id}/commit: the settlement row is read and checked ...
ReadCommitPvp(c, p, expected) ==
    /\ pvp[p].version = expected
    /\ pvp[p].state = "LOCKED"
    /\ Open(c, OnPvp("pvp_commit", p))
    /\ UNCHANGED <<ledgerVars, walletVars, pvpVars>>

\* What the transfers of the two legs leave in the session.
Leg(s, leg) == Transfer(s, leg.from, leg.to, leg.amount)
CanLeg(s, leg) == {leg.from, leg.to} \subseteq opened /\ CanTransfer(s, leg.from, leg.to, leg.amount)

\* Without the savepoint the first leg stays when the second one fails.
LegsWithoutSavepoint(row) ==
    LET first == Leg(LoadLedger, row.debit) IN
    CASE ActiveQuote(row.debit.amount) /\ CanLeg(LoadLedger, row.debit) /\ CanLeg(first, row.credit) ->
           [state |-> "COMMITTED", s |-> Leg(first, row.credit), debit |-> 1, credit |-> 1]
      [] ActiveQuote(row.debit.amount) /\ CanLeg(LoadLedger, row.debit) /\ ~CanLeg(first, row.credit) ->
           [state |-> "ABORTED", s |-> first, debit |-> 1, credit |-> 0]
      [] OTHER -> [state |-> "ABORTED", s |-> LoadLedger, debit |-> 0, credit |-> 0]

\* Both transfers in one savepoint, or a rollback to it and ABORTED.
Legs(row) ==
    LET first == Leg(LoadLedger, row.debit) IN
    IF ActiveQuote(row.debit.amount) /\ CanLeg(LoadLedger, row.debit) /\ CanLeg(first, row.credit)
    THEN [state |-> "COMMITTED", s |-> Leg(first, row.credit), debit |-> 1, credit |-> 1]
    ELSE [state |-> "ABORTED", s |-> LoadLedger, debit |-> 0, credit |-> 0]

\* ... the leases are taken, the accounts and the quote read, the legs moved ...
TakeLeases(c) ==
    LET r == req[c] IN
    /\ r.op = "pvp_commit"
    /\ ~Leased(c, Sources(r.row))
    /\ ReadOn(c, [op |-> "pvp_legs", p |-> r.p, row |-> r.row, loaded |-> bal,
                  quote |-> quote, done |-> Legs(r.row)])
    /\ UNCHANGED <<ledgerVars, walletVars, pvpVars>>

\* ... and the state, the event and the release of the leases committed.
CommitPvp(c) ==
    LET r == req[c] IN
    /\ r.op = "pvp_legs"
    /\ Persist(r.loaded, r.done.s)
    /\ pvp' = [pvp EXCEPT ![r.p] = Flush(pvp[r.p], r.row, Stepped(r.row, r.done.state))]
    /\ moved' = [moved EXCEPT ![r.p] = [debit |-> @.debit + r.done.debit,
                    credit |-> @.credit + r.done.credit,
                    event |-> @.event + (IF r.done.state = "COMMITTED" THEN 1 ELSE 0)]]
    /\ Commit(c, /\ pvp[r.p] = r.row /\ quote = r.quote
                 /\ \A l \in {r.row.debit, r.row.credit} :
                      bal[l.from] = r.loaded[l.from] /\ bal[l.to] = r.loaded[l.to])
    /\ UNCHANGED <<opened, booked, walletVars, quote>>

RollBackPvp(c) ==
    /\ req[c].op \in {"pvp_lock", "pvp_commit", "pvp_legs"}
    /\ RollBack(c)
    /\ UNCHANGED <<ledgerVars, walletVars, pvpVars>>

PvpNext(c) ==
    \/ CreateFxQuote(c)
    \/ \E p \in Pvp, legs \in LegPairs : CreatePvp(c, p, legs)
    \/ \E p \in Pvp, expected \in Nat : ReadLockPvp(c, p, expected)
    \/ CommitLockPvp(c)
    \/ \E p \in Pvp, expected \in Nat : ReadCommitPvp(c, p, expected)
    \/ TakeLeases(c)
    \/ CommitPvp(c)
    \/ RollBackPvp(c)
-----------------------------------------------------------------------------
QuoteStatus == {"none", "active", "expired"}

\* A settlement's legs are those a caller has proposed.
PvpRow == {NoPvp} \cup
    {[state |-> s, version |-> v, debit |-> legs.debit, credit |-> legs.credit] :
        s \in {"CREATED", "LOCKED", "COMMITTED", "ABORTED"}, v \in 1 .. 3, legs \in LegPairs}

PvpTypeOK ==
    /\ quote \in QuoteStatus
    /\ pvp \in [Pvp -> PvpRow]

(* "atomic PvP" (cbdc.py, MultiCbdcService): whatever requests overlap, fail or
   are lost, the ledger never holds one leg of a settlement without the other,
   nor legs without their event; and without overlap the outcome is what has
   happened on the ledger: COMMITTED says that the legs have moved, once, and
   every other state that they have not, and an outcome is not revised. *)
LegsArePaired == \A p \in Pvp :
    /\ moved[p].debit = moved[p].credit /\ moved[p].event = moved[p].debit
    /\ ~stale =>
         /\ moved[p].debit = (IF pvp[p].state = "COMMITTED" THEN 1 ELSE 0)
         /\ pvp[p].version = (CASE pvp[p].state = "NONE" -> 0 [] pvp[p].state = "CREATED" -> 1
                                [] pvp[p].state = "LOCKED" -> 2 [] OTHER -> 3)
=============================================================================
