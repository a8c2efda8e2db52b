-------------------------- MODULE ProductionLedger --------------------------
(***************************************************************************)
(* The double-entry subledger of the production backend                    *)
(* (_ledger_core.py, funding_service.py, ledger_service.py, gl_bridge.py): *)
(* accounts, journals and their reversals, drafts, holds on available      *)
(* funds, periods and batches for the general ledger.  A request locks the *)
(* account and hold rows it is going to change (SELECT ... FOR UPDATE)     *)
(* until it ends; the journal it reverses is read without a lock.          *)
(***************************************************************************)
EXTENDS OpenRequests, ProductionStates, SequencesExt

CONSTANTS
    LedgerAccount, TypeOf, CurrencyAt,  \* accounts, their types and currencies
    Journal,    \* journal names: the id is <<name, currency or "all">>
    Template,   \* mappings of templates: sequences of [account, direction]
    Clearing,   \* FX clearing account by currency
    Hold, Period, Glb,   \* identifiers of holds, periods, GL batches
    Officer     \* who closes periods

\* The mapping of a template is a list (post_template); what it names is looked
\* up when it is posted.
ASSUME TemplateAssumption == \A t \in Template : t \in Seq(Range(t))

VARIABLES
    ledger,     \* LedgerAccount rows by account: balance and reserved
    opened,     \* the opening balance each was created with
    journal,    \* Journal rows by id, with their entries
    holds,      \* Hold rows by id
    due,        \* holds whose expires_at has passed
    period,     \* LedgerPeriod.state by id
    glBatch     \* GlBatch.state by id

bookVars == <<ledger, opened, journal, holds, due, period, glBatch>>

LedgerInitially(opening) ==
    /\ ledger = [a \in DOMAIN opening |-> [balance |-> opening[a], reserved |-> 0]]
    /\ opened = opening
    /\ journal = <<>> /\ holds = <<>> /\ period = <<>> /\ glBatch = <<>>
    /\ due = {}

NORMAL_BALANCE(type) == IF type \in {"asset", "expense", "suspense"} THEN "DEBIT" ELSE "CREDIT"

Signed(e) == IF e.direction = NORMAL_BALANCE(TypeOf[e.account]) THEN e.amount ELSE -e.amount

Total(entries, direction) == SumFunctionOnSet([i \in DOMAIN entries |->
    IF entries[i].direction = direction THEN entries[i].amount ELSE 0], DOMAIN entries)

\* What the first k entries add to the balance of account a.
Effect(entries, k, a) == SumFunctionOnSet([i \in 1 .. k |->
    IF entries[i].account = a THEN Signed(entries[i]) ELSE 0], 1 .. k)

AccountsOf(entries) == {entries[i].account : i \in DOMAIN entries}

\* _validate_entries(): two entries or more, one currency, debits = credits.
Balanced(entries) ==
    /\ Len(entries) >= 2
    /\ \A i \in DOMAIN entries : entries[i].currency = entries[1].currency
    /\ Total(entries, "DEBIT") > 0
    /\ Total(entries, "DEBIT") = Total(entries, "CREDIT")

\* post_journal() up to its writes: no entry may take an account below zero.
Postable(entries) ==
    /\ Balanced(entries)
    /\ AccountsOf(entries) \subseteq DOMAIN ledger
    /\ \A i \in DOMAIN entries :
         /\ entries[i].amount > 0 /\ entries[i].direction \in {"DEBIT", "CREDIT"}
         /\ CurrencyAt[entries[i].account] = entries[i].currency
         /\ ledger[entries[i].account].balance + Effect(entries, i, entries[i].account) >= 0

\* A ledger whose rows are not locked.
FreeAlways(accounts, ids) == TRUE

\* No open request has locked these accounts and holds.
Free(accounts, ids) == \A d \in Client : req[d].op = "ledger" =>
    /\ DOMAIN req[d].loaded \cap accounts = {}
    /\ DOMAIN req[d].holds \cap ids = {}

\* A request that has locked the rows of `new' and the holds, has loaded them,
\* and will write them together with the journals in `posts'.
Change(c, new, posts, changed) ==
    /\ Free(DOMAIN new, DOMAIN changed)
    /\ Open(c, [op |-> "ledger", loaded |-> [a \in DOMAIN new |-> ledger[a]],
                new |-> new, posts |-> posts, holds |-> changed])
    /\ UNCHANGED bookVars

Posted(entries) == [a \in AccountsOf(entries) |->
    [ledger[a] EXCEPT !.balance = @ + Effect(entries, Len(entries), a)]]

NoJournal == <<>>

Row(entries, state, reverses) == [entries |-> entries, state |-> state, reverses |-> reverses]

\* POST /ledger/accounts
CreateLedgerAccount(c, a, n) ==
    /\ AtOnce(c)
    /\ a \in LedgerAccount \ DOMAIN ledger
    /\ n >= 0
    /\ ledger' = Put(OneRow(a, [balance |-> n, reserved |-> 0]), ledger)
    /\ opened' = Put(OneRow(a, n), opened)
    /\ UNCHANGED <<journal, holds, due, period, glBatch>>

\* POST /ledger/journals
ReadJournal(c, j, entries) ==
    /\ <<j, "all">> \notin DOMAIN journal
    /\ Postable(entries)
    /\ Change(c, Posted(entries), OneRow(<<j, "all">>, Row(entries, "POSTED", NoJournal)), <<>>)

\* post_template(): the mapping of a template with one amount and currency.
ReadTemplate(c, j, t, n, currency) ==
    LET entries == [i \in DOMAIN t |-> [account |-> t[i].account, direction |-> t[i].direction,
                                        amount |-> n, currency |-> currency]]
    IN ReadJournal(c, j, entries)

\* post_multi_currency(): one journal per currency, each with its clearing leg.
ReadMultiCurrency(c, j, groups) ==
    /\ Cardinality(DOMAIN groups) >= 2
    /\ \A cur \in DOMAIN groups :
         /\ <<j, cur>> \notin DOMAIN journal
         /\ Clearing[cur] \in AccountsOf(groups[cur])
         /\ Postable(groups[cur])
    /\ LET of(a) == CurrencyAt[a]
           all == UNION {AccountsOf(groups[cur]) : cur \in DOMAIN groups}
       IN Change(c, [a \in all |-> Posted(groups[of(a)])[a]],
                 [id \in {<<j, cur>> : cur \in DOMAIN groups} |-> Row(groups[id[2]], "POSTED", NoJournal)],
                 <<>>)

Opposite(direction) == IF direction = "DEBIT" THEN "CREDIT" ELSE "DEBIT"

\* reverse_journal(): the original is not locked, and stays POSTED.
ReadReversal(c, original, j) ==
    LET entries == [i \in DOMAIN journal[original].entries |->
                      [journal[original].entries[i] EXCEPT !.direction = Opposite(@)]]
    IN
    /\ original \in DOMAIN journal
    /\ journal[original].state = "POSTED"
    /\ <<j, "all">> \notin DOMAIN journal
    /\ Postable(entries)
    /\ Change(c, Posted(entries), OneRow(<<j, "all">>, Row(entries, "POSTED", original)), <<>>)

\* create_journal_draft() does not look at the accounts it names; nothing ever
\* posts a draft.
CreateDraft(c, j, entries) ==
    /\ AtOnce(c)
    /\ <<j, "all">> \notin DOMAIN journal
    /\ Balanced(entries)
    /\ journal' = Put(OneRow(<<j, "all">>, Row(entries, "DRAFT", NoJournal)), journal)
    /\ UNCHANGED <<ledger, opened, holds, due, period, glBatch>>

ValidateJournal(c, id) ==
    /\ AtOnce(c)
    /\ id \in DOMAIN journal
    /\ journal[id].state \in {"DRAFT", "VALIDATED"}
    /\ Balanced(journal[id].entries)
    /\ journal' = [journal EXCEPT ![id].state = "VALIDATED"]
    /\ UNCHANGED <<ledger, opened, holds, due, period, glBatch>>

\* HoldService.create()
ReadCreateHold(c, h, a, n) ==
    /\ h \notin DOMAIN holds
    /\ a \in DOMAIN ledger
    /\ n > 0
    /\ ledger[a].balance - ledger[a].reserved >= n
    /\ Change(c, OneRow(a, [ledger[a] EXCEPT !.reserved = @ + n]), <<>>,
              OneRow(h, [account |-> a, amount |-> n, state |-> "HELD", version |-> 1]))

\* The row of hold h in its next state.
Moved(h, state) == [account |-> holds[h].account, amount |-> holds[h].amount, state |-> state,
                    version |-> holds[h].version + 1]

\* A transition that gives the funds back whatever becomes of the hold.
ReadTransitionAllReleased(c, h, state, version) ==
    /\ h \in DOMAIN holds
    /\ holds[h].version = version /\ holds[h].state = "HELD"
    /\ LET a == holds[h].account IN
       Change(c, OneRow(a, [ledger[a] EXCEPT !.reserved = @ - holds[h].amount]), <<>>,
              OneRow(h, Moved(h, state)))

\* HoldService.transition(): an unknown outcome keeps the funds reserved.
ReadTransitionHold(c, h, state, version) ==
    /\ h \in DOMAIN holds
    /\ holds[h].version = version /\ holds[h].state = "HELD"
    /\ LET a == holds[h].account
           released == IF state = "UNKNOWN" THEN <<>>
                       ELSE OneRow(a, [ledger[a] EXCEPT !.reserved = @ - holds[h].amount])
       IN Change(c, released, <<>>, OneRow(h, Moved(h, state)))

PassHoldExpiry(h) ==
    /\ h \in DOMAIN holds \ due
    /\ due' = due \cup {h}
    /\ UNCHANGED <<requestVars, ledger, opened, journal, holds, period, glBatch>>

\* expire_due(): no code sets external_reference, so each becomes UNKNOWN.
ReadExpireDue(c) ==
    LET expired == {h \in due : holds[h].state = "HELD"} IN
    /\ expired # {}
    /\ Change(c, <<>>, <<>>, [h \in expired |-> Moved(h, "UNKNOWN")])

\* The commit, unless a check of migration 0013 or a unique id refuses it.
CommitLedger(c) ==
    LET r == req[c]
        written == [a \in DOMAIN ledger |->
            IF a \in DOMAIN r.loaded THEN Flush(ledger[a], r.loaded[a], r.new[a]) ELSE ledger[a]]
    IN
    /\ r.op = "ledger"
    /\ DOMAIN r.posts \cap DOMAIN journal = {}
    /\ \A a \in DOMAIN r.loaded : 0 <= written[a].reserved /\ written[a].reserved <= written[a].balance
    /\ ledger' = written
    /\ journal' = Put(r.posts, journal)
    /\ holds' = Put(r.holds, holds)
    /\ Commit(c, \A a \in DOMAIN r.loaded : ledger[a] = r.loaded[a])
    /\ UNCHANGED <<opened, due, period, glBatch>>

\* LedgerPeriodService: nothing that posts looks at the periods.
OpenPeriod(c, p) ==
    /\ AtOnce(c)
    /\ p \in Period \ DOMAIN period
    /\ period' = Put(OneRow(p, "OPEN"), period)
    /\ UNCHANGED <<ledger, opened, journal, holds, due, glBatch>>

ClosePeriod(c, p, maker, checker) ==
    /\ AtOnce(c)
    /\ maker # checker
    /\ p \in DOMAIN period /\ period[p] = "OPEN"
    /\ period' = [period EXCEPT ![p] = "CLOSED"]
    /\ UNCHANGED <<ledger, opened, journal, holds, due, glBatch>>

\* GlBridge: a batch is SENT when it is written; every receipt overwrites it.
PersistBatch(c, b) ==
    /\ AtOnce(c)
    /\ b \in Glb \ DOMAIN glBatch
    /\ DOMAIN journal # {}
    /\ glBatch' = Put(OneRow(b, "SENT"), glBatch)
    /\ UNCHANGED <<ledger, opened, journal, holds, due, period>>

RecordReceipt(c, b, state) ==
    /\ AtOnce(c)
    /\ b \in DOMAIN glBatch
    /\ state \in {"ACK", "REJECTED"}
    /\ glBatch' = [glBatch EXCEPT ![b] = state]
    /\ UNCHANGED <<ledger, opened, journal, holds, due, period>>

RollBackLedger(c) ==
    /\ req[c].op = "ledger"
    /\ RollBack(c)
    /\ UNCHANGED bookVars

\* trial_balance(): what the POSTED entries make of an account.
Reconstructed(a) ==
    LET posted == {id \in DOMAIN journal : journal[id].state = "POSTED"} IN
    SumFunctionOnSet([id \in posted |-> Effect(journal[id].entries, Len(journal[id].entries), a)], posted)

EntryRow == [account : LedgerAccount, direction : {"DEBIT", "CREDIT"}, amount : Nat \ {0},
             currency : Range(CurrencyAt)]

\* The entries of a request by their currency.
EntryGroups == UNION {[C -> Seq(EntryRow)] : C \in SUBSET Range(CurrencyAt)}

LedgerNext ==
    \/ \E h \in Hold : PassHoldExpiry(h)
    \/ \E c \in Client :
         \/ \E a \in LedgerAccount, n \in Nat : CreateLedgerAccount(c, a, n)
         \/ \E j \in Journal :
              \/ \E entries \in Seq(EntryRow) : ReadJournal(c, j, entries) \/ CreateDraft(c, j, entries)
              \/ \E t \in Template, n \in Nat, cur \in Range(CurrencyAt) : ReadTemplate(c, j, t, n, cur)
              \/ \E groups \in EntryGroups :
                   /\ IsFiniteSet(DOMAIN groups)
                   /\ \A cur \in DOMAIN groups : \A i \in DOMAIN groups[cur] : groups[cur][i].currency = cur
                   /\ ReadMultiCurrency(c, j, groups)
              \/ \E id \in DOMAIN journal : ReadReversal(c, id, j)
         \/ \E id \in DOMAIN journal : ValidateJournal(c, id)
         \/ \E h \in Hold :
              \/ \E a \in LedgerAccount, n \in Nat : ReadCreateHold(c, h, a, n)
              \/ \E state \in {"CONSUMED", "RELEASED", "EXPIRED", "UNKNOWN"}, v \in Nat :
                   ReadTransitionHold(c, h, state, v)
         \/ ReadExpireDue(c) \/ CommitLedger(c) \/ RollBackLedger(c)
         \/ \E p \in Period : OpenPeriod(c, p) \/ \E m, n \in Officer : ClosePeriod(c, p, m, n)
         \/ \E b \in Glb : PersistBatch(c, b) \/ \E state \in {"ACK", "REJECTED"} : RecordReceipt(c, b, state)

LedgerSpec ==
    /\ \E A \in SUBSET LedgerAccount : \E opening \in [A -> Nat] : LedgerInitially(opening)
    /\ \E allowed \in Nat : RequestsInit(allowed)
    /\ [][LedgerNext]_<<requestVars, bookVars>>
-----------------------------------------------------------------------------
LedgerAccountRow == [balance : Nat, reserved : Nat]
JournalRow == [entries : Seq(EntryRow), state : ALLOWED_STATES["journals"],
               reverses : DOMAIN journal \cup {NoJournal}]
HoldRow == [account : LedgerAccount, amount : Nat \ {0}, state : ALLOWED_STATES["holds"], version : Nat]
PeriodRow == ALLOWED_STATES["ledger_periods"]
GlBatchRow == ALLOWED_STATES["gl_batches"]

LedgerTypeOK ==
    /\ DOMAIN ledger = DOMAIN opened
    /\ DOMAIN ledger \subseteq LedgerAccount
    /\ \A a \in DOMAIN ledger : ledger[a] \in LedgerAccountRow
    /\ \A id \in DOMAIN journal : journal[id] \in JournalRow
    /\ \A h \in DOMAIN holds : holds[h] \in HoldRow
    /\ due \subseteq DOMAIN holds
    /\ \A p \in DOMAIN period : period[p] \in PeriodRow
    /\ \A b \in DOMAIN glBatch : glBatch[b] \in GlBatchRow

(* _ledger_core.py, trial_balance(): whatever journals, reversals and holds
   overlap, the stored balance of every account is its opening balance plus
   the entries of the POSTED journals; the row locks keep one from overwriting
   what another has added. *)
LedgerBalancesExplained ==
    \A a \in DOMAIN ledger : ledger[a].balance = opened[a] + Reconstructed(a)

(* funding_service.py, transition() and expire_due(): what an account has
   reserved is the sum of its holds that are HELD or whose outcome is UNKNOWN:
   nothing is released twice, and an expiry gives back nothing. *)
ReservedIsExplained ==
    \A a \in DOMAIN ledger :
      LET open == {h \in DOMAIN holds : holds[h].account = a /\ holds[h].state \in {"HELD", "UNKNOWN"}}
      IN ledger[a].reserved = SumFunctionOnSet([h \in open |-> holds[h].amount], open)
=============================================================================
