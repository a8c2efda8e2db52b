----------------------------- MODULE EcnyLedger -----------------------------
(***************************************************************************)
(* The e-CNY ledger engine (backend/ecny/ledger/engine.py): one stored     *)
(* balance per account, and two entry rows per transaction.  Balances are  *)
(* written as absolute values computed from what the session has loaded,   *)
(* entries are inserted, so the two can come apart: `posted' is the net of *)
(* the entries of an account.  Some requests also change an operator row,  *)
(* a voucher or an instrument, which keeps count of what they move, and    *)
(* others move money on the same accounts beside them: `booked' is a       *)
(* history variable, the part of `posted' that comes from the former.      *)
(***************************************************************************)
EXTENDS OpenRequests, Functions

CONSTANTS
    Account,     \* the ledger accounts, those created on demand included
    OwnerType,   \* OwnerType[a]: central_bank, operator, wallet, ..._escrow
    CurrencyOf   \* CurrencyOf[a]

\* The rows of a table.
ASSUME AccountAssumption == IsFiniteSet(Account)

VARIABLES
    opened,  \* the accounts that exist
    bal,     \* EcnyAccount.balance
    posted,  \* credits minus debits of the EcnyEntry rows of an account
    booked,  \* ... of the entries of requests that another row keeps count of
    sent     \* today's settled EcnyTransaction amounts with that from_account

ledgerVars == <<opened, bal, posted, booked, sent>>

\* The account the engine finds as the issuance wellspring of a currency.
CentralBanks(cur) == {a \in Account : OwnerType[a] = "central_bank" /\ CurrencyOf[a] = cur}

(* What a session holds of the ledger: the balances it has loaded, as changed
   by its own operations, the entries it has added and the amounts it sends. *)
Nothing == [a \in Account |-> 0]
LoadLedger == [bal |-> bal, ent |-> Nothing, out |-> Nothing]

\* A debit entry of n on a and a credit entry of m on b.
AddEntries(s, a, n, b, m) == [x \in Account |->
    s.ent[x] - (IF x = a THEN n ELSE 0) + (IF x = b THEN m ELSE 0)]

CanMint(a, n) ==
    /\ n > 0
    /\ OwnerType[a] = "operator"
    /\ CentralBanks(CurrencyOf[a]) # {}

\* The central bank's own balance is not decremented.
Mint(s, a, n) ==
    LET cb == CHOOSE x \in CentralBanks(CurrencyOf[a]) : TRUE IN
    [bal |-> [s.bal EXCEPT ![a] = @ + n], ent |-> AddEntries(s, cb, n, a, n), out |-> s.out]

CanBurn(s, a, n) == CanMint(a, n) /\ s.bal[a] >= n

Burn(s, a, n) ==
    LET cb == CHOOSE x \in CentralBanks(CurrencyOf[a]) : TRUE IN
    [bal |-> [s.bal EXCEPT ![a] = @ - n], ent |-> AddEntries(s, a, n, cb, n),
     out |-> [s.out EXCEPT ![a] = @ + n]]

\* A debit that forgets to look at the balance.
CanTransferUnchecked(s, a, b, n) ==
    n > 0 /\ a # b /\ CurrencyOf[a] = CurrencyOf[b]

CanTransfer(s, a, b, n) ==
    /\ n > 0
    /\ a # b
    /\ CurrencyOf[a] = CurrencyOf[b]
    /\ s.bal[a] >= n

Transfer(s, a, b, n) ==
    [bal |-> MoveAmount(s.bal, a, n, b, n), ent |-> AddEntries(s, a, n, b, n),
     out |-> [s.out EXCEPT ![a] = @ + n]]

\* exchange() checks neither the currencies nor that the accounts differ.
CanExchange(s, a, n, m) == n > 0 /\ m > 0 /\ s.bal[a] >= n

\* An exchange that leaves out the credit entry.
ExchangeHalfPosted(s, a, b, n, m) ==
    [bal |-> MoveAmount(s.bal, a, n, b, m), ent |-> AddEntries(s, a, n, b, 0),
     out |-> [s.out EXCEPT ![a] = @ + n]]

Exchange(s, a, b, n, m) ==
    [bal |-> MoveAmount(s.bal, a, n, b, m), ent |-> AddEntries(s, a, n, b, m),
     out |-> [s.out EXCEPT ![a] = @ + n]]

\* The session s, which had loaded the balances `loaded', is committed.
Persist(loaded, s) ==
    /\ bal' = Flush(bal, loaded, s.bal)
    /\ posted' = [a \in Account |-> posted[a] + s.ent[a]]
    /\ sent' = [a \in Account |-> sent[a] + s.out[a]]

\* What the session s adds is counted by the row its request changes ...
Book(s) == booked' = [a \in Account |-> booked[a] + s.ent[a]]

\* ... and what no row has counted, of the entries of each account.
Uncounted == [a \in Account |-> posted[a] - booked[a]]

\* The ledger with these accounts and balances, each explained by its entries:
\* what is not with the central bank has been issued by it.
LedgerInit(accounts, balances) ==
    /\ opened = accounts
    /\ bal = balances
    /\ posted = [a \in Account |-> IF OwnerType[a] = "central_bank"
         THEN -SumFunctionOnSet(balances,
                {x \in Account : x # a /\ CurrencyOf[x] = CurrencyOf[a]})
         ELSE balances[a]]
    /\ booked = Nothing
    /\ sent = Nothing

\* What the rows of the ledger's tables hold.
AccountRows == [Account -> Nat]       \* balances
EntryRows == [Account -> Int]         \* credits minus debits
TransactionRows == [Account -> Nat]   \* sent today

LedgerTypeOK ==
    /\ opened \in SUBSET Account
    /\ bal \in AccountRows
    /\ posted \in EntryRows
    /\ booked \in EntryRows
    /\ sent \in TransactionRows

(* While every request has committed on rows nobody had changed under it, the
   stored balance of every CNY account (engine.py: "one balance per account")
   is the net of its double-entry legs: no operation, no failed operation and
   no sequence of them leaves a balance its entries do not explain. *)
BalancesMatchEntries ==
    ~stale => \A a \in opened :
        CurrencyOf[a] = "CNY" /\ OwnerType[a] # "central_bank" => bal[a] = posted[a]
=============================================================================
