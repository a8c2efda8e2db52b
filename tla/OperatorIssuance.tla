-------------------------- MODULE OperatorIssuance --------------------------
(***************************************************************************)
(* The two-tier issuance controls and the Hong Kong retail profile over    *)
(* the e-CNY ledger (EcnyOperatorService in backend/nextgen/cips.py,       *)
(* HkRetailService in backend/nextgen/cbdc.py): an operator row counts     *)
(* what has been issued to the operator, within its limit.                 *)
(***************************************************************************)
EXTENDS EcnyWallets

CONSTANTS
    OperatorLimit,          \* issuance_limit of an operator row, by its account
    HkSingle, HkBalance     \* HK_RETAIL_LIMITS, per tier

\* register() refuses a limit that is not positive.
ASSUME LimitAssumption == \A a \in Operators : OperatorLimit[a] \in Nat \ {0}

VARIABLES
    issued,   \* EcnyOperator.issued_amount of the registered operators
    topped    \* committed "ecny.hk.topup" amounts (the events)

issuanceVars == <<issued, topped>>

\* EcnyOperator.issued_amount of those registered.
OperatorRows == [DOMAIN issued -> Int]

IssuanceTypeOK == issued \in OperatorRows /\ DOMAIN issued \subseteq Operators

IssuanceInit ==
    /\ issued = <<>>
    /\ topped = 0

Registered == DOMAIN issued

\* POST /ecny/operators
RegisterOperator(c, a) ==
    /\ AtOnce(c)
    /\ a \in Operators \ Registered
    /\ issued' = Put(OneRow(a, 0), issued)
    /\ opened' = opened \cup {a}
    /\ UNCHANGED <<bal, posted, booked, sent, walletVars, topped>>

\* POST /hk-retail/wallets
CreateHkWallet(c, w, a) ==
    /\ AtOnce(c)
    /\ w \in Wallets \ opened
    /\ a \in Registered
    /\ opened' = opened \cup {w}
    /\ UNCHANGED <<bal, posted, booked, sent, walletVars, issuanceVars>>

\* A request that changes the operator row of a by d and the ledger to s.
OnOperator(a, d, read, s, top) ==
    [op |-> "operator", a |-> a, row |-> issued[a], d |-> d, read |-> read,
     loaded |-> bal, s |-> s, top |-> top]

CanIssue(a, n) ==
    /\ a \in Registered
    /\ n > 0
    /\ issued[a] + n <= OperatorLimit[a]
    /\ CanMint(a, n)

\* POST /ecny/operators/{id}/issue
ReadIssue(c, a, n) ==
    /\ CanIssue(a, n)
    /\ Open(c, OnOperator(a, n, {a}, Mint(LoadLedger, a, n), 0))
    /\ UNCHANGED <<ledgerVars, walletVars, issuanceVars>>

\* redeem() without the comparison with what has been issued.
ReadRedeemUnlimited(c, a, n) ==
    /\ a \in Registered
    /\ CanBurn(LoadLedger, a, n)
    /\ Open(c, OnOperator(a, -n, {a}, Burn(LoadLedger, a, n), 0))
    /\ UNCHANGED <<ledgerVars, walletVars, issuanceVars>>

\* POST /ecny/operators/{id}/redeem
ReadRedeem(c, a, n) ==
    /\ a \in Registered
    /\ n <= issued[a]
    /\ CanBurn(LoadLedger, a, n)
    /\ Open(c, OnOperator(a, -n, {a}, Burn(LoadLedger, a, n), 0))
    /\ UNCHANGED <<ledgerVars, walletVars, issuanceVars>>

\* POST /hk-retail/wallets/{id}/top-up: mint to the operator, then transfer.
ReadTopUp(c, a, w, n) ==
    /\ w \in opened \cap Wallets
    /\ n > 0 /\ n <= HkSingle[Tier[w]]
    /\ bal[w] + n <= HkBalance[Tier[w]]
    /\ CanIssue(a, n)
    /\ CanTransfer(Mint(LoadLedger, a, n), a, w, n)
    /\ Open(c, OnOperator(a, n, {a, w}, Transfer(Mint(LoadLedger, a, n), a, w, n), n))
    /\ UNCHANGED <<ledgerVars, walletVars, issuanceVars>>

\* POST /hk-retail/wallets/{id}/merchant-payment: only the payer is checked.
ReadMerchantPayment(c, w, m, n) ==
    /\ {w, m} \subseteq opened \cap Wallets
    /\ n > 0 /\ n <= HkSingle[Tier[w]]
    /\ CanTransfer(LoadLedger, w, m, n)
    /\ Open(c, RequestOf("merchant", "none", {w, m}, Transfer(LoadLedger, w, m, n), NoReports, "none"))
    /\ UNCHANGED <<ledgerVars, walletVars, issuanceVars>>

CommitOperator(c) ==
    LET r == req[c] IN
    /\ r.op = "operator"
    /\ Persist(r.loaded, r.s) /\ Book(r.s)
    /\ issued' = [issued EXCEPT ![r.a] = r.row + r.d]
    /\ topped' = topped + r.top
    /\ Commit(c, issued[r.a] = r.row /\ \A a \in r.read : bal[a] = r.loaded[a])
    /\ UNCHANGED <<opened, walletVars>>

CommitMerchantPayment(c) == CommitRequest(c, "merchant") /\ UNCHANGED issuanceVars

RollBackOperator(c) ==
    /\ req[c].op \in {"operator", "merchant"}
    /\ RollBack(c)
    /\ UNCHANGED <<ledgerVars, walletVars, issuanceVars>>

IssuanceNext(c) ==
    \/ \E a \in Operators : RegisterOperator(c, a)
    \/ \E w \in Wallets, a \in Operators : CreateHkWallet(c, w, a)
    \/ \E a \in Operators, n \in Amount : ReadIssue(c, a, n)
    \/ \E a \in Operators, n \in Amount : ReadRedeem(c, a, n)
    \/ \E a \in Operators, w \in Wallets, n \in Amount : ReadTopUp(c, a, w, n)
    \/ \E w, m \in Wallets, n \in Amount : ReadMerchantPayment(c, w, m, n)
    \/ CommitOperator(c)
    \/ CommitMerchantPayment(c)
    \/ RollBackOperator(c)
-----------------------------------------------------------------------------
\* The issued amount of an operator that its account does not hold;
\* reconcile() of the operator reports "reconciled" when there is none.
Outstanding(a) == issued[a] - bal[a]

\* The registered operators of the CNY.
Issuers == {a \in Registered : CurrencyOf[a] = "CNY"}

\* The operator rows account for all the CNY in the ledger, and the top-ups for
\* what the operators' accounts lack of it, but for the entries no row counts.
RowsAccountForLedger ==
    /\ NetIssuance(bal) = SumFunctionOnSet(issued, Issuers) + NetIssuance(Uncounted)
    /\ SumFunctionOnSet([a \in Issuers |-> Outstanding(a) + Uncounted[a]], Issuers) = topped
=============================================================================
