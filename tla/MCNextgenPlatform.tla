--------------------------- MODULE MCNextgenPlatform ---------------------------
(***************************************************************************)
(* The components of the simulator together, on small instances.  In a     *)
(* behaviour the callers use the endpoints of one part of the platform, or *)
(* those of one part that uses the ledger accounts and the e-CNY API,      *)
(* which names any of its accounts: the other parts write disjoint rows.   *)
(***************************************************************************)
EXTENDS EndOfDay

CONSTANTS Newcomer, Rich   \* the participant without an account at first, the one with funds

VARIABLE part   \* the parts whose endpoints are used

vars == <<part, requestVars, ledgerVars, walletVars, instrumentVars, pvpVars,
          issuanceVars, cipsVars, paymentsVars>>

Accounts == {"cb", "op", "w1", "w2", "foreign", "ev", "ei"}
Owner == [a \in Accounts |-> CASE a = "cb" -> "central_bank" [] a \in {"op", "foreign"} -> "operator"
    [] a \in {"w1", "w2"} -> "wallet" [] a = "ev" -> "offline_escrow" [] OTHER -> "program_escrow"]
Currencies == [a \in Accounts |-> IF a = "foreign" THEN "THB" ELSE "CNY"]
Tiers == [w \in {"w1", "w2"} |-> IF w = "w1" THEN 3 ELSE 2]
PerTxOf == <<2, 2, 2>>
DailyOf == <<3, 3, 3>>
BalanceOf == <<4, 4, 4>>
Rates == [cur \in {"CNY", "THB"} |-> IF cur = "CNY" THEN <<1, 1>> ELSE <<49, 10>>]
EscrowAccounts == ("v1" :> "ev") @@ ("i1" :> "ei")
Limits == [a \in {"op", "foreign"} |-> 3]
LegChoice == {[debit |-> [from |-> "w1", to |-> "w2", amount |-> 2, currency |-> "CNY"],
               credit |-> [from |-> f, to |-> t, amount |-> 1, currency |-> cur]] :
              <<f, t, cur>> \in {<<"w2", "w1", "CNY">>, <<"op", "w1", "CNY">>, <<"foreign", "foreign", "THB">>}}
Half == <<1, 2>>
CipsRow == {[debtor |-> r[1], creditor |-> r[2], amount |-> r[3], priority |-> r[4], batch |-> r[5],
             mode |-> r[6], status |-> "QUEUED"] : r \in
  {<<"a", "b", 2, 1, "none", "RTGS">>, <<"a", "b", 1, 2, "x", "RTGS">>, <<"b", "a", 1, 2, "none", "RTGS">>,
   <<"a", "b", 2, 1, "x", "DNS">>, <<"b", "a", 1, 1, "x", "DNS">>, <<"b", "c", 1, 1, "x", "DNS">>}}
Statuses == {"VALIDATED", "REJECTED", "IN_PROCESS", "SETTLED", "ON_HOLD", "RETURNED", "CANCELLED"}
CaseStatuses == {"OPEN", "IN_REVIEW", "WAITING_INFORMATION", "RESOLVED", "CLOSED"}

Parts == {{x} : x \in {"wallets", "instruments", "pvp", "issuance", "cips", "payments"}}
           \cup {{"wallets", "instruments"}, {"wallets", "issuance"}}

\* The amounts asked for: the largest a wallet may pay at once, or any of
\* Amount; the former alone where two parts are used.
Large == {2}
Asked == IF Cardinality(part) = 2 THEN Large ELSE Amount

Calls == CASE part = {"wallets"} -> 3
           [] part = {"wallets", "instruments"} -> 3
           [] part = {"wallets", "issuance"} -> 4
           [] part \in {{"pvp"}, {"issuance"}} -> 7
           [] OTHER -> 5

Funds == [a \in Accounts |->
    CASE part = {"wallets"} /\ a \in {"op", "w1"} -> 2
      [] "instruments" \in part /\ a = "w1" -> 3
      [] "pvp" \in part /\ a = "w1" -> 2
      [] "pvp" \in part /\ a \in {"w2", "foreign"} -> 1
      [] OTHER -> 0]

Init ==
    /\ part \in Parts
    /\ RequestsInit(Calls)
    /\ LedgerInit(CASE part = {"issuance"} -> {"cb"}
                    [] "pvp" \in part -> {"cb", "op", "foreign", "w1", "w2"}
                    [] "instruments" \in part -> {"cb", "w1", "w2"}
                    [] OTHER -> {"cb", "op", "w1"}, Funds)
    /\ WalletsInit /\ InstrumentsInit /\ PvpInit /\ IssuanceInit /\ CipsInit([p \in {a \in Participant : a # Newcomer} |-> IF p = Rich THEN 2 ELSE 0]) /\ PaymentsInit

UsesWallets == "wallets" \in part /\ UNCHANGED <<part, instrumentVars, pvpVars, issuanceVars, cipsVars, paymentsVars>>
UsesInstruments == "instruments" \in part /\ UNCHANGED <<part, pvpVars, issuanceVars, cipsVars, paymentsVars>>
UsesPvp == "pvp" \in part /\ UNCHANGED <<part, instrumentVars, issuanceVars, cipsVars, paymentsVars>>
UsesIssuance == "issuance" \in part /\ UNCHANGED <<part, instrumentVars, pvpVars, cipsVars, paymentsVars>>
UsesCips == "cips" \in part /\ UNCHANGED <<part, ledgerVars, walletVars, instrumentVars, pvpVars, issuanceVars, paymentsVars>>
UsesPayments == "payments" \in part /\ UNCHANGED <<part, ledgerVars, walletVars, instrumentVars, pvpVars, issuanceVars, cipsVars>>
\* A reconciliation reads what the other requests of a part change.
UsesReports == part \in {{x} : x \in {"pvp", "issuance", "cips", "payments"}} /\ UNCHANGED part

Next ==
    \/ \E c \in Client, w \in Wallets, named \in BOOLEAN, o \in {"op", "none"} : UsesWallets /\ OpenWallet(c, w, named, o)
    \/ \E c \in Client, a \in Operators : UsesWallets /\ ProvisionOperator(c, a)
    \/ \E c \in Client, a \in Operators, n \in Large : UsesWallets /\ SeedForeignAccount(c, a, n)
    \/ UsesWallets /\ NewDay
    \/ \E c \in Client, w, v \in Wallets, n \in Asked : UsesWallets /\ ReadTransfer(c, w, v, n)
    \/ \E c \in Client, a \in Account, n \in Asked : UsesWallets /\ ReadMint(c, a, n)
    \/ \E c \in Client, a \in Account, n \in Large : UsesWallets /\ ReadBurn(c, a, n)
    \/ \E c \in Client, a \in Account, w \in Wallets, n \in Asked : UsesWallets /\ ReadExchangeToWallet(c, a, w, n)
    \/ \E c \in Client, w \in Wallets, a \in Account, n \in Asked : UsesWallets /\ ReadRedeemFromWallet(c, w, a, n)
    \/ \E c \in Client, w \in Wallets, b \in Account, ch \in {"none", "cips"}, n \in Large : UsesWallets /\ ReadCrossBorder(c, w, b, "THB", ch, n)
    \/ \E c \in Client : UsesWallets /\ CommitEcny(c)
    \/ \E c \in Client : UsesWallets /\ RollBackEcny(c)
    \/ \E c \in Client, v \in Voucher, w \in Wallets, n \in Asked : UsesInstruments /\ ReadIssueVoucher(c, v, w, n)
    \/ \E c \in Client : UsesInstruments /\ CommitIssueVoucher(c)
    \/ \E c \in Client, v \in Voucher, m \in Wallets : UsesInstruments /\ ReadRedeemVoucher(c, v, m)
    \/ \E c \in Client : UsesInstruments /\ CommitRedeemVoucher(c)
    \/ \E c \in Client, i \in Instrument, w \in Wallets, n \in Asked, t \in Template : UsesInstruments /\ ReadCreateInstrument(c, i, w, n, t, 1)
    \/ \E c \in Client : UsesInstruments /\ CommitCreateInstrument(c)
    \/ \E c \in Client, i \in Instrument, w \in Wallets, n \in Asked, granted \in BOOLEAN : UsesInstruments /\ ReadExecute(c, i, w, n, granted)
    \/ \E c \in Client : UsesInstruments /\ CommitExecute(c)
    \/ \E x \in Voucher \cup Instrument : UsesInstruments /\ PassExpiry(x)
    \/ \E c \in Client : UsesInstruments /\ RollBackInstrument(c)
    \/ \E c \in Client : UsesPvp /\ CreateFxQuote(c)
    \/ UsesPvp /\ ExpireQuote
    \/ \E c \in Client, p \in Pvp, legs \in LegPairs : UsesPvp /\ CreatePvp(c, p, legs)
    \/ \E c \in Client, p \in Pvp, v \in 1 .. 2 : UsesPvp /\ ReadLockPvp(c, p, v)
    \/ \E c \in Client : UsesPvp /\ CommitLockPvp(c)
    \/ \E c \in Client, p \in Pvp, v \in 1 .. 2 : UsesPvp /\ ReadCommitPvp(c, p, v)
    \/ \E c \in Client : UsesPvp /\ TakeLeases(c)
    \/ \E c \in Client : UsesPvp /\ CommitPvp(c)
    \/ \E c \in Client, n \in Amount : UsesPvp /\ ReadTransfer(c, "w1", "w2", n) /\ UNCHANGED pvpVars
    \/ \E c \in Client : UsesPvp /\ CommitEcny(c) /\ UNCHANGED pvpVars
    \/ \E c \in Client : UsesPvp /\ RollBackPvp(c)
    \/ \E c \in Client, a \in Operators : UsesIssuance /\ RegisterOperator(c, a)
    \/ \E c \in Client, w \in Wallets, a \in Operators : UsesIssuance /\ CreateHkWallet(c, w, a)
    \/ \E c \in Client, a \in Operators, n \in Amount : UsesIssuance /\ ReadIssue(c, a, n)
    \/ \E c \in Client, a \in Operators, n \in Amount : UsesIssuance /\ ReadRedeem(c, a, n)
    \/ \E c \in Client, a \in Operators, w \in Wallets, n \in Amount : UsesIssuance /\ ReadTopUp(c, a, w, n)
    \/ \E c \in Client, w, m \in Wallets, n \in Amount : UsesIssuance /\ ReadMerchantPayment(c, w, m, n)
    \/ \E c \in Client : UsesIssuance /\ CommitOperator(c)
    \/ \E c \in Client : UsesIssuance /\ CommitMerchantPayment(c)
    \/ \E c \in Client : UsesIssuance /\ RollBackOperator(c)
    \/ \E c \in Client, p \in Participant : UsesCips /\ RegisterParticipant(c, p)
    \/ \E c \in Client, p \in Participant, n \in Opening : UsesCips /\ OpenAccount(c, p, n)
    \/ \E c \in Client, row \in CipsRow : UsesCips /\ SubmitDns(c, row)
    \/ \E c \in Client, row \in CipsRow : UsesCips /\ ReadSubmitRtgs(c, row)
    \/ \E c \in Client : UsesCips /\ CommitSubmitRtgs(c)
    \/ \E c \in Client : UsesCips /\ ReadQueue(c)
    \/ \E c \in Client : UsesCips /\ SettleQueue(c)
    \/ \E c \in Client, b \in Batch : UsesCips /\ ReadBatch(c, b)
    \/ \E c \in Client : UsesCips /\ CommitCips(c)
    \/ \E c \in Client : UsesCips /\ RollBackCips(c)
    \/ \E c \in Client, k \in Key, d \in Digest : UsesPayments /\ BeginEnqueue(c, k, d)
    \/ \E c \in Client : UsesPayments /\ CommitEnqueue(c)
    \/ \E c \in Client : UsesPayments /\ CreatePayment(c)
    \/ \E c \in Client, v \in 1 .. 3, s \in Statuses : UsesPayments /\ ReadTransition(c, v, s)
    \/ \E c \in Client : UsesPayments /\ CommitTransition(c)
    \/ \E c \in Client, x \in Payload : UsesPayments /\ ReadCopies(c, x)
    \/ \E c \in Client : UsesPayments /\ CommitCopy(c)
    \/ \E c \in Client : UsesPayments /\ OpenCase(c)
    \/ \E c \in Client, s \in CaseStatuses : UsesPayments /\ ReadCase(c, s)
    \/ \E c \in Client : UsesPayments /\ CommitCase(c)
    \/ \E c \in Client, x \in Payload : UsesPayments /\ ReadAudit(c, x)
    \/ \E c \in Client : UsesPayments /\ CommitAudit(c)
    \/ \E c \in Client : UsesPayments /\ RollBackPayments(c)
    \/ \E c \in Client : UsesReports /\ ReadReconciliation(c)
    \/ \E c \in Client : UsesReports /\ CommitReport(c)
    \/ \E c \in Client : UsesReports /\ RollBackPayments(c) /\ UNCHANGED <<ledgerRows, cipsVars>>

Spec == Init /\ [][Next]_vars

Symmetry == Permutations(Client)
=============================================================================
