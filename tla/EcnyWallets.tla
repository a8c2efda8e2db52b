----------------------------- MODULE EcnyWallets -----------------------------
(***************************************************************************)
(* The e-CNY API over the ledger: wallets and their tier limits, issuance, *)
(* compliance reports and the two cross-border bridges                     *)
(* (backend/api/ecny/router.py, backend/ecny, backend/admin/ecny_admin.py).*)
(* The wallet checks load the account rows, the transfer that follows uses *)
(* the same loaded rows: a request reads once and then commits.            *)
(***************************************************************************)
EXTENDS EcnyLedger

CONSTANTS
    Tier,           \* Tier[w]: the tier of a wallet's ledger account
    PerTx, Daily, BalanceCap,   \* TIER_LIMITS, per tier
    IssuanceCap,    \* ISSUANCE_CAP_FEN
    LargeCash,      \* LARGE_CASH_THRESHOLD
    Rate,           \* SANDBOX_FX: Rate[cur] = <<n, d>>, n/d units per CNY
    Amount          \* the amounts callers ask for

\* open_wallet and the Hong Kong profile open a wallet's account in CNY.
ASSUME WalletAssumption == \A a \in Account : OwnerType[a] = "wallet" => CurrencyOf[a] = "CNY"
\* "none" stands for no account.
ASSUME NoneAssumption == "none" \notin Account
\* schemas.py and the query parameters refuse a negative amount; the sandbox
\* rates are positive; the cap is a number of fen.
ASSUME AmountAssumption == Amount \subseteq Nat
ASSUME CapAssumption == IssuanceCap \in Nat
ASSUME RateAssumption == \A cur \in DOMAIN Rate : Rate[cur] \in Nat \X (Nat \ {0})

VARIABLES
    reports,   \* committed EcnyComplianceReport rows by type
    bridged    \* committed EcnyBridgeTransaction rows by status

walletVars == <<reports, bridged>>

ReportType == {"large_cash", "cross_border", "suspicious"}
Wallets == {a \in Account : OwnerType[a] = "wallet"}
Operators == {a \in Account : OwnerType[a] = "operator"}

\* Outstanding CNY of operators and wallets, as a session sees it.
NetIssuance(b) == SumFunctionOnSet(b,
    {a \in Account : CurrencyOf[a] = "CNY" /\ OwnerType[a] # "central_bank"})

\* The daily limit compared with the new amount alone.
CheckOutgoingAlone(w, n) ==
    /\ n > 0
    /\ n <= PerTx[Tier[w]]
    /\ n <= Daily[Tier[w]]

CheckOutgoing(w, n) ==
    /\ n > 0
    /\ n <= PerTx[Tier[w]]
    /\ sent[w] + n <= Daily[Tier[w]]

CheckIncoming(w, n) ==
    /\ n > 0
    /\ n <= PerTx[Tier[w]]
    /\ bal[w] + n <= BalanceCap[Tier[w]]

\* What check_transaction adds to the session for an amount.
Reports(n, crossBorder) == [t \in ReportType |->
    CASE t = "large_cash" -> IF n >= LargeCash THEN 1 ELSE 0
      [] t = "cross_border" -> IF crossBorder THEN 1 ELSE 0
      [] OTHER -> IF n >= LargeCash /\ 100 * n < 101 * LargeCash THEN 1 ELSE 0]

RouteCrossBorder(cur) == IF cur = "CNY" THEN "cips" ELSE "mbridge"

\* The amount credited by an mBridge payment, rounded down.
Converted(cur, n) == (n * Rate[cur][1]) \div Rate[cur][2]

WalletsInit ==
    /\ reports = [t \in ReportType |-> 0]
    /\ bridged = [s \in {"pending", "settled", "failed"} |-> 0]

(* open_wallet: tiers 1 and 2 need a holder with a real name; the operator
   account, when one is given, must be a CNY operator account. *)
OpenWallet(c, w, named, operator) ==
    /\ AtOnce(c)
    /\ w \in Wallets \ opened
    /\ Tier[w] < 3 => named
    /\ operator # "none" =>
         operator \in opened /\ OwnerType[operator] = "operator" /\ CurrencyOf[operator] = "CNY"
    /\ opened' = opened \cup {w}
    /\ UNCHANGED <<bal, posted, booked, sent, walletVars>>

ProvisionOperator(c, a) ==
    /\ AtOnce(c)
    /\ a \in Operators
    /\ opened' = opened \cup {a}
    /\ UNCHANGED <<bal, posted, booked, sent, walletVars>>

(* seed_foreign_account: sets the balance of a non-CNY account, without an
   entry, whatever has been posted to it. *)
SeedForeignAccount(c, a, n) ==
    /\ AtOnce(c)
    /\ a \in Operators
    /\ CurrencyOf[a] # "CNY"
    /\ opened' = opened \cup {a}
    /\ bal' = [bal EXCEPT ![a] = n]
    /\ UNCHANGED <<posted, booked, sent, walletVars>>

\* Midnight: the outgoing total of the day starts again at zero.
NewDay ==
    /\ \E a \in Account : sent[a] # 0
    /\ sent' = Nothing
    /\ UNCHANGED <<requestVars, opened, bal, posted, booked, walletVars>>

\* A request that has read the accounts `read' and will commit the session s,
\* with reports and a bridge status; `payer' is the wallet whose outgoing limit
\* it has looked at.
RequestOf(op, payer, read, s, rep, br) ==
    [op |-> op, payer |-> payer, read |-> read, loaded |-> bal, out |-> sent, s |-> s,
     rep |-> rep, br |-> br]

Request(read, s, rep, br) == RequestOf("ecny", "none", read, s, rep, br)
Payment(w, read, s, rep, br) == RequestOf("ecny", w, read, s, rep, br)

NoReports == [t \in ReportType |-> 0]

\* POST /transfers
ReadTransfer(c, w, v, n) ==
    /\ {w, v} \subseteq opened \cap Wallets
    /\ CheckOutgoing(w, n)
    /\ CheckIncoming(v, n)
    /\ CanTransfer(LoadLedger, w, v, n)
    /\ Open(c, Payment(w, {w, v}, Transfer(LoadLedger, w, v, n), Reports(n, FALSE), "none"))
    /\ UNCHANGED <<ledgerVars, walletVars>>

\* A mint that is not compared with the cap.
ReadMintUncapped(c, a, n) ==
    /\ a \in opened
    /\ CanMint(a, n)
    /\ Open(c, Request(Account, Mint(LoadLedger, a, n), NoReports, "none"))
    /\ UNCHANGED <<ledgerVars, walletVars>>

\* POST /issuance, actions mint and burn
ReadMint(c, a, n) ==
    /\ a \in opened
    /\ NetIssuance(bal) + n <= IssuanceCap
    /\ CanMint(a, n)
    /\ Open(c, Request(Account, Mint(LoadLedger, a, n), NoReports, "none"))
    /\ UNCHANGED <<ledgerVars, walletVars>>

ReadBurn(c, a, n) ==
    /\ a \in opened
    /\ CanBurn(LoadLedger, a, n)
    /\ Open(c, Request({a}, Burn(LoadLedger, a, n), NoReports, "none"))
    /\ UNCHANGED <<ledgerVars, walletVars>>

\* actions issue_to_wallet and redeem_from_wallet
ReadExchangeToWallet(c, a, w, n) ==
    /\ w \in opened \cap Wallets
    /\ a \in opened
    /\ CheckIncoming(w, n)
    /\ CanTransfer(LoadLedger, a, w, n)
    /\ Open(c, Request({a, w}, Transfer(LoadLedger, a, w, n), NoReports, "none"))
    /\ UNCHANGED <<ledgerVars, walletVars>>

ReadRedeemFromWallet(c, w, a, n) ==
    /\ w \in opened \cap Wallets
    /\ a \in opened
    /\ bal[w] >= n
    /\ CheckOutgoing(w, n)
    /\ CanTransfer(LoadLedger, w, a, n)
    /\ Open(c, Payment(w, {w, a}, Transfer(LoadLedger, w, a, n), NoReports, "none"))
    /\ UNCHANGED <<ledgerVars, walletVars>>

\* settle_via_cips(), at 1:1
SettleViaCips(c, w, b, n) ==
    /\ CanTransfer(LoadLedger, w, b, n)
    /\ Open(c, Payment(w, {w, b}, Transfer(LoadLedger, w, b, n), Reports(n, TRUE), "settled"))

\* settle_pvp(), at the sandbox rate
SettleViaMbridge(c, w, b, cur, n) ==
    /\ CanExchange(LoadLedger, w, n, Converted(cur, n))
    /\ Open(c, Payment(w, {w, b}, Exchange(LoadLedger, w, b, n, Converted(cur, n)),
                       Reports(n, TRUE), "settled"))

(* POST /cross-border: the caller names any account as the target, a target
   currency, and possibly the channel.  A settlement that fails raises out of
   the endpoint, so its "failed" row and its reports are rolled back. *)
ReadCrossBorder(c, w, b, cur, asked, n) ==
    LET channel == IF asked = "none" THEN RouteCrossBorder(cur) ELSE asked IN
    /\ w \in opened \cap Wallets
    /\ b \in opened
    /\ CheckOutgoing(w, n)
    /\ IF channel = "mbridge" THEN SettleViaMbridge(c, w, b, cur, n) ELSE SettleViaCips(c, w, b, n)
    /\ UNCHANGED <<ledgerVars, walletVars>>

AddReports(rep) == reports' = [t \in ReportType |-> reports[t] + rep[t]]

\* Every request commits its ledger changes, its reports and its bridge row.
CommitRequest(c, op) ==
    /\ req[c].op = op
    /\ Persist(req[c].loaded, req[c].s)
    /\ AddReports(req[c].rep)
    /\ bridged' = [s \in DOMAIN bridged |-> bridged[s] + (IF s = req[c].br THEN 1 ELSE 0)]
    /\ Commit(c, \A a \in req[c].read : req[c].loaded[a] = bal[a] /\ req[c].out[a] = sent[a])
    /\ UNCHANGED <<opened, booked>>

CommitEcny(c) == CommitRequest(c, "ecny")

\* A request that fails with its reports committed on their own.
RollBackKeepsReports(c) ==
    /\ req[c].op = "ecny"
    /\ RollBack(c)
    /\ AddReports(req[c].rep)
    /\ UNCHANGED <<ledgerVars, bridged>>

RollBackEcny(c) ==
    /\ req[c].op = "ecny"
    /\ RollBack(c)
    /\ UNCHANGED <<ledgerVars, walletVars>>

(* The requests of this API.  A caller names any account as the one that is
   minted to or exchanged with, and as the target of a cross-border payment: the
   endpoints only ask that the account is there. *)
EcnyNext(c) ==
    \/ \E w \in Wallets, named \in BOOLEAN, o \in Account \cup {"none"} : OpenWallet(c, w, named, o)
    \/ \E a \in Operators : ProvisionOperator(c, a)
    \/ \E a \in Operators, n \in Amount : SeedForeignAccount(c, a, n)
    \/ \E w, v \in Wallets, n \in Amount : ReadTransfer(c, w, v, n)
    \/ \E a \in Account, n \in Amount : ReadMint(c, a, n)
    \/ \E a \in Account, n \in Amount : ReadBurn(c, a, n)
    \/ \E a \in Account, w \in Wallets, n \in Amount : ReadExchangeToWallet(c, a, w, n)
    \/ \E w \in Wallets, a \in Account, n \in Amount : ReadRedeemFromWallet(c, w, a, n)
    \/ \E w \in Wallets, b \in Account, cur \in DOMAIN Rate, asked \in {"none", "cips", "mbridge"}, n \in Amount :
         ReadCrossBorder(c, w, b, cur, asked, n)
    \/ CommitEcny(c)
    \/ RollBackEcny(c)
-----------------------------------------------------------------------------
ReportRows == [ReportType -> Nat]
BridgeRows == [{"pending", "settled", "failed"} -> Nat]

WalletsTypeOK ==
    /\ LedgerTypeOK
    /\ reports \in ReportRows
    /\ bridged \in BridgeRows

(* TIER_LIMITS "daily": no payment of this API -- a transfer, a redemption or a
   cross-border payment -- takes what has left its payer today over the limit of
   the payer's tier, unless it has overlapped another request (each sums the
   transactions the other has not committed yet).  What the other modules move
   out of the wallet counts towards the limit, and is not held to it; neither is
   issue_to_wallet, which takes the money from whatever account the caller names
   as the operator's. *)
DailyOutgoingWithinLimit ==
    [][ \A c \in Client, w \in Wallets :
          req[c].op = "ecny" /\ req[c].payer = w /\ req'[c] = Idle /\ sent'[w] > sent[w]
            => stale' \/ sent'[w] <= Daily[Tier[w]] ]_<<req, sent, stale>>

(* ISSUANCE_CAP_FEN is compared with where CNY is minted.  Two more ways take it
   into circulation, and no others: a bridge payment, whose credit no cap is
   applied to, and issue_to_wallet when the account it is given is the central
   bank's.  Every other request of this API leaves the outstanding CNY within
   the cap or no higher than before, unless it has overlapped another one.  The
   issuance of the operator rows is compared with their own limits instead. *)
IssuanceStaysWithinCap ==
    [][ \A c \in Client :
          req[c].op = "ecny" /\ req'[c] = Idle
          /\ NetIssuance(bal') > IssuanceCap /\ NetIssuance(bal') > NetIssuance(bal)
            => \/ stale'
               \/ bridged' # bridged
               \/ \E cb \in CentralBanks("CNY") : sent'[cb] > sent[cb]
      ]_<<req, bal, sent, bridged, stale>>

(* Every settled bridge payment has its cross-border report and no report is
   left of one that failed or was rolled back, whatever overlaps. *)
ReportsMatchBridge ==
    /\ reports["cross_border"] = bridged["settled"]
    /\ bridged["pending"] = 0 /\ bridged["failed"] = 0
==============================================================================
