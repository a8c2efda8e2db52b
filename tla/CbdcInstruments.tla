-------------------------- MODULE CbdcInstruments --------------------------
(***************************************************************************)
(* Value held in escrow for an instrument (backend/nextgen/cbdc.py): the   *)
(* offline vouchers, paid out to a merchant once, and the programmable     *)
(* instruments, released in parts under a template's condition.  Each has  *)
(* an escrow account of its own on the e-CNY ledger; the control row says  *)
(* what is still to be paid out, and nothing locks it.  invalidate() and   *)
(* refund() are called by no endpoint and are left out.                    *)
(***************************************************************************)
EXTENDS EcnyWallets

CONSTANTS
    Voucher, Instrument,
    EscrowOf     \* the escrow account of a voucher or an instrument

\* Every one has its own, under an identifier made for it, in CNY.
ASSUME EscrowAssumption ==
    /\ Voucher \cap Instrument = {}
    /\ EscrowOf \in [Voucher \cup Instrument -> Account]
    /\ \A x, y \in Voucher \cup Instrument : EscrowOf[x] = EscrowOf[y] => x = y
    /\ \A x \in Voucher \cup Instrument :
         /\ OwnerType[EscrowOf[x]] \in {"offline_escrow", "program_escrow"}
         /\ CurrencyOf[EscrowOf[x]] = "CNY"

VARIABLES
    voucher,     \* OfflineVoucher rows
    instrument,  \* ProgrammableInstrument rows
    announced    \* committed "ecny.offline.redeemed" events of a voucher

instrumentVars == <<voucher, instrument, announced>>

\* conditions: staged_payment releases at most `max' at a time, expiry releases
\* until a date, the other templates ask the context the caller sends.
Template == {"staged", "expiry", "context"}
NoVoucher == [status |-> "none", amount |-> 0, over |-> FALSE]
NoInstrument == [status |-> "none", amount |-> 0, template |-> "context", max |-> 0, over |-> FALSE]

InstrumentsInit ==
    /\ voucher = [v \in Voucher |-> NoVoucher]
    /\ instrument = [i \in Instrument |-> NoInstrument]
    /\ announced = [v \in Voucher |-> 0]

Allows(row, n, granted) ==
    \/ row.template = "staged" /\ n <= row.max
    \/ row.template = "expiry" /\ ~row.over
    \/ row.template = "context" /\ granted

\* A request on a control row `row' of x that moves n of its escrow.
OnEscrow(op, x, row, read, s, n) ==
    [op |-> op, x |-> x, row |-> row, read |-> read, loaded |-> bal, s |-> s, n |-> n]

\* POST /offline/vouchers: any holder account of a wallet, any amount it has.
ReadIssueVoucher(c, v, w, n) ==
    /\ voucher[v].status = "none"
    /\ w \in opened \cap Wallets
    /\ CanTransfer(LoadLedger, w, EscrowOf[v], n)
    /\ Open(c, OnEscrow("issue", v, voucher[v], {w}, Transfer(LoadLedger, w, EscrowOf[v], n), n))
    /\ UNCHANGED <<ledgerVars, walletVars, instrumentVars>>

CommitIssueVoucher(c) ==
    LET r == req[c] IN
    /\ r.op = "issue"
    /\ voucher[r.x].status = "none"    \* the identifier is new
    /\ Persist(r.loaded, r.s) /\ Book(r.s)
    /\ opened' = opened \cup {EscrowOf[r.x]}
    /\ voucher' = [voucher EXCEPT ![r.x] = [status |-> "issued", amount |-> r.n, over |-> FALSE]]
    /\ Commit(c, \A a \in r.read : r.loaded[a] = bal[a])
    /\ UNCHANGED <<walletVars, instrument, announced>>

(* POST /offline/vouchers/{id}/redeem, with the right nonce.  Past its expiry
   the voucher is marked "expired" and the ValueError that follows rolls the
   mark back, so nothing changes. *)
ReadRedeemVoucher(c, v, m) ==
    /\ voucher[v].status = "issued"
    /\ ~voucher[v].over
    /\ m \in opened \cap Wallets
    /\ CanTransfer(LoadLedger, EscrowOf[v], m, voucher[v].amount)
    /\ Open(c, OnEscrow("redeem", v, voucher[v], {EscrowOf[v], m},
                        Transfer(LoadLedger, EscrowOf[v], m, voucher[v].amount), voucher[v].amount))
    /\ UNCHANGED <<ledgerVars, walletVars, instrumentVars>>

\* The redemption is committed without its mark.
CommitRedeemUnmarked(c) ==
    LET r == req[c] IN
    /\ r.op = "redeem"
    /\ Persist(r.loaded, r.s) /\ Book(r.s)
    /\ announced' = [announced EXCEPT ![r.x] = @ + 1]
    /\ Commit(c, voucher[r.x] = r.row /\ \A a \in r.read : r.loaded[a] = bal[a])
    /\ UNCHANGED <<opened, walletVars, voucher, instrument>>

CommitRedeemVoucher(c) ==
    LET r == req[c] IN
    /\ r.op = "redeem"
    /\ Persist(r.loaded, r.s) /\ Book(r.s)
    /\ voucher' = [voucher EXCEPT ![r.x].status = "redeemed"]
    /\ announced' = [announced EXCEPT ![r.x] = @ + 1]
    /\ Commit(c, voucher[r.x] = r.row /\ \A a \in r.read : r.loaded[a] = bal[a])
    /\ UNCHANGED <<opened, walletVars, instrument>>

\* POST /programmable/instruments
ReadCreateInstrument(c, i, w, n, template, max) ==
    /\ instrument[i].status = "none"
    /\ w \in opened \cap Wallets
    /\ CanTransfer(LoadLedger, w, EscrowOf[i], n)
    /\ Open(c, OnEscrow("create", i, [status |-> "active", amount |-> n, template |-> template,
                                      max |-> max, over |-> FALSE],
                        {w}, Transfer(LoadLedger, w, EscrowOf[i], n), n))
    /\ UNCHANGED <<ledgerVars, walletVars, instrumentVars>>

CommitCreateInstrument(c) ==
    LET r == req[c] IN
    /\ r.op = "create"
    /\ instrument[r.x].status = "none"
    /\ Persist(r.loaded, r.s) /\ Book(r.s)
    /\ opened' = opened \cup {EscrowOf[r.x]}
    /\ instrument' = [instrument EXCEPT ![r.x] = r.row]
    /\ Commit(c, \A a \in r.read : r.loaded[a] = bal[a])
    /\ UNCHANGED <<walletVars, voucher, announced>>

\* POST /programmable/instruments/{id}/execute
ReadExecute(c, i, w, n, granted) ==
    /\ instrument[i].status = "active"
    /\ n > 0 /\ n <= instrument[i].amount
    /\ Allows(instrument[i], n, granted)
    /\ w \in opened \cap Wallets
    /\ CanTransfer(LoadLedger, EscrowOf[i], w, n)
    /\ Open(c, OnEscrow("execute", i, instrument[i], {EscrowOf[i], w},
                        Transfer(LoadLedger, EscrowOf[i], w, n), n))
    /\ UNCHANGED <<ledgerVars, walletVars, instrumentVars>>

\* What execute() has made of the row it read.
Executed(row, n) == [row EXCEPT !.amount = @ - n,
                                !.status = IF row.amount = n THEN "spent" ELSE @]

CommitExecute(c) ==
    LET r == req[c] IN
    /\ r.op = "execute"
    /\ Persist(r.loaded, r.s) /\ Book(r.s)
    /\ instrument' = [instrument EXCEPT
         ![r.x] = Flush(instrument[r.x], r.row, Executed(r.row, r.n))]
    /\ Commit(c, instrument[r.x] = r.row /\ \A a \in r.read : r.loaded[a] = bal[a])
    /\ UNCHANGED <<opened, walletVars, voucher, announced>>

\* The expiry of a voucher or of an instrument passes.
PassExpiry(x) ==
    /\ \/ /\ x \in Voucher /\ voucher[x].status = "issued" /\ ~voucher[x].over
          /\ voucher' = [voucher EXCEPT ![x].over = TRUE]
          /\ UNCHANGED instrument
       \/ /\ x \in Instrument /\ instrument[x].template = "expiry" /\ instrument[x].status = "active"
          /\ ~instrument[x].over
          /\ instrument' = [instrument EXCEPT ![x].over = TRUE]
          /\ UNCHANGED voucher
    /\ UNCHANGED <<requestVars, ledgerVars, walletVars, announced>>

RollBackInstrument(c) ==
    /\ req[c].op \in {"issue", "redeem", "create", "execute"}
    /\ RollBack(c)
    /\ UNCHANGED <<ledgerVars, walletVars, instrumentVars>>

InstrumentNext(c) ==
    \/ \E v \in Voucher, w \in Wallets, n \in Amount : ReadIssueVoucher(c, v, w, n)
    \/ CommitIssueVoucher(c)
    \/ \E v \in Voucher, m \in Wallets : ReadRedeemVoucher(c, v, m)
    \/ CommitRedeemVoucher(c)
    \/ \E i \in Instrument, w \in Wallets, n, max \in Amount, t \in Template :
         ReadCreateInstrument(c, i, w, n, t, max)
    \/ CommitCreateInstrument(c)
    \/ \E i \in Instrument, w \in Wallets, n \in Amount, granted \in BOOLEAN : ReadExecute(c, i, w, n, granted)
    \/ CommitExecute(c)
    \/ RollBackInstrument(c)
-----------------------------------------------------------------------------
VoucherRow == [status : {"none", "issued", "redeemed"}, amount : Nat, over : BOOLEAN]
InstrumentRow == [status : {"none", "active", "spent"}, amount : Nat, template : Template,
                  max : Nat, over : BOOLEAN]

InstrumentsTypeOK ==
    /\ voucher \in [Voucher -> VoucherRow]
    /\ instrument \in [Instrument -> InstrumentRow]
    /\ announced \in [Voucher -> Nat]

(* The escrow account of an instrument holds what its row still promises, but for
   what requests that do not keep count have moved (the endpoints of the wallets
   and of PvP take any account a caller names), and the redemption event of a
   voucher has been written if and only if it has been paid out; as long as no
   request has overlapped another: payout, mark and event are one transaction,
   and an expired voucher is left as it was. *)
EscrowCoversInstruments ==
    ~stale =>
      /\ \A v \in Voucher :
           /\ bal[EscrowOf[v]] = (IF voucher[v].status = "issued" THEN voucher[v].amount ELSE 0)
                                   + Uncounted[EscrowOf[v]]
           /\ announced[v] = IF voucher[v].status = "redeemed" THEN 1 ELSE 0
      /\ \A i \in Instrument :
           /\ bal[EscrowOf[i]] = instrument[i].amount + Uncounted[EscrowOf[i]]
           /\ (instrument[i].status = "spent") => (instrument[i].amount = 0)

(* cbdc.py: "Reserve online value and redeem a device-bound voucher exactly
   once": what the voucher has paid out of its escrow is never more than what it
   has put there. *)
RedeemedOnce == \A v \in Voucher : booked[EscrowOf[v]] >= 0
=============================================================================
