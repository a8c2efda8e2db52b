----------------------------- MODULE EcnySystem -----------------------------
(***************************************************************************)
(* Everything that moves money on the e-CNY ledger, together: the e-CNY    *)
(* API and its bridges, vouchers and programmable instruments, PvP, and    *)
(* the operators' issuance with the Hong Kong wallets.  Requests of all of *)
(* them are open at the same time and meet on the account rows.            *)
(***************************************************************************)
EXTENDS CbdcInstruments, PvpSettlement, OperatorIssuance

ecnyVars == <<requestVars, ledgerVars, walletVars, instrumentVars, pvpVars, issuanceVars>>

Escrows == {EscrowOf[x] : x \in Voucher \cup Instrument}

\* Some accounts are open, an escrow is opened with what it is for, and there
\* is money in open accounts only.
EcnySystemInit ==
    /\ \E allowed \in Nat : RequestsInit(allowed)
    /\ \E accounts \in SUBSET (Account \ Escrows), balances \in AccountRows :
         /\ \A a \in Account \ accounts : balances[a] = 0
         /\ LedgerInit(accounts, balances)
    /\ WalletsInit /\ InstrumentsInit /\ PvpInit /\ IssuanceInit

EcnySystemNext ==
    \/ \E c \in Client : EcnyNext(c) /\ UNCHANGED <<instrumentVars, pvpVars, issuanceVars>>
    \/ \E c \in Client : InstrumentNext(c) /\ UNCHANGED <<pvpVars, issuanceVars>>
    \/ \E c \in Client : PvpNext(c) /\ UNCHANGED <<instrumentVars, issuanceVars>>
    \/ \E c \in Client : IssuanceNext(c) /\ UNCHANGED <<instrumentVars, pvpVars>>
    \/ NewDay /\ UNCHANGED <<instrumentVars, pvpVars, issuanceVars>>
    \/ ExpireQuote /\ UNCHANGED <<instrumentVars, issuanceVars>>
    \/ \E x \in Voucher \cup Instrument : PassExpiry(x) /\ UNCHANGED <<pvpVars, issuanceVars>>

EcnySystemSpec == EcnySystemInit /\ [][EcnySystemNext]_ecnyVars
==============================================================================
