---------------------------- MODULE EcnySystemProofs ----------------------------
(***************************************************************************)
(* Proofs about EcnySystem for every set of clients, accounts, vouchers,   *)
(* instruments and settlements: unless requests overlap, the balance of a  *)
(* CNY account is what its entries come to, whatever part of the platform  *)
(* moved the money; a settlement moves both of its legs or none; and a     *)
(* bridge payment has its report.                                          *)
(*                                                                         *)
(* An account is written as an absolute value and its entries are added,   *)
(* so the invariant says of every open request that its session explains   *)
(* each balance it has changed by the entries it has added (Explains), and *)
(* that these are accounts it has read, which are open (Moves).  The       *)
(* escrow of a new voucher or instrument is not read: it has no money      *)
(* because it is not open yet (Unopened, EscrowsOpen).                     *)
(*                                                                         *)
(* A row keeps count of some entries only: those of the requests that      *)
(* write it, which are booked on the account as well.  Without overlap the *)
(* booked entries of an escrow are what its voucher or instrument counts,  *)
(* and those of the operators' accounts and of the CNY as a whole are what *)
(* the operator rows count (AllCounted); an open request carries what it   *)
(* is about to count (Keeps).  Any other request may move money on the     *)
(* same accounts, whatever accounts its caller names.                      *)
(*                                                                         *)
(* An open request of the e-CNY API carries what it has compared with the  *)
(* limits: what its payer sends is within the daily limit (Limited), and   *)
(* it mints below the cap, or creates outstanding CNY by a bridge payment  *)
(* or out of an account of the central bank, or creates none (Capped).     *)
(***************************************************************************)
EXTENDS EcnySystem, SumTheorems, TLAPS

------------------------------------------------------------------------------
(* The invariant *)

\* The entries of an account of the central bank are a liability.
Holder(a) == OwnerType[a] # "central_bank"

Session == [bal : AccountRows, ent : EntryRows, out : TransactionRows]

\* The session s has added the entries of what it has made of `loaded'.
Explains(s, loaded) ==
    /\ s \in Session
    /\ \A a \in Account : Holder(a) => s.bal[a] = loaded[a] + s.ent[a]

AccountsTyped ==
    /\ opened \subseteq Account
    /\ bal \in AccountRows
    /\ posted \in EntryRows
    /\ booked \in EntryRows
    /\ sent \in TransactionRows

Unopened == \A a \in Account \ opened : bal[a] = 0

EscrowsOpen ==
    /\ InstrumentsTypeOK
    /\ \A v \in Voucher : voucher[v].status = "none" <=> EscrowOf[v] \notin opened
    /\ \A i \in Instrument : instrument[i].status = "none" <=> EscrowOf[i] \notin opened

OperatorsOpen == IssuanceTypeOK /\ DOMAIN issued \subseteq opened

ReportsCounted ==
    /\ reports \in ReportRows
    /\ bridged \in BridgeRows
    /\ ReportsMatchBridge

Balanced == ~stale => \A a \in Account : CurrencyOf[a] = "CNY" /\ Holder(a) => bal[a] = posted[a]

VersionOf(state) == CASE state = "NONE" -> 0 [] state = "CREATED" -> 1 [] state = "LOCKED" -> 2 [] OTHER -> 3

MovedRow == [debit : Nat, credit : Nat, event : Nat]

Settlements ==
    /\ pvp \in [Pvp -> PvpRow]
    /\ \A p \in Pvp : pvp[p].version = VersionOf(pvp[p].state)
    /\ moved \in [Pvp -> MovedRow]
    /\ LegsArePaired

\* A session that may touch the accounts it has read.
Moving == {"ecny", "merchant", "operator", "redeem", "execute"}

Moves(c) == req[c].op \in Moving =>
    /\ req[c].loaded \in AccountRows
    /\ Explains(req[c].s, req[c].loaded)
    /\ \A a \in Account : req[c].s.bal[a] # req[c].loaded[a] => a \in req[c].read \cap opened

\* ... and one that opens an escrow, or adds to one that another has opened.
Funding == {"issue", "create"}

Funds(c) == req[c].op \in Funding =>
    /\ req[c].x \in (IF req[c].op = "issue" THEN Voucher ELSE Instrument)
    /\ req[c].loaded \in AccountRows
    /\ Explains(req[c].s, req[c].loaded)
    /\ req[c].loaded[EscrowOf[req[c].x]] = 0
    /\ \A a \in Account : req[c].s.bal[a] # req[c].loaded[a] =>
         a \in req[c].read \cap opened \/ a = EscrowOf[req[c].x]
    /\ req[c].n \in Nat
    /\ req[c].op = "create" => req[c].row \in InstrumentRow /\ req[c].row.status = "active"

\* A request on an instrument that is there.
Releases(c) ==
    /\ req[c].op = "redeem" => req[c].x \in Voucher /\ voucher[req[c].x].status # "none"
    /\ req[c].op = "execute" =>
         /\ req[c].x \in Instrument /\ instrument[req[c].x].status # "none"
         /\ req[c].row \in InstrumentRow /\ req[c].row.status = "active"
         /\ req[c].n \in Nat /\ req[c].n <= req[c].row.amount

Tells(c) == req[c].op \in {"ecny", "merchant"} =>
    /\ req[c].rep \in ReportRows
    /\ req[c].br \in {"none", "settled"}
    /\ req[c].rep["cross_border"] = (IF req[c].br = "settled" THEN 1 ELSE 0)

OnOperatorRow(c) == req[c].op = "operator" =>
    /\ req[c].a \in DOMAIN issued /\ req[c].row \in Int /\ req[c].d \in Int

Settling == {"pvp_lock", "pvp_commit", "pvp_legs"}

Touches(row) == {row.debit.from, row.debit.to, row.credit.from, row.credit.to}

OnSettlement(c) == req[c].op \in Settling =>
    /\ req[c].p \in Pvp /\ pvp[req[c].p].state # "NONE"
    /\ req[c].row \in PvpRow
    /\ req[c].row.version = VersionOf(req[c].row.state)
    /\ req[c].row.state = (IF req[c].op = "pvp_lock" THEN "CREATED" ELSE "LOCKED")

MovesLegs(c) == req[c].op = "pvp_legs" =>
    /\ req[c].loaded \in AccountRows
    /\ Explains(req[c].done.s, req[c].loaded)
    /\ \A a \in Account : req[c].done.s.bal[a] # req[c].loaded[a] => a \in Touches(req[c].row) \cap opened
    /\ \/ req[c].done.state = "COMMITTED" /\ req[c].done.debit = 1 /\ req[c].done.credit = 1
       \/ req[c].done.state = "ABORTED" /\ req[c].done.debit = 0 /\ req[c].done.credit = 0

Reads(c) == Moves(c) /\ Funds(c) /\ Releases(c) /\ Tells(c) /\ OnOperatorRow(c) /\ OnSettlement(c) /\ MovesLegs(c)

Requests == DOMAIN req = Client /\ stale \in BOOLEAN /\ \A c \in Client : Reads(c)

Rows == AccountsTyped /\ Unopened /\ EscrowsOpen /\ OperatorsOpen /\ ReportsCounted /\ Balanced /\ Settlements

EInv == Rows /\ Requests

------------------------------------------------------------------------------
(* Sessions of the ledger *)

LEMMA LoadExplained ==
    ASSUME AccountsTyped
    PROVE  /\ Explains(LoadLedger, bal)
           /\ LoadLedger.bal = bal
  BY DEF AccountsTyped, Explains, LoadLedger, Session, AccountRows, EntryRows, TransactionRows, Nothing

\* e holds the entries of s after n is posted out of a and m into b.
Posted(e, s, a, n, b, m) ==
    /\ e \in EntryRows
    /\ \A x \in Account : e[x] = s.ent[x] - (IF x = a THEN n ELSE 0) + (IF x = b THEN m ELSE 0)

LEMMA EntriesTyped ==
    ASSUME NEW s \in Session, NEW a \in Account, NEW b \in Account, NEW n \in Int, NEW m \in Int
    PROVE  Posted(AddEntries(s, a, n, b, m), s, a, n, b, m)
<1>1. \A x \in Account : s.ent[x] \in Int
  BY DEF Session, EntryRows
<1> QED
  BY <1>1 DEF Posted, AddEntries, EntryRows

LEMMA TransferExplained ==
    ASSUME NEW loaded \in AccountRows, NEW s, Explains(s, loaded),
           NEW a \in Account, NEW b \in Account, NEW n \in Nat, CanTransfer(s, a, b, n)
    PROVE  /\ Explains(Transfer(s, a, b, n), loaded)
           /\ \A x \in Account \ {a, b} : Transfer(s, a, b, n).bal[x] = s.bal[x]
           /\ Transfer(s, a, b, n).bal[b] = s.bal[b] + n
           /\ Transfer(s, a, b, n).bal[a] = s.bal[a] - n
<1> DEFINE t == Transfer(s, a, b, n)
<1>1. s \in Session /\ a # b /\ s.bal[a] >= n
  BY DEF Explains, CanTransfer
<1>2. /\ AddEntries(s, a, n, b, n) \in EntryRows
      /\ \A x \in Account : AddEntries(s, a, n, b, n)[x] =
           s.ent[x] - (IF x = a THEN n ELSE 0) + (IF x = b THEN n ELSE 0)
  <2>1. s \in Session /\ a \in Account /\ b \in Account /\ n \in Int /\ n \in Int
    BY <1>1
  <2>2. Posted(AddEntries(s, a, n, b, n), s, a, n, b, n)
    BY <2>1, EntriesTyped
  <2> QED
    BY <2>2 DEF Posted
<1>3. /\ t.bal = MoveAmount(s.bal, a, n, b, n)
      /\ t.ent = AddEntries(s, a, n, b, n)
      /\ t.out = [s.out EXCEPT ![a] = @ + n]
      /\ t = [bal |-> t.bal, ent |-> t.ent, out |-> t.out]
  BY DEF Transfer
<1>4. /\ s.bal \in [Account -> Nat] /\ s.out \in [Account -> Nat] /\ s.ent \in [Account -> Int]
      /\ loaded \in [Account -> Nat]
  BY <1>1 DEF Session, AccountRows, TransactionRows, EntryRows
<1>5. /\ t.bal \in [Account -> Nat]
      /\ \A x \in Account : t.bal[x] = s.bal[x] - (IF x = a THEN n ELSE 0) + (IF x = b THEN n ELSE 0)
  BY <1>1, <1>3, <1>4 DEF MoveAmount
<1>6. t.out \in [Account -> Nat]
  BY <1>3, <1>4
<1>7. t \in Session
  BY <1>2, <1>3, <1>5, <1>6 DEF Session, AccountRows, TransactionRows
<1>8. \A x \in Account : Holder(x) => t.bal[x] = loaded[x] + t.ent[x]
  <2> SUFFICES ASSUME NEW x \in Account, Holder(x) PROVE t.bal[x] = loaded[x] + t.ent[x]
    OBVIOUS
  <2>1. s.bal[x] = loaded[x] + s.ent[x]
    BY DEF Explains
  <2>2. t.ent[x] = s.ent[x] - (IF x = a THEN n ELSE 0) + (IF x = b THEN n ELSE 0)
    BY <1>2, <1>3
  <2> HIDE DEF t
  <2> QED
    BY <1>4, <1>5, <2>1, <2>2
<1>9. Explains(t, loaded)
  BY <1>7, <1>8 DEF Explains
<1> HIDE DEF t
<1>10. t.bal[b] = s.bal[b] + n /\ t.bal[a] = s.bal[a] - n /\ \A x \in Account \ {a, b} : t.bal[x] = s.bal[x]
  BY <1>1, <1>4, <1>5
<1> QED
  BY <1>9, <1>10 DEF t

LEMMA CentralBank ==
    ASSUME NEW a \in Account, NEW n, CanMint(a, n)
    PROVE  LET cb == CHOOSE x \in CentralBanks(CurrencyOf[a]) : TRUE IN cb \in Account /\ ~Holder(cb) /\ Holder(a)
  BY DEF CanMint, CentralBanks, Holder

LEMMA MintExplained ==
    ASSUME NEW loaded \in AccountRows, NEW s, Explains(s, loaded),
           NEW a \in Account, NEW n \in Nat, CanMint(a, n)
    PROVE  /\ Explains(Mint(s, a, n), loaded)
           /\ \A x \in Account \ {a} : Mint(s, a, n).bal[x] = s.bal[x]
           /\ Mint(s, a, n).bal[a] = s.bal[a] + n
<1> DEFINE t == Mint(s, a, n)
           cb == CHOOSE x \in CentralBanks(CurrencyOf[a]) : TRUE
<1>1. s \in Session /\ cb \in Account /\ ~Holder(cb) /\ Holder(a)
  BY CentralBank DEF Explains
<1>2. /\ t.bal = [s.bal EXCEPT ![a] = @ + n]
      /\ t.ent = AddEntries(s, cb, n, a, n)
      /\ t.out = s.out
      /\ t = [bal |-> t.bal, ent |-> t.ent, out |-> t.out]
  BY DEF Mint
<1> HIDE DEF cb, t
<1>3. /\ AddEntries(s, cb, n, a, n) \in EntryRows
      /\ \A x \in Account : AddEntries(s, cb, n, a, n)[x] =
           s.ent[x] - (IF x = cb THEN n ELSE 0) + (IF x = a THEN n ELSE 0)
  <2>1. s \in Session /\ cb \in Account /\ a \in Account /\ n \in Int /\ n \in Int
    BY <1>1
  <2>2. Posted(AddEntries(s, cb, n, a, n), s, cb, n, a, n)
    BY <2>1, EntriesTyped
  <2> QED
    BY <2>2 DEF Posted
<1>4. /\ s.bal \in [Account -> Nat] /\ s.ent \in [Account -> Int] /\ s.out \in TransactionRows
      /\ loaded \in [Account -> Nat]
  BY <1>1 DEF Session, AccountRows, EntryRows
<1>5. /\ t.bal \in AccountRows
      /\ \A x \in Account : t.bal[x] = s.bal[x] + (IF x = a THEN n ELSE 0)
  BY <1>2, <1>4 DEF AccountRows
<1>6. t \in Session
  BY <1>2, <1>3, <1>4, <1>5 DEF Session
<1>7. \A x \in Account : Holder(x) => t.bal[x] = loaded[x] + t.ent[x]
  <2> SUFFICES ASSUME NEW x \in Account, Holder(x) PROVE t.bal[x] = loaded[x] + t.ent[x]
    OBVIOUS
  <2>1. s.bal[x] = loaded[x] + s.ent[x] /\ x # cb
    BY <1>1 DEF Explains
  <2>2. t.ent[x] = s.ent[x] + (IF x = a THEN n ELSE 0)
    BY <1>2, <1>3, <1>4, <2>1
  <2> QED
    BY <1>4, <1>5, <2>1, <2>2
<1>8. Explains(t, loaded)
  BY <1>6, <1>7 DEF Explains
<1>9. t.bal[a] = s.bal[a] + n /\ \A x \in Account \ {a} : t.bal[x] = s.bal[x]
  BY <1>4, <1>5
<1> QED
  BY <1>8, <1>9 DEF t

LEMMA BurnExplained ==
    ASSUME NEW loaded \in AccountRows, NEW s, Explains(s, loaded),
           NEW a \in Account, NEW n \in Nat, CanBurn(s, a, n)
    PROVE  /\ Explains(Burn(s, a, n), loaded)
           /\ \A x \in Account \ {a} : Burn(s, a, n).bal[x] = s.bal[x]
<1> DEFINE t == Burn(s, a, n)
           cb == CHOOSE x \in CentralBanks(CurrencyOf[a]) : TRUE
<1>1. s \in Session /\ cb \in Account /\ ~Holder(cb) /\ Holder(a) /\ s.bal[a] >= n
  BY CentralBank DEF Explains, CanBurn
<1>2. /\ t.bal = [s.bal EXCEPT ![a] = @ - n]
      /\ t.ent = AddEntries(s, a, n, cb, n)
      /\ t.out = [s.out EXCEPT ![a] = @ + n]
      /\ t = [bal |-> t.bal, ent |-> t.ent, out |-> t.out]
  BY DEF Burn
<1> HIDE DEF cb, t
<1>3. /\ AddEntries(s, a, n, cb, n) \in EntryRows
      /\ \A x \in Account : AddEntries(s, a, n, cb, n)[x] =
           s.ent[x] - (IF x = a THEN n ELSE 0) + (IF x = cb THEN n ELSE 0)
  <2>1. s \in Session /\ a \in Account /\ cb \in Account /\ n \in Int /\ n \in Int
    BY <1>1
  <2>2. Posted(AddEntries(s, a, n, cb, n), s, a, n, cb, n)
    BY <2>1, EntriesTyped
  <2> QED
    BY <2>2 DEF Posted
<1>4. /\ s.bal \in [Account -> Nat] /\ s.ent \in [Account -> Int] /\ s.out \in [Account -> Nat]
      /\ loaded \in [Account -> Nat]
  BY <1>1 DEF Session, AccountRows, EntryRows, TransactionRows
<1>5. /\ t.bal \in AccountRows
      /\ \A x \in Account : t.bal[x] = s.bal[x] - (IF x = a THEN n ELSE 0)
  BY <1>1, <1>2, <1>4 DEF AccountRows
<1>6. t.out \in TransactionRows
  BY <1>2, <1>4 DEF TransactionRows
<1>7. t \in Session
  BY <1>2, <1>3, <1>5, <1>6 DEF Session
<1>8. \A x \in Account : Holder(x) => t.bal[x] = loaded[x] + t.ent[x]
  <2> SUFFICES ASSUME NEW x \in Account, Holder(x) PROVE t.bal[x] = loaded[x] + t.ent[x]
    OBVIOUS
  <2>1. s.bal[x] = loaded[x] + s.ent[x] /\ x # cb
    BY <1>1 DEF Explains
  <2>2. t.ent[x] = s.ent[x] - (IF x = a THEN n ELSE 0)
    BY <1>2, <1>3, <1>4, <2>1
  <2> QED
    BY <1>4, <1>5, <2>1, <2>2
<1>9. Explains(t, loaded)
  BY <1>7, <1>8 DEF Explains
<1>10. \A x \in Account \ {a} : t.bal[x] = s.bal[x]
  BY <1>4, <1>5
<1> QED
  BY <1>9, <1>10 DEF t

\* The accounts of an exchange may be one and the same.
LEMMA ExchangeExplained ==
    ASSUME NEW loaded \in AccountRows, NEW s, Explains(s, loaded),
           NEW a \in Account, NEW b \in Account, NEW n \in Nat, NEW m \in Nat, CanExchange(s, a, n, m)
    PROVE  /\ Explains(Exchange(s, a, b, n, m), loaded)
           /\ \A x \in Account \ {a, b} : Exchange(s, a, b, n, m).bal[x] = s.bal[x]
<1> DEFINE t == Exchange(s, a, b, n, m)
<1>1. s \in Session /\ s.bal[a] >= n
  BY DEF Explains, CanExchange
<1>2. /\ t.bal = MoveAmount(s.bal, a, n, b, m)
      /\ t.ent = AddEntries(s, a, n, b, m)
      /\ t.out = [s.out EXCEPT ![a] = @ + n]
      /\ t = [bal |-> t.bal, ent |-> t.ent, out |-> t.out]
  BY DEF Exchange
<1> HIDE DEF t
<1>3. /\ AddEntries(s, a, n, b, m) \in EntryRows
      /\ \A x \in Account : AddEntries(s, a, n, b, m)[x] =
           s.ent[x] - (IF x = a THEN n ELSE 0) + (IF x = b THEN m ELSE 0)
  <2>1. s \in Session /\ a \in Account /\ b \in Account /\ n \in Int /\ m \in Int
    BY <1>1
  <2>2. Posted(AddEntries(s, a, n, b, m), s, a, n, b, m)
    BY <2>1, EntriesTyped
  <2> QED
    BY <2>2 DEF Posted
<1>4. /\ s.bal \in [Account -> Nat] /\ s.out \in [Account -> Nat] /\ s.ent \in [Account -> Int]
      /\ loaded \in [Account -> Nat]
  BY <1>1 DEF Session, AccountRows, TransactionRows, EntryRows
<1>5. /\ t.bal \in AccountRows
      /\ \A x \in Account : t.bal[x] = s.bal[x] - (IF x = a THEN n ELSE 0) + (IF x = b THEN m ELSE 0)
  BY <1>1, <1>2, <1>4 DEF AccountRows, MoveAmount
<1>6. t.out \in TransactionRows
  BY <1>2, <1>4 DEF TransactionRows
<1>7. t \in Session
  BY <1>2, <1>3, <1>5, <1>6 DEF Session
<1>8. \A x \in Account : Holder(x) => t.bal[x] = loaded[x] + t.ent[x]
  <2> SUFFICES ASSUME NEW x \in Account, Holder(x) PROVE t.bal[x] = loaded[x] + t.ent[x]
    OBVIOUS
  <2>1. s.bal[x] = loaded[x] + s.ent[x]
    BY DEF Explains
  <2>2. t.ent[x] = s.ent[x] - (IF x = a THEN n ELSE 0) + (IF x = b THEN m ELSE 0)
    BY <1>2, <1>3
  <2> QED
    BY <1>4, <1>5, <2>1, <2>2
<1>9. Explains(t, loaded)
  BY <1>7, <1>8 DEF Explains
<1>10. \A x \in Account \ {a, b} : t.bal[x] = s.bal[x]
  BY <1>4, <1>5
<1> QED
  BY <1>9, <1>10 DEF t

------------------------------------------------------------------------------
(* What a commit of the ledger keeps *)

\* What the session s adds is counted by another row, or not.
Counts(s) == Book(s) \/ UNCHANGED booked

LEMMA PersistTyped ==
    ASSUME AccountsTyped, NEW loaded \in AccountRows, NEW s, Explains(s, loaded), Persist(loaded, s), Counts(s),
           opened' \subseteq Account
    PROVE  AccountsTyped'
<1>1. /\ bal \in [Account -> Nat] /\ s.bal \in [Account -> Nat]
      /\ s.ent \in [Account -> Int] /\ s.out \in [Account -> Nat] /\ sent \in [Account -> Nat]
  BY DEF AccountsTyped, Explains, Session, AccountRows, EntryRows, TransactionRows
<1>2. bal' \in AccountRows
  BY <1>1 DEF Persist, Flush, AccountRows
<1>3. posted' \in EntryRows
  BY <1>1 DEF Persist, AccountsTyped, EntryRows
<1>4. sent' \in TransactionRows
  BY <1>1 DEF Persist, TransactionRows
<1>5. booked' \in EntryRows
  BY <1>1 DEF Counts, Book, AccountsTyped, EntryRows
<1> QED
  BY <1>2, <1>3, <1>4, <1>5 DEF AccountsTyped

LEMMA PersistUnopened ==
    ASSUME AccountsTyped, Unopened, NEW loaded \in AccountRows, NEW s, Explains(s, loaded), Persist(loaded, s),
           opened \subseteq opened',
           \A a \in Account : s.bal[a] # loaded[a] => a \in opened'
    PROVE  Unopened'
<1>1. DOMAIN bal = Account
  BY DEF AccountsTyped, AccountRows
<1>2. \A a \in Account : s.bal[a] = loaded[a] => bal'[a] = bal[a]
  BY <1>1 DEF Persist, Flush
<1> QED
  BY <1>2 DEF Unopened

\* On the rows it has read, a session adds to a balance what it adds in entries.
LEMMA PersistBalanced ==
    ASSUME AccountsTyped, NEW loaded \in AccountRows, NEW s, Explains(s, loaded), Persist(loaded, s),
           NEW a \in Account, Holder(a),
           bal[a] = posted[a],
           s.bal[a] # loaded[a] => bal[a] = loaded[a]
    PROVE  bal'[a] = posted'[a]
<1>1. /\ bal[a] \in Nat /\ s.bal[a] \in Nat /\ loaded[a] \in Nat /\ s.ent[a] \in Int
      /\ posted[a] \in Int
      /\ DOMAIN bal = Account
  BY DEF AccountsTyped, Explains, Session, AccountRows, EntryRows
<1>2. s.bal[a] = loaded[a] + s.ent[a]
  BY DEF Explains
<1>3. posted'[a] = posted[a] + s.ent[a]
  BY DEF Persist
<1>4. bal'[a] = IF s.bal[a] # loaded[a] THEN s.bal[a] ELSE bal[a]
  BY <1>1 DEF Persist, Flush
<1> QED
  BY <1>1, <1>2, <1>3, <1>4

------------------------------------------------------------------------------
(* Requests *)

LEMMA IdleReads ==
    ASSUME NEW c \in Client, req'[c] = Idle
    PROVE  Reads(c)'
<1>1. req'[c].op = "idle"
  BY DEF Idle
<1> QED
  BY <1>1 DEF Reads, Moves, Funds, Releases, Tells, OnOperatorRow, OnSettlement, MovesLegs,
              Moving, Funding, Settling

\* What the other requests rely on is only added to.
Grows ==
    /\ opened \subseteq opened'
    /\ \A v \in Voucher : voucher[v].status # "none" => voucher'[v].status # "none"
    /\ \A i \in Instrument : instrument[i].status # "none" => instrument'[i].status # "none"
    /\ \A p \in Pvp : pvp[p].state # "NONE" => pvp'[p].state # "NONE"
    /\ DOMAIN issued \subseteq DOMAIN issued'

LEMMA OtherReads ==
    ASSUME NEW d \in Client, Reads(d), req'[d] = req[d], Grows
    PROVE  Reads(d)'
<1>1. Moves(d)'
  BY DEF Reads, Moves, Explains, Grows
<1>2. Funds(d)'
  BY DEF Reads, Funds, Explains, Grows
<1>3. Releases(d)'
  BY DEF Reads, Releases, Grows
<1>4. Tells(d)' /\ OnOperatorRow(d)'
  BY DEF Reads, Tells, OnOperatorRow, Grows
<1>5. OnSettlement(d)'
  BY DEF Reads, OnSettlement, Grows
<1>6. MovesLegs(d)'
  BY DEF Reads, MovesLegs, Explains, Grows
<1> QED
  BY <1>1, <1>2, <1>3, <1>4, <1>5, <1>6 DEF Reads

LEMMA RequestsKept ==
    ASSUME Requests, NEW c \in Client, DOMAIN req' = Client,
           \A d \in Client \ {c} : req'[d] = req[d],
           Reads(c)', stale' \in BOOLEAN, Grows
    PROVE  Requests'
<1>1. \A d \in Client \ {c} : Reads(d)'
  BY OtherReads DEF Requests
<1> QED
  BY <1>1 DEF Requests

LEMMA OpenReq ==
    ASSUME NEW c \in Client, NEW r, Requests, Open(c, r)
    PROVE  /\ DOMAIN req' = Client /\ req'[c] = r
           /\ \A d \in Client \ {c} : req'[d] = req[d]
           /\ stale' = stale
  BY DEF Requests, Open

LEMMA ReadOnReq ==
    ASSUME NEW c \in Client, NEW r, Requests, ReadOn(c, r)
    PROVE  /\ DOMAIN req' = Client /\ req'[c] = r
           /\ \A d \in Client \ {c} : req'[d] = req[d]
           /\ stale' = stale
  BY DEF Requests, ReadOn

LEMMA CommitReq ==
    ASSUME NEW c \in Client, NEW fresh, Requests, Commit(c, fresh)
    PROVE  /\ DOMAIN req' = Client /\ req'[c] = Idle
           /\ \A d \in Client \ {c} : req'[d] = req[d]
           /\ stale' \in BOOLEAN
           /\ ~stale' => ~stale /\ fresh
<1>1. stale \in BOOLEAN /\ stale' = (stale \/ ~fresh)
  BY DEF Requests, Commit
<1>2. stale' \in BOOLEAN
  BY <1>1
<1> QED
  BY <1>1, <1>2 DEF Requests, Commit

rowVars == <<ledgerVars, walletVars, instrumentVars, pvpVars, issuanceVars>>

LEMMA RowsStay ==
    ASSUME Rows, UNCHANGED <<rowVars, stale>>
    PROVE  Rows' /\ Grows
<1> USE DEF rowVars, ledgerVars, walletVars, instrumentVars, pvpVars, issuanceVars
<1>1. AccountsTyped' /\ Unopened'
  BY DEF Rows, AccountsTyped, Unopened
<1>2. EscrowsOpen' /\ OperatorsOpen'
  BY DEF Rows, EscrowsOpen, OperatorsOpen, InstrumentsTypeOK, IssuanceTypeOK, OperatorRows
<1>3. ReportsCounted' /\ Balanced'
  BY DEF Rows, ReportsCounted, ReportsMatchBridge, Balanced
<1>4. Settlements'
  BY DEF Rows, Settlements, LegsArePaired
<1>5. Grows
  BY DEF Grows
<1> QED
  BY <1>1, <1>2, <1>3, <1>4, <1>5 DEF Rows

\* A request that reads: its rows stay, and it has read what it says.
LEMMA ReadKeeps ==
    ASSUME EInv, NEW c \in Client, NEW r, Open(c, r) \/ ReadOn(c, r), UNCHANGED rowVars,
           req'[c] = r => Reads(c)'
    PROVE  EInv'
<1>1. Rows /\ Requests
  BY DEF EInv
<1>2. /\ DOMAIN req' = Client /\ req'[c] = r
      /\ \A d \in Client \ {c} : req'[d] = req[d]
      /\ stale' = stale
  BY <1>1, OpenReq, ReadOnReq
<1>3. Rows' /\ Grows
  BY <1>1, <1>2, RowsStay
<1>4. stale' \in BOOLEAN
  BY <1>1, <1>2 DEF Requests
<1>5. Requests'
  BY <1>1, <1>2, <1>3, <1>4, RequestsKept
<1> QED
  BY <1>3, <1>5 DEF EInv

LEMMA RollBackKeeps ==
    ASSUME EInv, NEW c \in Client, RollBack(c), UNCHANGED rowVars
    PROVE  EInv'
<1>1. Rows /\ Requests
  BY DEF EInv
<1>2. /\ DOMAIN req' = Client /\ req'[c] = Idle
      /\ \A d \in Client \ {c} : req'[d] = req[d]
      /\ stale' = stale
  BY <1>1 DEF Requests, RollBack
<1>3. Rows' /\ Grows
  BY <1>1, <1>2, RowsStay
<1>4. stale' \in BOOLEAN
  BY <1>1, <1>2 DEF Requests
<1>5. Requests'
  BY <1>1, <1>2, <1>3, <1>4, RequestsKept, IdleReads
<1> QED
  BY <1>3, <1>5 DEF EInv

\* A request that commits, or writes in one go.
LEMMA CommitKeeps ==
    ASSUME EInv, NEW c \in Client, NEW fresh, Commit(c, fresh), Rows', Grows
    PROVE  EInv'
<1>1. Requests
  BY DEF EInv
<1>2. /\ DOMAIN req' = Client /\ req'[c] = Idle
      /\ \A d \in Client \ {c} : req'[d] = req[d]
      /\ stale' \in BOOLEAN
  BY <1>1, CommitReq
<1> QED
  BY <1>1, <1>2, RequestsKept, IdleReads DEF EInv

LEMMA AtOnceKeeps ==
    ASSUME EInv, UNCHANGED <<req, stale>>, Rows', Grows
    PROVE  EInv'
<1>1. Requests
  BY DEF EInv
<1>2. \A d \in Client : Reads(d)'
  BY <1>1, OtherReads DEF Requests
<1> QED
  BY <1>1, <1>2 DEF EInv, Requests

------------------------------------------------------------------------------
(* Requests that read the ledger *)

LEMMA SessionOfTransfer ==
    ASSUME AccountsTyped, NEW a \in Account, NEW b \in Account, NEW n \in Nat, CanTransfer(LoadLedger, a, b, n)
    PROVE  /\ Explains(Transfer(LoadLedger, a, b, n), bal)
           /\ \A x \in Account : Transfer(LoadLedger, a, b, n).bal[x] # bal[x] => x \in {a, b}
<1>1. Explains(LoadLedger, bal) /\ LoadLedger.bal = bal /\ bal \in AccountRows
  BY LoadExplained DEF AccountsTyped
<1>2. /\ Explains(Transfer(LoadLedger, a, b, n), bal)
      /\ \A x \in Account \ {a, b} : Transfer(LoadLedger, a, b, n).bal[x] = LoadLedger.bal[x]
  BY <1>1, TransferExplained
<1> QED
  BY <1>1, <1>2

LEMMA SessionOfMint ==
    ASSUME AccountsTyped, NEW a \in Account, NEW n \in Nat, CanMint(a, n)
    PROVE  /\ Explains(Mint(LoadLedger, a, n), bal)
           /\ \A x \in Account : Mint(LoadLedger, a, n).bal[x] # bal[x] => x = a
<1>1. Explains(LoadLedger, bal) /\ LoadLedger.bal = bal /\ bal \in AccountRows
  BY LoadExplained DEF AccountsTyped
<1>2. /\ Explains(Mint(LoadLedger, a, n), bal)
      /\ \A x \in Account \ {a} : Mint(LoadLedger, a, n).bal[x] = LoadLedger.bal[x]
  BY <1>1, MintExplained
<1> QED
  BY <1>1, <1>2

LEMMA SessionOfBurn ==
    ASSUME AccountsTyped, NEW a \in Account, NEW n \in Nat, CanBurn(LoadLedger, a, n)
    PROVE  /\ Explains(Burn(LoadLedger, a, n), bal)
           /\ \A x \in Account : Burn(LoadLedger, a, n).bal[x] # bal[x] => x = a
<1>1. Explains(LoadLedger, bal) /\ LoadLedger.bal = bal /\ bal \in AccountRows
  BY LoadExplained DEF AccountsTyped
<1>2. /\ Explains(Burn(LoadLedger, a, n), bal)
      /\ \A x \in Account \ {a} : Burn(LoadLedger, a, n).bal[x] = LoadLedger.bal[x]
  BY <1>1, BurnExplained
<1> QED
  BY <1>1, <1>2

LEMMA SessionOfExchange ==
    ASSUME AccountsTyped, NEW a \in Account, NEW b \in Account, NEW n \in Nat, NEW m \in Nat,
           CanExchange(LoadLedger, a, n, m)
    PROVE  /\ Explains(Exchange(LoadLedger, a, b, n, m), bal)
           /\ \A x \in Account : Exchange(LoadLedger, a, b, n, m).bal[x] # bal[x] => x \in {a, b}
<1>1. Explains(LoadLedger, bal) /\ LoadLedger.bal = bal /\ bal \in AccountRows
  BY LoadExplained DEF AccountsTyped
<1>2. /\ Explains(Exchange(LoadLedger, a, b, n, m), bal)
      /\ \A x \in Account \ {a, b} : Exchange(LoadLedger, a, b, n, m).bal[x] = LoadLedger.bal[x]
  BY <1>1, ExchangeExplained
<1> QED
  BY <1>1, <1>2

\* The session of a top-up: a mint, then a transfer of what it has minted.
LEMMA SessionOfTopUp ==
    ASSUME AccountsTyped, NEW a \in Account, NEW w \in Account, NEW n \in Nat, CanMint(a, n),
           CanTransfer(Mint(LoadLedger, a, n), a, w, n)
    PROVE  /\ Explains(Transfer(Mint(LoadLedger, a, n), a, w, n), bal)
           /\ \A x \in Account : Transfer(Mint(LoadLedger, a, n), a, w, n).bal[x] # bal[x] => x \in {a, w}
<1> DEFINE s == Mint(LoadLedger, a, n)
<1>1. Explains(s, bal) /\ \A x \in Account : s.bal[x] # bal[x] => x = a
  BY SessionOfMint
<1>2. bal \in AccountRows /\ CanTransfer(s, a, w, n)
  BY DEF AccountsTyped
<1> HIDE DEF s
<1>3. /\ Explains(Transfer(s, a, w, n), bal)
      /\ \A x \in Account \ {a, w} : Transfer(s, a, w, n).bal[x] = s.bal[x]
  BY <1>1, <1>2, TransferExplained
<1>4. \A x \in Account : Transfer(s, a, w, n).bal[x] # bal[x] => x \in {a, w}
  BY <1>1, <1>3
<1> QED
  BY <1>3, <1>4 DEF s

LEMMA ReportsTyped ==
    /\ \A n : Reports(n, FALSE) \in ReportRows /\ Reports(n, FALSE)["cross_border"] = 0
    /\ \A n : Reports(n, TRUE) \in ReportRows /\ Reports(n, TRUE)["cross_border"] = 1
    /\ NoReports \in ReportRows /\ NoReports["cross_border"] = 0
  BY DEF Reports, NoReports, ReportRows, ReportType

\* A request of the e-CNY API, or a merchant payment.
LEMMA EcnyRead ==
    ASSUME EInv, NEW c \in Client, NEW op \in {"ecny", "merchant"}, NEW payer, NEW read, NEW s, NEW rep \in ReportRows,
           NEW br \in {"none", "settled"}, rep["cross_border"] = (IF br = "settled" THEN 1 ELSE 0),
           Explains(s, bal), \A a \in Account : s.bal[a] # bal[a] => a \in read \cap opened,
           Open(c, RequestOf(op, payer, read, s, rep, br)), UNCHANGED rowVars
    PROVE  EInv'
<1> DEFINE r == RequestOf(op, payer, read, s, rep, br)
<1>1. /\ r.op = op /\ r.read = read /\ r.loaded = bal /\ r.s = s /\ r.rep = rep /\ r.br = br
  BY DEF RequestOf
<1>2. op \notin Funding /\ op \notin {"redeem", "execute", "operator"} /\ op \notin Settling
  BY DEF Funding, Settling
<1>3. bal \in AccountRows /\ opened' = opened
  BY DEF EInv, Rows, AccountsTyped, rowVars, ledgerVars
<1>4. ASSUME req'[c] = r PROVE Reads(c)'
  <2> HIDE DEF r
  <2>1. Moves(c)'
    BY <1>1, <1>3, <1>4 DEF Moves, Explains
  <2>2. Tells(c)'
    BY <1>1, <1>4 DEF Tells
  <2>3. Funds(c)' /\ Releases(c)' /\ OnOperatorRow(c)' /\ OnSettlement(c)' /\ MovesLegs(c)'
    BY <1>1, <1>2, <1>4 DEF Funds, Releases, OnOperatorRow, OnSettlement, MovesLegs, Settling
  <2> QED
    BY <2>1, <2>2, <2>3 DEF Reads
<1> HIDE DEF r
<1>5. Open(c, r)
  BY DEF r
<1> QED
  BY <1>4, <1>5, ReadKeeps

\* A request on an operator row.
LEMMA OperatorRead ==
    ASSUME EInv, NEW c \in Client, NEW a \in DOMAIN issued, NEW d \in Int, NEW read, NEW s, NEW top,
           Explains(s, bal), \A x \in Account : s.bal[x] # bal[x] => x \in read \cap opened,
           Open(c, OnOperator(a, d, read, s, top)), UNCHANGED rowVars
    PROVE  EInv'
<1> DEFINE r == OnOperator(a, d, read, s, top)
<1>1. /\ r.op = "operator" /\ r.read = read /\ r.loaded = bal /\ r.s = s /\ r.a = a
      /\ r.row = issued[a] /\ r.d = d
  BY DEF OnOperator
<1>2. /\ bal \in AccountRows /\ opened' = opened /\ issued' = issued /\ issued[a] \in Int
  BY DEF EInv, Rows, AccountsTyped, rowVars, ledgerVars, issuanceVars, OperatorsOpen, IssuanceTypeOK, OperatorRows
<1>3. ASSUME req'[c] = r PROVE Reads(c)'
  <2> HIDE DEF r
  <2>1. Moves(c)'
    BY <1>1, <1>2, <1>3 DEF Moves, Explains
  <2>2. OnOperatorRow(c)'
    BY <1>1, <1>2, <1>3 DEF OnOperatorRow
  <2>3. Funds(c)' /\ Releases(c)' /\ Tells(c)' /\ OnSettlement(c)' /\ MovesLegs(c)'
    BY <1>1, <1>3 DEF Funds, Funding, Releases, Tells, OnSettlement, MovesLegs, Settling
  <2> QED
    BY <2>1, <2>2, <2>3 DEF Reads
<1> HIDE DEF r
<1>4. Open(c, r)
  BY DEF r
<1> QED
  BY <1>3, <1>4, ReadKeeps

\* A request on an instrument that is there.
LEMMA ReleaseRead ==
    ASSUME EInv, NEW c \in Client, NEW op \in {"redeem", "execute"}, NEW x, NEW row, NEW read, NEW s, NEW n,
           op = "redeem" => x \in Voucher /\ voucher[x].status # "none",
           op = "execute" => /\ x \in Instrument /\ instrument[x].status # "none"
                             /\ row \in InstrumentRow /\ row.status = "active"
                             /\ n \in Nat /\ n <= row.amount,
           Explains(s, bal), \A a \in Account : s.bal[a] # bal[a] => a \in read \cap opened,
           Open(c, OnEscrow(op, x, row, read, s, n)), UNCHANGED rowVars
    PROVE  EInv'
<1> DEFINE r == OnEscrow(op, x, row, read, s, n)
<1>1. /\ r.op = op /\ r.x = x /\ r.row = row /\ r.read = read /\ r.loaded = bal /\ r.s = s /\ r.n = n
  BY DEF OnEscrow
<1>2. bal \in AccountRows /\ opened' = opened /\ voucher' = voucher /\ instrument' = instrument
  BY DEF EInv, Rows, AccountsTyped, rowVars, ledgerVars, instrumentVars
<1>3. ASSUME req'[c] = r PROVE Reads(c)'
  <2> HIDE DEF r
  <2>1. Moves(c)'
    BY <1>1, <1>2, <1>3 DEF Moves, Explains
  <2>2. Releases(c)'
    BY <1>1, <1>2, <1>3 DEF Releases
  <2>3. Funds(c)' /\ OnOperatorRow(c)' /\ Tells(c)' /\ OnSettlement(c)' /\ MovesLegs(c)'
    BY <1>1, <1>3 DEF Funds, Funding, OnOperatorRow, Tells, OnSettlement, MovesLegs, Settling
  <2> QED
    BY <2>1, <2>2, <2>3 DEF Reads
<1> HIDE DEF r
<1>4. Open(c, r)
  BY DEF r
<1> QED
  BY <1>3, <1>4, ReadKeeps

\* A request that funds an escrow of its own.
LEMMA FundRead ==
    ASSUME EInv, NEW c \in Client, NEW op \in {"issue", "create"}, NEW x, NEW row, NEW read, NEW s, NEW n \in Nat,
           op = "issue" => x \in Voucher,
           op = "create" => x \in Instrument /\ row \in InstrumentRow /\ row.status = "active",
           EscrowOf[x] \in Account \ opened,
           Explains(s, bal), \A a \in Account : s.bal[a] # bal[a] => a \in read \cap opened \/ a = EscrowOf[x],
           Open(c, OnEscrow(op, x, row, read, s, n)), UNCHANGED rowVars
    PROVE  EInv'
<1> DEFINE r == OnEscrow(op, x, row, read, s, n)
<1>1. /\ r.op = op /\ r.x = x /\ r.row = row /\ r.read = read /\ r.loaded = bal /\ r.s = s /\ r.n = n
  BY DEF OnEscrow
<1>2. /\ bal \in AccountRows /\ opened' = opened /\ bal[EscrowOf[x]] = 0
      /\ op \notin Moving
  BY DEF EInv, Rows, AccountsTyped, Unopened, rowVars, ledgerVars, Moving
<1>3. ASSUME req'[c] = r PROVE Reads(c)'
  <2> HIDE DEF r
  <2>1. Funds(c)'
    BY <1>1, <1>2, <1>3 DEF Funds, Explains
  <2>2. Moves(c)' /\ Releases(c)' /\ OnOperatorRow(c)' /\ Tells(c)' /\ OnSettlement(c)' /\ MovesLegs(c)'
    BY <1>1, <1>2, <1>3 DEF Moves, Releases, OnOperatorRow, Tells, OnSettlement, MovesLegs, Settling
  <2> QED
    BY <2>1, <2>2 DEF Reads
<1> HIDE DEF r
<1>4. Open(c, r)
  BY DEF r
<1> QED
  BY <1>3, <1>4, ReadKeeps

------------------------------------------------------------------------------
(* The e-CNY API *)

LEMMA AmountsAreNat == \A n \in Amount : n \in Nat
  BY AmountAssumption

\* What a reading request knows of the rows.
LEMMA RowsOf ==
    ASSUME EInv
    PROVE  /\ AccountsTyped /\ Unopened /\ EscrowsOpen /\ OperatorsOpen
           /\ ReportsCounted /\ Balanced /\ Settlements /\ Requests
           /\ opened \subseteq Account
  BY DEF EInv, Rows, AccountsTyped

LEMMA ReadTransferKeeps ==
    ASSUME EInv, NEW c \in Client, NEW w \in Wallets, NEW v \in Wallets, NEW n \in Amount,
           ReadTransfer(c, w, v, n), UNCHANGED <<instrumentVars, pvpVars, issuanceVars>>
    PROVE  EInv'
<1> DEFINE s == Transfer(LoadLedger, w, v, n)
<1>1. /\ {w, v} \subseteq opened /\ w \in Account /\ v \in Account /\ n \in Nat /\ AccountsTyped
      /\ CanTransfer(LoadLedger, w, v, n)
      /\ Open(c, RequestOf("ecny", w, {w, v}, s, Reports(n, FALSE), "none"))
      /\ UNCHANGED rowVars
  BY AmountsAreNat, RowsOf DEF ReadTransfer, Payment, rowVars, Wallets
<1>2. Explains(s, bal) /\ \A a \in Account : s.bal[a] # bal[a] => a \in {w, v}
  BY <1>1, SessionOfTransfer
<1> HIDE DEF s
<1>3. \A a \in Account : s.bal[a] # bal[a] => a \in {w, v} \cap opened
  BY <1>1, <1>2
<1>4. Reports(n, FALSE) \in ReportRows /\ Reports(n, FALSE)["cross_border"] = 0
  BY ReportsTyped
<1> QED
  BY <1>1, <1>2, <1>3, <1>4, EcnyRead

LEMMA ReadMintKeeps ==
    ASSUME EInv, NEW c \in Client, NEW a \in Account, NEW n \in Amount,
           ReadMint(c, a, n), UNCHANGED <<instrumentVars, pvpVars, issuanceVars>>
    PROVE  EInv'
<1> DEFINE s == Mint(LoadLedger, a, n)
<1>1. /\ a \in opened /\ n \in Nat /\ AccountsTyped
      /\ CanMint(a, n)
      /\ Open(c, RequestOf("ecny", "none", Account, s, NoReports, "none"))
      /\ UNCHANGED rowVars
  BY AmountsAreNat, RowsOf DEF ReadMint, Request, rowVars
<1>2. Explains(s, bal) /\ \A x \in Account : s.bal[x] # bal[x] => x = a
  BY <1>1, SessionOfMint
<1> HIDE DEF s
<1>3. \A x \in Account : s.bal[x] # bal[x] => x \in Account \cap opened
  BY <1>1, <1>2
<1>4. NoReports \in ReportRows /\ NoReports["cross_border"] = 0
  BY ReportsTyped
<1> QED
  BY <1>1, <1>2, <1>3, <1>4, EcnyRead

LEMMA ReadBurnKeeps ==
    ASSUME EInv, NEW c \in Client, NEW a \in Account, NEW n \in Amount,
           ReadBurn(c, a, n), UNCHANGED <<instrumentVars, pvpVars, issuanceVars>>
    PROVE  EInv'
<1> DEFINE s == Burn(LoadLedger, a, n)
<1>1. /\ a \in opened /\ n \in Nat /\ AccountsTyped
      /\ CanBurn(LoadLedger, a, n)
      /\ Open(c, RequestOf("ecny", "none", {a}, s, NoReports, "none"))
      /\ UNCHANGED rowVars
  BY AmountsAreNat, RowsOf DEF ReadBurn, Request, rowVars
<1>2. Explains(s, bal) /\ \A x \in Account : s.bal[x] # bal[x] => x = a
  BY <1>1, SessionOfBurn
<1> HIDE DEF s
<1>3. \A x \in Account : s.bal[x] # bal[x] => x \in {a} \cap opened
  BY <1>1, <1>2
<1>4. NoReports \in ReportRows /\ NoReports["cross_border"] = 0
  BY ReportsTyped
<1> QED
  BY <1>1, <1>2, <1>3, <1>4, EcnyRead

\* Issuing to a wallet and redeeming from one are transfers.
LEMMA ReadIssuanceKeeps ==
    ASSUME EInv, NEW c \in Client, NEW a \in Account, NEW w \in Wallets, NEW n \in Amount,
           ReadExchangeToWallet(c, a, w, n) \/ ReadRedeemFromWallet(c, w, a, n),
           UNCHANGED <<instrumentVars, pvpVars, issuanceVars>>
    PROVE  EInv'
<1>1. /\ {a, w} \subseteq opened /\ w \in Account /\ n \in Nat /\ AccountsTyped /\ UNCHANGED rowVars
  BY AmountsAreNat, RowsOf DEF ReadExchangeToWallet, ReadRedeemFromWallet, rowVars, Wallets
<1>2. NoReports \in ReportRows /\ NoReports["cross_border"] = 0
  BY ReportsTyped
<1>3. CASE ReadExchangeToWallet(c, a, w, n)
  <2> DEFINE s == Transfer(LoadLedger, a, w, n)
  <2>1. CanTransfer(LoadLedger, a, w, n) /\ Open(c, RequestOf("ecny", "none", {a, w}, s, NoReports, "none"))
    BY <1>3 DEF ReadExchangeToWallet, Request
  <2>2. Explains(s, bal) /\ \A x \in Account : s.bal[x] # bal[x] => x \in {a, w}
    BY <1>1, <2>1, SessionOfTransfer
  <2> HIDE DEF s
  <2>3. \A x \in Account : s.bal[x] # bal[x] => x \in {a, w} \cap opened
    BY <1>1, <2>2
  <2> QED
    BY <1>1, <1>2, <2>1, <2>2, <2>3, EcnyRead
<1>4. CASE ReadRedeemFromWallet(c, w, a, n)
  <2> DEFINE s == Transfer(LoadLedger, w, a, n)
  <2>1. CanTransfer(LoadLedger, w, a, n) /\ Open(c, RequestOf("ecny", w, {w, a}, s, NoReports, "none"))
    BY <1>4 DEF ReadRedeemFromWallet, Payment
  <2>2. Explains(s, bal) /\ \A x \in Account : s.bal[x] # bal[x] => x \in {w, a}
    BY <1>1, <2>1, SessionOfTransfer
  <2> HIDE DEF s
  <2>3. \A x \in Account : s.bal[x] # bal[x] => x \in {w, a} \cap opened
    BY <1>1, <2>2
  <2> QED
    BY <1>1, <1>2, <2>1, <2>2, <2>3, EcnyRead
<1> QED
  BY <1>3, <1>4

\* At a positive rate an amount is a natural number of the other currency.
LEMMA ConvertedIsNat == \A cur \in DOMAIN Rate, n \in Nat : Converted(cur, n) \in Nat
<1> SUFFICES ASSUME NEW cur \in DOMAIN Rate, NEW n \in Nat PROVE Converted(cur, n) \in Nat
  OBVIOUS
<1>1. Rate[cur][1] \in Nat /\ Rate[cur][2] \in Nat \ {0}
  BY RateAssumption
<1>2. \A p \in Nat, q \in Nat \ {0} : p \div q \in Nat
  OBVIOUS
<1>3. n * Rate[cur][1] \in Nat
  BY <1>1
<1> QED
  BY <1>1, <1>2, <1>3 DEF Converted

LEMMA ReadCrossBorderKeeps ==
    ASSUME EInv, NEW c \in Client, NEW w \in Wallets, NEW b \in Account, NEW cur \in DOMAIN Rate, NEW asked,
           NEW n \in Amount, ReadCrossBorder(c, w, b, cur, asked, n),
           UNCHANGED <<instrumentVars, pvpVars, issuanceVars>>
    PROVE  EInv'
<1> DEFINE m == Converted(cur, n)
<1>1. /\ {w, b} \subseteq opened /\ w \in Account /\ n \in Nat /\ AccountsTyped /\ UNCHANGED rowVars
      /\ SettleViaMbridge(c, w, b, cur, n) \/ SettleViaCips(c, w, b, n)
  BY AmountsAreNat, RowsOf DEF ReadCrossBorder, rowVars, Wallets
<1>2. Reports(n, TRUE) \in ReportRows /\ Reports(n, TRUE)["cross_border"] = 1
  BY ReportsTyped, Zenon
<1>3. CASE SettleViaCips(c, w, b, n)
  <2> DEFINE s == Transfer(LoadLedger, w, b, n)
  <2>1. CanTransfer(LoadLedger, w, b, n) /\ Open(c, RequestOf("ecny", w, {w, b}, s, Reports(n, TRUE), "settled"))
    BY <1>3 DEF SettleViaCips, Payment
  <2>2. Explains(s, bal) /\ \A x \in Account : s.bal[x] # bal[x] => x \in {w, b}
    BY <1>1, <2>1, SessionOfTransfer
  <2> HIDE DEF s
  <2>3. \A x \in Account : s.bal[x] # bal[x] => x \in {w, b} \cap opened
    BY <1>1, <2>2
  <2> QED
    BY <1>1, <1>2, <2>1, <2>2, <2>3, EcnyRead
<1>4. CASE SettleViaMbridge(c, w, b, cur, n)
  <2> DEFINE s == Exchange(LoadLedger, w, b, n, m)
  <2>1. CanExchange(LoadLedger, w, n, m) /\ Open(c, RequestOf("ecny", w, {w, b}, s, Reports(n, TRUE), "settled"))
    BY <1>4 DEF SettleViaMbridge, Payment
  <2>2. m \in Nat
    BY <1>1, ConvertedIsNat
  <2> HIDE DEF m
  <2>3. Explains(s, bal) /\ \A x \in Account : s.bal[x] # bal[x] => x \in {w, b}
    BY <1>1, <2>1, <2>2, SessionOfExchange
  <2> HIDE DEF s
  <2>4. \A x \in Account : s.bal[x] # bal[x] => x \in {w, b} \cap opened
    BY <1>1, <2>3
  <2> QED
    BY <1>1, <1>2, <2>1, <2>3, <2>4, EcnyRead
<1> QED
  BY <1>1, <1>3, <1>4

LEMMA SettlementsStay ==
    ASSUME Settlements, UNCHANGED pvpVars, ~stale' => ~stale
    PROVE  Settlements'
  BY DEF Settlements, LegsArePaired, pvpVars

LEMMA EscrowsStay ==
    ASSUME EscrowsOpen, UNCHANGED <<instrumentVars, opened>>
    PROVE  EscrowsOpen'
  BY DEF EscrowsOpen, InstrumentsTypeOK, instrumentVars

LEMMA OperatorsStay ==
    ASSUME OperatorsOpen, UNCHANGED issuanceVars, opened \subseteq opened'
    PROVE  OperatorsOpen'
  BY DEF OperatorsOpen, IssuanceTypeOK, OperatorRows, issuanceVars

LEMMA ReportsStay ==
    ASSUME ReportsCounted, UNCHANGED walletVars
    PROVE  ReportsCounted'
  BY DEF ReportsCounted, ReportsMatchBridge, walletVars

LEMMA NotAnEscrow ==
    \A x \in Voucher \cup Instrument : EscrowOf[x] \in Account /\ EscrowOf[x] \notin Wallets \cup Operators
  BY EscrowAssumption DEF Wallets, Operators

\* The commit of a session on the accounts it has read.
LEMMA MovedRows ==
    ASSUME EInv, NEW c \in Client, req[c].op \in Moving, Persist(req[c].loaded, req[c].s), Counts(req[c].s),
           UNCHANGED opened,
           ~stale' => ~stale /\ \A a \in req[c].read : req[c].loaded[a] = bal[a]
    PROVE  AccountsTyped' /\ Unopened' /\ Balanced'
<1> DEFINE loaded == req[c].loaded
           s == req[c].s
<1>1. Moves(c)
  BY DEF EInv, Requests, Reads
<1>2. /\ loaded \in AccountRows /\ Explains(s, loaded) /\ Persist(loaded, s) /\ Counts(s)
      /\ \A a \in Account : s.bal[a] # loaded[a] => a \in req[c].read \cap opened
  BY <1>1 DEF Moves
<1>3. AccountsTyped /\ Unopened /\ Balanced /\ opened \subseteq Account
  BY RowsOf
<1>4. ~stale' => ~stale /\ \A a \in req[c].read : loaded[a] = bal[a]
  OBVIOUS
<1> HIDE DEF loaded, s
<1>5. AccountsTyped'
  BY <1>2, <1>3, PersistTyped
<1>6. Unopened'
  BY <1>2, <1>3, PersistUnopened
<1>7. Balanced'
  <2> SUFFICES ASSUME ~stale', NEW a \in Account, CurrencyOf[a] = "CNY", Holder(a) PROVE bal'[a] = posted'[a]
    BY DEF Balanced
  <2>1. bal[a] = posted[a] /\ (s.bal[a] # loaded[a] => bal[a] = loaded[a])
    BY <1>2, <1>3, <1>4 DEF Balanced
  <2> QED
    BY <1>2, <1>3, <2>1, PersistBalanced
<1> QED
  BY <1>5, <1>6, <1>7

LEMMA CommitRequestKeeps ==
    ASSUME EInv, NEW c \in Client, NEW op \in {"ecny", "merchant"}, CommitRequest(c, op),
           UNCHANGED <<instrumentVars, pvpVars, issuanceVars>>
    PROVE  EInv'
<1> DEFINE fresh == \A a \in req[c].read : req[c].loaded[a] = bal[a] /\ req[c].out[a] = sent[a]
<1>1. /\ req[c].op = op /\ op \in Moving
      /\ Persist(req[c].loaded, req[c].s) /\ Counts(req[c].s) /\ opened' = opened
      /\ reports' = [t \in ReportType |-> reports[t] + req[c].rep[t]]
      /\ bridged' = [s \in DOMAIN bridged |-> bridged[s] + (IF s = req[c].br THEN 1 ELSE 0)]
      /\ Commit(c, fresh)
  BY DEF CommitRequest, AddReports, Moving, Counts
<1>2. stale' = (stale \/ ~fresh)
  BY <1>1 DEF Commit
<1>3. ~stale' => ~stale /\ \A a \in req[c].read : req[c].loaded[a] = bal[a]
  BY <1>2
<1>4. AccountsTyped' /\ Unopened' /\ Balanced'
  BY <1>1, <1>3, MovedRows
<1>5. EscrowsOpen' /\ OperatorsOpen' /\ Settlements'
  BY <1>1, <1>3, RowsOf, EscrowsStay, OperatorsStay, SettlementsStay
<1>6. ReportsCounted'
  <2>1. Tells(c) /\ ReportsCounted
    BY RowsOf DEF Requests, Reads
  <2>2. /\ req[c].rep \in [ReportType -> Nat] /\ req[c].br \in {"none", "settled"}
        /\ req[c].rep["cross_border"] = (IF req[c].br = "settled" THEN 1 ELSE 0)
    BY <1>1, <2>1 DEF Tells, ReportRows
  <2>3. /\ reports \in [ReportType -> Nat] /\ bridged \in [{"pending", "settled", "failed"} -> Nat]
        /\ reports["cross_border"] = bridged["settled"] /\ bridged["pending"] = 0 /\ bridged["failed"] = 0
    BY <2>1 DEF ReportsCounted, ReportRows, BridgeRows, ReportsMatchBridge
  <2>4. /\ reports' \in ReportRows
        /\ reports'["cross_border"] = reports["cross_border"] + req[c].rep["cross_border"]
    BY <1>1, <2>2, <2>3 DEF ReportRows, ReportType
  <2>5. /\ bridged' \in BridgeRows
        /\ bridged'["settled"] = bridged["settled"] + (IF req[c].br = "settled" THEN 1 ELSE 0)
        /\ bridged'["pending"] = bridged["pending"] /\ bridged'["failed"] = bridged["failed"]
    BY <1>1, <2>2, <2>3 DEF BridgeRows
  <2> QED
    BY <2>2, <2>3, <2>4, <2>5 DEF ReportsCounted, ReportsMatchBridge
<1>7. Grows
  BY <1>1 DEF Grows, instrumentVars, pvpVars, issuanceVars
<1> HIDE DEF fresh
<1> QED
  BY <1>1, <1>4, <1>5, <1>6, <1>7, CommitKeeps DEF Rows

\* A wallet or an operator account is opened; a balance may be set if it is in
\* another currency.
LEMMA OpensAccount ==
    ASSUME EInv, NEW a \in Wallets \cup Operators, opened' = opened \cup {a},
           bal' \in AccountRows, \A x \in Account \ {a} : bal'[x] = bal[x],
           CurrencyOf[a] = "CNY" => bal'[a] = bal[a],
           UNCHANGED <<req, stale, posted, booked, sent, walletVars, instrumentVars, pvpVars>>,
           OperatorsOpen', DOMAIN issued \subseteq DOMAIN issued'
    PROVE  EInv'
<1>1. /\ AccountsTyped /\ Unopened /\ EscrowsOpen /\ ReportsCounted /\ Balanced /\ Settlements
      /\ a \in Account
  BY RowsOf DEF Wallets, Operators
<1>2. AccountsTyped' /\ Unopened'
  BY <1>1 DEF AccountsTyped, Unopened
<1>3. EscrowsOpen'
  BY <1>1, NotAnEscrow DEF EscrowsOpen, InstrumentsTypeOK, instrumentVars
<1>4. ReportsCounted' /\ Settlements'
  BY <1>1, ReportsStay, SettlementsStay
<1>5. Balanced'
  BY <1>1 DEF Balanced
<1>6. Grows
  BY DEF Grows, instrumentVars, pvpVars
<1> QED
  BY <1>2, <1>3, <1>4, <1>5, <1>6, AtOnceKeeps DEF Rows

LEMMA OpenWalletKeeps ==
    ASSUME EInv, NEW c \in Client, NEW w \in Wallets, NEW named, NEW o, OpenWallet(c, w, named, o),
           UNCHANGED <<instrumentVars, pvpVars, issuanceVars>>
    PROVE  EInv'
<1>1. /\ opened' = opened \cup {w} /\ bal' = bal
      /\ UNCHANGED <<req, stale, posted, booked, sent, walletVars>>
  BY DEF OpenWallet, AtOnce
<1>2. bal' \in AccountRows /\ OperatorsOpen' /\ DOMAIN issued \subseteq DOMAIN issued'
  BY <1>1, RowsOf, OperatorsStay DEF AccountsTyped, issuanceVars
<1> QED
  BY <1>1, <1>2, OpensAccount

LEMMA ProvisionOperatorKeeps ==
    ASSUME EInv, NEW c \in Client, NEW a \in Operators, ProvisionOperator(c, a),
           UNCHANGED <<instrumentVars, pvpVars, issuanceVars>>
    PROVE  EInv'
<1>1. /\ opened' = opened \cup {a} /\ bal' = bal
      /\ UNCHANGED <<req, stale, posted, booked, sent, walletVars>>
  BY DEF ProvisionOperator, AtOnce
<1>2. bal' \in AccountRows /\ OperatorsOpen' /\ DOMAIN issued \subseteq DOMAIN issued'
  BY <1>1, RowsOf, OperatorsStay DEF AccountsTyped, issuanceVars
<1> QED
  BY <1>1, <1>2, OpensAccount

LEMMA SeedForeignAccountKeeps ==
    ASSUME EInv, NEW c \in Client, NEW a \in Operators, NEW n \in Amount, SeedForeignAccount(c, a, n),
           UNCHANGED <<instrumentVars, pvpVars, issuanceVars>>
    PROVE  EInv'
<1>1. /\ opened' = opened \cup {a} /\ bal' = [bal EXCEPT ![a] = n] /\ CurrencyOf[a] # "CNY"
      /\ UNCHANGED <<req, stale, posted, booked, sent, walletVars>>
  BY DEF SeedForeignAccount, AtOnce
<1>2. bal \in [Account -> Nat] /\ n \in Nat
  BY RowsOf, AmountsAreNat DEF AccountsTyped, AccountRows
<1>3. bal' \in AccountRows /\ \A x \in Account \ {a} : bal'[x] = bal[x]
  BY <1>1, <1>2 DEF AccountRows
<1>4. OperatorsOpen' /\ DOMAIN issued \subseteq DOMAIN issued'
  BY <1>1, RowsOf, OperatorsStay DEF issuanceVars
<1> QED
  BY <1>1, <1>3, <1>4, OpensAccount

LEMMA NewDayKeeps ==
    ASSUME EInv, NewDay, UNCHANGED <<instrumentVars, pvpVars, issuanceVars>>
    PROVE  EInv'
<1>1. /\ sent' = Nothing /\ UNCHANGED <<requestVars, opened, bal, posted, booked, walletVars>>
  BY DEF NewDay
<1>2. AccountsTyped' /\ Unopened' /\ Balanced'
  BY <1>1, RowsOf DEF AccountsTyped, Unopened, Balanced, Nothing, TransactionRows, requestVars
<1>3. EscrowsOpen' /\ OperatorsOpen' /\ ReportsCounted' /\ Settlements'
  BY <1>1, RowsOf, EscrowsStay, OperatorsStay, ReportsStay, SettlementsStay DEF requestVars
<1>4. Grows
  BY <1>1 DEF Grows, instrumentVars, pvpVars, issuanceVars
<1> QED
  BY <1>1, <1>2, <1>3, <1>4, AtOnceKeeps DEF Rows, requestVars

LEMMA EcnyKeeps ==
    ASSUME EInv, NEW c \in Client, EcnyNext(c), UNCHANGED <<instrumentVars, pvpVars, issuanceVars>>
    PROVE  EInv'
<1>1. ASSUME NEW w \in Wallets, NEW named, NEW o, OpenWallet(c, w, named, o) PROVE EInv'
  BY <1>1, OpenWalletKeeps
<1>2. ASSUME NEW a \in Operators, ProvisionOperator(c, a) PROVE EInv'
  BY <1>2, ProvisionOperatorKeeps
<1>3. ASSUME NEW a \in Operators, NEW n \in Amount, SeedForeignAccount(c, a, n) PROVE EInv'
  BY <1>3, SeedForeignAccountKeeps
<1>4. ASSUME NEW w \in Wallets, NEW v \in Wallets, NEW n \in Amount, ReadTransfer(c, w, v, n) PROVE EInv'
  BY <1>4, ReadTransferKeeps
<1>5. ASSUME NEW a \in Account, NEW n \in Amount, ReadMint(c, a, n) PROVE EInv'
  BY <1>5, ReadMintKeeps
<1>6. ASSUME NEW a \in Account, NEW n \in Amount, ReadBurn(c, a, n) PROVE EInv'
  BY <1>6, ReadBurnKeeps
<1>7. ASSUME NEW a \in Account, NEW w \in Wallets, NEW n \in Amount,
             ReadExchangeToWallet(c, a, w, n) \/ ReadRedeemFromWallet(c, w, a, n)
      PROVE EInv'
  BY <1>7, ReadIssuanceKeeps
<1>8. ASSUME NEW w \in Wallets, NEW b \in Account, NEW cur \in DOMAIN Rate, NEW asked, NEW n \in Amount,
             ReadCrossBorder(c, w, b, cur, asked, n)
      PROVE EInv'
  BY <1>8, ReadCrossBorderKeeps
<1>9. CASE CommitEcny(c)
  BY <1>9, CommitRequestKeeps DEF CommitEcny
<1>10. CASE RollBackEcny(c)
  BY <1>10, RollBackKeeps DEF RollBackEcny, rowVars
<1> QED
  BY <1>1, <1>2, <1>3, <1>4, <1>5, <1>6, <1>7, <1>8, <1>9, <1>10 DEF EcnyNext

------------------------------------------------------------------------------
(* The operators' issuance and the Hong Kong wallets *)

LEMMA RegisterOperatorKeeps ==
    ASSUME EInv, NEW c \in Client, NEW a \in Operators, RegisterOperator(c, a), UNCHANGED <<instrumentVars, pvpVars>>
    PROVE  EInv'
<1>1. /\ opened' = opened \cup {a} /\ bal' = bal
      /\ issued' = Put(OneRow(a, 0), issued)
      /\ UNCHANGED <<req, stale, posted, booked, sent, walletVars>>
  BY DEF RegisterOperator, AtOnce
<1>2. issued \in [DOMAIN issued -> Int] /\ DOMAIN issued \subseteq Operators /\ DOMAIN issued \subseteq opened
  BY RowsOf DEF OperatorsOpen, IssuanceTypeOK, OperatorRows
<1>3. /\ DOMAIN issued' = DOMAIN issued \cup {a}
      /\ issued' \in [DOMAIN issued' -> Int]
  BY <1>1, <1>2 DEF Put, OneRow
<1>4. bal' \in AccountRows /\ OperatorsOpen' /\ DOMAIN issued \subseteq DOMAIN issued'
  BY <1>1, <1>2, <1>3, RowsOf DEF AccountsTyped, OperatorsOpen, IssuanceTypeOK, OperatorRows
<1> QED
  BY <1>1, <1>4, OpensAccount

LEMMA CreateHkWalletKeeps ==
    ASSUME EInv, NEW c \in Client, NEW w \in Wallets, NEW a \in Operators, CreateHkWallet(c, w, a),
           UNCHANGED <<instrumentVars, pvpVars>>
    PROVE  EInv'
<1>1. /\ opened' = opened \cup {w} /\ bal' = bal
      /\ UNCHANGED <<req, stale, posted, booked, sent, walletVars, issuanceVars>>
  BY DEF CreateHkWallet, AtOnce
<1>2. bal' \in AccountRows /\ OperatorsOpen' /\ DOMAIN issued \subseteq DOMAIN issued'
  BY <1>1, RowsOf, OperatorsStay DEF AccountsTyped, issuanceVars
<1> QED
  BY <1>1, <1>2, OpensAccount

LEMMA ReadIssueKeeps ==
    ASSUME EInv, NEW c \in Client, NEW a \in Operators, NEW n \in Amount, ReadIssue(c, a, n),
           UNCHANGED <<instrumentVars, pvpVars>>
    PROVE  EInv'
<1> DEFINE s == Mint(LoadLedger, a, n)
<1>1. /\ a \in DOMAIN issued /\ a \in opened /\ a \in Account /\ n \in Nat /\ n \in Int /\ AccountsTyped
      /\ CanMint(a, n)
      /\ Open(c, OnOperator(a, n, {a}, s, 0))
      /\ UNCHANGED rowVars
  BY AmountsAreNat, RowsOf DEF ReadIssue, CanIssue, Registered, rowVars, OperatorsOpen
<1>2. Explains(s, bal) /\ \A x \in Account : s.bal[x] # bal[x] => x = a
  BY <1>1, SessionOfMint
<1> HIDE DEF s
<1>3. \A x \in Account : s.bal[x] # bal[x] => x \in {a} \cap opened
  BY <1>1, <1>2
<1> QED
  BY <1>1, <1>2, <1>3, OperatorRead

LEMMA ReadRedeemKeeps ==
    ASSUME EInv, NEW c \in Client, NEW a \in Operators, NEW n \in Amount, ReadRedeem(c, a, n),
           UNCHANGED <<instrumentVars, pvpVars>>
    PROVE  EInv'
<1> DEFINE s == Burn(LoadLedger, a, n)
<1>1. /\ a \in DOMAIN issued /\ a \in opened /\ a \in Account /\ n \in Nat /\ -n \in Int /\ AccountsTyped
      /\ CanBurn(LoadLedger, a, n)
      /\ Open(c, OnOperator(a, -n, {a}, s, 0))
      /\ UNCHANGED rowVars
  BY AmountsAreNat, RowsOf DEF ReadRedeem, Registered, rowVars, OperatorsOpen
<1>2. Explains(s, bal) /\ \A x \in Account : s.bal[x] # bal[x] => x = a
  BY <1>1, SessionOfBurn
<1> HIDE DEF s
<1>3. \A x \in Account : s.bal[x] # bal[x] => x \in {a} \cap opened
  BY <1>1, <1>2
<1> QED
  BY <1>1, <1>2, <1>3, OperatorRead

LEMMA ReadTopUpKeeps ==
    ASSUME EInv, NEW c \in Client, NEW a \in Operators, NEW w \in Wallets, NEW n \in Amount, ReadTopUp(c, a, w, n),
           UNCHANGED <<instrumentVars, pvpVars>>
    PROVE  EInv'
<1> DEFINE s == Transfer(Mint(LoadLedger, a, n), a, w, n)
<1>1. /\ a \in DOMAIN issued /\ {a, w} \subseteq opened /\ a \in Account /\ w \in Account
      /\ n \in Nat /\ n \in Int /\ AccountsTyped
      /\ CanMint(a, n) /\ CanTransfer(Mint(LoadLedger, a, n), a, w, n)
      /\ Open(c, OnOperator(a, n, {a, w}, s, n))
      /\ UNCHANGED rowVars
  BY AmountsAreNat, RowsOf DEF ReadTopUp, CanIssue, Registered, rowVars, OperatorsOpen
<1>2. Explains(s, bal) /\ \A x \in Account : s.bal[x] # bal[x] => x \in {a, w}
  BY <1>1, SessionOfTopUp
<1> HIDE DEF s
<1>3. \A x \in Account : s.bal[x] # bal[x] => x \in {a, w} \cap opened
  BY <1>1, <1>2
<1> QED
  BY <1>1, <1>2, <1>3, OperatorRead

LEMMA ReadMerchantPaymentKeeps ==
    ASSUME EInv, NEW c \in Client, NEW w \in Wallets, NEW m \in Wallets, NEW n \in Amount,
           ReadMerchantPayment(c, w, m, n), UNCHANGED <<instrumentVars, pvpVars>>
    PROVE  EInv'
<1> DEFINE s == Transfer(LoadLedger, w, m, n)
<1>1. /\ {w, m} \subseteq opened /\ w \in Account /\ m \in Account /\ n \in Nat /\ AccountsTyped
      /\ CanTransfer(LoadLedger, w, m, n)
      /\ Open(c, RequestOf("merchant", "none", {w, m}, s, NoReports, "none"))
      /\ UNCHANGED rowVars
  BY AmountsAreNat, RowsOf DEF ReadMerchantPayment, rowVars, Wallets
<1>2. Explains(s, bal) /\ \A a \in Account : s.bal[a] # bal[a] => a \in {w, m}
  BY <1>1, SessionOfTransfer
<1> HIDE DEF s
<1>3. \A a \in Account : s.bal[a] # bal[a] => a \in {w, m} \cap opened
  BY <1>1, <1>2
<1>4. NoReports \in ReportRows /\ NoReports["cross_border"] = 0
  BY ReportsTyped
<1> QED
  BY <1>1, <1>2, <1>3, <1>4, EcnyRead

LEMMA CommitOperatorKeeps ==
    ASSUME EInv, NEW c \in Client, CommitOperator(c), UNCHANGED <<instrumentVars, pvpVars>>
    PROVE  EInv'
<1> DEFINE fresh == issued[req[c].a] = req[c].row /\ \A a \in req[c].read : bal[a] = req[c].loaded[a]
<1>1. /\ req[c].op = "operator" /\ req[c].op \in Moving
      /\ Persist(req[c].loaded, req[c].s) /\ Counts(req[c].s) /\ opened' = opened
      /\ issued' = [issued EXCEPT ![req[c].a] = req[c].row + req[c].d]
      /\ Commit(c, fresh)
      /\ UNCHANGED walletVars
  BY DEF CommitOperator, Moving, Counts
<1>2. stale' = (stale \/ ~fresh)
  BY <1>1 DEF Commit
<1>3. ~stale' => ~stale /\ \A a \in req[c].read : req[c].loaded[a] = bal[a]
  BY <1>2
<1>4. AccountsTyped' /\ Unopened' /\ Balanced'
  BY <1>1, <1>3, MovedRows
<1>5. EscrowsOpen' /\ ReportsCounted' /\ Settlements'
  BY <1>1, <1>3, RowsOf, EscrowsStay, ReportsStay, SettlementsStay
<1>6. OperatorsOpen' /\ DOMAIN issued' = DOMAIN issued
  <2>1. OnOperatorRow(c) /\ OperatorsOpen
    BY RowsOf DEF Requests, Reads
  <2>2. req[c].row + req[c].d \in Int
    BY <1>1, <2>1 DEF OnOperatorRow
  <2> QED
    BY <1>1, <2>1, <2>2 DEF OperatorsOpen, IssuanceTypeOK, OperatorRows
<1>7. Grows
  BY <1>1, <1>6 DEF Grows, instrumentVars, pvpVars
<1> HIDE DEF fresh
<1> QED
  BY <1>1, <1>4, <1>5, <1>6, <1>7, CommitKeeps DEF Rows

LEMMA IssuanceKeeps ==
    ASSUME EInv, NEW c \in Client, IssuanceNext(c), UNCHANGED <<instrumentVars, pvpVars>>
    PROVE  EInv'
<1>1. ASSUME NEW a \in Operators, RegisterOperator(c, a) PROVE EInv'
  BY <1>1, RegisterOperatorKeeps
<1>2. ASSUME NEW w \in Wallets, NEW a \in Operators, CreateHkWallet(c, w, a) PROVE EInv'
  BY <1>2, CreateHkWalletKeeps
<1>3. ASSUME NEW a \in Operators, NEW n \in Amount, ReadIssue(c, a, n) PROVE EInv'
  BY <1>3, ReadIssueKeeps
<1>4. ASSUME NEW a \in Operators, NEW n \in Amount, ReadRedeem(c, a, n) PROVE EInv'
  BY <1>4, ReadRedeemKeeps
<1>5. ASSUME NEW a \in Operators, NEW w \in Wallets, NEW n \in Amount, ReadTopUp(c, a, w, n) PROVE EInv'
  BY <1>5, ReadTopUpKeeps
<1>6. ASSUME NEW w \in Wallets, NEW m \in Wallets, NEW n \in Amount, ReadMerchantPayment(c, w, m, n) PROVE EInv'
  BY <1>6, ReadMerchantPaymentKeeps
<1>7. CASE CommitOperator(c)
  BY <1>7, CommitOperatorKeeps
<1>8. CASE CommitMerchantPayment(c)
  BY <1>8, CommitRequestKeeps DEF CommitMerchantPayment
<1>9. CASE RollBackOperator(c)
  BY <1>9, RollBackKeeps DEF RollBackOperator, rowVars
<1> QED
  BY <1>1, <1>2, <1>3, <1>4, <1>5, <1>6, <1>7, <1>8, <1>9 DEF IssuanceNext

------------------------------------------------------------------------------
(* Vouchers and programmable instruments *)

LEMMA EscrowAccount == \A x \in Voucher \cup Instrument : EscrowOf[x] \in Account
  BY EscrowAssumption

LEMMA ReadIssueVoucherKeeps ==
    ASSUME EInv, NEW c \in Client, NEW v \in Voucher, NEW w \in Wallets, NEW n \in Amount,
           ReadIssueVoucher(c, v, w, n), UNCHANGED <<pvpVars, issuanceVars>>
    PROVE  EInv'
<1> DEFINE s == Transfer(LoadLedger, w, EscrowOf[v], n)
<1>1. /\ w \in opened /\ w \in Account /\ n \in Nat /\ EscrowOf[v] \in Account \ opened /\ AccountsTyped
      /\ CanTransfer(LoadLedger, w, EscrowOf[v], n)
      /\ Open(c, OnEscrow("issue", v, voucher[v], {w}, s, n))
      /\ UNCHANGED rowVars
  BY AmountsAreNat, RowsOf, EscrowAccount DEF ReadIssueVoucher, rowVars, Wallets, EscrowsOpen
<1>2. Explains(s, bal) /\ \A a \in Account : s.bal[a] # bal[a] => a \in {w, EscrowOf[v]}
  BY <1>1, SessionOfTransfer
<1> HIDE DEF s
<1>3. \A a \in Account : s.bal[a] # bal[a] => a \in {w} \cap opened \/ a = EscrowOf[v]
  BY <1>1, <1>2
<1> QED
  BY <1>1, <1>2, <1>3, FundRead

LEMMA ReadCreateInstrumentKeeps ==
    ASSUME EInv, NEW c \in Client, NEW i \in Instrument, NEW w \in Wallets, NEW n \in Amount, NEW max \in Amount,
           NEW t \in Template, ReadCreateInstrument(c, i, w, n, t, max), UNCHANGED <<pvpVars, issuanceVars>>
    PROVE  EInv'
<1> DEFINE s == Transfer(LoadLedger, w, EscrowOf[i], n)
           row == [status |-> "active", amount |-> n, template |-> t, max |-> max, over |-> FALSE]
<1>1. /\ w \in opened /\ w \in Account /\ n \in Nat /\ max \in Nat /\ EscrowOf[i] \in Account \ opened /\ AccountsTyped
      /\ CanTransfer(LoadLedger, w, EscrowOf[i], n)
      /\ Open(c, OnEscrow("create", i, row, {w}, s, n))
      /\ UNCHANGED rowVars
  BY AmountsAreNat, RowsOf, EscrowAccount DEF ReadCreateInstrument, rowVars, Wallets, EscrowsOpen
<1>2. Explains(s, bal) /\ \A a \in Account : s.bal[a] # bal[a] => a \in {w, EscrowOf[i]}
  BY <1>1, SessionOfTransfer
<1>3. row \in InstrumentRow /\ row.status = "active"
  BY <1>1 DEF InstrumentRow
<1> HIDE DEF s, row
<1>4. \A a \in Account : s.bal[a] # bal[a] => a \in {w} \cap opened \/ a = EscrowOf[i]
  BY <1>1, <1>2
<1> QED
  BY <1>1, <1>2, <1>3, <1>4, FundRead

LEMMA ReadRedeemVoucherKeeps ==
    ASSUME EInv, NEW c \in Client, NEW v \in Voucher, NEW m \in Wallets,
           ReadRedeemVoucher(c, v, m), UNCHANGED <<pvpVars, issuanceVars>>
    PROVE  EInv'
<1> DEFINE n == voucher[v].amount
           s == Transfer(LoadLedger, EscrowOf[v], m, n)
<1>1. /\ voucher[v].status = "issued" /\ m \in opened /\ m \in Account
      /\ EscrowOf[v] \in Account \cap opened /\ AccountsTyped
      /\ CanTransfer(LoadLedger, EscrowOf[v], m, n)
      /\ Open(c, OnEscrow("redeem", v, voucher[v], {EscrowOf[v], m}, s, n))
      /\ UNCHANGED rowVars
  BY RowsOf, EscrowAccount DEF ReadRedeemVoucher, rowVars, Wallets, EscrowsOpen
<1>2. n \in Nat
  BY RowsOf DEF EscrowsOpen, InstrumentsTypeOK, VoucherRow
<1> HIDE DEF n
<1>3. Explains(s, bal) /\ \A a \in Account : s.bal[a] # bal[a] => a \in {EscrowOf[v], m}
  BY <1>1, <1>2, SessionOfTransfer
<1> HIDE DEF s
<1>4. \A a \in Account : s.bal[a] # bal[a] => a \in {EscrowOf[v], m} \cap opened
  BY <1>1, <1>3
<1> QED
  BY <1>1, <1>2, <1>3, <1>4, ReleaseRead

LEMMA ReadExecuteKeeps ==
    ASSUME EInv, NEW c \in Client, NEW i \in Instrument, NEW w \in Wallets, NEW n \in Amount, NEW granted,
           ReadExecute(c, i, w, n, granted), UNCHANGED <<pvpVars, issuanceVars>>
    PROVE  EInv'
<1> DEFINE s == Transfer(LoadLedger, EscrowOf[i], w, n)
<1>1. /\ instrument[i].status = "active" /\ w \in opened /\ w \in Account
      /\ EscrowOf[i] \in Account \cap opened /\ AccountsTyped
      /\ n \in Nat /\ n <= instrument[i].amount /\ instrument[i] \in InstrumentRow
      /\ CanTransfer(LoadLedger, EscrowOf[i], w, n)
      /\ Open(c, OnEscrow("execute", i, instrument[i], {EscrowOf[i], w}, s, n))
      /\ UNCHANGED rowVars
  BY RowsOf, EscrowAccount, AmountsAreNat DEF ReadExecute, rowVars, Wallets, EscrowsOpen, InstrumentsTypeOK
<1>2. Explains(s, bal) /\ \A a \in Account : s.bal[a] # bal[a] => a \in {EscrowOf[i], w}
  BY <1>1, SessionOfTransfer
<1> HIDE DEF s
<1>3. \A a \in Account : s.bal[a] # bal[a] => a \in {EscrowOf[i], w} \cap opened
  BY <1>1, <1>2
<1> QED
  BY <1>1, <1>2, <1>3, ReleaseRead

\* The commit of a session that pays into the escrow it opens.
LEMMA FundedRows ==
    ASSUME EInv, NEW c \in Client, req[c].op \in Funding, Persist(req[c].loaded, req[c].s), Counts(req[c].s),
           EscrowOf[req[c].x] \in Account \ opened, opened' = opened \cup {EscrowOf[req[c].x]},
           ~stale' => ~stale /\ \A a \in req[c].read : req[c].loaded[a] = bal[a]
    PROVE  AccountsTyped' /\ Unopened' /\ Balanced'
<1> DEFINE loaded == req[c].loaded
           s == req[c].s
           e == EscrowOf[req[c].x]
<1>1. Funds(c)
  BY DEF EInv, Requests, Reads
<1>2. /\ loaded \in AccountRows /\ Explains(s, loaded) /\ Persist(loaded, s) /\ Counts(s) /\ loaded[e] = 0
      /\ \A a \in Account : s.bal[a] # loaded[a] => a \in req[c].read \cap opened \/ a = e
  BY <1>1 DEF Funds
<1>3. AccountsTyped /\ Unopened /\ Balanced /\ opened \subseteq Account /\ e \in Account \ opened /\ opened' = opened \cup {e}
  BY RowsOf
<1>4. ~stale' => ~stale /\ \A a \in req[c].read : loaded[a] = bal[a]
  OBVIOUS
<1> HIDE DEF loaded, s, e
<1>5. AccountsTyped'
  BY <1>2, <1>3, PersistTyped
<1>6. Unopened'
  BY <1>2, <1>3, PersistUnopened
<1>7. Balanced'
  <2> SUFFICES ASSUME ~stale', NEW a \in Account, CurrencyOf[a] = "CNY", Holder(a) PROVE bal'[a] = posted'[a]
    BY DEF Balanced
  <2>1. bal[e] = 0
    BY <1>3 DEF Unopened
  <2>2. bal[a] = posted[a] /\ (s.bal[a] # loaded[a] => bal[a] = loaded[a])
    BY <1>2, <1>3, <1>4, <2>1 DEF Balanced
  <2> QED
    BY <1>2, <1>3, <2>2, PersistBalanced
<1> QED
  BY <1>5, <1>6, <1>7

LEMMA CommitIssueVoucherKeeps ==
    ASSUME EInv, NEW c \in Client, CommitIssueVoucher(c), UNCHANGED <<pvpVars, issuanceVars>>
    PROVE  EInv'
<1> DEFINE v == req[c].x
           fresh == \A a \in req[c].read : req[c].loaded[a] = bal[a]
<1>1. /\ req[c].op = "issue" /\ req[c].op \in Funding
      /\ voucher[v].status = "none"
      /\ Persist(req[c].loaded, req[c].s) /\ Counts(req[c].s) /\ opened' = opened \cup {EscrowOf[v]}
      /\ voucher' = [voucher EXCEPT ![v] = [status |-> "issued", amount |-> req[c].n, over |-> FALSE]]
      /\ Commit(c, fresh)
      /\ UNCHANGED <<walletVars, instrument, announced>>
  BY DEF CommitIssueVoucher, Funding, Counts
<1>2. v \in Voucher /\ req[c].n \in Nat
  BY <1>1, RowsOf DEF Requests, Reads, Funds
<1>3. EscrowOf[v] \in Account \ opened
  BY <1>1, <1>2, RowsOf, EscrowAccount DEF EscrowsOpen
<1>4. stale' = (stale \/ ~fresh)
  BY <1>1 DEF Commit
<1>5. ~stale' => ~stale /\ \A a \in req[c].read : req[c].loaded[a] = bal[a]
  BY <1>4
<1>6. AccountsTyped' /\ Unopened' /\ Balanced'
  BY <1>1, <1>3, <1>5, FundedRows
<1> HIDE DEF v
<1>7. /\ voucher \in [Voucher -> VoucherRow]
      /\ instrument \in [Instrument -> InstrumentRow] /\ announced \in [Voucher -> Nat]
      /\ \A u \in Voucher : voucher[u].status = "none" <=> EscrowOf[u] \notin opened
      /\ \A i \in Instrument : instrument[i].status = "none" <=> EscrowOf[i] \notin opened
  BY RowsOf DEF EscrowsOpen, InstrumentsTypeOK
<1>8. voucher' \in [Voucher -> VoucherRow] /\ voucher'[v].status = "issued" /\ \A u \in Voucher \ {v} : voucher'[u] = voucher[u]
  BY <1>1, <1>2, <1>7 DEF VoucherRow
<1>9. \A x \in Voucher \cup Instrument : EscrowOf[x] = EscrowOf[v] => x = v
  BY <1>2, EscrowAssumption
<1>10. \A i \in Instrument : i # v
  BY <1>2, EscrowAssumption
<1>11. EscrowsOpen'
  BY <1>1, <1>2, <1>7, <1>8, <1>9, <1>10 DEF EscrowsOpen, InstrumentsTypeOK
<1>12. OperatorsOpen' /\ ReportsCounted' /\ Settlements'
  BY <1>1, <1>5, RowsOf, OperatorsStay, ReportsStay, SettlementsStay
<1>13. Grows
  BY <1>1, <1>8 DEF Grows, pvpVars, issuanceVars
<1> HIDE DEF fresh
<1> QED
  BY <1>1, <1>6, <1>11, <1>12, <1>13, CommitKeeps DEF Rows

LEMMA CommitCreateInstrumentKeeps ==
    ASSUME EInv, NEW c \in Client, CommitCreateInstrument(c), UNCHANGED <<pvpVars, issuanceVars>>
    PROVE  EInv'
<1> DEFINE x == req[c].x
           fresh == \A a \in req[c].read : req[c].loaded[a] = bal[a]
<1>1. /\ req[c].op = "create" /\ req[c].op \in Funding
      /\ instrument[x].status = "none"
      /\ Persist(req[c].loaded, req[c].s) /\ Counts(req[c].s) /\ opened' = opened \cup {EscrowOf[x]}
      /\ instrument' = [instrument EXCEPT ![x] = req[c].row]
      /\ Commit(c, fresh)
      /\ UNCHANGED <<walletVars, voucher, announced>>
  BY DEF CommitCreateInstrument, Funding, Counts
<1>2. x \in Instrument /\ req[c].row \in InstrumentRow /\ req[c].row.status = "active"
  BY <1>1, RowsOf DEF Requests, Reads, Funds
<1>3. EscrowOf[x] \in Account \ opened
  BY <1>1, <1>2, RowsOf, EscrowAccount DEF EscrowsOpen
<1>4. stale' = (stale \/ ~fresh)
  BY <1>1 DEF Commit
<1>5. ~stale' => ~stale /\ \A a \in req[c].read : req[c].loaded[a] = bal[a]
  BY <1>4
<1>6. AccountsTyped' /\ Unopened' /\ Balanced'
  BY <1>1, <1>3, <1>5, FundedRows
<1> HIDE DEF x
<1>7. /\ voucher \in [Voucher -> VoucherRow]
      /\ instrument \in [Instrument -> InstrumentRow] /\ announced \in [Voucher -> Nat]
      /\ \A u \in Voucher : voucher[u].status = "none" <=> EscrowOf[u] \notin opened
      /\ \A i \in Instrument : instrument[i].status = "none" <=> EscrowOf[i] \notin opened
  BY RowsOf DEF EscrowsOpen, InstrumentsTypeOK
<1>8. /\ instrument' \in [Instrument -> InstrumentRow] /\ instrument'[x].status = "active"
      /\ \A i \in Instrument \ {x} : instrument'[i] = instrument[i]
  BY <1>1, <1>2, <1>7
<1>9. \A y \in Voucher \cup Instrument : EscrowOf[y] = EscrowOf[x] => y = x
  BY <1>2, EscrowAssumption
<1>10. \A v \in Voucher : v # x
  BY <1>2, EscrowAssumption
<1>11. EscrowsOpen'
  BY <1>1, <1>2, <1>7, <1>8, <1>9, <1>10 DEF EscrowsOpen, InstrumentsTypeOK
<1>12. OperatorsOpen' /\ ReportsCounted' /\ Settlements'
  BY <1>1, <1>5, RowsOf, OperatorsStay, ReportsStay, SettlementsStay
<1>13. Grows
  BY <1>1, <1>8 DEF Grows, pvpVars, issuanceVars
<1> HIDE DEF fresh
<1> QED
  BY <1>1, <1>6, <1>11, <1>12, <1>13, CommitKeeps DEF Rows

LEMMA CommitRedeemVoucherKeeps ==
    ASSUME EInv, NEW c \in Client, CommitRedeemVoucher(c), UNCHANGED <<pvpVars, issuanceVars>>
    PROVE  EInv'
<1> DEFINE v == req[c].x
           fresh == voucher[v] = req[c].row /\ \A a \in req[c].read : req[c].loaded[a] = bal[a]
<1>1. /\ req[c].op = "redeem" /\ req[c].op \in Moving
      /\ Persist(req[c].loaded, req[c].s) /\ Counts(req[c].s) /\ opened' = opened
      /\ voucher' = [voucher EXCEPT ![v].status = "redeemed"]
      /\ announced' = [announced EXCEPT ![v] = @ + 1]
      /\ Commit(c, fresh)
      /\ UNCHANGED <<walletVars, instrument>>
  BY DEF CommitRedeemVoucher, Moving, Counts
<1>2. v \in Voucher /\ voucher[v].status # "none"
  BY <1>1, RowsOf DEF Requests, Reads, Releases
<1>3. stale' = (stale \/ ~fresh)
  BY <1>1 DEF Commit
<1>4. ~stale' => ~stale /\ \A a \in req[c].read : req[c].loaded[a] = bal[a]
  BY <1>3
<1>5. AccountsTyped' /\ Unopened' /\ Balanced'
  BY <1>1, <1>4, MovedRows
<1> HIDE DEF v
<1>6. /\ voucher \in [Voucher -> VoucherRow]
      /\ instrument \in [Instrument -> InstrumentRow] /\ announced \in [Voucher -> Nat]
      /\ \A u \in Voucher : voucher[u].status = "none" <=> EscrowOf[u] \notin opened
      /\ \A i \in Instrument : instrument[i].status = "none" <=> EscrowOf[i] \notin opened
  BY RowsOf DEF EscrowsOpen, InstrumentsTypeOK
<1>7. /\ voucher' \in [Voucher -> VoucherRow] /\ voucher'[v].status = "redeemed"
      /\ \A u \in Voucher \ {v} : voucher'[u] = voucher[u]
      /\ announced' \in [Voucher -> Nat]
  BY <1>1, <1>2, <1>6 DEF VoucherRow
<1>8. EscrowsOpen'
  BY <1>1, <1>2, <1>6, <1>7 DEF EscrowsOpen, InstrumentsTypeOK
<1>9. OperatorsOpen' /\ ReportsCounted' /\ Settlements'
  BY <1>1, <1>4, RowsOf, OperatorsStay, ReportsStay, SettlementsStay
<1>10. Grows
  BY <1>1, <1>7 DEF Grows, pvpVars, issuanceVars
<1> HIDE DEF fresh
<1> QED
  BY <1>1, <1>5, <1>8, <1>9, <1>10, CommitKeeps DEF Rows

LEMMA ExecutedRow ==
    ASSUME NEW current \in InstrumentRow, current.status # "none", NEW row \in InstrumentRow, row.status = "active",
           NEW n \in Nat, n <= row.amount
    PROVE  /\ Flush(current, row, Executed(row, n)) \in InstrumentRow
           /\ Flush(current, row, Executed(row, n)).status # "none"
<1> DEFINE new == Executed(row, n)
           cols == {"status", "amount", "template", "max", "over"}
<1>1. /\ new.amount = row.amount - n
      /\ new.status = (IF row.amount = n THEN "spent" ELSE row.status)
      /\ new.template = row.template /\ new.max = row.max /\ new.over = row.over
  BY DEF Executed, InstrumentRow
<1>2. DOMAIN current = cols
  BY DEF InstrumentRow
<1> HIDE DEF new
<1> DEFINE f == [col \in cols |-> IF new[col] # row[col] THEN new[col] ELSE current[col]]
<1>3. Flush(current, row, new) = f
  BY <1>2 DEF Flush
<1>4. /\ f["amount"] \in Nat /\ f["template"] \in Template /\ f["max"] \in Nat /\ f["over"] \in BOOLEAN
      /\ f["status"] \in {"active", "spent"}
  BY <1>1 DEF InstrumentRow
<1> HIDE DEF f
<1>5. DOMAIN f = cols /\ f = [col \in cols |-> f[col]]
  BY DEF f
<1>6. f \in InstrumentRow
  BY <1>4, <1>5 DEF InstrumentRow
<1> QED
  BY <1>3, <1>4, <1>6 DEF new

LEMMA CommitExecuteKeeps ==
    ASSUME EInv, NEW c \in Client, CommitExecute(c), UNCHANGED <<pvpVars, issuanceVars>>
    PROVE  EInv'
<1> DEFINE x == req[c].x
           row == req[c].row
           n == req[c].n
           fresh == instrument[x] = row /\ \A a \in req[c].read : req[c].loaded[a] = bal[a]
<1>1. /\ req[c].op = "execute" /\ req[c].op \in Moving
      /\ Persist(req[c].loaded, req[c].s) /\ Counts(req[c].s) /\ opened' = opened
      /\ instrument' = [instrument EXCEPT ![x] = Flush(instrument[x], row, Executed(row, n))]
      /\ Commit(c, fresh)
      /\ UNCHANGED <<walletVars, voucher, announced>>
  BY DEF CommitExecute, Moving, Counts
<1>2. /\ x \in Instrument /\ instrument[x].status # "none"
      /\ row \in InstrumentRow /\ row.status = "active" /\ n \in Nat /\ n <= row.amount
  BY <1>1, RowsOf DEF Requests, Reads, Releases
<1>3. stale' = (stale \/ ~fresh)
  BY <1>1 DEF Commit
<1>4. ~stale' => ~stale /\ \A a \in req[c].read : req[c].loaded[a] = bal[a]
  BY <1>3
<1>5. AccountsTyped' /\ Unopened' /\ Balanced'
  BY <1>1, <1>4, MovedRows
<1> HIDE DEF x, row, n
<1>6. /\ voucher \in [Voucher -> VoucherRow]
      /\ instrument \in [Instrument -> InstrumentRow] /\ announced \in [Voucher -> Nat]
      /\ \A u \in Voucher : voucher[u].status = "none" <=> EscrowOf[u] \notin opened
      /\ \A i \in Instrument : instrument[i].status = "none" <=> EscrowOf[i] \notin opened
  BY RowsOf DEF EscrowsOpen, InstrumentsTypeOK
<1>7. instrument[x] \in InstrumentRow
  BY <1>2, <1>6
<1>8. /\ Flush(instrument[x], row, Executed(row, n)) \in InstrumentRow
      /\ Flush(instrument[x], row, Executed(row, n)).status # "none"
  BY <1>2, <1>7, ExecutedRow
<1>9. /\ instrument' \in [Instrument -> InstrumentRow] /\ instrument'[x].status # "none"
      /\ \A i \in Instrument \ {x} : instrument'[i] = instrument[i]
  BY <1>1, <1>2, <1>6, <1>8
<1>10. EscrowsOpen'
  BY <1>1, <1>2, <1>6, <1>9 DEF EscrowsOpen, InstrumentsTypeOK
<1>11. OperatorsOpen' /\ ReportsCounted' /\ Settlements'
  BY <1>1, <1>4, RowsOf, OperatorsStay, ReportsStay, SettlementsStay
<1>12. Grows
  BY <1>1, <1>9 DEF Grows, pvpVars, issuanceVars
<1> HIDE DEF fresh
<1> QED
  BY <1>1, <1>5, <1>10, <1>11, <1>12, CommitKeeps DEF Rows

LEMMA PassExpiryKeeps ==
    ASSUME EInv, NEW x \in Voucher \cup Instrument, PassExpiry(x), UNCHANGED <<pvpVars, issuanceVars>>
    PROVE  EInv'
<1>1. /\ UNCHANGED <<requestVars, ledgerVars, walletVars, announced>>
      /\ \/ /\ x \in Voucher /\ voucher' = [voucher EXCEPT ![x].over = TRUE] /\ UNCHANGED instrument
         \/ /\ x \in Instrument /\ instrument' = [instrument EXCEPT ![x].over = TRUE] /\ UNCHANGED voucher
  BY DEF PassExpiry
<1>2. /\ voucher \in [Voucher -> VoucherRow]
      /\ instrument \in [Instrument -> InstrumentRow] /\ announced \in [Voucher -> Nat]
      /\ \A u \in Voucher : voucher[u].status = "none" <=> EscrowOf[u] \notin opened
      /\ \A i \in Instrument : instrument[i].status = "none" <=> EscrowOf[i] \notin opened
  BY RowsOf DEF EscrowsOpen, InstrumentsTypeOK
<1>3. voucher' \in [Voucher -> VoucherRow] /\ \A u \in Voucher : voucher'[u].status = voucher[u].status
  <2>1. \A r \in VoucherRow : [r EXCEPT !.over = TRUE] \in VoucherRow /\ [r EXCEPT !.over = TRUE].status = r.status
    BY DEF VoucherRow
  <2>2. CASE UNCHANGED voucher
    BY <1>2, <2>2
  <2>3. CASE x \in Voucher /\ voucher' = [voucher EXCEPT ![x].over = TRUE]
    <3>1. [voucher[x] EXCEPT !.over = TRUE] \in VoucherRow /\ [voucher[x] EXCEPT !.over = TRUE].status = voucher[x].status
      BY <1>2, <2>1, <2>3
    <3> QED
      BY <1>2, <2>3, <3>1
  <2> QED
    BY <1>1, <2>2, <2>3
<1>4. instrument' \in [Instrument -> InstrumentRow] /\ \A i \in Instrument : instrument'[i].status = instrument[i].status
  <2>1. \A r \in InstrumentRow : [r EXCEPT !.over = TRUE] \in InstrumentRow /\ [r EXCEPT !.over = TRUE].status = r.status
    BY DEF InstrumentRow
  <2>2. CASE UNCHANGED instrument
    BY <1>2, <2>2
  <2>3. CASE x \in Instrument /\ instrument' = [instrument EXCEPT ![x].over = TRUE]
    <3>1. [instrument[x] EXCEPT !.over = TRUE] \in InstrumentRow /\ [instrument[x] EXCEPT !.over = TRUE].status = instrument[x].status
      BY <1>2, <2>1, <2>3
    <3> QED
      BY <1>2, <2>3, <3>1
  <2> QED
    BY <1>1, <2>2, <2>3
<1>5. /\ opened' = opened /\ bal' = bal /\ posted' = posted /\ booked' = booked /\ sent' = sent /\ stale' = stale /\ req' = req
      /\ announced' = announced
  BY <1>1 DEF ledgerVars, requestVars
<1>6. EscrowsOpen'
  BY <1>2, <1>3, <1>4, <1>5 DEF EscrowsOpen, InstrumentsTypeOK
<1>7. AccountsTyped' /\ Unopened' /\ Balanced'
  BY <1>5, RowsOf DEF AccountsTyped, Unopened, Balanced
<1>8. OperatorsOpen' /\ ReportsCounted' /\ Settlements'
  BY <1>1, <1>5, RowsOf, OperatorsStay, ReportsStay, SettlementsStay
<1>9. Grows
  BY <1>3, <1>4, <1>5 DEF Grows, pvpVars, issuanceVars
<1> QED
  BY <1>5, <1>6, <1>7, <1>8, <1>9, AtOnceKeeps DEF Rows

LEMMA InstrumentsKeep ==
    ASSUME EInv, NEW c \in Client, InstrumentNext(c), UNCHANGED <<pvpVars, issuanceVars>>
    PROVE  EInv'
<1>1. ASSUME NEW v \in Voucher, NEW w \in Wallets, NEW n \in Amount, ReadIssueVoucher(c, v, w, n) PROVE EInv'
  BY <1>1, ReadIssueVoucherKeeps
<1>2. CASE CommitIssueVoucher(c)
  BY <1>2, CommitIssueVoucherKeeps
<1>3. ASSUME NEW v \in Voucher, NEW m \in Wallets, ReadRedeemVoucher(c, v, m) PROVE EInv'
  BY <1>3, ReadRedeemVoucherKeeps
<1>4. CASE CommitRedeemVoucher(c)
  BY <1>4, CommitRedeemVoucherKeeps
<1>5. ASSUME NEW i \in Instrument, NEW w \in Wallets, NEW n \in Amount, NEW max \in Amount, NEW t \in Template,
             ReadCreateInstrument(c, i, w, n, t, max)
      PROVE EInv'
  BY <1>5, ReadCreateInstrumentKeeps
<1>6. CASE CommitCreateInstrument(c)
  BY <1>6, CommitCreateInstrumentKeeps
<1>7. ASSUME NEW i \in Instrument, NEW w \in Wallets, NEW n \in Amount, NEW granted,
             ReadExecute(c, i, w, n, granted)
      PROVE EInv'
  BY <1>7, ReadExecuteKeeps
<1>8. CASE CommitExecute(c)
  BY <1>8, CommitExecuteKeeps
<1>9. CASE RollBackInstrument(c)
  BY <1>9, RollBackKeeps DEF RollBackInstrument, rowVars
<1> QED
  BY <1>1, <1>2, <1>3, <1>4, <1>5, <1>6, <1>7, <1>8, <1>9 DEF InstrumentNext

------------------------------------------------------------------------------
(* Payment versus payment *)

LEMMA PvpRowFacts ==
    ASSUME NEW r \in PvpRow, r.state # "NONE"
    PROVE  /\ DOMAIN r = {"state", "version", "debit", "credit"}
           /\ r.state \in {"CREATED", "LOCKED", "COMMITTED", "ABORTED"}
           /\ r.version \in 1 .. 3
           /\ r.debit \in LegRow /\ r.credit \in LegRow
           /\ \E legs \in LegPairs : legs.debit = r.debit /\ legs.credit = r.credit
<1>1. PICK s \in {"CREATED", "LOCKED", "COMMITTED", "ABORTED"}, v \in 1 .. 3, legs \in LegPairs :
        r = [state |-> s, version |-> v, debit |-> legs.debit, credit |-> legs.credit]
  BY DEF PvpRow, NoPvp
<1>2. legs \in [debit : LegRow, credit : LegRow]
  BY LegAssumption
<1> QED
  BY <1>1, <1>2

LEMMA PvpRowMade ==
    ASSUME NEW s \in {"CREATED", "LOCKED", "COMMITTED", "ABORTED"}, NEW v \in 1 .. 3, NEW legs \in LegPairs
    PROVE  [state |-> s, version |-> v, debit |-> legs.debit, credit |-> legs.credit] \in PvpRow
<1> DEFINE row == [state |-> s, version |-> v, debit |-> legs.debit, credit |-> legs.credit]
           states == {"CREATED", "LOCKED", "COMMITTED", "ABORTED"}
           made == {[state |-> t, version |-> w, debit |-> l.debit, credit |-> l.credit] :
                      t \in states, w \in 1 .. 3, l \in LegPairs}
<1>1. PvpRow = {NoPvp} \cup made
  BY DEF PvpRow
<1>2. s \in states
  OBVIOUS
<1> HIDE DEF states
<1>3. row \in made
  BY <1>2
<1> HIDE DEF row, made
<1>4. row \in PvpRow
  BY <1>1, <1>3
<1> QED
  BY <1>4 DEF row

LEMMA SteppedRow ==
    ASSUME NEW current \in PvpRow, current.state # "NONE", NEW row \in PvpRow, row.state # "NONE",
           row.version \in {1, 2}, NEW state \in {"LOCKED", "COMMITTED", "ABORTED"}, row.state # state
    PROVE  /\ Flush(current, row, Stepped(row, state)) \in PvpRow
           /\ Flush(current, row, Stepped(row, state)).state = state
           /\ Flush(current, row, Stepped(row, state)).version = row.version + 1
<1> DEFINE new == Stepped(row, state)
           cols == {"state", "version", "debit", "credit"}
<1>1. DOMAIN row = cols /\ DOMAIN current = cols
  BY PvpRowFacts
<1>2. new.state = state /\ new.version = row.version + 1 /\ new.debit = row.debit /\ new.credit = row.credit
  BY <1>1 DEF Stepped
<1>3. PICK legs \in LegPairs : legs.debit = current.debit /\ legs.credit = current.credit
  BY PvpRowFacts
<1> HIDE DEF new
<1> DEFINE f == [col \in cols |-> IF new[col] # row[col] THEN new[col] ELSE current[col]]
<1>4. Flush(current, row, new) = f
  BY <1>1 DEF Flush
<1>5. row.version + 1 # row.version /\ row.version + 1 \in 1 .. 3
  OBVIOUS
<1>6. f["state"] = state /\ f["version"] = row.version + 1 /\ f["debit"] = legs.debit /\ f["credit"] = legs.credit
  BY <1>2, <1>3, <1>5
<1>7. f = [state |-> f["state"], version |-> f["version"], debit |-> f["debit"], credit |-> f["credit"]]
  OBVIOUS
<1> HIDE DEF f
<1>8. f = [state |-> state, version |-> row.version + 1, debit |-> legs.debit, credit |-> legs.credit]
  BY <1>6, <1>7
<1>9. f \in PvpRow
  BY <1>5, <1>8, PvpRowMade
<1> QED
  BY <1>4, <1>6, <1>9 DEF new

LEMMA QuoteKeeps ==
    ASSUME EInv, \/ \E c \in Client : CreateFxQuote(c)
                 \/ ExpireQuote,
           UNCHANGED <<instrumentVars, issuanceVars>>
    PROVE  EInv'
<1>1. UNCHANGED <<req, stale, ledgerVars, walletVars, pvp, moved>>
  BY DEF CreateFxQuote, ExpireQuote, AtOnce, requestVars
<1>2. AccountsTyped' /\ Unopened' /\ Balanced'
  BY <1>1, RowsOf DEF AccountsTyped, Unopened, Balanced, ledgerVars
<1>3. EscrowsOpen' /\ OperatorsOpen' /\ ReportsCounted'
  BY <1>1, RowsOf, EscrowsStay, OperatorsStay, ReportsStay DEF ledgerVars
<1>4. Settlements'
  BY <1>1, RowsOf DEF Settlements, LegsArePaired
<1>5. Grows
  BY <1>1 DEF Grows, instrumentVars, issuanceVars, ledgerVars
<1> QED
  BY <1>1, <1>2, <1>3, <1>4, <1>5, AtOnceKeeps DEF Rows

\* What Settlements says of one of them.
Paired(p) ==
    /\ pvp[p] \in PvpRow /\ pvp[p].version = VersionOf(pvp[p].state)
    /\ moved[p] \in MovedRow
    /\ moved[p].debit = moved[p].credit /\ moved[p].event = moved[p].debit
    /\ ~stale => moved[p].debit = (IF pvp[p].state = "COMMITTED" THEN 1 ELSE 0)

LEMMA SettlementsArePaired ==
    ASSUME Settlements
    PROVE  /\ pvp \in [Pvp -> PvpRow] /\ moved \in [Pvp -> MovedRow]
           /\ \A p \in Pvp : Paired(p)
  BY DEF Settlements, Paired, LegsArePaired

LEMMA PairedAreSettlements ==
    ASSUME pvp' \in [Pvp -> PvpRow], moved' \in [Pvp -> MovedRow], \A p \in Pvp : Paired(p)'
    PROVE  Settlements'
<1>1. LegsArePaired'
  BY DEF Paired, LegsArePaired, VersionOf
<1> QED
  BY <1>1 DEF Settlements, Paired

\* Another settlement than the one that is written.
LEMMA OtherPaired ==
    ASSUME NEW p, Paired(p), pvp'[p] = pvp[p], moved'[p] = moved[p], ~stale' => ~stale
    PROVE  Paired(p)'
  BY DEF Paired

LEMMA CreatePvpKeeps ==
    ASSUME EInv, NEW c \in Client, NEW p \in Pvp, NEW legs \in LegPairs, CreatePvp(c, p, legs),
           UNCHANGED <<instrumentVars, issuanceVars>>
    PROVE  EInv'
<1> DEFINE row == [state |-> "CREATED", version |-> 1, debit |-> legs.debit, credit |-> legs.credit]
<1>1. /\ pvp[p].state = "NONE" /\ pvp' = [pvp EXCEPT ![p] = row]
      /\ UNCHANGED <<req, stale, ledgerVars, walletVars, moved>>
  BY DEF CreatePvp, AtOnce
<1>2. AccountsTyped' /\ Unopened' /\ Balanced'
  BY <1>1, RowsOf DEF AccountsTyped, Unopened, Balanced, ledgerVars
<1>3. EscrowsOpen' /\ OperatorsOpen' /\ ReportsCounted'
  BY <1>1, RowsOf, EscrowsStay, OperatorsStay, ReportsStay DEF ledgerVars
<1>4. row \in PvpRow /\ row.state = "CREATED" /\ row.version = 1
  BY PvpRowMade
<1> HIDE DEF row
<1>5. pvp \in [Pvp -> PvpRow] /\ moved \in [Pvp -> MovedRow] /\ \A q \in Pvp : Paired(q)
  BY RowsOf, SettlementsArePaired
<1>6. pvp' \in [Pvp -> PvpRow] /\ pvp'[p] = row /\ \A q \in Pvp \ {p} : pvp'[q] = pvp[q]
  BY <1>1, <1>4, <1>5
<1>7. Paired(p)'
  <2>1. Paired(p)
    BY <1>5
  <2>2. moved'[p] = moved[p] /\ stale' = stale
    BY <1>1
  <2>3. ~stale => moved[p].debit = 0
    BY <1>1, <2>1 DEF Paired
  <2> QED
    BY <1>4, <1>6, <2>1, <2>2, <2>3 DEF Paired, VersionOf
<1>8. \A q \in Pvp \ {p} : Paired(q)'
  BY <1>1, <1>5, <1>6, OtherPaired
<1>9. moved' \in [Pvp -> MovedRow]
  BY <1>1, <1>5
<1>10. Settlements'
  <2>1. \A q \in Pvp : Paired(q)'
    BY <1>7, <1>8
  <2> QED
    BY <1>6, <1>9, <2>1, PairedAreSettlements
<1>11. Grows
  BY <1>1, <1>4, <1>6 DEF Grows, instrumentVars, issuanceVars, ledgerVars
<1> QED
  BY <1>1, <1>2, <1>3, <1>10, <1>11, AtOnceKeeps DEF Rows

\* A request that reads the settlement row, to lock it or to commit it.
LEMMA SettlementRead ==
    ASSUME EInv, NEW c \in Client, NEW op \in {"pvp_lock", "pvp_commit"}, NEW p \in Pvp,
           pvp[p].state = (IF op = "pvp_lock" THEN "CREATED" ELSE "LOCKED"),
           Open(c, OnPvp(op, p)), UNCHANGED rowVars
    PROVE  EInv'
<1> DEFINE r == OnPvp(op, p)
<1>1. r.op = op /\ r.p = p /\ r.row = pvp[p]
  BY DEF OnPvp
<1>2. /\ pvp[p] \in PvpRow /\ pvp[p].version = VersionOf(pvp[p].state) /\ pvp' = pvp
      /\ op \notin Moving /\ op \notin Funding
  BY RowsOf DEF Settlements, rowVars, pvpVars, Moving, Funding
<1>3. ASSUME req'[c] = r PROVE Reads(c)'
  <2> HIDE DEF r
  <2>1. OnSettlement(c)'
    BY <1>1, <1>2, <1>3 DEF OnSettlement
  <2>2. Moves(c)' /\ Funds(c)' /\ Releases(c)' /\ OnOperatorRow(c)' /\ Tells(c)' /\ MovesLegs(c)'
    BY <1>1, <1>2, <1>3 DEF Moves, Funds, Releases, OnOperatorRow, Tells, MovesLegs
  <2> QED
    BY <2>1, <2>2 DEF Reads
<1> HIDE DEF r
<1>4. Open(c, r)
  BY DEF r
<1> QED
  BY <1>3, <1>4, ReadKeeps

LEMMA ReadLockPvpKeeps ==
    ASSUME EInv, NEW c \in Client, NEW p \in Pvp, NEW expected, ReadLockPvp(c, p, expected),
           UNCHANGED <<instrumentVars, issuanceVars>>
    PROVE  EInv'
<1>1. pvp[p].state = "CREATED" /\ Open(c, OnPvp("pvp_lock", p)) /\ UNCHANGED rowVars
  BY DEF ReadLockPvp, rowVars
<1> QED
  BY <1>1, SettlementRead

LEMMA ReadCommitPvpKeeps ==
    ASSUME EInv, NEW c \in Client, NEW p \in Pvp, NEW expected, ReadCommitPvp(c, p, expected),
           UNCHANGED <<instrumentVars, issuanceVars>>
    PROVE  EInv'
<1>1. pvp[p].state = "LOCKED" /\ Open(c, OnPvp("pvp_commit", p)) /\ UNCHANGED rowVars
  BY DEF ReadCommitPvp, rowVars
<1> QED
  BY <1>1, SettlementRead

\* One row is written; the others, and what has moved for them, stay.
LEMMA OneSettled ==
    ASSUME Settlements, NEW p \in Pvp, NEW row \in PvpRow, pvp' = [pvp EXCEPT ![p] = row],
           moved' \in [Pvp -> MovedRow], \A q \in Pvp \ {p} : moved'[q] = moved[q], ~stale' => ~stale,
           Paired(p)'
    PROVE  Settlements'
<1>1. pvp \in [Pvp -> PvpRow] /\ \A q \in Pvp : Paired(q)
  BY SettlementsArePaired
<1>2. pvp' \in [Pvp -> PvpRow] /\ \A q \in Pvp \ {p} : pvp'[q] = pvp[q]
  BY <1>1
<1>3. \A q \in Pvp \ {p} : Paired(q)'
  BY <1>1, <1>2, OtherPaired
<1>4. \A q \in Pvp : Paired(q)'
  BY <1>3
<1> QED
  BY <1>2, <1>4, PairedAreSettlements

LEMMA CommitLockPvpKeeps ==
    ASSUME EInv, NEW c \in Client, CommitLockPvp(c), UNCHANGED <<instrumentVars, issuanceVars>>
    PROVE  EInv'
<1>a. PICK p : p = req[c].p
  OBVIOUS
<1>b. PICK row : row = req[c].row
  OBVIOUS
<1> DEFINE new == Flush(pvp[p], row, Stepped(row, "LOCKED"))
           fresh == /\ pvp[p] = row /\ quote = req[c].quote
                    /\ \A a \in Sources(row) : bal[a] = req[c].loaded[a]
<1>1. /\ req[c].op = "pvp_lock"
      /\ pvp' = [pvp EXCEPT ![p] = new]
      /\ Commit(c, fresh)
      /\ UNCHANGED <<ledgerVars, walletVars, moved>>
  BY <1>a, <1>b DEF CommitLockPvp
<1>2. /\ p \in Pvp /\ pvp[p].state # "NONE" /\ row \in PvpRow /\ row.state = "CREATED" /\ row.version = 1
  BY <1>a, <1>b, <1>1, RowsOf DEF Requests, Reads, OnSettlement, Settling, VersionOf
<1>3. stale' = (stale \/ ~fresh)
  BY <1>1 DEF Commit
<1>4. ~stale' => ~stale /\ pvp[p] = row
  BY <1>3
<1>5. pvp \in [Pvp -> PvpRow] /\ moved \in [Pvp -> MovedRow] /\ Settlements /\ Paired(p)
  BY <1>2, RowsOf, SettlementsArePaired
<1>6. new \in PvpRow /\ new.state = "LOCKED" /\ new.version = 2
  BY <1>2, <1>5, SteppedRow
<1>7. AccountsTyped' /\ Unopened' /\ Balanced'
  BY <1>1, <1>4, RowsOf DEF AccountsTyped, Unopened, Balanced, ledgerVars
<1>8. EscrowsOpen' /\ OperatorsOpen' /\ ReportsCounted'
  BY <1>1, RowsOf, EscrowsStay, OperatorsStay, ReportsStay DEF ledgerVars
<1> HIDE DEF fresh
<1>n. PICK next : next = new
  OBVIOUS
<1> HIDE DEF new
<1>9. pvp'[p] = next /\ moved'[p] = moved[p] /\ moved' = moved /\ next \in PvpRow
      /\ next.state = "LOCKED" /\ next.version = 2 /\ pvp' = [pvp EXCEPT ![p] = next]
  BY <1>1, <1>2, <1>5, <1>6, <1>n
<1>10. Paired(p)'
  <2>1. ~stale' => moved[p].debit = 0
    BY <1>2, <1>4, <1>5 DEF Paired
  <2> QED
    BY <1>5, <1>9, <2>1 DEF Paired, VersionOf
<1>11. Settlements'
  BY <1>2, <1>4, <1>5, <1>9, <1>10, OneSettled
<1>12. Grows
  BY <1>1, <1>2, <1>5, <1>9 DEF Grows, ledgerVars, instrumentVars, issuanceVars
<1> QED
  BY <1>1, <1>7, <1>8, <1>11, <1>12, CommitKeeps DEF Rows

\* Both legs in the session, or neither.
LEMMA LegsExplained ==
    ASSUME AccountsTyped, NEW row \in PvpRow, row.state # "NONE"
    PROVE  /\ Explains(Legs(row).s, bal)
           /\ \A a \in Account : Legs(row).s.bal[a] # bal[a] => a \in Touches(row) \cap opened
           /\ \/ Legs(row).state = "COMMITTED" /\ Legs(row).debit = 1 /\ Legs(row).credit = 1
              \/ Legs(row).state = "ABORTED" /\ Legs(row).debit = 0 /\ Legs(row).credit = 0
<1> DEFINE d == row.debit
           k == row.credit
           first == Leg(LoadLedger, d)
           both == Leg(first, k)
           moves == ActiveQuote(d.amount) /\ CanLeg(LoadLedger, d) /\ CanLeg(first, k)
<1>1. d \in LegRow /\ k \in LegRow
  BY PvpRowFacts
<1>2. Explains(LoadLedger, bal) /\ LoadLedger.bal = bal /\ bal \in AccountRows
  BY LoadExplained DEF AccountsTyped
<1>3. CASE moves
  <2>1. /\ {d.from, d.to, k.from, k.to} \subseteq opened
        /\ CanTransfer(LoadLedger, d.from, d.to, d.amount)
        /\ CanTransfer(first, k.from, k.to, k.amount)
    BY <1>3 DEF CanLeg
  <2>2. /\ d.from \in Account /\ d.to \in Account /\ d.amount \in Nat
        /\ k.from \in Account /\ k.to \in Account /\ k.amount \in Nat
    BY <1>1 DEF LegRow
  <2>3. Legs(row) = [state |-> "COMMITTED", s |-> both, debit |-> 1, credit |-> 1]
    BY <1>3 DEF Legs
  <2>4. first = Transfer(LoadLedger, d.from, d.to, d.amount) /\ both = Transfer(first, k.from, k.to, k.amount)
    BY DEF Leg
  <2> HIDE DEF first, both, d, k
  <2>5. Explains(first, bal) /\ \A a \in Account : first.bal[a] # bal[a] => a \in {d.from, d.to}
    BY <2>1, <2>2, <2>4, SessionOfTransfer
  <2>6. Explains(both, bal) /\ \A a \in Account \ {k.from, k.to} : both.bal[a] = first.bal[a]
    BY <1>2, <2>1, <2>2, <2>4, <2>5, TransferExplained
  <2>7. \A a \in Account : both.bal[a] # bal[a] => a \in {d.from, d.to, k.from, k.to} \cap opened
    BY <2>1, <2>5, <2>6
  <2>8. Touches(row) = {d.from, d.to, k.from, k.to}
    BY DEF Touches, d, k
  <2> QED
    BY <2>3, <2>6, <2>7, <2>8
<1>4. CASE ~moves
  <2>1. Legs(row) = [state |-> "ABORTED", s |-> LoadLedger, debit |-> 0, credit |-> 0]
    BY <1>4 DEF Legs
  <2> QED
    BY <1>2, <2>1
<1> HIDE DEF moves
<1> QED
  BY <1>3, <1>4

LEMMA TakeLeasesKeeps ==
    ASSUME EInv, NEW c \in Client, TakeLeases(c), UNCHANGED <<instrumentVars, issuanceVars>>
    PROVE  EInv'
<1> DEFINE p == req[c].p
           row == req[c].row
           done == Legs(row)
           r == [op |-> "pvp_legs", p |-> p, row |-> row, loaded |-> bal, quote |-> quote, done |-> done]
<1>1. /\ req[c].op = "pvp_commit" /\ ReadOn(c, r) /\ UNCHANGED rowVars
  BY DEF TakeLeases, rowVars
<1>2. /\ p \in Pvp /\ pvp[p].state # "NONE" /\ row \in PvpRow /\ row.state = "LOCKED"
      /\ row.version = VersionOf(row.state)
  BY <1>1, RowsOf DEF Requests, Reads, OnSettlement, Settling
<1> HIDE DEF p, row
<1>3. /\ Explains(done.s, bal)
      /\ \A a \in Account : done.s.bal[a] # bal[a] => a \in Touches(row) \cap opened
      /\ \/ done.state = "COMMITTED" /\ done.debit = 1 /\ done.credit = 1
         \/ done.state = "ABORTED" /\ done.debit = 0 /\ done.credit = 0
  BY <1>2, RowsOf, LegsExplained
<1> HIDE DEF done
<1>4. /\ r.op = "pvp_legs" /\ r.p = p /\ r.row = row /\ r.loaded = bal /\ r.done = done
      /\ bal \in AccountRows /\ opened' = opened /\ pvp' = pvp
  BY <1>1, RowsOf DEF AccountsTyped, rowVars, ledgerVars, pvpVars
<1> HIDE DEF r
<1>5. ASSUME req'[c] = r PROVE Reads(c)'
  <2>1. OnSettlement(c)'
    BY <1>2, <1>4, <1>5 DEF OnSettlement
  <2>2. MovesLegs(c)'
    BY <1>3, <1>4, <1>5 DEF MovesLegs, Explains, Touches
  <2>3. Moves(c)' /\ Funds(c)' /\ Releases(c)' /\ OnOperatorRow(c)' /\ Tells(c)'
    BY <1>4, <1>5 DEF Moves, Moving, Funds, Funding, Releases, OnOperatorRow, Tells
  <2> QED
    BY <2>1, <2>2, <2>3 DEF Reads
<1> QED
  BY <1>1, <1>5, ReadKeeps

LEMMA CommitPvpKeeps ==
    ASSUME EInv, NEW c \in Client, CommitPvp(c), UNCHANGED <<instrumentVars, issuanceVars>>
    PROVE  EInv'
<1>a. PICK p : p = req[c].p
  OBVIOUS
<1>b. PICK row : row = req[c].row
  OBVIOUS
<1> DEFINE loaded == req[c].loaded
           done == req[c].done
           new == Flush(pvp[p], row, Stepped(row, done.state))
           fresh == /\ pvp[p] = row /\ quote = req[c].quote
                    /\ \A l \in {row.debit, row.credit} :
                         bal[l.from] = loaded[l.from] /\ bal[l.to] = loaded[l.to]
<1>1. /\ req[c].op = "pvp_legs"
      /\ Persist(loaded, done.s) /\ Counts(done.s) /\ opened' = opened
      /\ pvp' = [pvp EXCEPT ![p] = new]
      /\ moved' = [moved EXCEPT ![p] = [debit |-> @.debit + done.debit, credit |-> @.credit + done.credit,
                     event |-> @.event + (IF done.state = "COMMITTED" THEN 1 ELSE 0)]]
      /\ Commit(c, fresh)
      /\ UNCHANGED walletVars
  BY <1>a, <1>b, ZenonT(40) DEF CommitPvp, Counts
<1>2. /\ p \in Pvp /\ pvp[p].state # "NONE" /\ row \in PvpRow /\ row.state = "LOCKED" /\ row.version = 2
      /\ loaded \in AccountRows /\ Explains(done.s, loaded)
      /\ \A a \in Account : done.s.bal[a] # loaded[a] => a \in Touches(row) \cap opened
      /\ \/ done.state = "COMMITTED" /\ done.debit = 1 /\ done.credit = 1
         \/ done.state = "ABORTED" /\ done.debit = 0 /\ done.credit = 0
  BY <1>a, <1>b, <1>1, RowsOf DEF Requests, Reads, OnSettlement, Settling, MovesLegs, VersionOf
<1>3. stale' = (stale \/ ~fresh)
  BY <1>1 DEF Commit
<1>4. ~stale' => ~stale /\ pvp[p] = row /\ \A a \in Touches(row) : bal[a] = loaded[a]
  <2> HIDE DEF loaded
  <2>1. fresh => /\ bal[row.debit.from] = loaded[row.debit.from] /\ bal[row.debit.to] = loaded[row.debit.to]
                 /\ bal[row.credit.from] = loaded[row.credit.from] /\ bal[row.credit.to] = loaded[row.credit.to]
    OBVIOUS
  <2>2. fresh => pvp[p] = row
    OBVIOUS
  <2> HIDE DEF fresh
  <2>3. ~stale' => ~stale /\ fresh
    BY <1>3
  <2>4. fresh => \A a \in Touches(row) : bal[a] = loaded[a]
    BY <2>1 DEF Touches
  <2> QED
    BY <2>2, <2>3, <2>4
<1> HIDE DEF loaded, done, fresh
<1>5. pvp \in [Pvp -> PvpRow] /\ moved \in [Pvp -> MovedRow] /\ Settlements /\ Paired(p)
  BY <1>2, RowsOf, SettlementsArePaired
<1>6. new \in PvpRow /\ new.state = done.state /\ new.version = 3
  <2>1. pvp[p] \in PvpRow /\ done.state \in {"LOCKED", "COMMITTED", "ABORTED"} /\ row.state # done.state
        /\ row.version \in {1, 2} /\ row.state # "NONE" /\ row.version + 1 = 3
    BY <1>2, <1>5
  <2> QED
    BY <1>2, <2>1, SteppedRow
<1>n. PICK next : next = new
  OBVIOUS
<1> HIDE DEF new
<1>7. AccountsTyped /\ Unopened /\ Balanced /\ opened \subseteq Account
  BY RowsOf
<1>8. AccountsTyped'
  BY <1>1, <1>2, <1>7, PersistTyped
<1>9. Unopened'
  BY <1>1, <1>2, <1>7, PersistUnopened
<1>10. Balanced'
  <2> SUFFICES ASSUME ~stale', NEW a \in Account, CurrencyOf[a] = "CNY", Holder(a) PROVE bal'[a] = posted'[a]
    BY DEF Balanced
  <2>1. bal[a] = posted[a] /\ (done.s.bal[a] # loaded[a] => bal[a] = loaded[a])
    BY <1>2, <1>4, <1>7 DEF Balanced
  <2> QED
    BY <1>1, <1>2, <1>7, <2>1, PersistBalanced
<1>11. EscrowsOpen' /\ OperatorsOpen' /\ ReportsCounted'
  BY <1>1, RowsOf, EscrowsStay, OperatorsStay, ReportsStay
<1> DEFINE entry == [debit |-> moved[p].debit + done.debit, credit |-> moved[p].credit + done.credit,
                     event |-> moved[p].event + (IF done.state = "COMMITTED" THEN 1 ELSE 0)]
<1>12. moved' = [moved EXCEPT ![p] = entry]
  BY <1>1
<1>13. entry \in MovedRow /\ entry.debit = moved[p].debit + done.debit
       /\ entry.credit = entry.debit /\ entry.event = entry.debit
  BY <1>2, <1>5 DEF Paired, MovedRow
<1> HIDE DEF entry
<1>e. PICK sum : sum = entry
  OBVIOUS
<1>14. /\ moved' \in [Pvp -> MovedRow] /\ moved'[p] = sum
       /\ \A q \in Pvp \ {p} : moved'[q] = moved[q]
       /\ pvp' = [pvp EXCEPT ![p] = next] /\ pvp'[p] = next
       /\ next \in PvpRow /\ next.version = 3
       /\ next.state \in {"COMMITTED", "ABORTED"} /\ next.state = done.state
  BY <1>1, <1>2, <1>5, <1>6, <1>12, <1>13, <1>n, <1>e
<1>15. ~stale' => moved[p].debit = 0
  BY <1>2, <1>4, <1>5 DEF Paired
<1>16. Paired(p)'
  <2>1. sum \in MovedRow /\ sum.debit = sum.credit /\ sum.event = sum.debit
    BY <1>13, <1>e
  <2>2. ~stale' => sum.debit = (IF next.state = "COMMITTED" THEN 1 ELSE 0)
    BY <1>2, <1>13, <1>14, <1>15, <1>e
  <2>3. next.version = VersionOf(next.state)
    BY <1>14 DEF VersionOf
  <2> QED
    BY <1>14, <2>1, <2>2, <2>3 DEF Paired, VersionOf
<1>17. Settlements'
  BY <1>2, <1>4, <1>5, <1>14, <1>16, OneSettled
<1>18. Grows
  BY <1>1, <1>2, <1>5, <1>14 DEF Grows, instrumentVars, issuanceVars
<1> QED
  BY <1>1, <1>8, <1>9, <1>10, <1>11, <1>17, <1>18, CommitKeeps, SMTT(30) DEF Rows

LEMMA PvpKeeps ==
    ASSUME EInv, NEW c \in Client, PvpNext(c), UNCHANGED <<instrumentVars, issuanceVars>>
    PROVE  EInv'
<1>1. CASE CreateFxQuote(c)
  BY <1>1, QuoteKeeps
<1>2. ASSUME NEW p \in Pvp, NEW legs \in LegPairs, CreatePvp(c, p, legs) PROVE EInv'
  BY <1>2, CreatePvpKeeps
<1>3. ASSUME NEW p \in Pvp, NEW expected, ReadLockPvp(c, p, expected) PROVE EInv'
  BY <1>3, ReadLockPvpKeeps
<1>4. CASE CommitLockPvp(c)
  BY <1>4, CommitLockPvpKeeps
<1>5. ASSUME NEW p \in Pvp, NEW expected, ReadCommitPvp(c, p, expected) PROVE EInv'
  BY <1>5, ReadCommitPvpKeeps
<1>6. CASE TakeLeases(c)
  BY <1>6, TakeLeasesKeeps
<1>7. CASE CommitPvp(c)
  BY <1>7, CommitPvpKeeps
<1>8. CASE RollBackPvp(c)
  BY <1>8, RollBackKeeps DEF RollBackPvp, rowVars
<1> QED
  BY <1>1, <1>2, <1>3, <1>4, <1>5, <1>6, <1>7, <1>8 DEF PvpNext

------------------------------------------------------------------------------
(* The behaviours *)

LEMMA InitEcny == EcnySystemInit => EInv
<1> SUFFICES ASSUME EcnySystemInit PROVE EInv
  OBVIOUS
<1>1. PICK accounts \in SUBSET (Account \ Escrows), balances \in AccountRows :
        /\ \A a \in Account \ accounts : balances[a] = 0
        /\ LedgerInit(accounts, balances)
  BY DEF EcnySystemInit
<1>2. /\ opened = accounts /\ bal = balances /\ booked = Nothing /\ sent = Nothing
      /\ \A a \in Account : Holder(a) => posted[a] = balances[a]
  BY <1>1 DEF LedgerInit, Holder
<1>3. AccountsTyped /\ Unopened /\ Balanced
  <2>1. ASSUME NEW a \in Account PROVE posted[a] \in Int
    <3> DEFINE others == {x \in Account : x # a /\ CurrencyOf[x] = CurrencyOf[a]}
    <3>1. IsFiniteSet(others)
      <4>1. others \in SUBSET Account
        OBVIOUS
      <4> HIDE DEF others
      <4> QED
        BY <4>1, AccountAssumption, FS_Subset
    <3>2. \A x \in Account : balances[x] \in Int
      BY DEF AccountRows
    <3>3. posted[a] = IF Holder(a) THEN balances[a] ELSE -SumFunctionOnSet(balances, others)
      BY <1>1 DEF LedgerInit, Holder
    <3> HIDE DEF others
    <3>4. others \subseteq Account
      BY DEF others
    <3>5. SumFunctionOnSet(balances, others) \in Int
      BY <3>1, <3>2, <3>4, SumType
    <3> QED
      BY <3>2, <3>3, <3>5
  <2>2. posted \in EntryRows
    BY <1>1, <2>1 DEF LedgerInit, EntryRows
  <2> QED
    BY <1>1, <1>2, <2>2 DEF AccountsTyped, Unopened, Balanced, AccountRows, Nothing, TransactionRows, EntryRows
<1>4. EscrowsOpen
  <2>1. \A x \in Voucher \cup Instrument : EscrowOf[x] \in Escrows
    BY DEF Escrows
  <2>2. /\ voucher = [v \in Voucher |-> NoVoucher] /\ instrument = [i \in Instrument |-> NoInstrument]
        /\ announced = [v \in Voucher |-> 0]
    BY DEF EcnySystemInit, InstrumentsInit
  <2>3. NoVoucher \in VoucherRow /\ NoVoucher.status = "none" /\ NoInstrument \in InstrumentRow
        /\ NoInstrument.status = "none"
    BY DEF NoVoucher, VoucherRow, NoInstrument, InstrumentRow, Template
  <2>4. InstrumentsTypeOK
    BY <2>2, <2>3 DEF InstrumentsTypeOK
  <2> QED
    BY <1>2, <2>1, <2>2, <2>3, <2>4 DEF EscrowsOpen
<1>5. OperatorsOpen
  BY DEF EcnySystemInit, IssuanceInit, OperatorsOpen, IssuanceTypeOK, OperatorRows
<1>6. ReportsCounted
  BY DEF EcnySystemInit, WalletsInit, ReportsCounted, ReportRows, BridgeRows, ReportsMatchBridge, ReportType
<1>7. Settlements
  <2>1. /\ pvp = [p \in Pvp |-> NoPvp]
        /\ moved = [p \in Pvp |-> [debit |-> 0, credit |-> 0, event |-> 0]]
    BY DEF EcnySystemInit, PvpInit
  <2>2. NoPvp \in PvpRow /\ NoPvp.state = "NONE" /\ NoPvp.version = 0
    BY DEF PvpRow, NoPvp
  <2>3. \A p \in Pvp : pvp[p] = NoPvp /\ moved[p] = [debit |-> 0, credit |-> 0, event |-> 0]
    BY <2>1
  <2>4. LegsArePaired
    BY <2>2, <2>3 DEF LegsArePaired
  <2>5. moved \in [Pvp -> MovedRow] /\ pvp \in [Pvp -> PvpRow]
    BY <2>1, <2>2 DEF MovedRow
  <2> QED
    BY <2>2, <2>3, <2>4, <2>5 DEF Settlements, VersionOf
<1>8. Requests
  <2>1. req = [c \in Client |-> Idle] /\ stale = FALSE
    BY DEF EcnySystemInit, RequestsInit
  <2>2. \A c \in Client : req[c].op = "idle"
    BY <2>1 DEF Idle
  <2>3. \A c \in Client : Reads(c)
    BY <2>2 DEF Reads, Moves, Funds, Releases, Tells, OnOperatorRow, OnSettlement, MovesLegs,
                Moving, Funding, Settling
  <2> QED
    BY <2>1, <2>3 DEF Requests
<1> QED
  BY <1>3, <1>4, <1>5, <1>6, <1>7, <1>8 DEF EInv, Rows

LEMMA NextEcny == EInv /\ [EcnySystemNext]_ecnyVars => EInv'
<1> SUFFICES ASSUME EInv, [EcnySystemNext]_ecnyVars PROVE EInv'
  OBVIOUS
<1>1. CASE UNCHANGED ecnyVars
  <2>1. UNCHANGED <<req, stale>> /\ UNCHANGED <<rowVars, stale>>
    BY <1>1 DEF ecnyVars, requestVars, rowVars
  <2>2. Rows
    BY DEF EInv
  <2> QED
    BY <2>1, <2>2, RowsStay, AtOnceKeeps
<1>2. ASSUME NEW c \in Client, EcnyNext(c), UNCHANGED <<instrumentVars, pvpVars, issuanceVars>> PROVE EInv'
  BY <1>2, EcnyKeeps
<1>3. ASSUME NEW c \in Client, InstrumentNext(c), UNCHANGED <<pvpVars, issuanceVars>> PROVE EInv'
  BY <1>3, InstrumentsKeep
<1>4. ASSUME NEW c \in Client, PvpNext(c), UNCHANGED <<instrumentVars, issuanceVars>> PROVE EInv'
  BY <1>4, PvpKeeps
<1>5. ASSUME NEW c \in Client, IssuanceNext(c), UNCHANGED <<instrumentVars, pvpVars>> PROVE EInv'
  BY <1>5, IssuanceKeeps
<1>6. CASE NewDay /\ UNCHANGED <<instrumentVars, pvpVars, issuanceVars>>
  BY <1>6, NewDayKeeps
<1>7. CASE ExpireQuote /\ UNCHANGED <<instrumentVars, issuanceVars>>
  BY <1>7, QuoteKeeps
<1>8. ASSUME NEW x \in Voucher \cup Instrument, PassExpiry(x), UNCHANGED <<pvpVars, issuanceVars>> PROVE EInv'
  BY <1>8, PassExpiryKeeps
<1> QED
  BY <1>1, <1>2, <1>3, <1>4, <1>5, <1>6, <1>7, <1>8 DEF EcnySystemNext

------------------------------------------------------------------------------
(* The theorems *)

\* Along every behaviour the rows are those the parts of the platform make
\* together, and open requests have read what Requests says.
THEOREM EcnySystemInvariance == EcnySystemSpec => []EInv
<1> QED
  BY InitEcny, NextEcny, PTL DEF EcnySystemSpec

\* ledger/engine.py and its callers: without overlap the balance
\* of a CNY account is what its entries come to, whoever has moved the money.
THEOREM BalancesMatchEntriesHolds == EcnySystemSpec => []BalancesMatchEntries
<1>1. EInv => BalancesMatchEntries
  BY DEF EInv, Rows, AccountsTyped, Balanced, BalancesMatchEntries, Holder
<1> QED
  BY <1>1, EcnySystemInvariance, PTL

\* bridge/cips.py: its rows are settled ones, each with its report.
THEOREM ReportsMatchBridgeHolds == EcnySystemSpec => []ReportsMatchBridge
<1>1. EInv => ReportsMatchBridge
  BY DEF EInv, Rows, ReportsCounted
<1> QED
  BY <1>1, EcnySystemInvariance, PTL

\* cbdc.py, commit_pvp(): both legs of a settlement move, or none, with the event;
\* without overlap once, and as the state of the settlement says.
THEOREM LegsArePairedHolds == EcnySystemSpec => []LegsArePaired
<1>1. EInv => LegsArePaired
  BY DEF EInv, Rows, Settlements
<1> QED
  BY <1>1, EcnySystemInvariance, PTL

------------------------------------------------------------------------------
(* What the rows count                                                         *)

Escrowed == Voucher \cup Instrument

\* Accounts whose balances are outstanding CNY.
Counted == {a \in Account : CurrencyOf[a] = "CNY" /\ Holder(a)}

\* The entries e put p on a and q on b, and nothing on another holder's account.
Adds(e, a, p, b, q) == \A z \in Account : Holder(z) =>
    e[z] = (IF z = a THEN p ELSE 0) + (IF z = b THEN q ELSE 0)

\* A request between a wallet and the escrow of its voucher or instrument.
EscrowOps == {"issue", "create", "redeem", "execute"}
Paid(r) == IF r.op \in Funding THEN r.n ELSE -r.n
PaysEscrow(r) ==
    /\ r.x \in Escrowed /\ r.n \in Nat
    /\ \E w \in Wallets : Adds(r.s.ent, EscrowOf[r.x], Paid(r), w, -Paid(r))

\* A request that adds d to an operator row, and passes top of it on to a wallet.
Passes(r) ==
    /\ r.a \in Operators /\ r.d \in Int /\ r.top \in Int
    /\ \E w \in Account : /\ r.top # 0 => w \in Wallets /\ CurrencyOf[r.a] = "CNY"
                          /\ Adds(r.s.ent, r.a, r.d - r.top, w, r.top)

Keeps(r) ==
    /\ r.op \in EscrowOps => PaysEscrow(r)
    /\ r.op = "create" => r.row.amount = r.n
    /\ r.op = "redeem" => r.row.status = "issued" /\ r.n = r.row.amount
    /\ r.op = "operator" => Passes(r)

\* What the booked entries are of a voucher, of an instrument, and of the CNY.
CountedVoucher(v) ==
    /\ booked[EscrowOf[v]] = IF voucher[v].status = "issued" THEN voucher[v].amount ELSE 0
    /\ announced[v] = IF voucher[v].status = "redeemed" THEN 1 ELSE 0

CountedInstrument(i) ==
    /\ booked[EscrowOf[i]] = instrument[i].amount
    /\ (instrument[i].status # "active") => (instrument[i].amount = 0)

CnyRows(rows) == {a \in DOMAIN rows : CurrencyOf[a] = "CNY"}

Tallied(rows, b, t) ==
    /\ SumFunctionOnSet(b, Counted) = SumFunctionOnSet(rows, CnyRows(rows))
    /\ SumFunctionOnSet([a \in CnyRows(rows) |-> rows[a] - b[a]], CnyRows(rows)) = t

AllCounted ==
    /\ \A v \in Voucher : CountedVoucher(v)
    /\ \A i \in Instrument : CountedInstrument(i)
    /\ Tallied(issued, booked, topped)

CInv ==
    /\ topped \in Int
    /\ \A a \in Operators \ DOMAIN issued : booked[a] = 0
    /\ ~stale => AllCounted
    /\ \A c \in Client : Keeps(req[c])

LEMMA CountedOnes ==
    /\ IsFiniteSet(Counted) /\ Counted \subseteq Account
    /\ \A a \in Wallets : a \in Counted /\ a \notin Operators /\ Holder(a)
    /\ \A x \in Escrowed : /\ EscrowOf[x] \in Counted /\ Holder(EscrowOf[x])
                           /\ EscrowOf[x] \notin Operators /\ EscrowOf[x] \notin Wallets
    /\ \A a \in Operators : a \in Account /\ Holder(a) /\ (a \in Counted <=> CurrencyOf[a] = "CNY")
    /\ \A x, y \in Escrowed : EscrowOf[x] = EscrowOf[y] => x = y
<1>1. IsFiniteSet(Counted) /\ Counted \subseteq Account
  <2>1. Counted \in SUBSET Account
    BY DEF Counted
  <2> QED
    BY <2>1, AccountAssumption, FS_Subset
<1>2. \A a \in Wallets : a \in Counted /\ a \notin Operators /\ Holder(a)
  BY WalletAssumption DEF Wallets, Operators, Counted, Holder
<1>3. \A x \in Escrowed : /\ EscrowOf[x] \in Account /\ CurrencyOf[EscrowOf[x]] = "CNY"
                          /\ OwnerType[EscrowOf[x]] \in {"offline_escrow", "program_escrow"}
  BY EscrowAssumption DEF Escrowed
<1>4. \A x \in Escrowed : /\ EscrowOf[x] \in Counted /\ Holder(EscrowOf[x])
                          /\ EscrowOf[x] \notin Operators /\ EscrowOf[x] \notin Wallets
  BY <1>3 DEF Wallets, Operators, Counted, Holder
<1>5. \A a \in Operators : a \in Account /\ Holder(a) /\ (a \in Counted <=> CurrencyOf[a] = "CNY")
  BY DEF Operators, Counted, Holder
<1>6. \A x, y \in Escrowed : EscrowOf[x] = EscrowOf[y] => x = y
  BY EscrowAssumption DEF Escrowed
<1> QED
  BY <1>1, <1>2, <1>4, <1>5, <1>6

\* What is put on two accounts adds up over the counted ones.
LEMMA SumAdded ==
    ASSUME NEW e, NEW a \in Account, NEW b \in Account, NEW p \in Int, NEW q \in Int, Adds(e, a, p, b, q)
    PROVE  SumFunctionOnSet(e, Counted) = (IF a \in Counted THEN p ELSE 0) + (IF b \in Counted THEN q ELSE 0)
<1> PICK S : S = Counted
  OBVIOUS
<1>1. IsFiniteSet(S) /\ \A z \in S : e[z] = (IF z = a THEN p ELSE 0) + (IF z = b THEN q ELSE 0)
  BY CountedOnes DEF Adds, Counted
<1>2. ASSUME NEW x, NEW n \in Int, NEW f, \A z \in S : f[z] = IF z = x THEN n ELSE 0
      PROVE  SumFunctionOnSet(f, S) = IF x \in S THEN n ELSE 0
  <2>1. CASE x \in S
    <3>1. f[x] = n /\ \A y \in S \ {x} : f[y] = 0
      BY <1>2, <2>1
    <3>2. SumFunctionOnSet(f, S) = f[x]
      BY <1>1, <2>1, <3>1, SumOnly
    <3> QED
      BY <2>1, <3>1, <3>2
  <2>2. CASE x \notin S
    <3>1. \A y \in S : f[y] = 0
      BY <1>2, <2>2
    <3>2. SumFunctionOnSet(f, S) = 0
      BY <1>1, <3>1, SumZero
    <3> QED
      BY <2>2, <3>2
  <2> QED
    BY <2>1, <2>2
<1> PICK f : f = [z \in S |-> IF z = a THEN p ELSE 0]
  OBVIOUS
<1> PICK g : g = [z \in S |-> IF z = b THEN q ELSE 0]
  OBVIOUS
<1>3. /\ \A z \in S : f[z] = IF z = a THEN p ELSE 0
      /\ \A z \in S : g[z] = IF z = b THEN q ELSE 0
  OBVIOUS
<1>4. \A z \in S : f[z] \in Int /\ g[z] \in Int /\ e[z] = f[z] + g[z]
  BY <1>1, <1>3
<1>5. SumFunctionOnSet(f, S) = (IF a \in S THEN p ELSE 0) /\ SumFunctionOnSet(g, S) = (IF b \in S THEN q ELSE 0)
  BY <1>2, <1>3
<1>6. SumFunctionOnSet(e, S) = SumFunctionOnSet(f, S) + SumFunctionOnSet(g, S)
  BY <1>1, <1>4, SumOfBoth
<1> QED
  BY <1>5, <1>6

\* A request on an escrow leaves the outstanding CNY and the operators alone.
LEMMA EscrowPaid ==
    ASSUME NEW r, PaysEscrow(r)
    PROVE  /\ SumFunctionOnSet(r.s.ent, Counted) = 0
           /\ r.s.ent[EscrowOf[r.x]] = Paid(r)
           /\ \A y \in Escrowed \ {r.x} : r.s.ent[EscrowOf[y]] = 0
           /\ \A a \in Operators : r.s.ent[a] = 0
<1> PICK w \in Wallets : Adds(r.s.ent, EscrowOf[r.x], Paid(r), w, -Paid(r))
  BY DEF PaysEscrow
<1> PICK n : n = Paid(r)
  OBVIOUS
<1> PICK x : x = r.x
  OBVIOUS
<1> PICK e : e = r.s.ent
  OBVIOUS
<1>1. n \in Int /\ -n \in Int /\ x \in Escrowed
  BY DEF PaysEscrow, Paid
<1>2. /\ w \in Counted /\ w \in Account /\ w \notin Operators
      /\ EscrowOf[x] \in Counted /\ EscrowOf[x] \in Account /\ EscrowOf[x] # w
      /\ \A y \in Escrowed : EscrowOf[y] \in Account /\ Holder(EscrowOf[y]) /\ EscrowOf[y] # w
  BY <1>1, CountedOnes
<1>3. Adds(e, EscrowOf[x], n, w, -n)
  OBVIOUS
<1>4. SumFunctionOnSet(e, Counted) = n + (-n)
  BY <1>1, <1>2, <1>3, SumAdded
<1>5. e[EscrowOf[x]] = n
  BY <1>1, <1>2, <1>3 DEF Adds
<1>6. \A y \in Escrowed \ {x} : e[EscrowOf[y]] = 0
  BY <1>1, <1>2, <1>3, CountedOnes DEF Adds
<1>7. \A a \in Operators : e[a] = 0
  BY <1>1, <1>2, <1>3, CountedOnes DEF Adds
<1> QED
  BY <1>1, <1>4, <1>5, <1>6, <1>7

\* A request on an operator row puts into circulation what the row counts.
LEMMA OperatorPaid ==
    ASSUME NEW r, Passes(r)
    PROVE  /\ SumFunctionOnSet(r.s.ent, Counted) = IF CurrencyOf[r.a] = "CNY" THEN r.d ELSE 0
           /\ r.s.ent[r.a] = r.d - r.top
           /\ \A y \in Escrowed : r.s.ent[EscrowOf[y]] = 0
           /\ \A a \in Operators \ {r.a} : r.s.ent[a] = 0
           /\ CurrencyOf[r.a] # "CNY" => r.top = 0
<1> PICK w \in Account : /\ r.top # 0 => w \in Wallets /\ CurrencyOf[r.a] = "CNY"
                         /\ Adds(r.s.ent, r.a, r.d - r.top, w, r.top)
  BY DEF Passes
<1> PICK a \in Operators : a = r.a
  BY DEF Passes
<1> PICK d \in Int : d = r.d
  BY DEF Passes
<1> PICK top \in Int : top = r.top
  BY DEF Passes
<1> PICK e : e = r.s.ent
  OBVIOUS
<1>1. Adds(e, a, d - top, w, top) /\ d - top \in Int /\ a \in Account
  BY CountedOnes
<1>2. top # 0 => w \in Wallets /\ w \in Counted /\ w \notin Operators /\ CurrencyOf[a] = "CNY"
  BY CountedOnes
<1>3. SumFunctionOnSet(e, Counted) = (IF a \in Counted THEN d - top ELSE 0) + (IF w \in Counted THEN top ELSE 0)
  BY <1>1, SumAdded
<1>4. a \in Counted <=> CurrencyOf[a] = "CNY"
  BY CountedOnes
<1>5. SumFunctionOnSet(e, Counted) = IF CurrencyOf[a] = "CNY" THEN d ELSE 0
  <2>1. CASE top = 0
    BY <1>3, <1>4, <2>1
  <2>2. CASE top # 0
    BY <1>2, <1>3, <1>4, <2>2
  <2> QED
    BY <2>1, <2>2
<1>6. \A z \in Account : Holder(z) /\ z \notin Wallets => e[z] = IF z = a THEN d - top ELSE 0
  <2>1. CASE top = 0
    BY <1>1, <2>1 DEF Adds
  <2>2. CASE top # 0
    BY <1>1, <1>2, <2>2 DEF Adds
  <2> QED
    BY <2>1, <2>2
<1>7. \A z \in Operators : z \in Account /\ Holder(z) /\ z \notin Wallets
  BY CountedOnes
<1>8. \A y \in Escrowed : EscrowOf[y] \in Account /\ Holder(EscrowOf[y]) /\ EscrowOf[y] \notin Wallets /\ EscrowOf[y] # a
  BY CountedOnes
<1> QED
  BY <1>2, <1>5, <1>6, <1>7, <1>8

------------------------------------------------------------------------------
(* Requests that read *)

LEMMA IdleCounts == Keeps(Idle)
<1>1. Idle.op = "idle"
  BY DEF Idle
<1> HIDE DEF Idle
<1> QED
  BY <1>1 DEF Keeps, EscrowOps

\* A step that writes no counting row and books nothing.
LEMMA CountsStay ==
    ASSUME CInv, UNCHANGED <<booked, voucher, instrument, announced, issued, topped>>, ~stale' => ~stale,
           \A d \in Client : req'[d] = req[d] \/ Keeps(req'[d])
    PROVE  CInv'
<1>1. AllCounted => AllCounted'
  BY DEF AllCounted, CountedVoucher, CountedInstrument, Tallied
<1>2. \A d \in Client : Keeps(req'[d])
  BY DEF CInv
<1> QED
  BY <1>1, <1>2 DEF CInv

LEMMA ReadCounts ==
    ASSUME EInv, CInv, NEW c \in Client, NEW r, Open(c, r) \/ ReadOn(c, r), UNCHANGED rowVars, Keeps(r)
    PROVE  CInv'
<1>1. /\ req'[c] = r /\ \A d \in Client \ {c} : req'[d] = req[d]
      /\ stale' = stale
  BY RowsOf, OpenReq, ReadOnReq
<1>2. UNCHANGED <<booked, voucher, instrument, announced, issued, topped>>
  BY DEF rowVars, ledgerVars, instrumentVars, issuanceVars
<1>3. \A d \in Client : req'[d] = req[d] \/ Keeps(req'[d])
  BY <1>1
<1> QED
  BY <1>1, <1>2, <1>3, CountsStay

LEMMA RollBackCounts ==
    ASSUME EInv, CInv, NEW c \in Client, RollBack(c), UNCHANGED rowVars
    PROVE  CInv'
<1>1. /\ req'[c] = Idle /\ \A d \in Client \ {c} : req'[d] = req[d]
      /\ stale' = stale
  BY RowsOf DEF Requests, RollBack
<1>2. UNCHANGED <<booked, voucher, instrument, announced, issued, topped>>
  BY DEF rowVars, ledgerVars, instrumentVars, issuanceVars
<1>3. \A d \in Client : req'[d] = req[d] \/ Keeps(req'[d])
  BY <1>1, IdleCounts
<1> QED
  BY <1>1, <1>2, <1>3, CountsStay

\* A commit that books nothing.
LEMMA CommitApart ==
    ASSUME EInv, CInv, NEW c \in Client, NEW fresh, Commit(c, fresh),
           UNCHANGED <<booked, voucher, instrument, announced, issued, topped>>
    PROVE  CInv'
<1>1. /\ req'[c] = Idle /\ \A d \in Client \ {c} : req'[d] = req[d]
      /\ ~stale' => ~stale
  BY RowsOf, CommitReq
<1>2. \A d \in Client : req'[d] = req[d] \/ Keeps(req'[d])
  BY <1>1, IdleCounts
<1> QED
  BY <1>1, <1>2, CountsStay

\* A request of one of the other kinds says nothing of what is counted.
LEMMA OtherOps ==
    ASSUME NEW r, r.op \notin EscrowOps \cup {"operator"}
    PROVE  Keeps(r)
  BY DEF Keeps, EscrowOps

\* The entries of the sessions the counting requests hold.
LEMMA TransferAdds ==
    ASSUME AccountsTyped, NEW a \in Account, NEW b \in Account, NEW n \in Nat
    PROVE  /\ Adds(Transfer(LoadLedger, a, b, n).ent, a, -n, b, n)
           /\ Adds(Transfer(LoadLedger, a, b, n).ent, b, n, a, -n)
<1>1. \A z \in Account : Transfer(LoadLedger, a, b, n).ent[z] = 0 - (IF z = a THEN n ELSE 0) + (IF z = b THEN n ELSE 0)
  BY DEF Transfer, LoadLedger, AddEntries, Nothing
<1> QED
  BY <1>1 DEF Adds

LEMMA MintAdds ==
    ASSUME NEW a \in Account, NEW n \in Nat, CanMint(a, n)
    PROVE  /\ Adds(Mint(LoadLedger, a, n).ent, a, n - 0, a, 0)
           /\ \A w \in Account : Adds(Transfer(Mint(LoadLedger, a, n), a, w, n).ent, a, n - n, w, n)
<1> PICK e : e = Mint(LoadLedger, a, n).ent
  OBVIOUS
<1>1. \E cb : /\ ~Holder(cb)
              /\ \A z \in Account : e[z] = 0 - (IF z = cb THEN n ELSE 0) + (IF z = a THEN n ELSE 0)
  BY CentralBank DEF Mint, LoadLedger, AddEntries, Nothing
<1>2. \A z \in Account : Holder(z) => e[z] = IF z = a THEN n ELSE 0
  BY <1>1
<1>3. Adds(e, a, n - 0, a, 0)
  BY <1>2 DEF Adds
<1>4. ASSUME NEW w \in Account PROVE Adds(Transfer(Mint(LoadLedger, a, n), a, w, n).ent, a, n - n, w, n)
  <2> PICK t : t = Transfer(Mint(LoadLedger, a, n), a, w, n).ent
    OBVIOUS
  <2>1. \A z \in Account : t[z] = e[z] - (IF z = a THEN n ELSE 0) + (IF z = w THEN n ELSE 0)
    BY DEF Transfer, AddEntries
  <2>2. \A z \in Account : Holder(z) => t[z] = (IF z = a THEN n - n ELSE 0) + (IF z = w THEN n ELSE 0)
    BY <1>2, <2>1
  <2> QED
    BY <2>2 DEF Adds
<1> QED
  BY <1>3, <1>4

LEMMA BurnAdds ==
    ASSUME NEW a \in Account, NEW n \in Nat, CanBurn(LoadLedger, a, n)
    PROVE  Adds(Burn(LoadLedger, a, n).ent, a, -n - 0, a, 0)
<1> PICK e : e = Burn(LoadLedger, a, n).ent
  OBVIOUS
<1>1. CanMint(a, n)
  BY DEF CanBurn
<1>2. \E cb : /\ ~Holder(cb)
              /\ \A z \in Account : e[z] = 0 - (IF z = a THEN n ELSE 0) + (IF z = cb THEN n ELSE 0)
  BY <1>1, CentralBank DEF Burn, LoadLedger, AddEntries, Nothing
<1>3. \A z \in Account : Holder(z) => e[z] = IF z = a THEN -n ELSE 0
  BY <1>2
<1> QED
  BY <1>3 DEF Adds

\* POST /ecny/operators/{id}/issue and redeem, and the top-ups.
LEMMA OperatorKeeps ==
    ASSUME EInv, CInv, NEW c \in Client, NEW a \in Operators, NEW d \in Int, NEW read, NEW s, NEW top \in Int,
           NEW w \in Account, top # 0 => w \in Wallets /\ CurrencyOf[a] = "CNY",
           Adds(s.ent, a, d - top, w, top),
           Open(c, OnOperator(a, d, read, s, top)), UNCHANGED rowVars
    PROVE  CInv'
<1> DEFINE r == OnOperator(a, d, read, s, top)
<1>1. r.op = "operator" /\ r.a = a /\ r.d = d /\ r.top = top /\ r.s = s /\ Open(c, r)
  BY DEF OnOperator
<1> HIDE DEF r
<1>2. Passes(r)
  BY <1>1 DEF Passes
<1>3. Keeps(r)
  BY <1>1, <1>2 DEF Keeps, EscrowOps
<1> QED
  BY <1>1, <1>3, ReadCounts

LEMMA IssuanceReadsCount ==
    ASSUME EInv, CInv, NEW c \in Client, NEW a \in Operators, NEW n \in Amount,
           \/ ReadIssue(c, a, n)
           \/ ReadRedeem(c, a, n)
           \/ \E w \in Wallets : ReadTopUp(c, a, w, n),
           UNCHANGED <<instrumentVars, pvpVars>>
    PROVE  CInv'
<1>1. n \in Nat /\ n \in Int /\ -n \in Int /\ 0 \in Int /\ a \in Account
  BY AmountsAreNat DEF Operators
<1>0. UNCHANGED rowVars
  BY DEF ReadIssue, ReadRedeem, ReadTopUp, rowVars
<1>2. CASE ReadIssue(c, a, n)
  <2>1. CanMint(a, n) /\ Open(c, OnOperator(a, n, {a}, Mint(LoadLedger, a, n), 0))
    BY <1>2 DEF ReadIssue, CanIssue
  <2>2. Adds(Mint(LoadLedger, a, n).ent, a, n - 0, a, 0)
    BY <1>1, <2>1, MintAdds
  <2> QED
    BY <1>0, <1>1, <2>1, <2>2, OperatorKeeps
<1>3. CASE ReadRedeem(c, a, n)
  <2>1. CanBurn(LoadLedger, a, n) /\ Open(c, OnOperator(a, -n, {a}, Burn(LoadLedger, a, n), 0))
    BY <1>3 DEF ReadRedeem
  <2>2. Adds(Burn(LoadLedger, a, n).ent, a, -n - 0, a, 0)
    BY <1>1, <2>1, BurnAdds
  <2> QED
    BY <1>0, <1>1, <2>1, <2>2, OperatorKeeps
<1>4. ASSUME NEW w \in Wallets, ReadTopUp(c, a, w, n) PROVE CInv'
  <2> PICK s : s = Transfer(Mint(LoadLedger, a, n), a, w, n)
    OBVIOUS
  <2>1. /\ CanMint(a, n) /\ CanTransfer(Mint(LoadLedger, a, n), a, w, n)
        /\ Open(c, OnOperator(a, n, {a, w}, s, n))
    BY <1>4 DEF ReadTopUp, CanIssue
  <2>2. w \in Account /\ CurrencyOf[a] = "CNY"
    BY <2>1, WalletAssumption DEF Wallets, CanTransfer
  <2>3. Adds(s.ent, a, n - n, w, n)
    BY <1>1, <2>1, <2>2, MintAdds
  <2> QED
    BY <1>0, <1>1, <2>1, <2>2, <2>3, OperatorKeeps
<1> QED
  BY <1>2, <1>3, <1>4

\* A request that pays into an escrow, or out of one.
LEMMA EscrowKeeps ==
    ASSUME EInv, CInv, NEW c \in Client, NEW op \in EscrowOps, NEW x \in Escrowed, NEW w \in Wallets, NEW n \in Nat,
           NEW row, NEW read, NEW s,
           s = IF op \in Funding THEN Transfer(LoadLedger, w, EscrowOf[x], n) ELSE Transfer(LoadLedger, EscrowOf[x], w, n),
           op = "create" => row.amount = n,
           op = "redeem" => row.status = "issued" /\ n = row.amount,
           Open(c, OnEscrow(op, x, row, read, s, n)), UNCHANGED rowVars
    PROVE  CInv'
<1> DEFINE r == OnEscrow(op, x, row, read, s, n)
<1>1. r.op = op /\ r.x = x /\ r.row = row /\ r.s = s /\ r.n = n /\ Open(c, r)
  BY DEF OnEscrow
<1> HIDE DEF r
<1>2. w \in Account /\ EscrowOf[x] \in Account /\ AccountsTyped
  BY RowsOf, CountedOnes
<1>3. Adds(s.ent, EscrowOf[x], Paid(r), w, -Paid(r))
  <2>1. CASE op \in Funding
    <3>1. Paid(r) = n
      BY <1>1, <2>1 DEF Paid
    <3> QED
      BY <1>2, <2>1, <3>1, TransferAdds
  <2>2. CASE op \notin Funding
    <3>1. Paid(r) = -n /\ -(-n) = n
      BY <1>1, <2>2 DEF Paid
    <3> QED
      BY <1>2, <2>2, <3>1, TransferAdds
  <2> QED
    BY <2>1, <2>2
<1>4. PaysEscrow(r)
  BY <1>1, <1>3 DEF PaysEscrow
<1>5. Keeps(r)
  BY <1>1, <1>4 DEF Keeps, EscrowOps
<1> QED
  BY <1>1, <1>5, ReadCounts

LEMMA InstrumentReadsCount ==
    ASSUME EInv, CInv, NEW c \in Client, NEW w \in Wallets, UNCHANGED <<pvpVars, issuanceVars>>,
           \/ \E v \in Voucher, n \in Amount : ReadIssueVoucher(c, v, w, n)
           \/ \E v \in Voucher : ReadRedeemVoucher(c, v, w)
           \/ \E i \in Instrument, n, max \in Amount, t \in Template : ReadCreateInstrument(c, i, w, n, t, max)
           \/ \E i \in Instrument, n \in Amount, granted \in BOOLEAN : ReadExecute(c, i, w, n, granted)
    PROVE  CInv'
<1> USE DEF EscrowOps
<1>1. Voucher \subseteq Escrowed /\ Instrument \subseteq Escrowed /\ EscrowsOpen
  BY RowsOf DEF Escrowed
<1>2. ASSUME NEW v \in Voucher, NEW n \in Amount, ReadIssueVoucher(c, v, w, n) PROVE CInv'
  <2> PICK s : s = Transfer(LoadLedger, w, EscrowOf[v], n)
    OBVIOUS
  <2>1. /\ n \in Nat /\ Open(c, OnEscrow("issue", v, voucher[v], {w}, s, n))
        /\ UNCHANGED rowVars
    BY <1>2, AmountsAreNat DEF ReadIssueVoucher, rowVars
  <2>2. "issue" \in Funding
    BY DEF Funding
  <2> QED
    BY <1>1, <2>1, <2>2, EscrowKeeps
<1>3. ASSUME NEW v \in Voucher, ReadRedeemVoucher(c, v, w) PROVE CInv'
  <2> PICK n : n = voucher[v].amount
    OBVIOUS
  <2> PICK s : s = Transfer(LoadLedger, EscrowOf[v], w, n)
    OBVIOUS
  <2>1. /\ voucher[v].status = "issued"
        /\ Open(c, OnEscrow("redeem", v, voucher[v], {EscrowOf[v], w}, s, n))
        /\ UNCHANGED rowVars
    BY <1>3 DEF ReadRedeemVoucher, rowVars
  <2>2. n \in Nat
    BY <1>1 DEF EscrowsOpen, InstrumentsTypeOK, VoucherRow
  <2>3. "redeem" \notin Funding
    BY DEF Funding
  <2> QED
    BY <1>1, <2>1, <2>2, <2>3, EscrowKeeps
<1>4. ASSUME NEW i \in Instrument, NEW n \in Amount, NEW max \in Amount, NEW t \in Template,
             ReadCreateInstrument(c, i, w, n, t, max)
      PROVE CInv'
  <2> DEFINE row == [status |-> "active", amount |-> n, template |-> t, max |-> max, over |-> FALSE]
  <2> PICK s : s = Transfer(LoadLedger, w, EscrowOf[i], n)
    OBVIOUS
  <2>1. /\ n \in Nat /\ Open(c, OnEscrow("create", i, row, {w}, s, n))
        /\ UNCHANGED rowVars
    BY <1>4, AmountsAreNat DEF ReadCreateInstrument, rowVars
  <2>2. row.amount = n /\ "create" \in Funding
    BY DEF Funding
  <2> HIDE DEF row
  <2> QED
    BY <1>1, <2>1, <2>2, EscrowKeeps
<1>5. ASSUME NEW i \in Instrument, NEW n \in Amount, NEW granted \in BOOLEAN, ReadExecute(c, i, w, n, granted) PROVE CInv'
  <2> PICK s : s = Transfer(LoadLedger, EscrowOf[i], w, n)
    OBVIOUS
  <2>1. /\ n \in Nat /\ Open(c, OnEscrow("execute", i, instrument[i], {EscrowOf[i], w}, s, n))
        /\ UNCHANGED rowVars
    BY <1>5, AmountsAreNat DEF ReadExecute, rowVars
  <2>2. "execute" \notin Funding
    BY DEF Funding
  <2> QED
    BY <1>1, <2>1, <2>2, EscrowKeeps
<1> QED
  BY <1>2, <1>3, <1>4, <1>5

------------------------------------------------------------------------------
(* Requests that commit what a row counts *)

LEMMA Booked ==
    ASSUME AccountsTyped, NEW s \in Session, Book(s)
    PROVE  /\ \A a \in Account : booked'[a] = booked[a] + s.ent[a] /\ booked[a] \in Int /\ s.ent[a] \in Int
           /\ SumFunctionOnSet(booked', Counted) = SumFunctionOnSet(booked, Counted) + SumFunctionOnSet(s.ent, Counted)
<1>1. \A a \in Account : booked'[a] = booked[a] + s.ent[a] /\ booked[a] \in Int /\ s.ent[a] \in Int
  BY DEF AccountsTyped, Session, EntryRows, Book
<1> PICK S : S = Counted
  OBVIOUS
<1> PICK f : f = booked
  OBVIOUS
<1> PICK g : g = s.ent
  OBVIOUS
<1> PICK h : h = booked'
  OBVIOUS
<1>2. IsFiniteSet(S) /\ \A a \in S : f[a] \in Int /\ g[a] \in Int /\ h[a] = f[a] + g[a]
  BY <1>1, CountedOnes
<1>3. SumFunctionOnSet(h, S) = SumFunctionOnSet(f, S) + SumFunctionOnSet(g, S)
  BY <1>2, SumOfBoth
<1> QED
  BY <1>1, <1>3

\* What an operator row counts and its account's booked entries stay.
LEMMA TallyKept ==
    ASSUME NEW rows, DOMAIN rows \subseteq Operators, NEW b, NEW d, NEW t, Tallied(rows, b, t),
           \A a \in Operators : d[a] = b[a], SumFunctionOnSet(d, Counted) = SumFunctionOnSet(b, Counted)
    PROVE  Tallied(rows, d, t)
<1>1. \A a \in CnyRows(rows) : d[a] = b[a]
  BY DEF CnyRows
<1>2. [a \in CnyRows(rows) |-> rows[a] - d[a]] = [a \in CnyRows(rows) |-> rows[a] - b[a]]
  BY <1>1
<1> QED
  BY <1>2 DEF Tallied

LEMMA EscrowBooked ==
    ASSUME EInv, CInv, NEW c \in Client, req[c].op \in EscrowOps, Book(req[c].s), UNCHANGED issuanceVars
    PROVE  /\ req[c].x \in Escrowed /\ req[c].n \in Nat
           /\ booked'[EscrowOf[req[c].x]] = booked[EscrowOf[req[c].x]] + Paid(req[c])
           /\ \A y \in Escrowed \ {req[c].x} : booked'[EscrowOf[y]] = booked[EscrowOf[y]]
           /\ \A a \in Operators : booked'[a] = booked[a]
           /\ Tallied(issued, booked, topped) => Tallied(issued', booked', topped')
<1> PICK r : r = req[c]
  OBVIOUS
<1>1. /\ r.x \in Escrowed /\ r.n \in Nat
      /\ SumFunctionOnSet(r.s.ent, Counted) = 0
      /\ r.s.ent[EscrowOf[r.x]] = Paid(r)
      /\ \A y \in Escrowed \ {r.x} : r.s.ent[EscrowOf[y]] = 0
      /\ \A a \in Operators : r.s.ent[a] = 0
  <2>1. PaysEscrow(r)
    BY DEF CInv, Keeps
  <2> QED
    BY <2>1, EscrowPaid DEF PaysEscrow
<1>2. AccountsTyped /\ r.s \in Session /\ Book(r.s) /\ DOMAIN issued \subseteq Operators
  BY RowsOf DEF Requests, Reads, Moves, Funds, EscrowOps, Moving, Funding, Explains, OperatorsOpen, IssuanceTypeOK
<1>3. /\ \A a \in Account : booked'[a] = booked[a] + r.s.ent[a] /\ booked[a] \in Int
      /\ SumFunctionOnSet(booked', Counted) = SumFunctionOnSet(booked, Counted) + SumFunctionOnSet(r.s.ent, Counted)
  BY <1>2, Booked
<1>4. /\ \A y \in Escrowed : EscrowOf[y] \in Account
      /\ \A a \in Operators : a \in Account
  BY CountedOnes
<1>5. \A a \in Operators : booked'[a] = booked[a]
  BY <1>1, <1>3, <1>4
<1>6. SumFunctionOnSet(booked, Counted) \in Int
  BY <1>3, CountedOnes, SumType
<1>7. Tallied(issued, booked, topped) => Tallied(issued', booked', topped')
  <2> PICK new : new = booked'
    OBVIOUS
  <2>1. SumFunctionOnSet(new, Counted) = SumFunctionOnSet(booked, Counted)
    BY <1>1, <1>3, <1>6
  <2>2. Tallied(issued, booked, topped) => Tallied(issued, new, topped)
    BY <1>2, <1>5, <2>1, TallyKept
  <2> QED
    BY <2>2 DEF issuanceVars
<1> QED
  BY <1>1, <1>3, <1>4, <1>5, <1>7

\* The commit of one: what its row says then is left to be shown.
LEMMA EscrowCommits ==
    ASSUME EInv, CInv, NEW c \in Client, req[c].op \in EscrowOps, Book(req[c].s), UNCHANGED issuanceVars,
           NEW fresh, Commit(c, fresh), NEW x, x = req[c].x,
           \A v \in Voucher \ {x} : voucher'[v] = voucher[v] /\ announced'[v] = announced[v],
           \A i \in Instrument \ {x} : instrument'[i] = instrument[i],
           AllCounted /\ fresh /\ x \in Voucher => CountedVoucher(x)',
           AllCounted /\ fresh /\ x \in Instrument => CountedInstrument(x)'
    PROVE  CInv'
<1>1. /\ \A y \in Escrowed \ {x} : booked'[EscrowOf[y]] = booked[EscrowOf[y]]
      /\ \A a \in Operators : booked'[a] = booked[a]
      /\ Tallied(issued, booked, topped) => Tallied(issued', booked', topped')
  BY EscrowBooked
<1>2. /\ req'[c] = Idle /\ \A d \in Client \ {c} : req'[d] = req[d]
      /\ ~stale' => ~stale /\ fresh
  BY RowsOf, CommitReq
<1>3. ASSUME ~stale' PROVE AllCounted'
  <2>1. AllCounted /\ fresh
    BY <1>2, <1>3 DEF CInv
  <2>2. ASSUME NEW v \in Voucher PROVE CountedVoucher(v)'
    <3>1. CASE v = x
      BY <2>1, <3>1
    <3>2. CASE v # x
      BY <1>1, <2>1, <3>2 DEF AllCounted, CountedVoucher, Escrowed
    <3> QED
      BY <3>1, <3>2
  <2>3. ASSUME NEW i \in Instrument PROVE CountedInstrument(i)'
    <3>1. CASE i = x
      BY <2>1, <3>1
    <3>2. CASE i # x
      BY <1>1, <2>1, <3>2 DEF AllCounted, CountedInstrument, Escrowed
    <3> QED
      BY <3>1, <3>2
  <2>4. Tallied(issued', booked', topped')
    BY <1>1, <2>1 DEF AllCounted
  <2> QED
    BY <2>2, <2>3, <2>4 DEF AllCounted
<1>4. \A d \in Client : Keeps(req'[d])
  BY <1>2, IdleCounts DEF CInv
<1>5. topped' \in Int /\ \A a \in Operators \ DOMAIN issued' : booked'[a] = 0
  BY <1>1 DEF CInv, issuanceVars
<1> QED
  BY <1>3, <1>4, <1>5 DEF CInv

LEMMA CommitIssueVoucherCounts ==
    ASSUME EInv, CInv, NEW c \in Client, CommitIssueVoucher(c), UNCHANGED issuanceVars
    PROVE  CInv'
<1> PICK x : x = req[c].x
  OBVIOUS
<1> PICK n : n = req[c].n
  OBVIOUS
<1> PICK fresh : fresh = \A a \in req[c].read : req[c].loaded[a] = bal[a]
  OBVIOUS
<1>1. /\ req[c].op = "issue" /\ Book(req[c].s)
      /\ voucher[x].status = "none"
      /\ voucher' = [voucher EXCEPT ![x] = [status |-> "issued", amount |-> n, over |-> FALSE]]
      /\ UNCHANGED <<instrument, announced>>
      /\ Commit(c, fresh)
  BY DEF CommitIssueVoucher
<1>2. x \in Voucher /\ EscrowsOpen
  BY <1>1, RowsOf DEF Requests, Reads, Funds, Funding
<1>3. voucher \in [Voucher -> VoucherRow] /\ x \notin Instrument
  BY <1>2, EscrowAssumption DEF EscrowsOpen, InstrumentsTypeOK
<1>4. /\ voucher'[x] = [status |-> "issued", amount |-> n, over |-> FALSE]
      /\ \A v \in Voucher \ {x} : voucher'[v] = voucher[v]
  BY <1>1, <1>2, <1>3
<1>5. n \in Nat /\ booked'[EscrowOf[x]] = booked[EscrowOf[x]] + n
  BY <1>1, EscrowBooked DEF EscrowOps, Paid, Funding
<1>6. AllCounted => CountedVoucher(x)'
  BY <1>1, <1>2, <1>4, <1>5 DEF AllCounted, CountedVoucher
<1>7. req[c].op \in EscrowOps
  BY <1>1 DEF EscrowOps
<1> QED
  BY <1>1, <1>3, <1>4, <1>6, <1>7, EscrowCommits

LEMMA CommitCreateInstrumentCounts ==
    ASSUME EInv, CInv, NEW c \in Client, CommitCreateInstrument(c), UNCHANGED issuanceVars
    PROVE  CInv'
<1> PICK x : x = req[c].x
  OBVIOUS
<1> PICK row : row = req[c].row
  OBVIOUS
<1> PICK fresh : fresh = \A a \in req[c].read : req[c].loaded[a] = bal[a]
  OBVIOUS
<1>1. /\ req[c].op = "create" /\ Book(req[c].s)
      /\ instrument[x].status = "none"
      /\ instrument' = [instrument EXCEPT ![x] = row]
      /\ UNCHANGED <<voucher, announced>>
      /\ Commit(c, fresh)
  BY DEF CommitCreateInstrument
<1>2. x \in Instrument /\ EscrowsOpen /\ row.status = "active" /\ row.amount = req[c].n
  BY <1>1, RowsOf DEF Requests, Reads, Funds, Funding, CInv, Keeps
<1>3. instrument \in [Instrument -> InstrumentRow] /\ x \notin Voucher
  BY <1>2, EscrowAssumption DEF EscrowsOpen, InstrumentsTypeOK
<1>4. instrument'[x] = row /\ \A i \in Instrument \ {x} : instrument'[i] = instrument[i]
  BY <1>1, <1>2, <1>3
<1>5. row.amount \in Nat /\ booked'[EscrowOf[x]] = booked[EscrowOf[x]] + row.amount
  BY <1>1, <1>2, EscrowBooked DEF EscrowOps, Paid, Funding
<1>6. AllCounted => CountedInstrument(x)'
  <2>1. SUFFICES ASSUME AllCounted PROVE CountedInstrument(x)'
    OBVIOUS
  <2>2. booked[EscrowOf[x]] = 0
    BY <1>1, <1>2, <2>1 DEF AllCounted, CountedInstrument
  <2> QED
    BY <1>2, <1>4, <1>5, <2>2 DEF CountedInstrument
<1>7. req[c].op \in EscrowOps
  BY <1>1 DEF EscrowOps
<1> QED
  BY <1>1, <1>3, <1>4, <1>6, <1>7, EscrowCommits

LEMMA CommitRedeemVoucherCounts ==
    ASSUME EInv, CInv, NEW c \in Client, CommitRedeemVoucher(c), UNCHANGED issuanceVars
    PROVE  CInv'
<1> PICK x : x = req[c].x
  OBVIOUS
<1> PICK row : row = req[c].row
  OBVIOUS
<1> PICK fresh : fresh = (voucher[x] = row /\ \A a \in req[c].read : req[c].loaded[a] = bal[a])
  OBVIOUS
<1>1. /\ req[c].op = "redeem" /\ Book(req[c].s)
      /\ voucher' = [voucher EXCEPT ![x].status = "redeemed"]
      /\ announced' = [announced EXCEPT ![x] = @ + 1]
      /\ UNCHANGED instrument
      /\ Commit(c, fresh)
  BY DEF CommitRedeemVoucher
<1>2. x \in Voucher /\ EscrowsOpen /\ row.status = "issued" /\ req[c].n = row.amount
  BY <1>1, RowsOf DEF Requests, Reads, Releases, CInv, Keeps
<1>3. voucher \in [Voucher -> VoucherRow] /\ announced \in [Voucher -> Nat] /\ x \notin Instrument
  BY <1>2, EscrowAssumption DEF EscrowsOpen, InstrumentsTypeOK
<1>4. /\ voucher'[x].status = "redeemed" /\ announced'[x] = announced[x] + 1
      /\ \A v \in Voucher \ {x} : voucher'[v] = voucher[v] /\ announced'[v] = announced[v]
  BY <1>1, <1>2, <1>3 DEF VoucherRow
<1>5. row.amount \in Nat /\ booked'[EscrowOf[x]] = booked[EscrowOf[x]] + (-row.amount)
  BY <1>1, <1>2, EscrowBooked DEF EscrowOps, Paid, Funding
<1>6. AllCounted /\ fresh => CountedVoucher(x)'
  <2>1. SUFFICES ASSUME AllCounted, fresh PROVE CountedVoucher(x)'
    OBVIOUS
  <2>2. booked[EscrowOf[x]] = row.amount /\ announced[x] = 0
    BY <1>2, <2>1 DEF AllCounted, CountedVoucher
  <2> QED
    BY <1>4, <1>5, <2>2 DEF CountedVoucher
<1>7. req[c].op \in EscrowOps
  BY <1>1 DEF EscrowOps
<1> QED
  BY <1>1, <1>3, <1>4, <1>6, <1>7, EscrowCommits

\* What an execution makes of the row it has read, when it is still there.
LEMMA ExecutedFresh ==
    ASSUME NEW row \in InstrumentRow, NEW n \in Nat
    PROVE  /\ Flush(row, row, Executed(row, n)).amount = row.amount - n
           /\ Flush(row, row, Executed(row, n)).status = (IF row.amount = n THEN "spent" ELSE row.status)
<1> PICK new : new = Executed(row, n)
  OBVIOUS
<1>1. new.amount = row.amount - n /\ new.status = (IF row.amount = n THEN "spent" ELSE row.status)
  BY DEF Executed, InstrumentRow
<1>2. DOMAIN row = {"status", "amount", "template", "max", "over"}
  BY DEF InstrumentRow
<1>3. /\ Flush(row, row, new).amount = IF new.amount # row.amount THEN new.amount ELSE row.amount
      /\ Flush(row, row, new).status = IF new.status # row.status THEN new.status ELSE row.status
  BY <1>2 DEF Flush
<1> QED
  BY <1>1, <1>3

LEMMA CommitExecuteCounts ==
    ASSUME EInv, CInv, NEW c \in Client, CommitExecute(c), UNCHANGED issuanceVars
    PROVE  CInv'
<1> PICK x : x = req[c].x
  OBVIOUS
<1> PICK n : n = req[c].n
  OBVIOUS
<1> PICK row : row = req[c].row
  OBVIOUS
<1> PICK new : new = Flush(instrument[x], row, Executed(row, n))
  OBVIOUS
<1> PICK fresh : fresh = (instrument[x] = row /\ \A a \in req[c].read : req[c].loaded[a] = bal[a])
  OBVIOUS
<1>1. /\ req[c].op = "execute" /\ Book(req[c].s)
      /\ instrument' = [instrument EXCEPT ![x] = new]
      /\ UNCHANGED <<voucher, announced>>
      /\ Commit(c, fresh)
  BY DEF CommitExecute
<1>2. x \in Instrument /\ EscrowsOpen /\ row \in InstrumentRow /\ row.status = "active" /\ n \in Nat
  BY <1>1, RowsOf DEF Requests, Reads, Releases
<1>3. instrument \in [Instrument -> InstrumentRow] /\ x \notin Voucher
  BY <1>2, EscrowAssumption DEF EscrowsOpen, InstrumentsTypeOK
<1>4. instrument'[x] = new /\ \A i \in Instrument \ {x} : instrument'[i] = instrument[i]
  BY <1>1, <1>2, <1>3
<1>5. booked'[EscrowOf[x]] = booked[EscrowOf[x]] + (-n)
  BY <1>1, EscrowBooked DEF EscrowOps, Paid, Funding
<1>6. AllCounted /\ fresh => CountedInstrument(x)'
  <2>1. SUFFICES ASSUME AllCounted, fresh PROVE CountedInstrument(x)'
    OBVIOUS
  <2>2. booked[EscrowOf[x]] = row.amount /\ row.amount \in Nat
    BY <1>2, <2>1 DEF AllCounted, CountedInstrument, InstrumentRow
  <2>3. new.amount = row.amount - n /\ new.status = (IF row.amount = n THEN "spent" ELSE row.status)
    <3>1. new = Flush(row, row, Executed(row, n))
      BY <2>1
    <3> QED
      BY <1>2, <3>1, ExecutedFresh
  <2>4. booked'[EscrowOf[x]] = new.amount /\ (new.status # "active" => new.amount = 0)
    BY <1>2, <1>5, <2>2, <2>3
  <2> QED
    BY <1>4, <2>4 DEF CountedInstrument
<1>7. req[c].op \in EscrowOps
  BY <1>1 DEF EscrowOps
<1> QED
  BY <1>1, <1>3, <1>4, <1>6, <1>7, EscrowCommits

\* One of the summands changes by n.
LEMMA SumRaised ==
    ASSUME NEW f, NEW g, NEW S, IsFiniteSet(S), NEW x \in S, NEW n \in Int,
           \A y \in S : f[y] \in Int, \A y \in S \ {x} : g[y] = f[y], g[x] = f[x] + n
    PROVE  SumFunctionOnSet(g, S) = SumFunctionOnSet(f, S) + n
<1>1. f[x] \in Int /\ f[x] + n \in Int
  OBVIOUS
<1>2. \A y \in S : f[y] \in Int /\ g[y] \in Int
  BY <1>1
<1>3. SumFunctionOnSet(g, S) = SumFunctionOnSet(f, S) + g[x] - f[x]
  BY <1>2, SumChanged
<1>4. SumFunctionOnSet(f, S) \in Int
  BY SumType
<1> QED
  BY <1>1, <1>3, <1>4

LEMMA IssuedFinite ==
    ASSUME NEW rows, DOMAIN rows \subseteq Operators
    PROVE  IsFiniteSet(CnyRows(rows)) /\ CnyRows(rows) \subseteq Account
<1>1. CnyRows(rows) \in SUBSET Account
  BY DEF CnyRows, Operators
<1> QED
  BY <1>1, AccountAssumption, FS_Subset

\* What an issuance of n to the operator a puts into circulation of the CNY.
Circulated(a, n) == IF CurrencyOf[a] = "CNY" THEN n ELSE 0

\* One row takes what is put into circulation, part of it passed on.
LEMMA TallyRaised ==
    ASSUME NEW rows, NEW new, DOMAIN rows \subseteq Operators, DOMAIN new = DOMAIN rows,
           \A x \in DOMAIN rows : rows[x] \in Int,
           NEW b \in EntryRows, NEW d \in EntryRows, NEW t \in Int, Tallied(rows, b, t),
           NEW a \in DOMAIN rows, NEW n \in Int, NEW top \in Int,
           new[a] = rows[a] + n, \A x \in DOMAIN rows \ {a} : new[x] = rows[x],
           CurrencyOf[a] # "CNY" => top = 0,
           d[a] = b[a] + n - top, \A x \in Operators \ {a} : d[x] = b[x],
           SumFunctionOnSet(d, Counted) = SumFunctionOnSet(b, Counted) + Circulated(a, n)
    PROVE  Tallied(new, d, t + top)
<1> PICK S : S = CnyRows(rows)
  OBVIOUS
<1>1. IsFiniteSet(S) /\ \A x \in S : b[x] \in Int /\ d[x] \in Int /\ rows[x] \in Int /\ x \in Operators /\ x \in DOMAIN rows
  BY IssuedFinite DEF CnyRows, EntryRows
<1>2. CnyRows(new) = S /\ (a \in S <=> CurrencyOf[a] = "CNY")
  BY DEF CnyRows
<1> PICK f : f = [x \in S |-> rows[x] - b[x]]
  OBVIOUS
<1> PICK g : g = [x \in S |-> new[x] - d[x]]
  OBVIOUS
<1>3. /\ SumFunctionOnSet(b, Counted) = SumFunctionOnSet(rows, S)
      /\ SumFunctionOnSet(f, S) = t
  BY DEF Tallied
<1> USE DEF Circulated
<1>4. CASE CurrencyOf[a] = "CNY"
  <2>1. a \in S
    BY <1>2, <1>4
  <2>2. SumFunctionOnSet(new, S) = SumFunctionOnSet(rows, S) + n
    BY <1>1, <2>1, SumRaised
  <2>3. /\ \A x \in S : f[x] \in Int
        /\ \A x \in S \ {a} : g[x] = f[x]
        /\ g[a] = f[a] + top
    BY <1>1, <2>1
  <2>4. SumFunctionOnSet(g, S) = t + top
    BY <1>1, <1>3, <2>1, <2>3, SumRaised
  <2> QED
    BY <1>2, <1>3, <1>4, <2>2, <2>4 DEF Tallied
<1>5. CASE CurrencyOf[a] # "CNY"
  <2>1. \A x \in S : new[x] = rows[x] /\ d[x] = b[x]
    BY <1>1, <1>2, <1>5
  <2>2. SumFunctionOnSet(new, S) = SumFunctionOnSet(rows, S)
    BY <1>1, <2>1, SumSame
  <2>3. g = f
    BY <2>1
  <2>4. SumFunctionOnSet(b, Counted) \in Int
    BY CountedOnes, SumType DEF EntryRows
  <2>5. SumFunctionOnSet(d, Counted) = SumFunctionOnSet(b, Counted)
    BY <1>5, <2>4
  <2> QED
    BY <1>2, <1>3, <1>5, <2>2, <2>3, <2>5 DEF Tallied
<1> QED
  BY <1>4, <1>5

\* A new row of nothing, for an account with no booked entries.
LEMMA TallyRegistered ==
    ASSUME NEW rows, DOMAIN rows \subseteq Operators, \A x \in DOMAIN rows : rows[x] \in Int,
           NEW b \in EntryRows, NEW t \in Int, Tallied(rows, b, t),
           NEW a \in Operators \ DOMAIN rows, b[a] = 0
    PROVE  Tallied(Put(OneRow(a, 0), rows), b, t)
<1> PICK S : S = CnyRows(rows)
  OBVIOUS
<1> PICK new : new = Put(OneRow(a, 0), rows)
  OBVIOUS
<1>1. /\ DOMAIN new = DOMAIN rows \cup {a} /\ new[a] = 0
      /\ \A x \in DOMAIN rows : new[x] = rows[x] /\ rows[x] \in Int
  BY DEF Put, OneRow
<1>2. IsFiniteSet(S) /\ a \notin S /\ \A x \in S : b[x] \in Int /\ x \in DOMAIN rows
  BY IssuedFinite DEF CnyRows, EntryRows, Operators
<1>3. SumFunctionOnSet(new, S) = SumFunctionOnSet(rows, S)
  BY <1>1, <1>2, SumSame
<1> PICK f : f = [x \in S |-> rows[x] - b[x]]
  OBVIOUS
<1>4. /\ SumFunctionOnSet(b, Counted) = SumFunctionOnSet(rows, S)
      /\ SumFunctionOnSet(f, S) = t
  BY DEF Tallied
<1>5. CASE CurrencyOf[a] # "CNY"
  <2>1. CnyRows(new) = S
    BY <1>1, <1>5 DEF CnyRows
  <2>2. [x \in S |-> new[x] - b[x]] = f
    BY <1>1, <1>2
  <2> QED
    BY <1>3, <1>4, <2>1, <2>2 DEF Tallied
<1>6. CASE CurrencyOf[a] = "CNY"
  <2>1. CnyRows(new) = S \cup {a}
    BY <1>1, <1>6 DEF CnyRows
  <2>2. SumFunctionOnSet(new, S \cup {a}) = new[a] + SumFunctionOnSet(new, S)
    BY <1>1, <1>2, SumAdd
  <2>3. SumFunctionOnSet(new, S) \in Int
    BY <1>1, <1>2, SumType
  <2>4. SumFunctionOnSet(new, S \cup {a}) = SumFunctionOnSet(b, Counted)
    BY <1>1, <1>3, <1>4, <2>2, <2>3
  <2> PICK g : g = [x \in S \cup {a} |-> new[x] - b[x]]
    OBVIOUS
  <2>5. g[a] = 0 /\ \A x \in S : f[x] = g[x] /\ g[x] \in Int
    BY <1>1, <1>2
  <2>6. SumFunctionOnSet(g, S \cup {a}) = g[a] + SumFunctionOnSet(g, S)
    BY <1>1, <1>2, <2>5, SumAdd
  <2>7. SumFunctionOnSet(f, S) = SumFunctionOnSet(g, S)
    BY <1>2, <2>5, SumSame
  <2>8. SumFunctionOnSet(g, S \cup {a}) = t
    BY <1>4, <2>5, <2>6, <2>7
  <2> QED
    BY <2>1, <2>4, <2>8 DEF Tallied
<1> QED
  BY <1>5, <1>6

LEMMA CommitOperatorCounts ==
    ASSUME EInv, CInv, NEW c \in Client, CommitOperator(c), UNCHANGED instrumentVars
    PROVE  CInv'
<1> PICK r : r = req[c]
  OBVIOUS
<1> PICK a : a = r.a
  OBVIOUS
<1> PICK d : d = r.d
  OBVIOUS
<1> PICK top : top = r.top
  OBVIOUS
<1> PICK row : row = r.row
  OBVIOUS
<1> PICK fresh : fresh = (issued[a] = row /\ \A x \in r.read : bal[x] = r.loaded[x])
  OBVIOUS
<1>1. /\ r.op = "operator" /\ Book(r.s) /\ Commit(c, fresh)
      /\ issued' = [issued EXCEPT ![a] = row + d]
      /\ topped' = topped + top
  BY ZenonT(60) DEF CommitOperator
<1>2. a \in DOMAIN issued /\ row \in Int /\ d \in Int /\ r.s \in Session
  BY <1>1, RowsOf DEF Requests, Reads, Moves, Moving, OnOperatorRow, Explains
<1>3. /\ a \in Operators /\ top \in Int
      /\ SumFunctionOnSet(r.s.ent, Counted) = IF CurrencyOf[a] = "CNY" THEN d ELSE 0
      /\ r.s.ent[a] = d - top
      /\ \A y \in Escrowed : r.s.ent[EscrowOf[y]] = 0
      /\ \A x \in Operators \ {a} : r.s.ent[x] = 0
      /\ CurrencyOf[a] # "CNY" => top = 0
  <2>1. Passes(r)
    BY <1>1 DEF CInv, Keeps
  <2> QED
    BY <2>1, OperatorPaid DEF Passes
<1>4. /\ AccountsTyped /\ DOMAIN issued \subseteq Operators /\ topped \in Int
      /\ \A x \in DOMAIN issued : issued[x] \in Int
      /\ \A x \in Operators \ DOMAIN issued : booked[x] = 0
      /\ booked \in EntryRows
  BY RowsOf DEF CInv, OperatorsOpen, IssuanceTypeOK, OperatorRows, AccountsTyped
<1>5. /\ \A x \in Account : booked'[x] = booked[x] + r.s.ent[x] /\ booked[x] \in Int
      /\ SumFunctionOnSet(booked', Counted) = SumFunctionOnSet(booked, Counted) + SumFunctionOnSet(r.s.ent, Counted)
      /\ booked' \in EntryRows
  BY <1>1, <1>2, <1>4, Booked DEF Book, EntryRows
<1>6. /\ \A y \in Escrowed : booked'[EscrowOf[y]] = booked[EscrowOf[y]]
      /\ \A x \in Operators \ {a} : booked'[x] = booked[x]
      /\ booked'[a] = booked[a] + d - top
  BY <1>2, <1>3, <1>5, CountedOnes
<1>7. DOMAIN issued' = DOMAIN issued /\ topped' \in Int
  BY <1>1, <1>3, <1>4
<1>8. req'[c] = Idle /\ (\A e \in Client \ {c} : req'[e] = req[e]) /\ (~stale' => ~stale /\ fresh)
  BY <1>1, RowsOf, CommitReq
<1>9. ASSUME ~stale' PROVE AllCounted'
  <2>1. AllCounted /\ issued[a] = row
    BY <1>8, <1>9 DEF CInv
  <2>2. (\A v \in Voucher : CountedVoucher(v)') /\ (\A i \in Instrument : CountedInstrument(i)')
    BY <1>6, <2>1 DEF AllCounted, CountedVoucher, CountedInstrument, Escrowed, instrumentVars
  <2> PICK rows : rows = issued
    OBVIOUS
  <2> PICK new : new = issued'
    OBVIOUS
  <2> PICK b : b = booked
    OBVIOUS
  <2> PICK e : e = booked'
    OBVIOUS
  <2> PICK t : t = topped
    OBVIOUS
  <2>3. new[a] = rows[a] + d /\ \A x \in DOMAIN rows \ {a} : new[x] = rows[x]
    BY <1>1, <1>2, <2>1
  <2>4. SumFunctionOnSet(e, Counted) = SumFunctionOnSet(b, Counted) + Circulated(a, d)
    BY <1>3, <1>5 DEF Circulated
  <2>5. Tallied(rows, b, t) /\ e[a] = b[a] + d - top /\ \A x \in Operators \ {a} : e[x] = b[x]
    BY <1>6, <2>1 DEF AllCounted
  <2>6. DOMAIN rows \subseteq Operators /\ DOMAIN new = DOMAIN rows /\ \A x \in DOMAIN rows : rows[x] \in Int
    BY <1>4, <1>7
  <2>7. Tallied(new, e, t + top)
    <3>1. b \in EntryRows /\ e \in EntryRows /\ t \in Int /\ a \in DOMAIN rows
      BY <1>2, <1>4, <1>5
    <3>2. d \in Int /\ top \in Int /\ (CurrencyOf[a] # "CNY" => top = 0)
      BY <1>2, <1>3
    <3> QED
      BY <2>3, <2>4, <2>5, <2>6, <3>1, <3>2, TallyRaised
  <2>8. Tallied(issued', booked', topped')
    BY <1>1, <2>7
  <2> QED
    BY <2>2, <2>8 DEF AllCounted
<1>10. \A e \in Client : Keeps(req'[e])
  BY <1>8, IdleCounts DEF CInv
<1>11. \A x \in Operators \ DOMAIN issued' : booked'[x] = 0
  BY <1>2, <1>4, <1>6, <1>7
<1> QED
  BY <1>7, <1>9, <1>10, <1>11 DEF CInv

LEMMA RegisterOperatorCounts ==
    ASSUME EInv, CInv, NEW c \in Client, NEW a \in Operators, RegisterOperator(c, a), UNCHANGED instrumentVars
    PROVE  CInv'
<1>1. /\ UNCHANGED <<req, stale, booked, topped>>
      /\ a \notin DOMAIN issued
      /\ issued' = Put(OneRow(a, 0), issued)
  BY DEF RegisterOperator, AtOnce, Registered
<1>2. DOMAIN issued' = DOMAIN issued \cup {a}
  BY <1>1 DEF Put, OneRow
<1>3. /\ DOMAIN issued \subseteq Operators /\ topped \in Int /\ booked \in EntryRows
      /\ \A x \in DOMAIN issued : issued[x] \in Int
      /\ \A x \in Operators \ DOMAIN issued : booked[x] = 0
  BY RowsOf DEF CInv, OperatorsOpen, IssuanceTypeOK, OperatorRows, AccountsTyped
<1>4. AllCounted => AllCounted'
  <2> SUFFICES ASSUME AllCounted PROVE AllCounted'
    OBVIOUS
  <2>1. (\A v \in Voucher : CountedVoucher(v)') /\ (\A i \in Instrument : CountedInstrument(i)')
    BY <1>1 DEF AllCounted, CountedVoucher, CountedInstrument, instrumentVars
  <2> PICK rows : rows = issued
    OBVIOUS
  <2> PICK b : b = booked
    OBVIOUS
  <2> PICK t : t = topped
    OBVIOUS
  <2>2. Tallied(Put(OneRow(a, 0), rows), b, t)
    BY <1>1, <1>3, TallyRegistered DEF AllCounted
  <2>3. Tallied(issued', booked', topped')
    BY <1>1, <2>2
  <2> QED
    BY <2>1, <2>3 DEF AllCounted
<1> QED
  BY <1>1, <1>2, <1>3, <1>4 DEF CInv

\* The expiry of one passes: what its row promises stays.
LEMMA PassExpiryCounts ==
    ASSUME EInv, CInv, NEW x \in Voucher \cup Instrument, PassExpiry(x), UNCHANGED issuanceVars
    PROVE  CInv'
<1>1. /\ UNCHANGED <<req, stale, booked, announced>>
      /\ \/ x \in Voucher /\ voucher' = [voucher EXCEPT ![x].over = TRUE] /\ UNCHANGED instrument
         \/ x \in Instrument /\ instrument' = [instrument EXCEPT ![x].over = TRUE] /\ UNCHANGED voucher
  BY DEF PassExpiry, requestVars, ledgerVars
<1>2. voucher \in [Voucher -> VoucherRow] /\ instrument \in [Instrument -> InstrumentRow]
  BY RowsOf DEF EscrowsOpen, InstrumentsTypeOK
<1>3. \A v \in Voucher : voucher'[v].status = voucher[v].status /\ voucher'[v].amount = voucher[v].amount
  BY <1>1, <1>2 DEF VoucherRow
<1>4. \A i \in Instrument : instrument'[i].status = instrument[i].status /\ instrument'[i].amount = instrument[i].amount
  BY <1>1, <1>2 DEF InstrumentRow
<1>5. AllCounted => AllCounted'
  BY <1>1, <1>3, <1>4 DEF AllCounted, CountedVoucher, CountedInstrument, Tallied, issuanceVars
<1> QED
  BY <1>1, <1>5 DEF CInv, issuanceVars

------------------------------------------------------------------------------
(* Every step *)

\* A step of a request that no row keeps count of, or of none.
Beside(c) ==
    \/ UNCHANGED <<req, stale>>
    \/ \E r : (Open(c, r) \/ ReadOn(c, r)) /\ r.op \in {"ecny", "merchant", "pvp_lock", "pvp_commit", "pvp_legs"}
    \/ RollBack(c)
    \/ \E fresh : Commit(c, fresh)

LEMMA BesideCounts ==
    ASSUME EInv, CInv, NEW c \in Client, Beside(c), UNCHANGED <<booked, instrumentVars, issuanceVars>>
    PROVE  CInv'
<1>1. UNCHANGED <<booked, voucher, instrument, announced, issued, topped>>
  BY DEF instrumentVars, issuanceVars
<1>2. CASE UNCHANGED <<req, stale>>
  BY <1>1, <1>2, CountsStay
<1>3. ASSUME NEW r, Open(c, r) \/ ReadOn(c, r), r.op \in {"ecny", "merchant", "pvp_lock", "pvp_commit", "pvp_legs"}
      PROVE  CInv'
  <2>1. r.op \notin EscrowOps \cup {"operator"}
    BY <1>3 DEF EscrowOps
  <2>2. req'[c] = r /\ (\A d \in Client \ {c} : req'[d] = req[d]) /\ stale' = stale
    BY <1>3, RowsOf, OpenReq, ReadOnReq
  <2>3. \A d \in Client : req'[d] = req[d] \/ Keeps(req'[d])
    BY <2>1, <2>2, OtherOps
  <2> QED
    BY <1>1, <2>2, <2>3, CountsStay
<1>4. CASE RollBack(c)
  <2>1. req'[c] = Idle /\ (\A d \in Client \ {c} : req'[d] = req[d]) /\ stale' = stale
    BY <1>4, RowsOf DEF Requests, RollBack
  <2>2. \A d \in Client : req'[d] = req[d] \/ Keeps(req'[d])
    BY <2>1, IdleCounts
  <2> QED
    BY <1>1, <2>1, <2>2, CountsStay
<1>5. ASSUME NEW fresh, Commit(c, fresh) PROVE CInv'
  BY <1>1, <1>5, CommitApart
<1> QED
  BY <1>2, <1>3, <1>4, <1>5 DEF Beside

LEMMA CommitRequestBeside ==
    ASSUME NEW c \in Client, NEW op, CommitRequest(c, op)
    PROVE  Beside(c) /\ UNCHANGED booked
<1> PICK fresh : fresh = \A a \in req[c].read : req[c].loaded[a] = bal[a] /\ req[c].out[a] = sent[a]
  OBVIOUS
<1>1. Commit(c, fresh) /\ UNCHANGED booked
  BY DEF CommitRequest
<1> QED
  BY <1>1 DEF Beside

LEMMA RequestsBeside ==
    ASSUME NEW c \in Client, NEW op \in {"ecny", "merchant"}, NEW w, NEW read, NEW s, NEW rep, NEW br,
           Open(c, RequestOf(op, w, read, s, rep, br))
    PROVE  Beside(c)
  BY DEF RequestOf, Beside

LEMMA EcnyCounts ==
    ASSUME EInv, CInv, NEW c \in Client, EcnyNext(c), UNCHANGED <<instrumentVars, pvpVars, issuanceVars>>
    PROVE  CInv'
<1> USE DEF ledgerVars
<1>1. ASSUME NEW w, NEW named, NEW o, OpenWallet(c, w, named, o) PROVE Beside(c) /\ UNCHANGED booked
  BY <1>1 DEF OpenWallet, AtOnce, Beside
<1>2. ASSUME NEW a, ProvisionOperator(c, a) PROVE Beside(c) /\ UNCHANGED booked
  BY <1>2 DEF ProvisionOperator, AtOnce, Beside
<1>3. ASSUME NEW a, NEW n, SeedForeignAccount(c, a, n) PROVE Beside(c) /\ UNCHANGED booked
  BY <1>3 DEF SeedForeignAccount, AtOnce, Beside
<1>4. ASSUME NEW w, NEW v, NEW n, ReadTransfer(c, w, v, n) PROVE Beside(c) /\ UNCHANGED booked
  BY <1>4, RequestsBeside DEF ReadTransfer, Payment
<1>5. ASSUME NEW a, NEW n, ReadMint(c, a, n) PROVE Beside(c) /\ UNCHANGED booked
  BY <1>5, RequestsBeside DEF ReadMint, Request
<1>6. ASSUME NEW a, NEW n, ReadBurn(c, a, n) PROVE Beside(c) /\ UNCHANGED booked
  BY <1>6, RequestsBeside DEF ReadBurn, Request
<1>7. ASSUME NEW a, NEW w, NEW n, ReadExchangeToWallet(c, a, w, n) PROVE Beside(c) /\ UNCHANGED booked
  BY <1>7, RequestsBeside DEF ReadExchangeToWallet, Request
<1>8. ASSUME NEW w, NEW a, NEW n, ReadRedeemFromWallet(c, w, a, n) PROVE Beside(c) /\ UNCHANGED booked
  BY <1>8, RequestsBeside DEF ReadRedeemFromWallet, Payment
<1>9. ASSUME NEW w, NEW b, NEW cur, NEW asked, NEW n, ReadCrossBorder(c, w, b, cur, asked, n)
      PROVE  Beside(c) /\ UNCHANGED booked
  BY <1>9, RequestsBeside DEF ReadCrossBorder, SettleViaCips, SettleViaMbridge, Payment
<1>10. CASE CommitEcny(c)
  BY <1>10, CommitRequestBeside, BesideCounts DEF CommitEcny
<1>11. CASE RollBackEcny(c)
  BY <1>11, BesideCounts DEF RollBackEcny, Beside
<1> QED
  BY <1>1, <1>2, <1>3, <1>4, <1>5, <1>6, <1>7, <1>8, <1>9, <1>10, <1>11, BesideCounts DEF EcnyNext

LEMMA PvpCounts ==
    ASSUME EInv, CInv, NEW c \in Client, PvpNext(c), UNCHANGED <<instrumentVars, issuanceVars>>
    PROVE  CInv'
<1> USE DEF ledgerVars
<1>1. CASE CreateFxQuote(c)
  BY <1>1, BesideCounts DEF CreateFxQuote, AtOnce, Beside
<1>2. ASSUME NEW p, NEW legs, CreatePvp(c, p, legs) PROVE CInv'
  BY <1>2, BesideCounts DEF CreatePvp, AtOnce, Beside
<1>3. ASSUME NEW p, NEW expected, ReadLockPvp(c, p, expected) PROVE CInv'
  <2>1. Beside(c) /\ UNCHANGED booked
    BY <1>3 DEF ReadLockPvp, OnPvp, Beside
  <2> QED
    BY <2>1, BesideCounts
<1>4. CASE CommitLockPvp(c)
  <2>1. Beside(c) /\ UNCHANGED booked
    BY <1>4 DEF CommitLockPvp, Beside
  <2> QED
    BY <2>1, BesideCounts
<1>5. ASSUME NEW p, NEW expected, ReadCommitPvp(c, p, expected) PROVE CInv'
  <2>1. Beside(c) /\ UNCHANGED booked
    BY <1>5 DEF ReadCommitPvp, OnPvp, Beside
  <2> QED
    BY <2>1, BesideCounts
<1>6. CASE TakeLeases(c)
  <2>1. Beside(c) /\ UNCHANGED booked
    BY <1>6 DEF TakeLeases, Beside
  <2> QED
    BY <2>1, BesideCounts
<1>7. CASE CommitPvp(c)
  <2>1. Beside(c) /\ UNCHANGED booked
    BY <1>7 DEF CommitPvp, Beside
  <2> QED
    BY <2>1, BesideCounts
<1>8. CASE RollBackPvp(c)
  BY <1>8, BesideCounts DEF RollBackPvp, Beside
<1> QED
  BY <1>1, <1>2, <1>3, <1>4, <1>5, <1>6, <1>7, <1>8 DEF PvpNext

LEMMA IssuanceCounts ==
    ASSUME EInv, CInv, NEW c \in Client, IssuanceNext(c), UNCHANGED <<instrumentVars, pvpVars>>
    PROVE  CInv'
<1> USE DEF ledgerVars
<1>1. ASSUME NEW a \in Operators, RegisterOperator(c, a) PROVE CInv'
  BY <1>1, RegisterOperatorCounts
<1>2. ASSUME NEW w, NEW a, CreateHkWallet(c, w, a) PROVE CInv'
  BY <1>2, BesideCounts DEF CreateHkWallet, AtOnce, Beside
<1>3. ASSUME NEW a \in Operators, NEW n \in Amount,
             ReadIssue(c, a, n) \/ ReadRedeem(c, a, n) \/ \E w \in Wallets : ReadTopUp(c, a, w, n)
      PROVE  CInv'
  BY <1>3, IssuanceReadsCount
<1>4. ASSUME NEW w, NEW m, NEW n, ReadMerchantPayment(c, w, m, n) PROVE CInv'
  <2>1. Beside(c) /\ UNCHANGED <<booked, issuanceVars>>
    BY <1>4, RequestsBeside DEF ReadMerchantPayment
  <2> QED
    BY <2>1, BesideCounts
<1>5. CASE CommitOperator(c)
  BY <1>5, CommitOperatorCounts
<1>6. CASE CommitMerchantPayment(c)
  BY <1>6, CommitRequestBeside, BesideCounts DEF CommitMerchantPayment
<1>7. CASE RollBackOperator(c)
  BY <1>7, BesideCounts DEF RollBackOperator, Beside
<1> QED
  BY <1>1, <1>2, <1>3, <1>4, <1>5, <1>6, <1>7 DEF IssuanceNext

LEMMA InstrumentsCount ==
    ASSUME EInv, CInv, NEW c \in Client, InstrumentNext(c), UNCHANGED <<pvpVars, issuanceVars>>
    PROVE  CInv'
<1>1. ASSUME NEW w \in Wallets,
             \/ \E v \in Voucher, n \in Amount : ReadIssueVoucher(c, v, w, n)
             \/ \E v \in Voucher : ReadRedeemVoucher(c, v, w)
             \/ \E i \in Instrument, n, max \in Amount, t \in Template : ReadCreateInstrument(c, i, w, n, t, max)
             \/ \E i \in Instrument, n \in Amount, granted \in BOOLEAN : ReadExecute(c, i, w, n, granted)
      PROVE  CInv'
  BY <1>1, InstrumentReadsCount
<1>2. CASE CommitIssueVoucher(c)
  BY <1>2, CommitIssueVoucherCounts
<1>3. CASE CommitRedeemVoucher(c)
  BY <1>3, CommitRedeemVoucherCounts
<1>4. CASE CommitCreateInstrument(c)
  BY <1>4, CommitCreateInstrumentCounts
<1>5. CASE CommitExecute(c)
  BY <1>5, CommitExecuteCounts
<1>6. CASE RollBackInstrument(c)
  BY <1>6, BesideCounts DEF RollBackInstrument, Beside, ledgerVars
<1> QED
  BY <1>1, <1>2, <1>3, <1>4, <1>5, <1>6 DEF InstrumentNext

LEMMA InitCounts == EcnySystemInit => CInv
<1> SUFFICES ASSUME EcnySystemInit PROVE CInv
  OBVIOUS
<1>1. booked = Nothing
  BY DEF EcnySystemInit, LedgerInit
<1>2. issued = <<>> /\ topped = 0 /\ \A c \in Client : req[c] = Idle
  BY DEF EcnySystemInit, IssuanceInit, RequestsInit
<1>3. /\ \A v \in Voucher : voucher[v].status = "none" /\ announced[v] = 0
      /\ \A i \in Instrument : instrument[i].amount = 0
  BY DEF EcnySystemInit, InstrumentsInit, NoVoucher, NoInstrument
<1>4. \A a \in Account : booked[a] = 0
  BY <1>1 DEF Nothing
<1>5. Tallied(issued, booked, topped)
  <2> DEFINE lacks == [a \in CnyRows(issued) |-> issued[a] - booked[a]]
  <2>1. CnyRows(issued) = {}
    BY <1>2 DEF CnyRows
  <2> HIDE DEF lacks
  <2>2. SumFunctionOnSet(issued, {}) = 0 /\ SumFunctionOnSet(lacks, {}) = 0
    BY SumEmpty
  <2>3. SumFunctionOnSet(booked, Counted) = 0
    BY <1>4, CountedOnes, SumZero
  <2> QED
    BY <1>2, <2>1, <2>2, <2>3 DEF Tallied, lacks
<1>6. AllCounted
  BY <1>3, <1>4, <1>5, CountedOnes DEF AllCounted, CountedVoucher, CountedInstrument, Escrowed
<1>7. \A c \in Client : Keeps(req[c])
  BY <1>2, IdleCounts
<1> QED
  BY <1>2, <1>4, <1>6, <1>7, CountedOnes DEF CInv

LEMMA NextCounts == EInv /\ CInv /\ [EcnySystemNext]_ecnyVars => CInv'
<1> SUFFICES ASSUME EInv, CInv, [EcnySystemNext]_ecnyVars PROVE CInv'
  OBVIOUS
<1>1. ASSUME UNCHANGED <<req, stale, booked, instrumentVars, issuanceVars>> PROVE CInv'
  BY <1>1, CountsStay DEF instrumentVars, issuanceVars
<1>2. CASE UNCHANGED ecnyVars
  BY <1>1, <1>2 DEF ecnyVars, requestVars, ledgerVars
<1>3. ASSUME NEW c \in Client, EcnyNext(c), UNCHANGED <<instrumentVars, pvpVars, issuanceVars>> PROVE CInv'
  BY <1>3, EcnyCounts
<1>4. ASSUME NEW c \in Client, InstrumentNext(c), UNCHANGED <<pvpVars, issuanceVars>> PROVE CInv'
  BY <1>4, InstrumentsCount
<1>5. ASSUME NEW c \in Client, PvpNext(c), UNCHANGED <<instrumentVars, issuanceVars>> PROVE CInv'
  BY <1>5, PvpCounts
<1>6. ASSUME NEW c \in Client, IssuanceNext(c), UNCHANGED <<instrumentVars, pvpVars>> PROVE CInv'
  BY <1>6, IssuanceCounts
<1>7. CASE (NewDay \/ ExpireQuote) /\ UNCHANGED <<instrumentVars, issuanceVars>>
  BY <1>1, <1>7 DEF NewDay, ExpireQuote, requestVars, ledgerVars
<1>8. ASSUME NEW x \in Voucher \cup Instrument, PassExpiry(x), UNCHANGED <<pvpVars, issuanceVars>> PROVE CInv'
  BY <1>8, PassExpiryCounts
<1> QED
  BY <1>2, <1>3, <1>4, <1>5, <1>6, <1>7, <1>8 DEF EcnySystemNext

\* An escrow holds what its row promises and what no row has counted.
LEMMA EscrowsCover == EInv /\ CInv => EscrowCoversInstruments
<1> SUFFICES ASSUME EInv, CInv, ~stale PROVE EscrowCoversInstruments
  BY DEF EscrowCoversInstruments
<1>1. AllCounted /\ Balanced /\ posted \in EntryRows /\ booked \in EntryRows
  BY RowsOf DEF CInv, AccountsTyped
<1>2. ASSUME NEW x \in Escrowed PROVE bal[EscrowOf[x]] = booked[EscrowOf[x]] + Uncounted[EscrowOf[x]]
  <2>1. EscrowOf[x] \in Account /\ CurrencyOf[EscrowOf[x]] = "CNY" /\ Holder(EscrowOf[x])
    BY CountedOnes DEF Counted
  <2>2. bal[EscrowOf[x]] = posted[EscrowOf[x]]
    BY <1>1, <2>1 DEF Balanced
  <2> QED
    BY <1>1, <2>1, <2>2 DEF Uncounted, EntryRows
<1> QED
  BY <1>1, <1>2 DEF AllCounted, CountedVoucher, CountedInstrument, EscrowCoversInstruments, Escrowed

\* The rows account for the CNY in the ledger, but for what no row has counted.
LEMMA RowsAccount == EInv /\ CInv /\ ~stale => RowsAccountForLedger
<1> SUFFICES ASSUME EInv, CInv, ~stale PROVE RowsAccountForLedger
  OBVIOUS
<1> PICK S : S = Counted
  OBVIOUS
<1>1. Tallied(issued, booked, topped) /\ Balanced /\ posted \in EntryRows /\ booked \in EntryRows
  BY RowsOf DEF CInv, AllCounted, AccountsTyped
<1>2. DOMAIN issued \subseteq Operators /\ \A a \in DOMAIN issued : issued[a] \in Int
  BY RowsOf DEF OperatorsOpen, IssuanceTypeOK, OperatorRows
<1>3. \A b : NetIssuance(b) = SumFunctionOnSet(b, S)
  BY DEF NetIssuance, Counted, Holder
<1>4. IsFiniteSet(S) /\ \A a \in S : a \in Account /\ bal[a] = posted[a]
  BY <1>1, CountedOnes DEF Counted, Balanced
<1>5. \A a \in S : booked[a] \in Int /\ Uncounted[a] \in Int /\ bal[a] = booked[a] + Uncounted[a]
  BY <1>1, <1>4 DEF Uncounted, EntryRows
<1>6. SumFunctionOnSet(bal, S) = SumFunctionOnSet(booked, S) + SumFunctionOnSet(Uncounted, S)
  BY <1>4, <1>5, SumOfBoth
<1>7. Issuers = CnyRows(issued)
  BY DEF Issuers, Registered, CnyRows
<1>8. NetIssuance(bal) = SumFunctionOnSet(issued, Issuers) + NetIssuance(Uncounted)
  BY <1>1, <1>3, <1>6, <1>7 DEF Tallied
<1>9. \A a \in Issuers : Outstanding(a) + Uncounted[a] = issued[a] - booked[a]
  <2> TAKE a \in Issuers
  <2>1. a \in DOMAIN issued /\ a \in S
    BY <1>2, CountedOnes DEF Issuers, Registered
  <2> QED
    BY <1>2, <1>5, <2>1 DEF Outstanding
<1>10. [a \in Issuers |-> Outstanding(a) + Uncounted[a]] = [a \in Issuers |-> issued[a] - booked[a]]
  BY <1>9
<1>11. SumFunctionOnSet([a \in Issuers |-> Outstanding(a) + Uncounted[a]], Issuers) = topped
  BY <1>1, <1>7, <1>10 DEF Tallied
<1> QED
  BY <1>8, <1>11 DEF RowsAccountForLedger

------------------------------------------------------------------------------
(* What an open request of the e-CNY API leaves in its payer's daily total and *)
(* in the outstanding CNY                                                      *)

\* What it sends from the wallet whose limit it has looked at is within it.
Limited(r) ==
    r.op = "ecny" /\ r.payer \in Wallets /\ r.s.out[r.payer] # 0 =>
      r.payer \in r.read /\ r.out[r.payer] + r.s.out[r.payer] <= Daily[Tier[r.payer]]

\* It creates outstanding CNY by a mint below the cap, by a bridge payment, or
\* out of an account of the central bank.
Capped(r) == r.op = "ecny" /\ r.br # "settled" =>
    \/ NetIssuance(r.s.bal) <= NetIssuance(r.loaded)
    \/ r.read = Account /\ NetIssuance(r.s.bal) <= IssuanceCap
    \/ \E cb \in CentralBanks("CNY") : r.s.out[cb] > 0

LInv == \A c \in Client : Limited(req[c]) /\ Capped(req[c])

LEMMA ReadLimits ==
    ASSUME EInv, LInv, NEW c \in Client, NEW r, Open(c, r), Limited(r), Capped(r)
    PROVE  LInv'
<1>1. req'[c] = r /\ \A d \in Client \ {c} : req'[d] = req[d]
  BY RowsOf, OpenReq
<1> QED
  BY <1>1 DEF LInv

(* What a session that starts from the rows does to them *)

\* From a to b, with what a sends.
LEMMA TransferOf ==
    ASSUME AccountsTyped, NEW a \in Account, NEW b \in Account, NEW n \in Nat, CanTransfer(LoadLedger, a, b, n)
    PROVE  /\ Transfer(LoadLedger, a, b, n).bal \in AccountRows
           /\ Transfer(LoadLedger, a, b, n).bal[a] = bal[a] - n
           /\ Transfer(LoadLedger, a, b, n).bal[b] = bal[b] + n
           /\ \A x \in Account \ {a, b} : Transfer(LoadLedger, a, b, n).bal[x] = bal[x]
           /\ \A x \in Account : Transfer(LoadLedger, a, b, n).out[x] = IF x = a THEN n ELSE 0
<1> DEFINE t == Transfer(LoadLedger, a, b, n)
<1>1. Explains(LoadLedger, bal) /\ LoadLedger.bal = bal /\ bal \in AccountRows
  BY LoadExplained DEF AccountsTyped
<1>2. /\ Explains(t, bal)
      /\ \A x \in Account \ {a, b} : t.bal[x] = LoadLedger.bal[x]
      /\ t.bal[b] = LoadLedger.bal[b] + n
      /\ t.bal[a] = LoadLedger.bal[a] - n
  BY <1>1, TransferExplained
<1>3. t.bal \in AccountRows
  BY <1>2 DEF Explains, Session
<1>4. t.out = [Nothing EXCEPT ![a] = @ + n]
  BY DEF Transfer, LoadLedger
<1> HIDE DEF t
<1>5. \A x \in Account : t.out[x] = IF x = a THEN n ELSE 0
  BY <1>4 DEF Nothing
<1>6. /\ t.bal[a] = bal[a] - n /\ t.bal[b] = bal[b] + n
      /\ \A x \in Account \ {a, b} : t.bal[x] = bal[x]
  BY <1>1, <1>2
<1> QED
  BY <1>3, <1>5, <1>6 DEF t

\* Accounts whose balances are outstanding CNY.
LEMMA NetOf ==
    ASSUME NEW b \in AccountRows
    PROVE  /\ NetIssuance(b) = SumFunctionOnSet(b, Counted)
           /\ NetIssuance(b) \in Int
           /\ IsFiniteSet(Counted) /\ Counted \subseteq Account
           /\ \A x \in Counted : b[x] \in Int
<1>1. IsFiniteSet(Counted) /\ Counted \subseteq Account
  <2>1. Counted \in SUBSET Account
    BY DEF Counted
  <2> QED
    BY <2>1, AccountAssumption, FS_Subset
<1>2. \A x \in Counted : b[x] \in Int
  BY <1>1 DEF AccountRows
<1>3. NetIssuance(b) = SumFunctionOnSet(b, Counted)
  BY DEF NetIssuance, Counted, Holder
<1>4. SumFunctionOnSet(b, Counted) \in Int
  BY <1>1, <1>2, SumType
<1> QED
  BY <1>1, <1>2, <1>3, <1>4

\* One balance changes.
LEMMA NetChanged ==
    ASSUME NEW b \in AccountRows, NEW d \in AccountRows, NEW a \in Account,
           \A x \in Account \ {a} : d[x] = b[x]
    PROVE  NetIssuance(d) = NetIssuance(b) + (IF a \in Counted THEN d[a] - b[a] ELSE 0)
<1>1. /\ NetIssuance(b) = SumFunctionOnSet(b, Counted) /\ NetIssuance(b) \in Int
      /\ NetIssuance(d) = SumFunctionOnSet(d, Counted)
      /\ IsFiniteSet(Counted) /\ Counted \subseteq Account
      /\ \A x \in Counted : b[x] \in Int /\ d[x] \in Int
  BY NetOf
<1>2. CASE a \in Counted
  <2>1. \A x \in Counted \ {a} : b[x] = d[x]
    BY <1>1
  <2>2. SumFunctionOnSet(d, Counted) = SumFunctionOnSet(b, Counted) + d[a] - b[a]
    BY <1>1, <1>2, <2>1, SumChanged
  <2>3. d[a] \in Int /\ b[a] \in Int
    BY <1>1, <1>2
  <2> QED
    BY <1>1, <1>2, <2>2, <2>3
<1>3. CASE a \notin Counted
  <2>1. \A x \in Counted : b[x] = d[x]
    BY <1>1, <1>3
  <2>2. SumFunctionOnSet(b, Counted) = SumFunctionOnSet(d, Counted)
    BY <1>1, <2>1, SumSame
  <2> QED
    BY <1>1, <1>3, <2>2
<1> QED
  BY <1>2, <1>3

\* A transfer out of a holder's account creates no outstanding CNY.
LEMMA NetTransfer ==
    ASSUME AccountsTyped, NEW a \in Account, NEW b \in Account, NEW n \in Nat, CanTransfer(LoadLedger, a, b, n), Holder(a)
    PROVE  NetIssuance(Transfer(LoadLedger, a, b, n).bal) <= NetIssuance(bal)
<1> PICK t : t = Transfer(LoadLedger, a, b, n).bal
  OBVIOUS
<1>1. /\ t \in AccountRows /\ bal \in AccountRows
      /\ t[a] = bal[a] - n /\ t[b] = bal[b] + n
      /\ \A x \in Account \ {a, b} : t[x] = bal[x]
      /\ a # b /\ CurrencyOf[a] = CurrencyOf[b]
  BY TransferOf DEF CanTransfer, AccountsTyped
<1> DEFINE d == [x \in Account |-> IF x = a THEN t[x] ELSE bal[x]]
<1>2. /\ d \in AccountRows /\ d[a] = bal[a] - n /\ d[b] = bal[b]
      /\ \A x \in Account \ {a} : d[x] = bal[x]
      /\ \A x \in Account \ {b} : t[x] = d[x]
  BY <1>1 DEF AccountRows
<1> HIDE DEF d
<1>3. NetIssuance(d) = NetIssuance(bal) + (IF a \in Counted THEN d[a] - bal[a] ELSE 0)
  BY <1>1, <1>2, NetChanged
<1>4. NetIssuance(t) = NetIssuance(d) + (IF b \in Counted THEN t[b] - d[b] ELSE 0)
  BY <1>1, <1>2, NetChanged
<1>5. b \in Counted => a \in Counted
  BY <1>1 DEF Counted, Holder
<1>6. NetIssuance(bal) \in Int /\ bal[a] \in Int /\ bal[b] \in Int
  BY <1>1, NetOf DEF AccountRows
<1>7. NetIssuance(t) <= NetIssuance(bal)
  BY <1>1, <1>2, <1>3, <1>4, <1>5, <1>6
<1> QED
  BY <1>7

\* A mint creates what it says, or none if it is in another currency.
LEMMA MintOf ==
    ASSUME AccountsTyped, NEW a \in Account, NEW n \in Nat, CanMint(a, n)
    PROVE  /\ NetIssuance(Mint(LoadLedger, a, n).bal) \in {NetIssuance(bal), NetIssuance(bal) + n}
           /\ NetIssuance(bal) \in Int
           /\ Mint(LoadLedger, a, n).out = Nothing
<1> PICK t : t = Mint(LoadLedger, a, n)
  OBVIOUS
<1>1. Explains(LoadLedger, bal) /\ LoadLedger.bal = bal /\ bal \in AccountRows
  BY LoadExplained DEF AccountsTyped
<1>2. /\ Explains(t, bal) /\ t.bal[a] = bal[a] + n
      /\ \A x \in Account \ {a} : t.bal[x] = bal[x]
  BY <1>1, MintExplained
<1>3. t.bal \in AccountRows
  BY <1>2 DEF Explains, Session
<1> PICK b : b = t.bal
  OBVIOUS
<1>4. NetIssuance(b) = NetIssuance(bal) + (IF a \in Counted THEN b[a] - bal[a] ELSE 0)
  BY <1>1, <1>2, <1>3, NetChanged
<1>5. bal[a] \in Int /\ NetIssuance(bal) \in Int
  BY <1>1, NetOf DEF AccountRows
<1>6. NetIssuance(b) \in {NetIssuance(bal), NetIssuance(bal) + n}
  BY <1>2, <1>4, <1>5
<1>7. t.out = Nothing
  BY DEF Mint, LoadLedger
<1> QED
  BY <1>5, <1>6, <1>7

\* A burn takes from an operator.
LEMMA BurnOf ==
    ASSUME AccountsTyped, NEW a \in Account, NEW n \in Nat, CanBurn(LoadLedger, a, n)
    PROVE  /\ NetIssuance(Burn(LoadLedger, a, n).bal) <= NetIssuance(bal)
           /\ \A x \in Account \ {a} : Burn(LoadLedger, a, n).out[x] = 0
<1> PICK t : t = Burn(LoadLedger, a, n)
  OBVIOUS
<1>1. Explains(LoadLedger, bal) /\ LoadLedger.bal = bal /\ bal \in AccountRows
  BY LoadExplained DEF AccountsTyped
<1>2. /\ Explains(t, bal)
      /\ \A x \in Account \ {a} : t.bal[x] = bal[x]
  BY <1>1, BurnExplained
<1>3. t.bal \in AccountRows
  BY <1>2 DEF Explains, Session
<1>4. t.bal = [bal EXCEPT ![a] = @ - n] /\ t.out = [Nothing EXCEPT ![a] = @ + n]
  BY <1>1 DEF Burn, LoadLedger
<1>5. \A x \in Account \ {a} : t.out[x] = 0
  BY <1>4 DEF Nothing
<1> PICK b : b = t.bal
  OBVIOUS
<1>6. b[a] = bal[a] - n
  BY <1>1, <1>4 DEF AccountRows
<1>7. NetIssuance(b) = NetIssuance(bal) + (IF a \in Counted THEN b[a] - bal[a] ELSE 0)
  BY <1>1, <1>2, <1>3, NetChanged
<1>8. bal[a] \in Int /\ NetIssuance(bal) \in Int
  BY <1>1, NetOf DEF AccountRows
<1>9. NetIssuance(b) <= NetIssuance(bal)
  BY <1>6, <1>7, <1>8
<1> QED
  BY <1>5, <1>9

------------------------------------------------------------------------------
(* Requests of the e-CNY API that read *)


------------------------------------------------------------------------------
(* Requests of the e-CNY API that read *)

\* Its record says no more than its payer's limit and its issuance do.
LEMMA EcnyRecord ==
    ASSUME NEW payer, NEW read, NEW s, NEW rep, NEW br,
           payer \in Wallets /\ s.out[payer] # 0 => payer \in read /\ sent[payer] + s.out[payer] <= Daily[Tier[payer]],
           br # "settled" => \/ NetIssuance(s.bal) <= NetIssuance(bal)
                             \/ read = Account /\ NetIssuance(s.bal) <= IssuanceCap
                             \/ \E cb \in CentralBanks("CNY") : s.out[cb] > 0
    PROVE  Limited(RequestOf("ecny", payer, read, s, rep, br)) /\ Capped(RequestOf("ecny", payer, read, s, rep, br))
<1> PICK r : r = RequestOf("ecny", payer, read, s, rep, br)
  OBVIOUS
<1>1. /\ r.op = "ecny" /\ r.payer = payer /\ r.read = read /\ r.loaded = bal /\ r.out = sent
      /\ r.s = s /\ r.br = br
  BY DEF RequestOf
<1>2. Limited(r)
  BY <1>1 DEF Limited
<1>3. Capped(r)
  BY <1>1 DEF Capped
<1> QED
  BY <1>2, <1>3

LEMMA NoPayer == "none" \notin Wallets
  BY NoneAssumption DEF Wallets

\* A payment from a wallet within its limit.
LEMMA PaymentRecord ==
    ASSUME AccountsTyped, NEW w \in Wallets, NEW b \in Account, NEW n \in Nat,
           CanTransfer(LoadLedger, w, b, n), sent[w] + n <= Daily[Tier[w]],
           NEW read, w \in read, NEW rep, NEW br
    PROVE  LET r == RequestOf("ecny", w, read, Transfer(LoadLedger, w, b, n), rep, br) IN Limited(r) /\ Capped(r)
<1> PICK s : s = Transfer(LoadLedger, w, b, n)
  OBVIOUS
<1>1. w \in Account /\ Holder(w)
  BY CountedOnes DEF Wallets
<1>2. s.out[w] = n
  BY <1>1, TransferOf
<1>3. NetIssuance(s.bal) <= NetIssuance(bal)
  BY <1>1, NetTransfer
<1> QED
  BY <1>2, <1>3, EcnyRecord

LEMMA ReadTransferLimits ==
    ASSUME EInv, LInv, NEW c \in Client, NEW w \in Wallets, NEW v \in Wallets, NEW n \in Amount, ReadTransfer(c, w, v, n)
    PROVE  LInv'
<1>1. /\ n \in Nat /\ AccountsTyped /\ v \in Account
      /\ sent[w] + n <= Daily[Tier[w]]
      /\ CanTransfer(LoadLedger, w, v, n)
      /\ Open(c, RequestOf("ecny", w, {w, v}, Transfer(LoadLedger, w, v, n), Reports(n, FALSE), "none"))
  BY AmountsAreNat, RowsOf DEF ReadTransfer, CheckOutgoing, Payment, Wallets
<1> QED
  BY <1>1, PaymentRecord, ReadLimits

LEMMA ReadMintLimits ==
    ASSUME EInv, LInv, NEW c \in Client, NEW a \in Account, NEW n \in Amount, ReadMint(c, a, n)
    PROVE  LInv'
<1> PICK s : s = Mint(LoadLedger, a, n)
  OBVIOUS
<1>1. /\ n \in Nat /\ AccountsTyped
      /\ NetIssuance(bal) + n <= IssuanceCap /\ CanMint(a, n)
      /\ Open(c, RequestOf("ecny", "none", Account, s, NoReports, "none"))
  BY AmountsAreNat, RowsOf DEF ReadMint, Request
<1>2. NetIssuance(s.bal) \in {NetIssuance(bal), NetIssuance(bal) + n} /\ NetIssuance(bal) \in Int
  BY <1>1, MintOf
<1>3. \/ NetIssuance(s.bal) <= NetIssuance(bal)
      \/ NetIssuance(s.bal) <= IssuanceCap
  BY <1>1, <1>2
<1> PICK r : r = RequestOf("ecny", "none", Account, s, NoReports, "none")
  OBVIOUS
<1>4. Limited(r) /\ Capped(r)
  BY <1>3, NoPayer, EcnyRecord
<1> QED
  BY <1>1, <1>4, ReadLimits

LEMMA ReadBurnLimits ==
    ASSUME EInv, LInv, NEW c \in Client, NEW a \in Account, NEW n \in Amount, ReadBurn(c, a, n)
    PROVE  LInv'
<1> PICK s : s = Burn(LoadLedger, a, n)
  OBVIOUS
<1>1. /\ n \in Nat /\ AccountsTyped /\ CanBurn(LoadLedger, a, n)
      /\ Open(c, RequestOf("ecny", "none", {a}, s, NoReports, "none"))
  BY AmountsAreNat, RowsOf DEF ReadBurn, Request
<1>2. NetIssuance(s.bal) <= NetIssuance(bal)
  BY <1>1, BurnOf
<1> PICK r : r = RequestOf("ecny", "none", {a}, s, NoReports, "none")
  OBVIOUS
<1>3. Limited(r) /\ Capped(r)
  BY <1>2, NoPayer, EcnyRecord
<1> QED
  BY <1>1, <1>3, ReadLimits

\* issue_to_wallet takes the money from a holder, or from the central bank.
LEMMA ReadExchangeToWalletLimits ==
    ASSUME EInv, LInv, NEW c \in Client, NEW a \in Account, NEW w \in Wallets, NEW n \in Amount,
           ReadExchangeToWallet(c, a, w, n)
    PROVE  LInv'
<1> PICK s : s = Transfer(LoadLedger, a, w, n)
  OBVIOUS
<1>1. /\ n \in Nat /\ AccountsTyped /\ w \in Account
      /\ CanTransfer(LoadLedger, a, w, n)
      /\ Open(c, RequestOf("ecny", "none", {a, w}, s, NoReports, "none"))
  BY AmountsAreNat, RowsOf DEF ReadExchangeToWallet, Request, Wallets
<1>2. \/ NetIssuance(s.bal) <= NetIssuance(bal)
      \/ \E cb \in CentralBanks("CNY") : s.out[cb] > 0
  <2>1. CASE Holder(a)
    BY <1>1, <2>1, NetTransfer
  <2>2. CASE ~Holder(a)
    <3>1. a \in CentralBanks("CNY") /\ n > 0
      BY <1>1, <2>2, WalletAssumption DEF CentralBanks, CanTransfer, Wallets, Holder
    <3>2. s.out[a] = n
      BY <1>1, TransferOf
    <3> QED
      BY <3>1, <3>2
  <2> QED
    BY <2>1, <2>2
<1> PICK r : r = RequestOf("ecny", "none", {a, w}, s, NoReports, "none")
  OBVIOUS
<1>3. Limited(r) /\ Capped(r)
  BY <1>2, NoPayer, EcnyRecord
<1> QED
  BY <1>1, <1>3, ReadLimits

LEMMA ReadRedeemFromWalletLimits ==
    ASSUME EInv, LInv, NEW c \in Client, NEW w \in Wallets, NEW a \in Account, NEW n \in Amount,
           ReadRedeemFromWallet(c, w, a, n)
    PROVE  LInv'
<1>1. /\ n \in Nat /\ AccountsTyped
      /\ sent[w] + n <= Daily[Tier[w]]
      /\ CanTransfer(LoadLedger, w, a, n)
      /\ Open(c, RequestOf("ecny", w, {w, a}, Transfer(LoadLedger, w, a, n), NoReports, "none"))
  BY AmountsAreNat, RowsOf DEF ReadRedeemFromWallet, CheckOutgoing, Payment
<1> QED
  BY <1>1, PaymentRecord, ReadLimits

LEMMA ReadCrossBorderLimits ==
    ASSUME EInv, LInv, NEW c \in Client, NEW w \in Wallets, NEW b \in Account, NEW cur, NEW asked, NEW n \in Amount,
           ReadCrossBorder(c, w, b, cur, asked, n)
    PROVE  LInv'
<1>1. /\ w \in Account /\ n \in Nat /\ AccountsTyped
      /\ sent[w] + n <= Daily[Tier[w]]
      /\ SettleViaMbridge(c, w, b, cur, n) \/ SettleViaCips(c, w, b, n)
  BY AmountsAreNat, RowsOf DEF ReadCrossBorder, CheckOutgoing, Wallets
<1>2. CASE SettleViaCips(c, w, b, n)
  <2>1. /\ CanTransfer(LoadLedger, w, b, n)
        /\ Open(c, RequestOf("ecny", w, {w, b}, Transfer(LoadLedger, w, b, n), Reports(n, TRUE), "settled"))
    BY <1>2 DEF SettleViaCips, Payment
  <2> QED
    BY <1>1, <2>1, PaymentRecord, ReadLimits
<1>3. CASE SettleViaMbridge(c, w, b, cur, n)
  <2> PICK s : s = Exchange(LoadLedger, w, b, n, Converted(cur, n))
    OBVIOUS
  <2>1. Open(c, RequestOf("ecny", w, {w, b}, s, Reports(n, TRUE), "settled"))
    BY <1>3 DEF SettleViaMbridge, Payment
  <2>2. s.out = [Nothing EXCEPT ![w] = @ + n]
    BY DEF Exchange, LoadLedger
  <2>3. s.out[w] = n
    BY <1>1, <2>2 DEF Nothing
  <2> PICK r : r = RequestOf("ecny", w, {w, b}, s, Reports(n, TRUE), "settled")
    OBVIOUS
  <2>4. Limited(r) /\ Capped(r)
    BY <1>1, <2>3, EcnyRecord
  <2> QED
    BY <2>1, <2>4, ReadLimits
<1> QED
  BY <1>1, <1>2, <1>3

------------------------------------------------------------------------------
(* The end of a request of the e-CNY API *)

\* A step of another part: no request of the e-CNY API ends, reads or opens.
Foreign(r) == r.op # "ecny"
GoesOn == \A c \in Client : req'[c] = req[c] \/ (Foreign(req[c]) /\ Foreign(req'[c]))

LEMMA IdleIsForeign == Foreign(Idle)
  BY DEF Foreign, Idle

LEMMA OthersGoOn ==
    ASSUME Requests, NEW d \in Client,
           \/ AtOnce(d)
           \/ \E r : Open(d, r) /\ Foreign(r)
           \/ Foreign(req[d]) /\ \E r : ReadOn(d, r) /\ Foreign(r)
           \/ Foreign(req[d]) /\ \E fresh : Commit(d, fresh)
           \/ Foreign(req[d]) /\ RollBack(d)
    PROVE  GoesOn
<1>1. Foreign(Idle)
  BY IdleIsForeign
<1> HIDE DEF Idle, Foreign
<1>2. CASE AtOnce(d)
  BY <1>2 DEF AtOnce, GoesOn
<1>3. ASSUME NEW r, Open(d, r), Foreign(r) PROVE GoesOn
  <2>1. Foreign(req[d]) /\ req'[d] = r /\ \A c \in Client \ {d} : req'[c] = req[c]
    BY <1>1, <1>3, OpenReq DEF Open
  <2> QED
    BY <1>3, <2>1 DEF GoesOn
<1>4. ASSUME Foreign(req[d]), NEW r, ReadOn(d, r), Foreign(r) PROVE GoesOn
  BY <1>4, ReadOnReq DEF GoesOn
<1>5. ASSUME Foreign(req[d]), NEW fresh, Commit(d, fresh) PROVE GoesOn
  BY <1>1, <1>5, CommitReq DEF GoesOn
<1>6. ASSUME Foreign(req[d]), RollBack(d) PROVE GoesOn
  BY <1>1, <1>6 DEF RollBack, Requests, GoesOn
<1> QED
  BY <1>2, <1>3, <1>4, <1>5, <1>6

LEMMA EscrowOpens ==
    ASSUME Requests, NEW d \in Client, NEW op \in EscrowOps, NEW x, NEW row, NEW read, NEW s, NEW n,
           Open(d, OnEscrow(op, x, row, read, s, n))
    PROVE  GoesOn
<1> PICK r : r = OnEscrow(op, x, row, read, s, n)
  OBVIOUS
<1>1. Open(d, r) /\ Foreign(r)
  BY DEF OnEscrow, Foreign, EscrowOps
<1> QED
  BY <1>1, OthersGoOn

LEMMA OperatorOpens ==
    ASSUME Requests, NEW d \in Client, NEW a, NEW n, NEW read, NEW s, NEW top, Open(d, OnOperator(a, n, read, s, top))
    PROVE  GoesOn
<1> PICK r : r = OnOperator(a, n, read, s, top)
  OBVIOUS
<1>1. Open(d, r) /\ Foreign(r)
  BY DEF OnOperator, Foreign
<1> QED
  BY <1>1, OthersGoOn

LEMMA InstrumentsGoOn == ASSUME Requests, NEW d \in Client, InstrumentNext(d) PROVE GoesOn
<1>1. "issue" \in EscrowOps /\ "redeem" \in EscrowOps /\ "create" \in EscrowOps /\ "execute" \in EscrowOps
  BY DEF EscrowOps
<1>2. ASSUME NEW v, NEW w, NEW n, ReadIssueVoucher(d, v, w, n) PROVE GoesOn
  BY <1>1, <1>2, EscrowOpens DEF ReadIssueVoucher
<1>3. ASSUME NEW v, NEW w, ReadRedeemVoucher(d, v, w) PROVE GoesOn
  BY <1>1, <1>3, EscrowOpens DEF ReadRedeemVoucher
<1>4. ASSUME NEW i, NEW w, NEW n, NEW t, NEW max, ReadCreateInstrument(d, i, w, n, t, max) PROVE GoesOn
  BY <1>1, <1>4, EscrowOpens DEF ReadCreateInstrument
<1>5. ASSUME NEW i, NEW w, NEW n, NEW granted, ReadExecute(d, i, w, n, granted) PROVE GoesOn
  BY <1>1, <1>5, EscrowOpens DEF ReadExecute
<1>6. CASE CommitIssueVoucher(d) \/ CommitRedeemVoucher(d) \/ CommitCreateInstrument(d) \/ CommitExecute(d)
  <2>1. /\ req[d].op \in {"issue", "redeem", "create", "execute"}
        /\ \E fresh : Commit(d, fresh)
    BY <1>6, ZenonT(60) DEF CommitIssueVoucher, CommitRedeemVoucher, CommitCreateInstrument, CommitExecute
  <2>2. Foreign(req[d])
    BY <2>1 DEF Foreign
  <2> QED
    BY <2>1, <2>2, OthersGoOn
<1>7. CASE RollBackInstrument(d)
  BY <1>7, OthersGoOn DEF RollBackInstrument, Foreign
<1> QED
  BY <1>2, <1>3, <1>4, <1>5, <1>6, <1>7 DEF InstrumentNext

LEMMA PvpGoesOn == ASSUME Requests, NEW d \in Client, PvpNext(d) PROVE GoesOn
<1>1. CASE CreateFxQuote(d) \/ \E p \in Pvp, legs \in LegPairs : CreatePvp(d, p, legs)
  BY <1>1, OthersGoOn DEF CreateFxQuote, CreatePvp
<1>2. ASSUME NEW p, NEW op \in {"pvp_lock", "pvp_commit"}, Open(d, OnPvp(op, p)) PROVE GoesOn
  <2> PICK r : r = OnPvp(op, p)
    OBVIOUS
  <2>1. Open(d, r) /\ Foreign(r)
    BY <1>2 DEF OnPvp, Foreign
  <2> QED
    BY <2>1, OthersGoOn
<1>3. ASSUME NEW p, NEW expected, ReadLockPvp(d, p, expected) \/ ReadCommitPvp(d, p, expected) PROVE GoesOn
  BY <1>2, <1>3 DEF ReadLockPvp, ReadCommitPvp
<1>4. CASE TakeLeases(d)
  <2>1. Foreign(req[d]) /\ \E r : ReadOn(d, r) /\ Foreign(r)
    BY <1>4 DEF TakeLeases, Foreign
  <2> QED
    BY <2>1, OthersGoOn
<1>5. CASE CommitLockPvp(d) \/ CommitPvp(d)
  <2>1. req[d].op \in {"pvp_lock", "pvp_legs"} /\ \E fresh : Commit(d, fresh)
    BY <1>5, ZenonT(60) DEF CommitLockPvp, CommitPvp
  <2>2. Foreign(req[d])
    BY <2>1 DEF Foreign
  <2> QED
    BY <2>1, <2>2, OthersGoOn
<1>6. CASE RollBackPvp(d)
  BY <1>6, OthersGoOn DEF RollBackPvp, Foreign
<1> QED
  BY <1>1, <1>3, <1>4, <1>5, <1>6 DEF PvpNext

LEMMA IssuanceGoesOn == ASSUME Requests, NEW d \in Client, IssuanceNext(d) PROVE GoesOn
<1>1. CASE \/ \E a \in Operators : RegisterOperator(d, a)
           \/ \E w \in Wallets, a \in Operators : CreateHkWallet(d, w, a)
  BY <1>1, OthersGoOn DEF RegisterOperator, CreateHkWallet
<1>2. ASSUME NEW a, NEW n, ReadIssue(d, a, n) \/ ReadRedeem(d, a, n) \/ \E w \in Wallets : ReadTopUp(d, a, w, n)
      PROVE  GoesOn
  BY <1>2, OperatorOpens DEF ReadIssue, ReadRedeem, ReadTopUp
<1>3. ASSUME NEW w, NEW m, NEW n, ReadMerchantPayment(d, w, m, n) PROVE GoesOn
  <2>1. \E r : Open(d, r) /\ Foreign(r)
    BY <1>3 DEF ReadMerchantPayment, RequestOf, Foreign
  <2> QED
    BY <2>1, OthersGoOn
<1>4. CASE CommitOperator(d) \/ CommitMerchantPayment(d)
  <2>1. req[d].op \in {"operator", "merchant"} /\ \E fresh : Commit(d, fresh)
    BY <1>4, ZenonT(60) DEF CommitOperator, CommitMerchantPayment, CommitRequest
  <2>2. Foreign(req[d])
    BY <2>1 DEF Foreign
  <2> QED
    BY <2>1, <2>2, OthersGoOn
<1>5. CASE RollBackOperator(d)
  BY <1>5, OthersGoOn DEF RollBackOperator, Foreign
<1> QED
  BY <1>1, <1>2, <1>3, <1>4, <1>5 DEF IssuanceNext

\* A step of the e-CNY API opens a request within its limits, or ends one.
EcnyEnding(d) == CommitEcny(d) \/ RollBackEcny(d)

LEMMA EcnySteps ==
    ASSUME EInv, LInv, NEW d \in Client, EcnyNext(d)
    PROVE  \/ GoesOn
           \/ LInv' /\ \E r : Open(d, r)
           \/ EcnyEnding(d)
<1>0. Requests
  BY RowsOf
<1>1. CASE \/ \E w \in Wallets, named \in BOOLEAN, o \in Account \cup {"none"} : OpenWallet(d, w, named, o)
           \/ \E a \in Operators : ProvisionOperator(d, a)
           \/ \E a \in Operators, n \in Amount : SeedForeignAccount(d, a, n)
  BY <1>0, <1>1, OthersGoOn DEF OpenWallet, ProvisionOperator, SeedForeignAccount
<1>2. ASSUME NEW w \in Wallets, NEW v \in Wallets, NEW n \in Amount, ReadTransfer(d, w, v, n)
      PROVE  LInv' /\ \E r : Open(d, r)
  BY <1>2, ReadTransferLimits, ZenonT(60) DEF ReadTransfer
<1>3. ASSUME NEW a \in Account, NEW n \in Amount, ReadMint(d, a, n) PROVE LInv' /\ \E r : Open(d, r)
  BY <1>3, ReadMintLimits, ZenonT(60) DEF ReadMint
<1>4. ASSUME NEW a \in Account, NEW n \in Amount, ReadBurn(d, a, n) PROVE LInv' /\ \E r : Open(d, r)
  BY <1>4, ReadBurnLimits, ZenonT(60) DEF ReadBurn
<1>5. ASSUME NEW a \in Account, NEW w \in Wallets, NEW n \in Amount, ReadExchangeToWallet(d, a, w, n)
      PROVE  LInv' /\ \E r : Open(d, r)
  BY <1>5, ReadExchangeToWalletLimits, ZenonT(60) DEF ReadExchangeToWallet
<1>6. ASSUME NEW w \in Wallets, NEW a \in Account, NEW n \in Amount, ReadRedeemFromWallet(d, w, a, n)
      PROVE  LInv' /\ \E r : Open(d, r)
  BY <1>6, ReadRedeemFromWalletLimits, ZenonT(60) DEF ReadRedeemFromWallet
<1>7. ASSUME NEW w \in Wallets, NEW b \in Account, NEW cur, NEW asked, NEW n \in Amount,
             ReadCrossBorder(d, w, b, cur, asked, n)
      PROVE  LInv' /\ \E r : Open(d, r)
  <2>1. SettleViaMbridge(d, w, b, cur, n) \/ SettleViaCips(d, w, b, n)
    BY <1>7 DEF ReadCrossBorder
  <2>2. \E r : Open(d, r)
    BY <2>1, ZenonT(60) DEF SettleViaMbridge, SettleViaCips
  <2> QED
    BY <1>7, <2>2, ReadCrossBorderLimits
<1> QED
  BY <1>1, <1>2, <1>3, <1>4, <1>5, <1>6, <1>7 DEF EcnyNext, EcnyEnding

LEMMA EndingReq ==
    ASSUME Requests, NEW d \in Client, EcnyEnding(d)
    PROVE  req'[d] = Idle /\ \A e \in Client \ {d} : req'[e] = req[e]
<1>1. CASE CommitEcny(d)
  <2>1. \E fresh : Commit(d, fresh)
    BY <1>1, ZenonT(60) DEF CommitEcny, CommitRequest
  <2> QED
    BY <2>1, CommitReq
<1>2. CASE RollBackEcny(d)
  BY <1>2 DEF RollBackEcny, RollBack, Requests
<1> QED
  BY <1>1, <1>2 DEF EcnyEnding

\* What each step of the platform is to the requests of the e-CNY API.
LEMMA StepsOfEcny ==
    ASSUME EInv, LInv, EcnySystemNext
    PROVE  GoesOn \/ \E d \in Client : EcnyEnding(d) \/ (LInv' /\ \E r : Open(d, r))
<1>1. CASE NewDay \/ ExpireQuote \/ \E x \in Voucher \cup Instrument : PassExpiry(x)
  BY <1>1 DEF NewDay, ExpireQuote, PassExpiry, requestVars, GoesOn
<1> QED
  BY <1>1, RowsOf, InstrumentsGoOn, PvpGoesOn, IssuanceGoesOn, EcnySteps DEF EcnySystemNext

LEMMA InitLimits == EcnySystemInit => LInv
<1> SUFFICES ASSUME EcnySystemInit, NEW c \in Client PROVE Limited(req[c]) /\ Capped(req[c])
  BY DEF LInv
<1>1. req[c] = Idle /\ Foreign(Idle)
  BY IdleIsForeign DEF EcnySystemInit, RequestsInit
<1> QED
  BY <1>1 DEF Foreign, Limited, Capped

LEMMA NextLimits == EInv /\ LInv /\ [EcnySystemNext]_ecnyVars => LInv'
<1> SUFFICES ASSUME EInv, LInv, [EcnySystemNext]_ecnyVars PROVE LInv'
  OBVIOUS
<1>1. \A r : Foreign(r) => Limited(r) /\ Capped(r)
  BY DEF Foreign, Limited, Capped
<1>2. CASE UNCHANGED ecnyVars \/ GoesOn
  <2>1. \A c \in Client : req'[c] = req[c] \/ Foreign(req'[c])
    BY <1>2 DEF ecnyVars, requestVars, GoesOn
  <2> QED
    BY <1>1, <2>1 DEF LInv
<1>3. ASSUME NEW d \in Client, EcnyEnding(d) PROVE LInv'
  <2>1. \A c \in Client : req'[c] = req[c] \/ Foreign(req'[c])
    BY <1>3, RowsOf, EndingReq, IdleIsForeign
  <2> QED
    BY <1>1, <2>1 DEF LInv
<1> QED
  BY <1>2, <1>3, StepsOfEcny

\* A step that ends one is its commit, or rolls it back.
LEMMA EcnyEnds ==
    ASSUME EInv, LInv, EcnySystemNext, NEW c \in Client, req[c].op = "ecny", req'[c] = Idle
    PROVE  EcnyEnding(c)
<1>1. Idle.op # "ecny" /\ Requests
  BY IdleIsForeign, RowsOf DEF Foreign
<1>2. ~ GoesOn
  BY <1>1 DEF GoesOn, Foreign
<1>3. PICK d \in Client : EcnyEnding(d) \/ \E r : Open(d, r)
  BY <1>2, StepsOfEcny
<1>4. CASE EcnyEnding(d)
  BY <1>1, <1>4, EndingReq
<1>5. ASSUME NEW r, Open(d, r) PROVE FALSE
  <2>1. req[d] = Idle /\ \A e \in Client \ {d} : req'[e] = req[e]
    BY <1>1, <1>5, OpenReq DEF Open
  <2> QED
    BY <1>1, <2>1
<1> QED
  BY <1>3, <1>4, <1>5

LEMMA DailyKept ==
    ASSUME EInv, LInv, EcnySystemNext, NEW c \in Client, NEW w \in Wallets,
           req[c].op = "ecny", req[c].payer = w, req'[c] = Idle, sent'[w] > sent[w], ~stale'
    PROVE  sent'[w] <= Daily[Tier[w]]
<1> PICK r : r = req[c]
  OBVIOUS
<1>1. w \in Account /\ sent \in TransactionRows /\ Requests
  BY RowsOf DEF Wallets, AccountsTyped
<1>2. sent[w] \in Nat
  BY <1>1 DEF TransactionRows
<1>3. ~ RollBackEcny(c)
  BY <1>2 DEF RollBackEcny, ledgerVars
<1>4. CommitEcny(c)
  BY <1>1, <1>3, EcnyEnds DEF EcnyEnding
<1> DEFINE fresh == \A a \in r.read : r.loaded[a] = bal[a] /\ r.out[a] = sent[a]
<1>5. Persist(r.loaded, r.s) /\ Commit(c, fresh)
  BY <1>4 DEF CommitEcny, CommitRequest
<1>6. fresh
  BY <1>1, <1>5, CommitReq
<1>7. r.s.out[w] \in Nat
  BY <1>1 DEF Requests, Reads, Moves, Moving, Explains, Session, TransactionRows
<1>8. sent'[w] = sent[w] + r.s.out[w]
  BY <1>1, <1>5 DEF Persist
<1>9. r.s.out[w] # 0
  BY <1>2, <1>8
<1>10. w \in r.read /\ r.out[w] + r.s.out[w] <= Daily[Tier[w]]
  BY <1>9 DEF LInv, Limited
<1> QED
  BY <1>6, <1>8, <1>10

\* The outstanding CNY changes by what the session has changed.
LEMMA NetCommitted ==
    ASSUME AccountsTyped, NEW loaded \in AccountRows, NEW s, s.bal \in AccountRows, Persist(loaded, s),
           \A a \in Account : s.bal[a] # loaded[a] => loaded[a] = bal[a]
    PROVE  NetIssuance(bal') + NetIssuance(loaded) = NetIssuance(bal) + NetIssuance(s.bal)
<1> PICK new : new = bal'
  OBVIOUS
<1> PICK b : b = s.bal
  OBVIOUS
<1>1. bal \in AccountRows /\ new \in AccountRows /\ b \in AccountRows
      /\ \A a \in Account : new[a] = IF b[a] # loaded[a] THEN b[a] ELSE bal[a]
  BY DEF AccountsTyped, AccountRows, Persist, Flush
<1> DEFINE both == [a \in Account |-> new[a] + loaded[a]]
<1>2. IsFiniteSet(Counted) /\ Counted \subseteq Account
  BY <1>1, NetOf
<1>3. \A a \in Counted : /\ new[a] \in Int /\ loaded[a] \in Int /\ bal[a] \in Int /\ b[a] \in Int
                         /\ both[a] = new[a] + loaded[a]
  BY <1>1, <1>2 DEF AccountRows
<1>4. \A a \in Counted : both[a] = bal[a] + b[a]
  BY <1>1, <1>2, <1>3
<1> HIDE DEF both
<1>5. SumFunctionOnSet(both, Counted) = SumFunctionOnSet(new, Counted) + SumFunctionOnSet(loaded, Counted)
  BY <1>2, <1>3, SumOfBoth
<1>6. SumFunctionOnSet(both, Counted) = SumFunctionOnSet(bal, Counted) + SumFunctionOnSet(b, Counted)
  BY <1>2, <1>3, <1>4, SumOfBoth
<1> QED
  BY <1>1, <1>5, <1>6, NetOf

LEMMA NetStaysInt == ASSUME EInv, EcnySystemNext PROVE NetIssuance(bal') \in Int
<1>1. EInv'
  BY NextEcny
<1>2. AccountsTyped'
  BY <1>1 DEF EInv, Rows
<1> PICK new \in AccountRows : new = bal'
  BY <1>2 DEF AccountsTyped, AccountRows
<1> QED
  BY NetOf

LEMMA CapKept ==
    ASSUME EInv, LInv, EcnySystemNext, NEW c \in Client, req[c].op = "ecny", req'[c] = Idle,
           NetIssuance(bal') > NetIssuance(bal), ~stale', bridged' = bridged,
           \A cb \in CentralBanks("CNY") : ~(sent'[cb] > sent[cb])
    PROVE  NetIssuance(bal') <= IssuanceCap
<1> PICK r : r = req[c]
  OBVIOUS
<1>1. AccountsTyped /\ bal \in AccountRows /\ Requests
  BY RowsOf DEF AccountsTyped
<1>2. NetIssuance(bal) \in Int
  BY <1>1, NetOf
<1>3. ~ RollBackEcny(c)
  BY <1>2 DEF RollBackEcny, ledgerVars
<1>4. CommitEcny(c)
  BY <1>1, <1>3, EcnyEnds DEF EcnyEnding
<1> DEFINE fresh == \A a \in r.read : r.loaded[a] = bal[a] /\ r.out[a] = sent[a]
<1>5. /\ Persist(r.loaded, r.s) /\ Commit(c, fresh)
      /\ bridged' = [st \in DOMAIN bridged |-> bridged[st] + (IF st = r.br THEN 1 ELSE 0)]
  BY <1>4 DEF CommitEcny, CommitRequest
<1>6. fresh
  BY <1>1, <1>5, CommitReq
<1>7. /\ r.loaded \in AccountRows /\ r.s.bal \in AccountRows
      /\ \A a \in Account : r.s.bal[a] # r.loaded[a] => a \in r.read
  BY <1>1 DEF Requests, Reads, Moves, Moving, Explains, Session
<1>8. r.br # "settled"
  <2>1. bridged \in [{"pending", "settled", "failed"} -> Nat]
    BY RowsOf DEF ReportsCounted, BridgeRows
  <2> QED
    BY <1>5, <2>1
<1>9. \/ NetIssuance(r.s.bal) <= NetIssuance(r.loaded)
      \/ r.read = Account /\ NetIssuance(r.s.bal) <= IssuanceCap
  <2>1. ASSUME NEW cb \in CentralBanks("CNY") PROVE ~(r.s.out[cb] > 0)
    <3>1. cb \in Account /\ sent[cb] \in Nat /\ r.s.out[cb] \in Nat
      BY <1>1 DEF AccountsTyped, TransactionRows, Requests, Reads, Moves, Moving, Explains, Session, CentralBanks
    <3>2. sent'[cb] = sent[cb] + r.s.out[cb]
      BY <1>5, <3>1 DEF Persist
    <3> QED
      BY <3>1, <3>2
  <2> QED
    BY <1>8, <2>1 DEF LInv, Capped
<1>10. NetIssuance(bal') + NetIssuance(r.loaded) = NetIssuance(bal) + NetIssuance(r.s.bal)
  BY <1>1, <1>5, <1>6, <1>7, NetCommitted
<1>11. NetIssuance(r.loaded) \in Int /\ NetIssuance(r.s.bal) \in Int
  BY <1>7, NetOf
<1>12. NetIssuance(bal') \in Int
  BY NetStaysInt
<1>13. CASE NetIssuance(r.s.bal) <= NetIssuance(r.loaded)
  BY <1>2, <1>10, <1>11, <1>12, <1>13
<1>14. CASE r.read = Account /\ NetIssuance(r.s.bal) <= IssuanceCap
  <2>1. r.loaded = bal
    BY <1>1, <1>6, <1>7, <1>14 DEF AccountRows
  <2> QED
    BY <1>2, <1>10, <1>11, <1>12, <1>14, <2>1
<1> QED
  BY <1>9, <1>13, <1>14


------------------------------------------------------------------------------
(* The promises *)

\* Along every behaviour, whatever accounts the callers name and whatever
\* requests overlap: the rows are as EInv says, the entries of a request that a
\* row keeps count of are what it is about to count (CInv), and a request of the
\* e-CNY API carries what it has compared with the limits (LInv).
THEOREM PromisesInvariance == EcnySystemSpec => [](EInv /\ CInv /\ LInv)
<1>1. EcnySystemInit => EInv /\ CInv /\ LInv
  BY InitEcny, InitCounts, InitLimits
<1>2. EInv /\ CInv /\ LInv /\ [EcnySystemNext]_ecnyVars => EInv' /\ CInv' /\ LInv'
  BY NextEcny, NextCounts, NextLimits
<1> QED
  BY <1>1, <1>2, PTL DEF EcnySystemSpec

\* cbdc.py, the escrow of a voucher or an instrument: without overlap it holds
\* what the row still promises and what other requests have moved on it, and a
\* voucher is announced as redeemed once it is paid out, for any number of
\* vouchers, instruments, wallets and callers.
THEOREM EscrowCoversInstrumentsHolds == EcnySystemSpec => []EscrowCoversInstruments
<1> QED
  BY EscrowsCover, PromisesInvariance, PTL

\* nextgen/cips.py and cbdc.py, the two-tier issuance beside POST /issuance, the
\* bridges and everything else that moves CNY: without overlap the operator rows
\* account for all of it but for the entries that no row counts.
THEOREM RowsAccountForLedgerHolds == EcnySystemSpec => [](~stale => RowsAccountForLedger)
<1>1. EInv /\ CInv => (~stale => RowsAccountForLedger)
  BY RowsAccount
<1> QED
  BY <1>1, PromisesInvariance, PTL

\* wallet/service.py, check_limits(): a transfer, a redemption or a cross-border
\* payment that has not overlapped another request takes its payer no further
\* than the daily limit of its tier, whatever has been sent from it before.
THEOREM DailyOutgoingWithinLimitHolds == EcnySystemSpec => DailyOutgoingWithinLimit
<1> DEFINE Within == \A c \in Client, w \in Wallets :
             req[c].op = "ecny" /\ req[c].payer = w /\ req'[c] = Idle /\ sent'[w] > sent[w]
               => stale' \/ sent'[w] <= Daily[Tier[w]]
<1>1. EInv /\ CInv /\ LInv /\ [EcnySystemNext]_ecnyVars => [Within]_<<req, sent, stale>>
  <2>1. EInv /\ LInv /\ EcnySystemNext => Within
    BY DailyKept
  <2>2. UNCHANGED ecnyVars => UNCHANGED <<req, sent, stale>>
    BY DEF ecnyVars, requestVars, ledgerVars
  <2> QED
    BY <2>1, <2>2
<1> QED
  BY <1>1, PromisesInvariance, PTL DEF EcnySystemSpec, DailyOutgoingWithinLimit

\* issuance/service.py and bridge/: a request of the e-CNY API that has not
\* overlapped another takes the outstanding CNY above the cap by a bridge payment
\* or out of an account of the central bank, and in no other way, whatever
\* account it is given.
THEOREM IssuanceStaysWithinCapHolds == EcnySystemSpec => IssuanceStaysWithinCap
<1> DEFINE Within == \A c \in Client :
             req[c].op = "ecny" /\ req'[c] = Idle
             /\ NetIssuance(bal') > IssuanceCap /\ NetIssuance(bal') > NetIssuance(bal)
               => \/ stale'
                  \/ bridged' # bridged
                  \/ \E cb \in CentralBanks("CNY") : sent'[cb] > sent[cb]
<1>1. EInv /\ CInv /\ LInv /\ [EcnySystemNext]_ecnyVars => [Within]_<<req, bal, sent, bridged, stale>>
  <2>1. EInv /\ LInv /\ EcnySystemNext => Within
    <3> SUFFICES ASSUME EInv, LInv, EcnySystemNext, NEW c \in Client, req[c].op = "ecny", req'[c] = Idle,
                        NetIssuance(bal') > IssuanceCap, NetIssuance(bal') > NetIssuance(bal),
                        ~stale', bridged' = bridged,
                        \A cb \in CentralBanks("CNY") : ~(sent'[cb] > sent[cb])
                 PROVE  FALSE
      OBVIOUS
    <3>1. NetIssuance(bal') <= IssuanceCap
      BY CapKept
    <3>2. NetIssuance(bal') \in Int
      BY NetStaysInt
    <3> QED
      BY <3>1, <3>2, CapAssumption
  <2>2. UNCHANGED ecnyVars => UNCHANGED <<req, bal, sent, bridged, stale>>
    BY DEF ecnyVars, requestVars, ledgerVars, walletVars
  <2> QED
    BY <2>1, <2>2
<1> QED
  BY <1>1, PromisesInvariance, PTL DEF EcnySystemSpec, IssuanceStaysWithinCap
==============================================================================
