SPECIFICATION Spec
CONSTANTS
    Client = {c1, c2}
    Account <- Accounts
    OwnerType <- Owner
    CurrencyOf <- Currencies
    Tier <- Tiers
    PerTx <- PerTxOf
    Daily <- DailyOf
    BalanceCap <- BalanceOf
    IssuanceCap = 5
    LargeCash = 2
    Rate <- Rates
    Amount = {1, 2}
    Voucher = {"v1"}
    Instrument = {"i1"}
    EscrowOf <- EscrowAccounts
    Pvp = {p1, p2}
    LegPairs <- LegChoice
    QuoteRate <- Half
    QuoteFee = 0
    QuoteMax = 2
    OperatorLimit <- Limits
    HkSingle <- PerTxOf
    HkBalance <- BalanceOf
    Participant = {"a", "b", "c"}
    Direct = {"a", "b", "c"}
    Newcomer = "c"
    Rich = "a"
    Settlement = {1, 2, 3}
    Opening = {1}
    Batch = {"x"}
    Key = {k1}
    Digest = {"d1", "d2"}
    Payload = {"x", "y"}
    MaxChain = 3
SYMMETRY Symmetry
INVARIANT RedeemedOnce
CHECK_DEADLOCK FALSE
