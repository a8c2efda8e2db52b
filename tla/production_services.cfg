SPECIFICATION Spec
CONSTANTS
    Client = {c1, c2}
    LedgerAccount <- LedgerAccounts
    TypeOf <- Types
    CurrencyAt <- Denominations
    Journal = {"j1", "j2"}
    Template <- Templates
    Clearing <- ClearingAccounts
    Hold = {"h1", "h2"}
    Period = {"p1"}
    Glb = {"g1"}
    Officer = {"m", "n"}
    Key = {"k1", "k2"}
    Body = {"b1", "b2"}
    Instruction = {"x1", "x2"}
    LastDay = 2
    MaxQuote = 2
    MaxProfile = 2
    Subject = {"m", "n", "o"}
    Approval = {"ap1", "ap2"}
    ActionOf <- Actions
    ManagedKey = {"mk"}
    Entity <- Entities
    ParentOf <- Parents
    Account = {"a1", "a2"}
    SandboxParty <- SandboxParties
    Origin <- Origins
    PartyOf <- Parties
    IdentityOf <- Identities
    IdentityRow <- IdentityRows
    CertificateRow <- CertificateRows
    EntitlementRow <- EntitlementRows
    ScopesOf <- Scopes
    LimitOf <- Limits
    OwnershipOf <- Ownerships
    Purchase <- Purchases
    AdmissionLife = 1
    MaxPayment = 2
    PaymentOrder = {"o1"}
    Reference <- References
    OrderView <- Views
    MaxRecord = 3
    SwiftRefBic <- Directory
    SwiftRefIban <- Ibans
    SwiftRefCurrency <- Minors
    Ownership = {"o1", "o2"}
    MaxDecision = 3
    App = {"app"}
    Jti <- Ids
    AppOf <- Apps
    IsAssertion <- Assertions
    Exp <- Expiries
    Skew = 1
    Capacity = 1
    Nonce = {"n1"}
    NonceExp <- Lifetimes
    TokenId = {1, 2, 3}
    LastTime = 3
    Uetr = {"u1"}
    Distribution = {"d1"}
    LastPayment = 2
SYMMETRY Symmetry
INVARIANTS
    ServicesTypeOK
    LedgerBalancesExplained
    ReservedIsExplained
    LimitsMatchOrders
    DailyLimitHolds
    CreatedOncePerKey
    KeyOperationsAreDecided
    AccountsAreOwned
    IdAcceptedOnce
    OneLiveToken
    HistoryTellsTheStatus
    AccountsServeTheirOwner
    RecordsStayLinear
    SlipsAreRefused
PROPERTIES
    RevokedIsFinal
CHECK_DEADLOCK FALSE
