------------------------- MODULE MCProductionServices -------------------------
(***************************************************************************)
(* The services around the payment flow, on small instances.  They write   *)
(* disjoint tables, so that in a behaviour the callers use one part.       *)
(***************************************************************************)
EXTENDS ProductionServices

VARIABLE part

vars == <<part, requestVars, bookVars, intakeVars, controlVars, accessVars, trackerVars,
          admissionVars, operationVars, answer>>

LedgerAccounts == {"cash", "debt", "clear", "late", "ceur", "cusd"}
Types == [a \in LedgerAccounts |-> IF a \in {"cash", "late"} THEN "asset" ELSE "liability"]
Denominations == [a \in LedgerAccounts |-> IF a \in {"cusd", "late"} THEN "USD" ELSE "EUR"]
ClearingAccounts == [cur \in {"EUR", "USD"} |-> IF cur = "EUR" THEN "ceur" ELSE "cusd"]
Entry(a, d, n) == [account |-> a, direction |-> d, amount |-> n, currency |-> Denominations[a]]
Between(a, b, n) == <<Entry(a, "DEBIT", n), Entry(b, "CREDIT", n)>>
Entries == {Between("cash", "debt", 1), Between("debt", "cash", 2),
            <<Entry("clear", "DEBIT", 1), Entry("cash", "DEBIT", 1), Entry("debt", "CREDIT", 2)>>}
Exchanged == [cur \in {"EUR", "USD"} |-> IF cur = "EUR" THEN Between("cash", "ceur", 1)
                                         ELSE Between("cusd", "late", 1)]
Templates == {<<[account |-> "cash", direction |-> "DEBIT"], [account |-> "clear", direction |-> "CREDIT"]>>}
Opening == ("cash" :> 2) @@ ("debt" :> 2) @@ ("clear" :> 0) @@ ("ceur" :> 0) @@ ("cusd" :> 1)

Profile == {[max |-> 2, daily |-> d, exposure |-> e] : <<d, e>> \in {<<2, None>>, <<3, 2>>, <<None, None>>}}

Actions == [a \in {"ap1", "ap2"} |-> IF a = "ap1" THEN "ROTATE" ELSE "REVOKE"]
Entities == {<<"tenants", 1>>, <<"participants", 1>>, <<"service_identities", 1>>,
             <<"certificates", 1>>, <<"certificates", 2>>, <<"entitlements", 1>>,
             <<"tenants", 3>>, <<"participants", 3>>, <<"tenants", 4>>, <<"participants", 4>>}
Managed == {e \in Entities : e[2] <= 2}
Parents == [e \in Entities |-> CASE e[1] \in {"tenants", "entitlements"} -> e
                                [] e[1] = "participants" -> <<"tenants", e[2]>>
                                [] OTHER -> <<"participants", 1>>]
Given == {<<"tenants", 1>> :> "ACTIVE" @@ <<"participants", 1>> :> "ACTIVE" @@ s : s \in
            {<<"service_identities", 1>> :> "PENDING", <<"certificates", 1>> :> "ACTIVE"}}
         \cup {<<"tenants", 1>> :> "ACTIVE" @@ <<"participants", 1>> :> "PENDING"}

\* What a participant needs outside of the sandbox; its certificate and the
\* admission of its corridor run out.
Bank == <<"participants", 1>>
Onboarded == [e \in Managed \ {<<"certificates", 2>>} |-> "ACTIVE"]
Identities == [a \in {"app"} |-> <<"service_identities", 1>>]
IdentityRows == (<<"service_identities", 1>> :>
    [participant |-> Bank, sandbox |-> FALSE, scopes |-> {"write", "read"}, certificate |-> {<<"certificates", 1>>}])
CertificateRows == (<<"certificates", 1>> :> [participant |-> Bank, from |-> 0, to |-> 2])
EntitlementRows == (<<"entitlements", 1>> :>
    [participant |-> Bank, creditor |-> "*", currency |-> "CNY", max |-> 2, approved |-> TRUE])
Scopes == [a \in {"app"} |-> {"write"}]
Limits == (Bank :> 2)
SandboxParties == {<<"participants", 3>>, <<"participants", 4>>}
Origins == <<"participants", 3>>
Parties == [a \in {"app"} |-> <<"participants", 4>>]
Admission == [sandbox |-> FALSE, simulation |-> FALSE, subjects |-> {Bank}, scenarios |-> {"TRADE"}, currencies |-> {"CNY"},
              max |-> 3, from |-> 0, to |-> 1, attestation |-> [from |-> 0, to |-> 3]]
\* The ids of accounts a1 and a2 begin with the same 40 characters.
Ownerships == [a \in {"a1", "a2"} |-> "o1"]
Pay(d, a, cur, s, n) ==
    [debtor |-> d, account |-> a, creditor |-> "cr", currency |-> cur, scenario |-> s, amount |-> n]
Purchases == {Pay("d1", "a1", "CNY", "TRADE", 1), Pay("d2", "a1", "HKD", "TRADE", 1), Pay("d1", "a2", "CNY", "TRADE", 2),
              Pay("d1", "a1", "CNY", "OTHER", 1), Pay("d1", "a1", "CNY", "TRADE", 3)}
AdmissionInitially ==
    \/ /\ part = "admission"
       /\ AdmissionInit([sandbox |-> FALSE, auth |-> TRUE, verifier |-> TRUE], {Admission},
                        "a1" :> [participant |-> Bank, owner |-> "d1", currency |-> "CNY"])
       /\ ControlsInit(Onboarded, {Bank}, "a1" :> "ACTIVE", "o1" :> [account |-> "a1", status |-> "ACTIVE"])
       /\ AccessInit(1 :> [app |-> "app", live |-> TRUE])
    \/ /\ part = "admission"
       /\ \E b \in BOOLEAN : AdmissionInit([sandbox |-> TRUE, auth |-> b, verifier |-> b], {}, <<>>)
       /\ ControlsInit(<<>>, {}, <<>>, <<>>)
       /\ AccessInit(1 :> [app |-> "app", live |-> TRUE])
    \/ /\ part # "admission"
       /\ AdmissionInit([sandbox |-> TRUE, auth |-> TRUE, verifier |-> FALSE], {}, <<>>)
       /\ \E g \in Given : ControlsInit(IF part = "identity" THEN g ELSE <<>>, {}, <<>>, <<>>)
       /\ AccessInit(<<>>)

\* An order under way, credited and reconciled, closed without success, and
\* closed while its funds are still held.
View(completed, closed, final, reserved, matched) ==
    [completed |-> completed, closed |-> closed, final |-> final, reserved |-> reserved, mixed |-> FALSE, matched |-> matched]
UnderWay == View(FALSE, FALSE, FALSE, TRUE, FALSE)
Views == {UnderWay, View(TRUE, TRUE, TRUE, FALSE, TRUE), View(FALSE, TRUE, FALSE, FALSE, FALSE), View(FALSE, TRUE, FALSE, TRUE, FALSE)}
References == {<<"COMPLIANCE", "d1">>}

Be68 == <<11, 14, 6, 8, 5, 3, 9, 0, 0, 7, 5, 4, 7, 0, 3, 4>>
Nl91 == <<23, 21, 9, 1, 10, 11, 23, 10, 0, 4, 1, 7, 1, 6, 4, 3, 0, 0>>
Nl24 == <<23, 21, 2, 4, 18, 23, 16, 11, 0, 0, 0, 6, 7, 8, 9, 0, 1, 2>>
Gb29 == <<16, 11, 2, 9, 23, 32, 11, 20, 6, 0, 1, 6, 1, 3, 3, 1, 9, 2, 6, 8, 1, 9>>
De00 == <<13, 14>> \o [i \in 1 .. 20 |-> 0]
\* Rows of data/ibans.json: the check digits of NL24 do not hold.
Ibans == (Be68 :> [bic |-> "KREDBEBB", valid |-> TRUE]) @@ (Nl91 :> [bic |-> "ABNANL2A", valid |-> TRUE]) @@
         (Nl24 :> [bic |-> "INGBNL2A", valid |-> TRUE]) @@ (De00 :> [bic |-> "", valid |-> FALSE])
Domestic == {Gb29, <<1, 2, 3>>, <<1, 2, 3, 4, 5, 6>>, <<30, 28, 1, 2, 3, 4>>}
Asked == UNION {Slips(i) : i \in {Be68, Nl91}} \cup DOMAIN Ibans \cup Domestic
Kredbebb == [bank |-> "KREDBEBB", branch |-> ""]
Directory == {Kredbebb, [bank |-> "DEUTDEFF", branch |-> ""], [bank |-> "DEUTDEFF", branch |-> "XXX"]}
Bics == Directory \cup {[Kredbebb EXCEPT !.branch = "XXX"], [bank |-> "AAAABEBB", branch |-> "XXX"], [bank |-> "?", branch |-> ""]}
Minors == [k \in {"EUR", "JPY", "XAU"} |-> CASE k = "EUR" -> 2 [] k = "JPY" -> 0 [] OTHER -> NoMinorUnit]
AskedCurrency == DOMAIN Minors \cup {"ZZZ", "?"}
Amount(number, positive, decimals) == [number |-> number, positive |-> positive, decimals |-> decimals]
Euros == Amount(TRUE, TRUE, 2)
Amounts == {Euros, Amount(TRUE, TRUE, 0), Amount(TRUE, FALSE, 2), Amount(FALSE, FALSE, 0)}

Ids == {"j1", "j2", "sig"}
Apps == [j \in Ids |-> "app"]
Assertions == [j \in Ids |-> j # "sig"]
Expiries == [j \in Ids |-> IF j = "j2" THEN 2 ELSE 1]
Lifetimes == [n \in {"n1"} |-> 2]

Calls == CASE part \in {"holds", "ledger", "access", "tracker"} -> 5 [] part = "accounts" -> 6 [] part = "validation" -> 1 [] OTHER -> 4

\* The callers of a part.
Callers(p) == IF part = p /\ (calls > 0 \/ req # [c \in Client |-> Idle]) THEN Client ELSE {}

Init ==
    /\ part \in {"ledger", "holds", "limits", "keys", "approvals", "identity", "accounts", "access", "tracker", "admission", "operations", "validation"}
    /\ RequestsInit(Calls)
    /\ LedgerInitially(Opening)
    /\ \E p \in Profile : IntakeInit(IF part = "limits" THEN <<p>> ELSE <<>>)
    /\ AdmissionInitially
    /\ OperationsInit(UnderWay)
    /\ DirectoryInit
    /\ TrackerInit

OnlyLedger == part = "ledger" /\ UNCHANGED <<part, intakeVars, controlVars, accessVars, trackerVars, admissionVars, operationVars, answer>>
OnlyHolds == part = "holds" /\ UNCHANGED <<part, intakeVars, controlVars, accessVars, trackerVars, admissionVars, operationVars, answer>>
OnlyLimits == part = "limits" /\ UNCHANGED <<part, bookVars, controlVars, accessVars, trackerVars, admissionVars, operationVars, answer>>
OnlyKeys == part = "keys" /\ UNCHANGED <<part, bookVars, controlVars, accessVars, trackerVars, admissionVars, operationVars, answer>>
OnlyApprovals == part = "approvals" /\ UNCHANGED <<part, bookVars, intakeVars, accessVars, trackerVars, admissionVars, operationVars, answer>>
OnlyIdentity == part = "identity" /\ UNCHANGED <<part, bookVars, intakeVars, accessVars, trackerVars, admissionVars, operationVars, answer>>
OnlyAccounts == part = "accounts" /\ UNCHANGED <<part, bookVars, intakeVars, accessVars, trackerVars, admissionVars, operationVars, answer>>
OnlyAccess == part = "access" /\ UNCHANGED <<part, bookVars, intakeVars, controlVars, trackerVars, admissionVars, operationVars, answer>>
OnlyTracker == part = "tracker" /\ UNCHANGED <<part, bookVars, intakeVars, controlVars, accessVars, admissionVars, operationVars, answer>>
OnlyAdmission == part = "admission" /\ UNCHANGED <<part, bookVars, intakeVars, trackerVars, operationVars, answer>>
OnlyOperations == part = "operations" /\ UNCHANGED <<part, bookVars, intakeVars, controlVars, accessVars, trackerVars, admissionVars, answer>>
OnlyValidation == part = "validation" /\ UNCHANGED <<part, bookVars, intakeVars, controlVars, accessVars, trackerVars, admissionVars, operationVars>>

Next ==
    \/ \E c \in Callers("ledger") : OnlyLedger /\ CreateLedgerAccount(c, "late", 1)
    \/ \E c \in Callers("ledger"), j \in Journal, es \in Entries : OnlyLedger /\ ReadJournal(c, j, es)
    \/ \E c \in Callers("ledger"), j \in Journal, t \in Template : OnlyLedger /\ ReadTemplate(c, j, t, 1, "EUR")
    \/ \E c \in Callers("ledger"), j \in Journal : OnlyLedger /\ ReadMultiCurrency(c, j, Exchanged)
    \/ \E c \in Callers("ledger"), id \in DOMAIN journal, j \in Journal : OnlyLedger /\ ReadReversal(c, id, j)
    \/ \E c \in Callers("ledger"), j \in Journal : OnlyLedger /\ CreateDraft(c, j, Between("cash", "debt", 1))
    \/ \E c \in Callers("ledger"), id \in DOMAIN journal : OnlyLedger /\ ValidateJournal(c, id)
    \/ \E c \in Callers("ledger") : OnlyLedger /\ CommitLedger(c)
    \/ \E c \in Callers("ledger") : OnlyLedger /\ RollBackLedger(c)
    \/ \E c \in Callers("ledger"), p \in Period : OnlyLedger /\ OpenPeriod(c, p)
    \/ \E c \in Callers("ledger"), p \in Period, m, n \in Officer : OnlyLedger /\ ClosePeriod(c, p, m, n)
    \/ \E c \in Callers("ledger"), b \in Glb : OnlyLedger /\ PersistBatch(c, b)
    \/ \E c \in Callers("ledger"), b \in Glb, s \in {"ACK", "REJECTED"} : OnlyLedger /\ RecordReceipt(c, b, s)
    \/ \E c \in Callers("holds"), j \in Journal, n \in 1 .. 2 : OnlyHolds /\ ReadJournal(c, j, Between("debt", "cash", n))
    \/ \E c \in Callers("holds"), h \in Hold, n \in 1 .. 2 : OnlyHolds /\ ReadCreateHold(c, h, "cash", n)
    \/ \E c \in Callers("holds"), h \in Hold, s \in {"CONSUMED", "RELEASED", "EXPIRED", "UNKNOWN"}, v \in 1 .. 2 : OnlyHolds /\ ReadTransitionHold(c, h, s, v)
    \/ \E h \in Hold : OnlyHolds /\ PassHoldExpiry(h)
    \/ \E c \in Callers("holds") : OnlyHolds /\ ReadExpireDue(c)
    \/ \E c \in Callers("holds") : OnlyHolds /\ CommitLedger(c)
    \/ \E c \in Callers("holds") : OnlyHolds /\ RollBackLedger(c)
    \/ \E c \in Callers("limits"), k \in Key, x \in Instruction, n \in 1 .. 2 : OnlyLimits /\ BeginPayment(c, k, "b1", x, n)
    \/ \E c \in Callers("limits") : OnlyLimits /\ ReserveLimit(c)
    \/ \E c \in Callers("limits") : OnlyLimits /\ CommitPayment(c)
    \/ \E c \in Callers("limits"), i \in DOMAIN orders, b \in BOOLEAN : OnlyLimits /\ BeginClose(c, i, b)
    \/ \E c \in Callers("limits") : OnlyLimits /\ CommitClose(c)
    \/ OnlyLimits /\ NewDay
    \/ \E p \in Profile : OnlyLimits /\ ProvisionLimitProfile(p)
    \/ \E c \in Callers("limits") : OnlyLimits /\ RollBackIntake(c)
    \/ \E c \in Callers("keys"), k \in Key, b \in Body, x \in Instruction : OnlyKeys /\ BeginPayment(c, k, b, x, 1)
    \/ \E c \in Callers("keys") : OnlyKeys /\ CommitPayment(c)
    \/ \E c \in Callers("keys"), i \in DOMAIN orders, b \in BOOLEAN : OnlyKeys /\ BeginClose(c, i, b)
    \/ \E c \in Callers("keys") : OnlyKeys /\ CommitClose(c)
    \/ \E c \in Callers("keys"), k \in Key, b \in Body : OnlyKeys /\ BeginQuote(c, k, b)
    \/ \E c \in Callers("keys") : OnlyKeys /\ CommitQuote(c)
    \/ \E q \in DOMAIN quotes : OnlyKeys /\ PassQuoteExpiry(q)
    \/ \E c \in Callers("keys"), i \in DOMAIN orders, q \in DOMAIN quotes, k \in Key : OnlyKeys /\ BeginAcceptance(c, i, q, k)
    \/ \E c \in Callers("keys") : OnlyKeys /\ CommitAcceptance(c)
    \/ \E c \in Callers("keys"), i \in DOMAIN orders, k \in Key, b \in Body : OnlyKeys /\ BeginCancellation(c, i, k, b)
    \/ \E c \in Callers("keys") : OnlyKeys /\ CommitCancellation(c)
    \/ \E c \in Callers("keys") : OnlyKeys /\ RollBackIntake(c)
    \/ \E c \in Callers("approvals"), a \in Approval, s \in Subject : OnlyApprovals /\ CreateApproval(c, a, s)
    \/ \E c \in Callers("approvals"), a \in Approval, s \in Subject, o \in {"APPROVED", "REJECTED"} : OnlyApprovals /\ ReadDecision(c, a, s, o)
    \/ \E c \in Callers("approvals") : OnlyApprovals /\ CommitDecision(c)
    \/ \E c \in Callers("approvals"), k \in ManagedKey, m, s \in Subject, a \in Approval : OnlyApprovals /\ ExecuteKeyOperation(c, ActionOf[a], k, m, s, a)
    \/ \E c \in Callers("approvals") : OnlyApprovals /\ CommitKeyOperation(c)
    \/ OnlyApprovals /\ RestartProvider
    \/ \E c \in Callers("approvals") : OnlyApprovals /\ RollBackControl(c)
    \/ \E c \in Callers("identity"), e \in {x \in Managed : x[1] # "entitlements"} : OnlyIdentity /\ ReadCreate(c, e)
    \/ \E c \in Callers("identity"), e \in Managed, s \in {"ACTIVE", "SUSPENDED", "REVOKED"}, d \in Subject : OnlyIdentity /\ ReadIdentityTransition(c, e, s, "m", d)
    \/ \E c \in Callers("identity"), e, f \in Managed : OnlyIdentity /\ ReadRotate(c, e, f, "m", "n")
    \/ \E c \in Callers("identity"), e \in Managed : OnlyIdentity /\ ReadRevokeCertificate(c, e, "m", "n")
    \/ \E c \in Callers("identity"), r, l \in SUBSET {e \in Managed : e[1] = "certificates"} : OnlyIdentity /\ ReadRefresh(c, r, l)
    \/ \E c \in Callers("identity"), e \in Managed : OnlyIdentity /\ CreateEntitlement(c, e)
    \/ \E c \in Callers("identity"), e \in Managed, s \in {"ACTIVE", "REVOKED"}, d \in Subject : OnlyIdentity /\ ReadEntitlementTransition(c, e, s, "m", d)
    \/ \E c \in Callers("identity"), p \in Managed : OnlyIdentity /\ ReadAcceptRulebook(c, p)
    \/ \E c \in Callers("identity") : OnlyIdentity /\ CommitStatus(c)
    \/ \E c \in Callers("identity") : OnlyIdentity /\ RollBackControl(c)
    \/ \E c \in Callers("accounts") : OnlyAccounts /\ CreateAccount(c, "a1")
    \/ \E c \in Callers("accounts"), o \in Ownership : OnlyAccounts /\ AddOwnership(c, o, "a1")
    \/ \E c \in Callers("accounts"), o \in Ownership, d \in Subject : OnlyAccounts /\ ReadActivate(c, "a1", o, "m", d)
    \/ \E c \in Callers("accounts") : OnlyAccounts /\ CommitActivate(c)
    \/ \E c \in Callers("accounts") : OnlyAccounts /\ RollBackControl(c)
    \/ OnlyAccess /\ Tick
    \/ \E c \in Callers("access"), j \in Jti : OnlyAccess /\ CheckJti(c, j)
    \/ \E c \in Callers("access") : OnlyAccess /\ RecordJti(c)
    \/ OnlyAccess /\ CleanUp
    \/ OnlyAccess /\ RestartApi
    \/ \E c \in Callers("access") : OnlyAccess /\ RevokeEarlier(c)
    \/ \E c \in Callers("access"), t \in TokenId : OnlyAccess /\ CommitToken(c, t)
    \/ \E c \in Callers("access"), t \in TokenId : OnlyAccess /\ RevokeToken(c, t)
    \/ \E c \in Callers("access"), a \in App : OnlyAccess /\ CreateCredential(c, a)
    \/ \E c \in Callers("access"), a \in App : OnlyAccess /\ DeleteTokens(c, a)
    \/ \E c \in Callers("access") : OnlyAccess /\ CommitDelete(c)
    \/ \E c \in Callers("access"), n \in Nonce : OnlyAccess /\ InsertNonce(c, n)
    \/ \E c \in Callers("access") : OnlyAccess /\ CommitNonce(c)
    \/ \E c \in Callers("access") : OnlyAccess /\ RollBackAccess(c)
    \/ \E c \in Callers("tracker"), u \in Uetr : OnlyTracker /\ InjectPayment(c, u)
    \/ \E c \in Callers("tracker"), u \in Uetr : OnlyTracker /\ DeletePayment(c, u)
    \/ \E c \in Callers("tracker"), u \in Uetr, s \in PAYMENT_STATES : OnlyTracker /\ ReadConfirmation(c, u, s)
    \/ \E c \in Callers("tracker"), u \in Uetr : OnlyTracker /\ ReadGpiCancellation(c, u)
    \/ \E c \in Callers("tracker"), u \in Uetr : OnlyTracker /\ ReadInvestigation(c, u)
    \/ \E c \in Callers("tracker") : OnlyTracker /\ CommitReport(c)
    \/ \E c \in Callers("tracker"), d \in Distribution : OnlyTracker /\ SendFin(c, d)
    \/ \E c \in Callers("tracker"), d \in Distribution : OnlyTracker /\ AckDistribution(c, d)
    \/ \E c \in Callers("tracker"), d \in Distribution, r \in {"none", "code"} : OnlyTracker /\ NakDistribution(c, d, r)
    \/ \E c \in Callers("tracker") : OnlyTracker /\ RollBackTracker(c)
    \/ \E c \in Callers("admission"), t \in {NoToken, 1}, h \in {NoParty} \cup SandboxParties, n \in {Unsigned, "n1"} : OnlyAdmission /\ Authenticate(c, t, h, n)
    \/ \E c \in Callers("admission"), x \in Purchases : OnlyAdmission /\ ReadAdmission(c, x)
    \/ \E c \in Callers("admission") : OnlyAdmission /\ CommitAdmission(c)
    \/ \E c \in Callers("admission") : OnlyAdmission /\ RollBackAdmission(c)
    \/ OnlyAdmission /\ Tick /\ UNCHANGED <<controlVars, admissionVars>>
    \/ \E c \in Callers("admission") : OnlyAdmission /\ RevokeToken(c, 1) /\ UNCHANGED <<controlVars, admissionVars>>
    \/ \E c \in Callers("admission"), e \in Managed, s \in {"ACTIVE", "SUSPENDED"} : OnlyAdmission /\ ReadIdentityTransition(c, e, s, "m", "n") /\ UNCHANGED <<accessVars, admissionVars>>
    \/ \E c \in Callers("admission") : OnlyAdmission /\ CommitStatus(c) /\ UNCHANGED <<accessVars, admissionVars>>
    \/ \E c \in Callers("admission") : OnlyAdmission /\ RollBackControl(c) /\ UNCHANGED <<accessVars, admissionVars>>
    \/ \E c \in Callers("operations"), o \in {"o1"}, v \in Views : OnlyOperations /\ Move(c, o, v)
    \/ \E c \in Callers("operations"), o \in {"o1"}, ref \in References, s \in {"PENDING", "PASSED"} : OnlyOperations /\ ReadFact(c, o, ref, s)
    \/ \E c \in Callers("operations") : OnlyOperations /\ CommitFact(c)
    \/ \E c \in Callers("operations"), i \in DOMAIN evidence : OnlyOperations /\ HoldEvidence(c, i)
    \/ \E c \in Callers("operations"), b \in BOOLEAN : OnlyOperations /\ ReadReconciliation(c, b)
    \/ \E c \in Callers("operations") : OnlyOperations /\ CommitReconciliation(c)
    \/ \E c \in Callers("operations") : OnlyOperations /\ RollBackOperation(c)
    \/ \E c \in Callers("validation"), b \in Bics : OnlyValidation /\ GetBicValidity(c, b)
    \/ \E c \in Callers("validation"), i \in Asked : OnlyValidation /\ GetIbanValidity(c, i)
    \/ \E c \in Callers("validation"), i \in Asked : OnlyValidation /\ GetIbanBic(c, i)
    \/ \E c \in Callers("validation"), i \in Asked : OnlyValidation /\ GetIbanDetails(c, i)
    \/ \E c \in Callers("validation"), k \in AskedCurrency : OnlyValidation /\ GetCurrencyValidity(c, k)
    \/ \E c \in Callers("validation"), b \in Bics : OnlyValidation /\ ValidateFiIdentity(c, b)
    \/ \E c \in Callers("validation"), i \in Asked : OnlyValidation /\ ValidateAccountFormat(c, i)
    \/ \E c \in Callers("validation"), a \in Amounts, k \in AskedCurrency : OnlyValidation /\ ValidateAmount(c, a, k)
    \/ \E c \in Callers("validation"), b \in Bics, i \in DOMAIN Ibans \cup Domestic, a \in Amounts, k \in AskedCurrency, d \in BOOLEAN : OnlyValidation /\ ValidatePaymentInstruction(c, b, i, a, k, d, TRUE)
    \/ \E c \in Callers("validation"), i \in Asked : OnlyValidation /\ ValidatePaymentInstruction(c, Kredbebb, i, Euros, "EUR", TRUE, TRUE)

Spec == Init /\ [][Next]_vars

Symmetry == Permutations(Client)
=============================================================================
