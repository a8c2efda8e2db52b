--------------------------- MODULE Prevalidation ---------------------------
(***************************************************************************)
(* Pre-validation of payment instructions (api/preval) and the directory   *)
(* it looks into (api/swiftref, core/iban.py, core/bic.py).  Nothing is    *)
(* written: the tables are seeded when the process starts, and only when   *)
(* they are empty.  An IBAN is the sequence of the values that its         *)
(* characters have for the check digits: 0 .. 9, and 10 .. 35 for A .. Z.  *)
(***************************************************************************)
EXTENDS OpenRequests, SequencesExt

CONSTANTS
    SwiftRefBic,      \* rows of the directory: [bank, branch], "" for none
    SwiftRefIban,     \* its IBANs: bic ("" for none) and whether valid
    SwiftRefCurrency  \* minor_unit of its currencies, or NoMinorUnit

VARIABLE answer       \* the last answer: what was asked and the outcome

NoMinorUnit == -1
Letter == 10 .. 35
Digit == 0 .. 9
NoAnswer == [about |-> "nothing", account |-> <<>>, outcome |-> "", bic |-> ""]

SwiftRefBicRow == [bank : STRING, branch : STRING]
SwiftRefIbanRow == [bic : STRING, valid : BOOLEAN]
SwiftRefCurrencyRow == Nat \cup {NoMinorUnit}

ASSUME DirectoryAssumption ==
    /\ SwiftRefBic \subseteq SwiftRefBicRow
    /\ \A iban \in DOMAIN SwiftRefIban :
         iban \in Seq(Digit \cup Letter) /\ SwiftRefIban[iban] \in SwiftRefIbanRow
    /\ \A code \in DOMAIN SwiftRefCurrency : SwiftRefCurrency[code] \in SwiftRefCurrencyRow

DirectoryInit == answer = NoAnswer

\* The countries by their two letters, and their BBANs: "n" for digits only.
Structures ==
    (<<13, 14>> :> [length |-> 22, positions |-> <<<<8, "n">>, <<10, "n">>>>]) @@
    (<<15, 27>> :> [length |-> 27, positions |-> <<<<5, "n">>, <<5, "n">>, <<11, "c">>, <<2, "n">>>>]) @@
    (<<18, 29>> :> [length |-> 27, positions |-> <<<<1, "c">>, <<5, "n">>, <<5, "n">>, <<12, "c">>>>]) @@
    (<<16, 11>> :> [length |-> 22, positions |-> <<<<4, "c">>, <<6, "n">>, <<8, "n">>>>]) @@
    (<<11, 14>> :> [length |-> 16, positions |-> <<<<3, "n">>, <<7, "n">>, <<2, "n">>>>]) @@
    (<<23, 21>> :> [length |-> 18, positions |-> <<<<4, "c">>, <<10, "n">>>>]) @@
    (<<14, 28>> :> [length |-> 24, positions |-> <<<<4, "n">>, <<4, "n">>, <<2, "n">>, <<10, "n">>>>]) @@
    (<<12, 17>> :> [length |-> 21, positions |-> <<<<5, "n">>, <<12, "c">>>>]) @@
    (<<10, 29>> :> [length |-> 20, positions |-> <<<<5, "n">>, <<11, "n">>>>])

Country(iban) == SubSeq(iban, 1, 2)

\* IBAN_RE
Shaped(iban) ==
    /\ Len(iban) \in 5 .. 34
    /\ iban[1] \in Letter /\ iban[2] \in Letter
    /\ iban[3] \in Digit /\ iban[4] \in Digit

\* No check of the remainder.
ChecksumIgnored(iban) == TRUE

\* The first four characters moved to the end, read as one number, mod 97.
ChecksumHolds(iban) ==
    LET moved == SubSeq(iban, 5, Len(iban)) \o SubSeq(iban, 1, 4)
        remainder[n \in 0 .. Len(iban)] ==
            IF n = 0 THEN 0
            ELSE (remainder[n - 1] * (IF moved[n] \in Digit THEN 10 ELSE 100) + moved[n]) % 97
    IN  remainder[Len(iban)] = 1

\* The k-th part of the BBAN.
Segment(iban, k) ==
    LET positions == Structures[Country(iban)].positions
        before == FoldLeft(LAMBDA n, p : n + p[1], 4, SubSeq(positions, 1, k - 1))
    IN  SubSeq(iban, before + 1, before + positions[k][1])

StructureHolds(iban) ==
    LET s == Structures[Country(iban)] IN
    /\ Len(iban) = s.length
    /\ \A k \in DOMAIN s.positions : s.positions[k][2] = "n" =>
         \A i \in DOMAIN Segment(iban, k) : Segment(iban, k)[i] \in Digit

\* validate_iban(): a country that is not in the table has no valid IBAN.
ValidIban(iban) ==
    /\ Shaped(iban)
    /\ ChecksumHolds(iban)
    /\ Country(iban) \in DOMAIN Structures
    /\ StructureHolds(iban)

\* _get_bic(): an 11-character BIC falls back on its first 8 characters.
GetBic(b) ==
    IF b \in SwiftRefBic \/ b.branch = "" THEN SwiftRefBic \cap {b}
    ELSE SwiftRefBic \cap {[b EXCEPT !.branch = ""]}

\* lookup_bic_validity() and lookup_bic_details(); "?" has the wrong form.
LookupBic(b) ==
    IF b.bank = "?" THEN "IBIC"
    ELSE IF GetBic(b) = {} THEN "BINF" ELSE "VBIC"

\* lookup_currency_validity() and lookup_currency_details()
LookupCurrency(code) ==
    IF code = "?" THEN "ICTP"
    ELSE IF code \notin DOMAIN SwiftRefCurrency THEN "CUNF" ELSE "VCUC"

\* lookup_iban_validity(): an IBAN that is not in the directory is not valid.
LookupIbanValidity(iban) ==
    IF \E i \in 1 .. 4 : i \notin DOMAIN iban \/ iban[i] \notin (IF i <= 2 THEN Letter ELSE Digit) THEN "IINP"
    ELSE IF iban \in DOMAIN SwiftRefIban /\ SwiftRefIban[iban].valid /\ ValidIban(iban) THEN "VIBN"
    ELSE "IVAL"

\* lookup_iban_bic()
LookupIbanBic(iban) ==
    IF ~ValidIban(iban) THEN "IINP"
    ELSE IF iban \notin DOMAIN SwiftRefIban \/ SwiftRefIban[iban].bic = "" THEN "IBNF" ELSE "found"

\* lookup_iban_details() and parse_iban(), which does not look at the check
\* digits and knows the parts of an IBAN only when its country is in the table
LookupIbanDetails(iban) ==
    IF ~Shaped(iban) THEN "IINP"
    ELSE IF iban \in DOMAIN SwiftRefIban THEN "directory"
    ELSE IF Country(iban) \in DOMAIN Structures THEN "parts" ELSE "no parts"
-----------------------------------------------------------------------------
CheckBic(b) == IF LookupBic(b) = "VBIC" THEN "VALID" ELSE "INVALID"

\* What does not begin like an IBAN is a domestic number, of which nothing is known.
CheckAccountFormat(account) ==
    IF \/ Len(account) < 4 \/ account[1] \notin Letter \/ account[2] \notin Letter
       \/ account[3] \notin Digit \/ account[4] \notin Digit
    THEN "NOT_AVAILABLE"
    ELSE IF ValidIban(account) THEN "VALID" ELSE "INVALID"

CheckCurrency(code) == IF LookupCurrency(code) = "VCUC" THEN "VALID" ELSE "INVALID"

\* a.number: the string is a number; a.decimals: what follows its point.
\* The decimals are compared only when the currency has a minor unit.
CheckAmount(a, code) ==
    IF ~a.number \/ ~a.positive THEN "INVALID"
    ELSE IF LookupCurrency(code) = "VCUC" /\ SwiftRefCurrency[code] \notin {NoMinorUnit, a.decimals}
    THEN "VALID_WITH_COMMENTS" ELSE "VALID"

CheckCountry(wellFormed) == IF wellFormed THEN "VALID" ELSE "INVALID"

\* The six checks of validate_payment_instruction().
Checks(b, account, a, code, debtor, creditor) ==
    <<CheckBic(b), CheckAccountFormat(account), CheckAmount(a, code), CheckCurrency(code),
      CheckCountry(debtor), CheckCountry(creditor)>>

\* The roll-up: the worst of the checks decides.
RollUp(checks) ==
    LET seen == {checks[i] : i \in DOMAIN checks} IN
    IF "INVALID" \in seen THEN "ERROR"
    ELSE IF "VALID_WITH_COMMENTS" \in seen THEN "WARNING"
    ELSE IF seen = {"VALID"} THEN "ALL_VALID" ELSE "PARTIALLY_VALIDATED"

Answer(c, about, account, outcome) ==
    /\ AtOnce(c)
    /\ answer' = [about |-> about, account |-> account, outcome |-> outcome,
                  bic |-> IF outcome = "found" THEN SwiftRefIban[account].bic ELSE ""]

\* The endpoints of /swiftrefdata/v4.
GetBicValidity(c, b) == Answer(c, "bic", <<>>, LookupBic(b))
GetIbanValidity(c, iban) == Answer(c, "iban validity", iban, LookupIbanValidity(iban))
GetIbanBic(c, iban) == Answer(c, "iban bic", iban, LookupIbanBic(iban))
GetIbanDetails(c, iban) == Answer(c, "iban details", iban, LookupIbanDetails(iban))
GetCurrencyValidity(c, code) == Answer(c, "currency", <<>>, LookupCurrency(code))

\* The endpoints of /swift-preval/v2.
ValidateFiIdentity(c, b) == Answer(c, "institution", <<>>, CheckBic(b))
ValidateAccountFormat(c, account) == Answer(c, "account", account, CheckAccountFormat(account))
ValidateAmount(c, a, code) == Answer(c, "amount", <<>>, CheckAmount(a, code))
ValidatePaymentInstruction(c, b, account, a, code, debtor, creditor) ==
    Answer(c, "instruction", account, RollUp(Checks(b, account, a, code, debtor, creditor)))

AskedAmount == [number : BOOLEAN, positive : BOOLEAN, decimals : Nat]

\* Anything may be asked: an account is any string of letters and digits.
PrevalidationNext == \E c \in Client :
    \/ \E b \in SwiftRefBicRow : GetBicValidity(c, b) \/ ValidateFiIdentity(c, b)
    \/ \E account \in Seq(Digit \cup Letter) :
         \/ GetIbanValidity(c, account)
         \/ GetIbanBic(c, account)
         \/ GetIbanDetails(c, account)
         \/ ValidateAccountFormat(c, account)
         \/ \E b \in SwiftRefBicRow, a \in AskedAmount, code \in STRING, debtor, creditor \in BOOLEAN :
              ValidatePaymentInstruction(c, b, account, a, code, debtor, creditor)
    \/ \E code \in STRING : GetCurrencyValidity(c, code) \/ \E a \in AskedAmount : ValidateAmount(c, a, code)

PrevalidationSpec ==
    /\ DirectoryInit /\ \E allowed \in Nat : RequestsInit(allowed)
    /\ [][PrevalidationNext]_<<requestVars, answer>>
-----------------------------------------------------------------------------
Outcomes ==
    {"", "found", "parts", "no parts", "directory", "VALID", "INVALID", "VALID_WITH_COMMENTS", "NOT_AVAILABLE",
     "ERROR", "WARNING", "ALL_VALID", "PARTIALLY_VALIDATED",
     "IBIC", "BINF", "VBIC", "ICTP", "CUNF", "VCUC", "IINP", "IVAL", "VIBN", "IBNF"}

\* A BIC that is given is one of the directory's.
PrevalidationTypeOK ==
    /\ \A i \in DOMAIN answer.account : answer.account[i] \in Digit \cup Letter
    /\ answer.outcome \in Outcomes
    /\ answer.bic \in {""} \cup {SwiftRefIban[iban].bic : iban \in DOMAIN SwiftRefIban}

\* One character replaced by another of its kind.
Mistyped(iban) == {[iban EXCEPT ![i] = x] : i \in DOMAIN iban, x \in Digit \cup Letter}

\* Two neighbours of one kind exchanged.
Transposed(iban) ==
    {[iban EXCEPT ![i] = iban[i + 1], ![i + 1] = iban[i]] : i \in 1 .. Len(iban) - 1}

SameKinds(a, b) == Len(a) = Len(b) /\ \A i \in DOMAIN a : a[i] \in Digit <=> b[i] \in Digit

Slips(iban) == {s \in Mistyped(iban) \cup Transposed(iban) : s # iban /\ SameKinds(s, iban)}

Vouches == {"VIBN", "found", "VALID", "ALL_VALID", "WARNING"}

(* core/iban.py, validate_iban(), as repository.py, checks.py and
   orchestrator.py use it: whichever endpoint is asked, nobody who has
   mistyped a character of an account that the directory has, or exchanged two
   neighbours, is told that the account is good or where it is held, nor is an
   instruction with it let through with a warning; a number that the directory
   calls valid is one that the account check calls valid as well. *)
SlipsAreRefused ==
    /\ answer.outcome \in Vouches =>
         \A iban \in DOMAIN SwiftRefIban : ValidIban(iban) => answer.account \notin Slips(iban)
    /\ answer.outcome = "VIBN" => CheckAccountFormat(answer.account) = "VALID"
=============================================================================
