CONSTANTS
    Quote = {q1, q2}
    Direct = Direct
    Worker = {w1, w2}
    NoJob = NoJob
SPECIFICATION Spec
SYMMETRY Symmetry
CONSTRAINT OneQuoteOrTradeRace
INVARIANTS TypeOK LimitIsSettledOnce CloseIsComplete CancelExcludesCredit DirectPaymentIsScreened AtMostOneTrade
PROPERTIES TerminalIsImmutable
CHECK_DEADLOCK FALSE
