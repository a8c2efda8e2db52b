CONSTANTS
    Quote = {q1}
    Direct = Direct
    Worker = {w1}
    NoJob = NoJob
SPECIFICATION RetrySpec
PROPERTIES ReturnIsAnswered
CHECK_DEADLOCK FALSE
