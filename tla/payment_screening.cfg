CONSTANTS
    Quote = {q1}
    Direct = Direct
    Worker = {w1, w2}
    NoJob = NoJob
SPECIFICATION Spec
INVARIANTS DeliveryIsScreened
CHECK_DEADLOCK FALSE
