\* One request and one operator are enough: lookup, timeout, send.
CONSTANTS
    Requests = {r1}
    Operators = {o1}
SPECIFICATION Spec
INVARIANT AckedVerdictIsReturned
