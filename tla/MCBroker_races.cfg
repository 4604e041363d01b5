\* One waiting session, its timer, a shutdown, and three operators who answer,
\* refresh and double-click.  No symmetry: liveness and refinement are temporal.
CONSTANTS
    Requests = {r1}
    Operators = {o1, o2, o3}
SPECIFICATION Spec
INVARIANTS TypeOK FirstDecisionWins RefusedMeansSettled PendingIsWaiting
PROPERTIES DeliveredIsKept EveryCallReturns ImplementsApprover
