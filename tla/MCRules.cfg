\* Every job is run once; the computation then ends.
CONSTANTS
    Jobs <- MCJobs
    Strings <- MCStrings
    Half = 256
SPECIFICATION Spec
CHECK_DEADLOCK FALSE
INVARIANTS ClassifyIsConservative KnownRuleNeverRaw SuggestionsProtect AcceptedIsSound
