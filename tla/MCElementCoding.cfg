SPECIFICATION Spec
CONSTANTS
    Given <- Samples
    Received <- ForeignElements
CHECK_DEADLOCK FALSE
INVARIANT ElementFramed
INVARIANT ElementSurvives
INVARIANT LossHappensOnce
INVARIANT WithinArrays
INVARIANT IdentityForms
