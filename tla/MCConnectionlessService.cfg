SPECIFICATION Spec
CONSTANTS
    Length <- Lengths
    MaxFault = 2
INVARIANTS
    WholeOrNothing
    FiveSections
