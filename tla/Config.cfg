CONSTANTS
    Inputs <- SmallInputs
SPECIFICATION Spec
INVARIANTS
    TypeOK
    Precedence
    RefusedIffCause
