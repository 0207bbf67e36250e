SPECIFICATION Spec
CONSTANTS
    Rule = {k1, k2}
    Writer = {w1, w2}
    MaxVersion = 3
    MaxTime = 2
SYMMETRY Symmetry
INVARIANTS
    TypeOK
    AcknowledgedEditsInForce
    EvaluationComplete
