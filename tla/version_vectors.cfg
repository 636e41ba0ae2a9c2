\* Compare, Merge and Increment against the histories of writes, and the
\* choice of ResolveConflict between entries of which one has seen the other.
CONSTANTS
    n1 = n1
    n2 = n2
    n3 = n3
    Nil = Nil
    Nodes <- MCNodes
    Strategies <- MCStrategies
    MaxVersion = 2
    MaxTime = 2
SYMMETRY NodeSymmetry
SPECIFICATION Spec
INVARIANT TypeOK
INVARIANT CompareIsTheCausalOrder
INVARIANT CausallyLaterWins
