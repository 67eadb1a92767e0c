SPECIFICATION Spec
CONSTANTS
  None = None
  Partial = Partial
  p1 = p1
  p2 = p2
  n1 = n1
  n2 = n2
  Pids <- TwoPids
  Nonces <- TwoNonces
  MaxWrites = 3
SYMMETRY Symmetric
INVARIANT NeverMixed
PROPERTY OldOrNewUnlessPartial StaysCollectable RecoveryComplete
