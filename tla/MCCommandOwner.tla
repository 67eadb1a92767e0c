---------------------------- MODULE MCCommandOwner ----------------------------
EXTENDS CommandOwnerInvariant

CONSTANTS m1, c1, i1, i2

OneMonitor == {m1}
OneIdentity == {i1}
TwoIdentities == {i1, i2}

=============================================================================
