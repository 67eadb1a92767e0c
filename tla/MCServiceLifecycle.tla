-------------------------- MODULE MCServiceLifecycle --------------------------
EXTENDS ServiceLifecycle
CONSTANTS x, y, p1, p2, a

Clients      == {x, y}
TwoProcesses == {p1, p2}
OneAdmin     == {a}

=============================================================================
