--------------------------- MODULE MCAutomaticSync ---------------------------
EXTENDS AutomaticSync
CONSTANTS a, scheduler, nobody

OneClient == {a}

=============================================================================
