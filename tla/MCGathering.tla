------------------------------ MODULE MCGathering ------------------------------
EXTENDS Gathering
CONSTANTS pc1, m1

OneMonitor == {m1}

\* Two makers of one name; models of one name by either or by none, and another's.
MakerRows == {[id |-> 1, names |-> {pc1, m1}], [id |-> 2, names |-> {pc1}]}
Model(id, names, by) == [id |-> id, names |-> names, maker |-> by, category |-> id % 2]
ModelRows == {Model(1, {pc1, m1}, 1), Model(3, {pc1}, 1), Model(2, {m1}, 2)}

=============================================================================
