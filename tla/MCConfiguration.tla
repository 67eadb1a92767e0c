---------------------------- MODULE MCConfiguration ----------------------------
EXTENDS Configuration, TLC
CONSTANTS c1, c2, s1, t1

TwoClients == {c1, c2}
Symmetry == Permutations({c1, c2})

Url(host, port) == [scheme |-> "https", userinfo |-> FALSE, host |-> host, port |-> port,
                    tail |-> "path"]

\* Two urls that both parsers take, and one that only the first takes.
ThreeUrls == {Url("name", "none"), Url("name", "number"), Url("illegal", "none")}

=============================================================================
