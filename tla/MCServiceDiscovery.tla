------------------------- MODULE MCServiceDiscovery -------------------------
(* Two services, one of them with two endpoints of different levels.        *)
EXTENDS ServiceDiscovery, TLC

\* "a" and "b" as names, in different buckets of a table of four.
A == <<97>>
B == <<98>>

\* "i=a", "i=%61&m=x" and "i=%62".
MCServiceOf ==
    (<<105, 61, 97>> :> A) @@
    (<<105, 61, 37, 54, 49, 38, 109, 61, 120>> :> A) @@
    (<<105, 61, 37, 54, 50>> :> B)
MCForms == DOMAIN MCServiceOf

\* "/r/s/<ip>:<port>" and the load level, as EtcdSecondRegistry writes them.
Entry(s, ip, port, level) ==
    [key |-> <<SLASH, 114, SLASH>> \o s \o <<SLASH, ip, COLON, 48 + port>>,
     value |-> <<48 + level>>,
     at |-> [ip |-> <<ip>>, port |-> port]]

MCRegistry ==
    (A :> << Entry(A, 49, 7, 1), Entry(A, 50, 7, 2) >>) @@
    (B :> << Entry(B, 49, 8, 0), Entry(B, 50, 8, 1) >>)
MCRefusing == {[ip |-> <<49>>, port |-> 7]}

ASSUME InstanceNamesRight == NamesRight

Symmetry == Permutations(Threads)
=============================================================================
