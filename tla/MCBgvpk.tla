------------------------------ MODULE MCBgvpk -------------------------------
(***************************************************************************)
(* Two copies of bgvpk, an application that queues a package with          *)
(* parameters and one without, and a handful of archives: sound ones whose *)
(* entries fall short of, fill and overrun the two buffers, and ones with  *)
(* a bad record, header, size or sum.                                      *)
(***************************************************************************)
EXTENDS Export, TLC

CONSTANTS c1, c2

Symm == Permutations({c1, c2})
MCCopies == {c1, c2}
MCNames == {"a.vpk", "b.zip"}
MCWants == <<[name |-> "a.vpk", vpk |-> TRUE, from |-> "app",
              params |-> [write |-> TRUE, show |-> TRUE, target |-> TRUE]],
             [name |-> "b.zip", vpk |-> FALSE, from |-> "app",
              params |-> [write |-> TRUE, show |-> FALSE, target |-> FALSE]]>>

E(n, m) == [dir |-> FALSE, top |-> FALSE, record |-> TRUE, header |-> TRUE,
            method |-> m, packed |-> n, size |-> n, crc |-> TRUE]
D == [E(0, "stored") EXCEPT !.dir = TRUE]

MCArchives == {
    <<>>,
    <<E(0, "stored"), D>>,
    <<E(3, "deflated"), D>>,
    <<E(4, "stored"), E(2, "deflated")>>,
    <<[E(2, "deflated") EXCEPT !.crc = FALSE]>>,
    <<[E(2, "stored") EXCEPT !.header = FALSE], D>>,
    <<[E(1, "stored") EXCEPT !.top = TRUE], [D EXCEPT !.record = FALSE], D>>,
    <<[E(3, "deflated") EXCEPT !.packed = 1], [E(0, "stored") EXCEPT !.packed = 3]>> }

MCLayouts == {[size |-> 12, marks |-> m] : m \in {{}, {1}, {2, 7}, {3, 6}}}
             \cup {[size |-> 20, marks |-> m] : m \in {{4}, {9, 16}}}
=============================================================================
