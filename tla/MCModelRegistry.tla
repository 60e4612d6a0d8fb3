-------------------------- MODULE MCModelRegistry --------------------------
(***************************************************************************)
(* Small instances of ModelRegistry.                                        *)
(***************************************************************************)
EXTENDS ModelRegistry, TLC

CONSTANTS c1, c2, m1, m2, p1, p2, r1, r2

\* m1 may be listed twice, as an alias of two upstream models is.
Bag(i, j) == [m \in Model |-> IF m = m1 THEN i ELSE j]
TwiceM1 == {Bag(1, 0), Bag(2, 0), Bag(0, 1), Bag(2, 1)}
OnceM1 == {Bag(1, 0)}

Symmetry == Permutations(Client) \cup Permutations(Provider) \cup Permutations(Reporter)

=============================================================================
