----------------------------- MODULE MCServices -----------------------------
(***************************************************************************)
(* A small instance of Services.                                            *)
(***************************************************************************)
EXTENDS Services

CONSTANTS r1, m1, m2, pa

\* One quota for two models, each recorded under its own name.
Models == {m1, m2}
ModelNamed == [r \in Request |-> IF r = r1 THEN m1 ELSE m2]
SameName == [m \in Models |-> m]
OnePattern == {pa}
MatchesAll == OnePattern \X Models
OneCall == [p \in OnePattern |-> 1]

=============================================================================
