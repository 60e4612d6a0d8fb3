------------------------ MODULE MCCredentialManager ------------------------
(***************************************************************************)
(* Small instances of CredentialManager.  Times are in ticks: the backoff   *)
(* starts at 1 and is capped at 2, where the code has 1 s and 30 min; the   *)
(* other cooldowns keep their order, transient before unauthorized.         *)
(***************************************************************************)
EXTENDS CredentialManager, TLC

CONSTANTS m1, m2, p1, r1, r2, w1, w2

\* Credentials 1 and 2 of one provider.
OneProvider == [a \in Auth |-> p1]
OneList == {<<p1>>}

AllSupported == Auth \X Model
Unlimited == {{}}

RequestSymmetry == Permutations(Request)

=============================================================================
