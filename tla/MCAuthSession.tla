---------------------------- MODULE MCAuthSession ----------------------------
(* Instances of AuthSession for TLC.                                        *)
EXTENDS AuthSession, TLC

CONSTANTS c1, r1, r2, x1, x2, k1, k2, k3

Names == {"ann", "bob"}
OnlyBob == <<"bob">>
Rotation ==
  << [secret_key |-> k1, fallback_secret_keys |-> {}],
     [secret_key |-> k2, fallback_secret_keys |-> {k1}],
     [secret_key |-> k3, fallback_secret_keys |-> {k2}] >>
Symmetry == Permutations(Request) \cup Permutations(SessionId)
==============================================================================
