------------------------------- MODULE MCSignIn -------------------------------
(* Two members, two secrets and two sessions.  A session outlives one period  *)
(* without a request, a lockout lasts two.                                    *)
EXTENDS SignIn, TLC

CONSTANTS ada, bo, i1, i2

Alike == Permutations({ada, bo}) \cup Permutations({i1, i2})
=============================================================================
