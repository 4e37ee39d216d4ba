---------------------------- MODULE MCAuthSession ----------------------------
(* Instances of AuthSession for TLC. *)
EXTENDS AuthSession, TLC

Symmetry == Permutations(Login) \cup Permutations(Resend)
                \cup Permutations(Session) \cup Permutations(Code)
=============================================================================
