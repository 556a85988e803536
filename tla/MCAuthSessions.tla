--------------------------- MODULE MCAuthSessions ---------------------------
(* Instances of AuthSessions for TLC. *)
EXTENDS AuthSessions, TLC

Symmetry == Permutations(Handlers) \cup Permutations(Sessions) \cup Permutations(Tokens)
=============================================================================
