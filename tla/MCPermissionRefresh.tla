------------------------ MODULE MCPermissionRefresh ------------------------
(* Small instances of PermissionRefresh for TLC. *)
EXTENDS PermissionRefresh, TLC

Symmetry == Permutations(Tokens) \cup Permutations(Requests) \cup Permutations(Logins)
=============================================================================
