---------------------------- MODULE MCDatabases ----------------------------
(* Databases for TLC: clients and configurations are interchangeable.      *)
EXTENDS Databases, TLC

Symmetry == Permutations(Client) \cup Permutations(Config)

=============================================================================
