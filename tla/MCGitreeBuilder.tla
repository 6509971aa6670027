--------------------------- MODULE MCGitreeBuilder ---------------------------
(***************************************************************************)
(* Instances of GitreeBuilder.                                             *)
(***************************************************************************)
EXTENDS GitreeBuilder, TLC

RunnerSymmetry == Permutations(Runner)

=============================================================================
