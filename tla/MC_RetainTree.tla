--------------------------- MODULE MC_RetainTree ----------------------------
(* TLC instance: levels a, $s and the blank level, topics of up to two    *)
(* levels, two values, at most three retained topics at once.             *)
EXTENDS RetainTree

MCLevel == {"a", "$s", ""}
MCMeta == {"$s"}

=============================================================================
