--------------------------- MODULE MCReleaseCache ---------------------------
(* An instance of ReleaseCacheUse for TLC: more keys than the cache holds. *)
EXTENDS ReleaseCacheUse, TLC

ShortAndLong == {1, 3}
Symmetry == Permutations(CacheKeys)
=============================================================================
