-------------------------- MODULE MCReleaseSearch --------------------------
(* Instances of ReleaseSearch for TLC. *)
EXTENDS ReleaseSearch, TLC

MCNames == {"a", "b"}
MCLowerCase == [t \in {"A", "a", "b", " "} |-> CASE t = "A" -> "a" [] t = " " -> "" [] OTHER -> t]
\* Two spellings of the same two titles, one title, and none.
MCTitleLists == {<<"A", "a", "b">>, <<"b", "A">>, <<"b">>, <<" ">>}
\* cache.ttl_ms forbids caching, shortens it, or is not declared.
MCCaps == {0, 2}
=============================================================================
