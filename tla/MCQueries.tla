----------------------------- MODULE MCQueries -----------------------------
(* Instances of Queries for TLC: an entity, a bundle, and their names.     *)
EXTENDS Queries, TLC

MCPrefixOf == [n \in {"a", "bundle"} |-> IF n = "a" THEN "p" ELSE "q"]
MCAdditions == {<<"a", "entity">>, <<"bundle", "bundle">>}
MCAddedTypes == {"used", "bundleRelation"}
MCInner == {"get_object_info"}
MCAskedTypes == {"any", "entity", "used"}
MCReused == {"get_object_info", "get_bundle_objects"}
OneAddition == {<<"a", "entity">>}
=============================================================================
