--------------------------- MODULE MCProperties ---------------------------
(* Instances of Properties for TLC: "a" and ":a" are stored as one name;   *)
(* "long" is a text of CPL_VALUE_LEN bytes; floats hold integers up to 8.  *)
EXTENDS Properties, TLC

CONSTANTS x, y, long, lon, one, zero

MCDocKeys == {"a", ":a", "p:b", "prov:used"}
MCTokens ==
  [k \in MCDocKeys |-> CASE k \in {"a", ":a"} -> "a" [] k = "p:b" -> "pb"
                         [] k = "prov:used" -> "used"]
MCFullName ==
  [n \in {"a", "pb", "used"} |->
     CASE n = "a" -> "a" [] n = "pb" -> "p:b" [] n = "used" -> "prov:used"]
MCStrings == {x, y, long, lon}
MCCut == [s \in MCStrings |-> IF s = long THEN lon ELSE s]

E(k, t, v) == [key |-> k, kind |-> t, value |-> v]

MCTruthText == [b \in BOOLEAN |-> IF b THEN one ELSE zero]

MCEnds == [r \in {"r"} |-> <<E("prov:used", "string", x)>>]

MCObjectJobs ==
  {<<E("prov:used", "numerical", 7)>>, <<E("a", "numerical", 9)>>,
   <<E(":a", "boolean", FALSE), E("a", "string", x)>>}
MCRelationJobs == {<<E("a", "string", long)>>}
MCPrefixJobs == {<<E("a", "prefix", x)>>, <<E("a", "other", x)>>}
MCObjectCalls == {E("a", "string", y)}
MCRelationCalls == {E("prov:used", "numerical", 1)}
MCPrefixCalls == {E("a", "prefix", y)}
MCSymmetry == Permutations(Writers)
=============================================================================
