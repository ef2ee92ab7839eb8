---------------------------- MODULE MCDocuments ----------------------------
(* Instances of Documents for TLC: the keys are "a", ":a", "p:a" and "b";  *)
(* "a" and ":a" are stored as one name.                                    *)
EXTENDS Documents, TLC

MCKeys == {"a", ":a", "p:a", "b"}
MCStored == {"a", "pa", "b", "bundle"}
MCTokens ==
  [k \in MCKeys |-> CASE k \in {"a", ":a"} -> "a" [] k = "p:a" -> "pa"
                      [] k = "b" -> "b"]
MCFullName ==
  [n \in MCStored |-> IF n = "pa" THEN "p:a" ELSE n]
MCShortName == [n \in MCStored |-> IF n = "pa" THEN "a" ELSE n]

Ob(k, t) == [key |-> k, type |-> t]
Rel(t, s, d) == [type |-> t, source |-> s, dest |-> d]
Doc(os, rs) == [objects |-> os, relations |-> rs]

\* Two keys of one name.
Twins == Doc(<<Ob("a", "entity"), Ob(":a", "entity")>>,
             <<Rel("wasDerivedFrom", ":a", "a")>>)

\* One key in two sections, and a loop.
Loop == Doc(<<Ob("a", "entity"), Ob("a", "agent")>>,
            <<Rel("wasAttributedTo", "a", "a")>>)

\* The second relation leads out of the document.
Outward == Doc(<<Ob("a", "entity"), Ob("p:a", "entity")>>,
               <<Rel("wasDerivedFrom", "p:a", "a"),
                 Rel("wasInfluencedBy", "p:a", "b")>>)

\* A relation that has lost its end.
Endless == Doc(<<Ob("b", "activity")>>, <<Rel("wasInfluencedBy", "b", NoKey)>>)

\* Three objects, two relations.
Fan == Doc(<<Ob("a", "entity"), Ob("p:a", "entity"), Ob("b", "entity")>>,
           <<Rel("wasDerivedFrom", "p:a", "a"),
             Rel("wasDerivedFrom", "p:a", "b")>>)

MixedDocuments == {Twins, Loop, Outward, Endless}
MCCreated == {<<"b", "entity">>, <<"b", "bundle">>}
MCSymmetry == Permutations(Imports)
OneFan == {Fan}
=============================================================================
