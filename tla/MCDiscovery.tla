------------------------------ MODULE MCDiscovery ------------------------------
(***************************************************************************)
(* Two zigbee devices and two friendly names, one of which hints at a      *)
(* class; the second device's id is configured to be the other name.       *)
(***************************************************************************)
EXTENDS Discovery, TLC

CONSTANTS i1, i2, a, b

MCNames == {i1, i2, a, b}
MCAddresses == {i1, i2}
MCClassOf == [who \in Identity |-> IF who.display = a THEN "media" ELSE "unclassified"]
MCConfiguredId == [who \in Identity |-> IF who.primary = i2 THEN b ELSE Nil]
NoConfiguredIds == [who \in Identity |-> Nil]

\* Longer behaviours are explored as long as messages do not overlap.
SomeMessages == [overlapped \in BOOLEAN |-> IF overlapped THEN 3 ELSE 5]
SomeNamings == [overlapped \in BOOLEAN |-> IF overlapped THEN 2 ELSE 4]
MoreOverlapping == [overlapped \in BOOLEAN |-> 4]
FewNamings == [overlapped \in BOOLEAN |-> 2]

HandlerSymmetry == Permutations(Handlers)
=============================================================================
