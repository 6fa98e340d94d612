---------------------------- MODULE MCDiscovery ----------------------------
(* Four addresses of each family.  The lists cover every kind of spec, a     *)
(* prefix with host bits set, prefixes and ranges that end at the last       *)
(* address, overlaps that are not neighbours, and lists that fail.           *)
EXTENDS Discovery

MCSpecLists ==
  {<<Spec4("cidr", 1, 2), Spec4("single", 0, 0)>>,
   <<Spec4("cidr", 3, 2), Spec6("single", 3, 0), Spec4("range", 2, 3)>>,
   <<Spec4("single", 1, 0), Spec4("blank", 0, 0), Spec4("range", 0, 2)>>,
   <<Spec6("range", 3, 3), Spec6("cidr", 0, 1)>>,
   <<Spec4("range", 0, 1), Spec4("bad", 0, 0)>>,
   <<Spec4("range", 2, 1)>>,
   <<Spec4("cidr", 2, 4)>>,
   <<>>}
MCAlive == {x \in Address : x.n # 1}
=============================================================================
