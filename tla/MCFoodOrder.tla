---------------------------- MODULE MCFoodOrder ----------------------------
(* Instances of FoodOrder for TLC: bodies of the two POST and PATCH routes. *)
EXTENDS FoodOrder, TLC

CONSTANTS root, ann, bob, r1, r2, m1, m2, o1, i1, i2, q1, q2

Vacant == [j \in Jobs |-> Nobody]
Unnamed == [j \in Jobs |-> Same]

MCRestaurantOf == [m \in MenuItems |-> IF m = m1 THEN r1 ELSE r2]

MCDrafts == {[restaurant |-> r1, deadline |-> 1, fulfilment |-> 3, holder |-> Vacant]}
MCDraftsNamingAnn ==
    {[draft EXCEPT !.holder["pickup_person"] = ann] : draft \in MCDrafts} \cup MCDrafts

NoChange == [restaurant |-> Same, deadline |-> Same, fulfilment |-> Same,
             holder |-> Unnamed]
Later     == [NoChange EXCEPT !.deadline = 2]
Sooner    == [NoChange EXCEPT !.fulfilment = 2]
Elsewhere == [NoChange EXCEPT !.restaurant = r2]
AnnFetches == [NoChange EXCEPT !.holder["pickup_person"] = ann]

MCPatches == {Later, Sooner, Elsewhere, AnnFetches}
LaterPatches == {Later}
RestaurantPatches == {Elsewhere}

SlotSymmetry == Permutations(Requests) \cup Permutations(Items)
=============================================================================
