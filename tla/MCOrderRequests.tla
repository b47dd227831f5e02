-------------------------- MODULE MCOrderRequests --------------------------
(* OrderRequests for TLC.  One request orders two menus, or one menu twice,*)
(* or nothing (which order_items_params refuses); two concurrent requests  *)
(* order the same two menus.                                               *)
EXTENDS OrderRequests, TLC

LargeBaskets == {<< >>, <<1, 2>>, <<1, 1>>}

PlainBaskets == {<<1, 2>>}

RequestSymmetry == Permutations(Places)
=============================================================================
