---------------------------- MODULE MCFoodStore ----------------------------
(* FoodStore for TLC.  The names of hotels and menus are interchangeable   *)
(* and the properties are safety properties, so the symmetry is sound.     *)
EXTENDS FoodStore, TLC

NameSymmetry == Permutations(Names)
=============================================================================
