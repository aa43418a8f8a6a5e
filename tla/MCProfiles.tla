------------------------------ MODULE MCProfiles ------------------------------
(***************************************************************************)
(* A small instance of Profiles: the profiles other than "default" are     *)
(* model values, and nothing tells them apart.                             *)
(***************************************************************************)
EXTENDS Profiles, TLC

CONSTANTS a, b

Others == {a, b}
SomeNames == {"default"} \cup Others
Interchangeable == Permutations(Others)
===============================================================================
