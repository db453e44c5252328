------------------------------- MODULE MCList -------------------------------
(***************************************************************************)
(* Lists of up to eight items: eight are the fewest for which a look-up by *)
(* index walks from the cached item in either direction.                   *)
(***************************************************************************)
EXTENDS List

NamedAlike == \A i, j \in Live \ {end} : node[i].data = node[j].data

(* The items in use are the first ones.  This loses no behaviour but a     *)
(* renaming: both Create and Destroy clear the caches, so that what is     *)
(* left by Destroy is a list that Create builds of the first items.  Lists *)
(* of more than three items have one name for all but the last item.       *)
FirstItems == Live = 1 .. length /\ (length > 3 => NamedAlike)
=============================================================================
