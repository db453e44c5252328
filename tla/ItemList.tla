------------------------------ MODULE ItemList ------------------------------
(***************************************************************************)
(* What include/gutenprint/list.h and the comments of print-list.c promise *)
(* of an stp_list_t: a sequence of items, looked up by their place, and by *)
(* their name ("the first node with name", print-list.c:365).  Whatever    *)
(* the list remembers of earlier look-ups shows in no answer.              *)
(***************************************************************************)
EXTENDS Integers, Sequences, SequencesExt

CONSTANTS Items, Names, NoItem

VARIABLES
  items,  (* the items, in order                                           *)
  name,   (* the name of each                                              *)
  asked,  (* the index or the name last looked up                          *)
  answer  (* and what was returned                                         *)

vars == <<items, name, asked, answer>>

NoAnswer == asked' = NoItem /\ answer' = NoItem

Init == items = << >> /\ name = << >> /\ asked = NoItem /\ answer = NoItem

Create(item, n) ==
  /\ item \notin ToSet(items)
  /\ items' = Append(items, item)
  /\ name' = [i \in ToSet(items) \union {item} |->
               IF i = item THEN n ELSE name[i]]
  /\ NoAnswer

Destroy(item) ==
  /\ \E k \in DOMAIN items : items[k] = item /\ items' = RemoveAt(items, k)
  /\ name' = [i \in ToSet(items) \ {item} |-> name[i]]
  /\ NoAnswer

SetName(item, n) ==
  /\ item \in ToSet(items)
  /\ name' = [name EXCEPT ![item] = n]
  /\ NoAnswer
  /\ UNCHANGED items

(* The item at an index, counted from 0; none at an index out of range.    *)
ByIndex(idx) ==
  /\ asked' = idx
  /\ answer' = IF idx \in 0 .. Len(items) - 1 THEN items[idx + 1] ELSE NoItem
  /\ UNCHANGED <<items, name>>

(* The first item with the name, if there is one.                          *)
ByName(n) ==
  /\ asked' = n
  /\ \/ \E k \in DOMAIN items :
          /\ answer' = items[k] /\ name[answer'] = n
          /\ \A j \in 1 .. k - 1 : name[items[j]] # n
     \/ answer' = NoItem /\ \A k \in DOMAIN items : name[items[k]] # n
  /\ UNCHANGED <<items, name>>

Next ==
  \/ \E item \in Items, n \in Names : Create(item, n) \/ SetName(item, n)
  \/ \E item \in Items : Destroy(item)
  \/ asked' \in Int /\ ByIndex(asked')
  \/ \E n \in Names : ByName(n)

Spec == Init /\ [][Next]_vars
=============================================================================
