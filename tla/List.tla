-------------------------------- MODULE List --------------------------------
(***************************************************************************)
(* The linked list of src/main/print-list.c: items with prev and next      *)
(* pointers, and the caches of the last item found by index and by name.   *)
(* The code keeps a second name cache, for long names, with the same code; *)
(* one stands for both.  No list of the library has a sort function.       *)
(***************************************************************************)
EXTENDS Integers, Sequences

CONSTANTS
  Items,         (* the memory that items are allocated in                 *)
  Names,         (* the names of the items' data                           *)
  NULL,
  InsertsBefore, (* do callers name the item to insert before?             *)
  Ambiguous      (* do they look up names that several items have?         *)

ASSUME ListAssumption ==
  /\ NULL \notin Items
  /\ {InsertsBefore, Ambiguous} \subseteq BOOLEAN

VARIABLES
  node,              (* the items allocated: [data, prev, next]            *)
  start, end, length,
  index_cache, index_cache_node,
  name_cache, name_cache_node,
  asked, answer      (* what was last looked up, and what was returned     *)

caches == <<index_cache, index_cache_node, name_cache, name_cache_node>>
vars   == <<node, start, end, length, caches, asked, answer>>

Live == DOMAIN node

Init ==
  /\ node = << >>
  /\ start = NULL /\ end = NULL /\ length = 0
  /\ index_cache = 0 /\ index_cache_node = NULL
  /\ name_cache = NULL /\ name_cache_node = NULL
  /\ asked = NULL /\ answer = NULL

NoAnswer == asked' = NULL /\ answer' = NULL

(* Mutant of ClearCache: the name cache only.                              *)
ClearNameCache ==
  /\ name_cache' = NULL /\ name_cache_node' = NULL
  /\ UNCHANGED <<index_cache, index_cache_node>>

(* clear_cache *)
ClearCache ==
  /\ index_cache' = 0 /\ index_cache_node' = NULL
  /\ name_cache' = NULL /\ name_cache_node' = NULL

-----------------------------------------------------------------------------
(* stp_list_item_create *)
Create(ln, name, next) ==
  LET prev   == IF start # NULL THEN end ELSE NULL
      linked == [i \in Live \union {ln} |->
                  IF i = ln THEN [data |-> name, prev |-> prev, next |-> next]
                  ELSE IF i = next THEN [node[i] EXCEPT !.prev = ln]
                  ELSE node[i]]
  IN  /\ ln \notin Live
      /\ ClearCache
      /\ node' = IF prev = NULL THEN linked ELSE [linked EXCEPT ![prev].next = ln]
      /\ end' = ln
      /\ start' = IF start = NULL \/ start = next THEN ln ELSE start
      /\ length' = length + 1
      /\ NoAnswer

(* Mutant of Unlinked: the next item still points back to the one freed.   *)
UnlinkedForward(item) ==
  [i \in Live \ {item} |->
    IF i = node[item].prev THEN [node[i] EXCEPT !.next = node[item].next]
    ELSE node[i]]

(* The other items, the one before and the one after linked to each other. *)
Unlinked(item) ==
  LET prev == node[item].prev
      next == node[item].next
  IN  [i \in Live \ {item} |->
        [node[i] EXCEPT !.next = IF i = prev THEN next ELSE @,
                        !.prev = IF i = next THEN prev ELSE @]]

(* stp_list_item_destroy *)
Destroy(item) ==
  LET prev == node[item].prev
      next == node[item].next
  IN  /\ item \in Live
      /\ ClearCache
      /\ node' = Unlinked(item)
      /\ start' = IF prev = NULL THEN next ELSE start
      /\ end'   = IF next = NULL THEN prev ELSE end
      /\ length' = length - 1
      /\ NoAnswer

(* stp_list_item_set_data: the caches are left alone.                      *)
SetData(item, name) ==
  /\ item \in Live
  /\ node' = [node EXCEPT ![item].data = name]
  /\ NoAnswer
  /\ UNCHANGED <<start, end, length, caches>>

-----------------------------------------------------------------------------
(* The walk of stp_list_get_item_by_index from item n at index i.          *)
Walk(i, n, idx, back) ==
  LET at[k \in 0 .. length + 1] ==
        IF k = 0 THEN [index |-> i, item |-> n]
        ELSE LET p == at[k - 1]
             IN  IF p.item = NULL \/ p.index = idx THEN p
                 ELSE IF back
                 THEN [index |-> p.index - 1, item |-> node[p.item].prev]
                 ELSE [index |-> p.index + 1, item |-> node[p.item].next]
  IN  at[length + 1]

Distance(n) == IF n < 0 THEN -n ELSE n

FromCache(idx) ==
  /\ index_cache # 0
  /\ IF idx < length \div 2
     THEN idx > Distance(idx - index_cache)
     ELSE length - 1 - idx > Distance(length - 1 - idx - index_cache)

(* Mutant of Back: every walk goes forward.                                *)
NeverBack(idx) == FALSE

(* From the cached item the walk goes back, unless the index is after it.  *)
Back(idx) == ~(idx > index_cache)

(* The cached item, the next and the previous one are found at once; else  *)
(* the walk begins at the cached item or at one end of the list.           *)
Found(idx) ==
  IF index_cache_node # NULL /\ Distance(idx - index_cache) <= 1
  THEN [index |-> idx,
        item  |-> IF idx = index_cache THEN index_cache_node
                  ELSE IF idx > index_cache THEN node[index_cache_node].next
                  ELSE node[index_cache_node].prev]
  ELSE IF FromCache(idx)
  THEN Walk(index_cache, index_cache_node, idx, Back(idx))
  ELSE IF index_cache # 0 /\ idx >= length \div 2
  THEN Walk(length - 1, end, idx, TRUE)
  ELSE Walk(0, start, idx, FALSE)

(* stp_list_get_item_by_index *)
GetItemByIndex(idx) ==
  /\ asked' = idx
  /\ IF idx >= length
     THEN answer' = NULL /\ UNCHANGED <<index_cache, index_cache_node>>
     ELSE LET found == Found(idx)
          IN  /\ index_cache' = found.index
              /\ index_cache_node' = found.item
              /\ answer' = found.item
  /\ UNCHANGED <<node, start, end, length, name_cache, name_cache_node>>

Called(item, name) == item # NULL /\ node[item].data = name

(* stp_list_get_item_by_name_internal: a search from the start.            *)
Search(name) ==
  LET at[k \in 0 .. length] ==
        IF k = 0 THEN start
        ELSE IF at[k - 1] = NULL \/ Called(at[k - 1], name) THEN at[k - 1]
        ELSE node[at[k - 1]].next
  IN  at[length]

(* stp_list_get_item_by_name: the item in the name cache, the one after    *)
(* it, the one in the index cache, each if it has the name; else a search. *)
GetItemByName(name) ==
  LET cached == name_cache # NULL /\ name_cache_node # NULL
      after  == node[name_cache_node].next
      item   == IF cached /\ name_cache = name /\ Called(name_cache_node, name)
                THEN name_cache_node
                ELSE IF cached /\ Called(after, name) THEN after
                ELSE IF cached /\ Called(index_cache_node, name)
                THEN index_cache_node
                ELSE Search(name)
  IN  /\ asked' = name /\ answer' = item
      /\ IF item = NULL THEN UNCHANGED <<name_cache, name_cache_node>>
         ELSE name_cache' = name /\ name_cache_node' = item
      /\ UNCHANGED <<node, start, end, length, index_cache, index_cache_node>>

(* At most one item has the name.                                          *)
Unambiguous(name) ==
  \A i, j \in Live : Called(i, name) /\ Called(j, name) => i = j

-----------------------------------------------------------------------------
Next ==
  \/ \E ln \in Items, name \in Names :
       \E next \in {NULL} \union IF InsertsBefore THEN Live ELSE {} :
         Create(ln, name, next)
  \/ \E item \in Live : Destroy(item)
  \/ \E item \in Live, name \in Names : SetData(item, name)
  \/ \E idx \in -1 .. length : GetItemByIndex(idx)
  \/ \E name \in Names :
       (Ambiguous \/ Unambiguous(name)) /\ GetItemByName(name)

Spec == Init /\ [][Next]_vars
-----------------------------------------------------------------------------
(* Type correctness.                                                       *)
ItemOrNull == Items \union {NULL}

TypeOK ==
  /\ Live \subseteq Items
  /\ node \in [Live -> [data : Names, prev : ItemOrNull, next : ItemOrNull]]
  /\ {start, end, index_cache_node, name_cache_node, answer}
       \subseteq Live \union {NULL}
  /\ length \in Nat
  /\ index_cache \in Int
  /\ name_cache \in Names \union {NULL}

(* The items in the order of their next pointers, length of them.          *)
Order ==
  LET at[k \in 1 .. length] ==
        IF k = 1 THEN start
        ELSE IF at[k - 1] = NULL THEN NULL ELSE node[at[k - 1]].next
  IN  at

(* All items are reached by the next pointers, each once, and the prev     *)
(* pointers lead the same way back.                                        *)
WellLinked ==
  /\ {Order[k] : k \in 1 .. length} = Live
  /\ \A k \in 1 .. length :
       /\ node[Order[k]].prev = IF k = 1 THEN NULL ELSE Order[k - 1]
       /\ node[Order[k]].next = IF k = length THEN NULL ELSE Order[k + 1]
  /\ end = IF length = 0 THEN NULL ELSE Order[length]

(* The list is the sequence of items of ItemList, with its answers.        *)
TheItems  == INSTANCE ItemList WITH
               NoItem <- NULL, items <- Order,
               name <- [i \in Live |-> node[i].data]
IsItemList == TheItems!Spec
=============================================================================
