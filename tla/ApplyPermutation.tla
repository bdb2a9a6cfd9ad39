--------------------------- MODULE ApplyPermutation ---------------------------
(***************************************************************************)
(* apply_permutation (src/cot/src/utils/graph.rs): reorders items in place *)
(* by following the cycles of the permutation "order", swap by swap, and   *)
(* leaves the identity in "order" as it goes.  The sorter of migrations    *)
(* and the one of generated operations both rely on it.  Indices are       *)
(* counted from 1.                                                         *)
(***************************************************************************)
EXTENDS Naturals, Sequences

VARIABLES
  target,   \* the order that was passed in (history variable)
  items,    \* the items: items[k] is the index item k had at first
  order,    \* the array "order"
  i,        \* the outer loop
  current,  \* where the inner loop is
  inner     \* TRUE in the inner loop
vars == <<target, items, order, i, current, inner>>

Index == 1..Len(target)
Permutation(n) ==
  {p \in [1..n -> 1..n] : \A j, k \in 1..n : p[j] = p[k] => j = k}

TypeOK ==
  /\ target \in Seq(Nat)
  /\ target \in Permutation(Len(target))
  /\ items \in Permutation(Len(target))
  /\ order \in [Index -> Index]
  /\ i \in 1..(Len(target) + 1)
  /\ current \in Index \cup {0}
  /\ inner \in BOOLEAN

(* The entry of apply_permutation(items, permutation).                      *)
InitOn(permutation) ==
  /\ target = permutation
  /\ items = [k \in DOMAIN permutation |-> k]
  /\ order = permutation
  /\ i = 1
  /\ current = 0
  /\ inner = FALSE

(* The same as a step of a caller.                                          *)
CallOn(permutation) ==
  /\ target' = permutation
  /\ items' = [k \in DOMAIN permutation |-> k]
  /\ order' = permutation
  /\ i' = 1
  /\ current' = 0
  /\ inner' = FALSE

(* The head of the outer loop.                                              *)
StartCycle ==
  /\ ~inner
  /\ i <= Len(target)
  /\ current' = i
  /\ inner' = TRUE
  /\ UNCHANGED <<target, items, order, i>>

(* Mutant: the place that was filled is not marked in "order".              *)
SwapOnly ==
  /\ inner
  /\ order[current] # i
  /\ items' = [items EXCEPT ![current] = items[order[current]],
                            ![order[current]] = items[current]]
  /\ current' = order[current]
  /\ UNCHANGED <<target, order, i, inner>>
(* The body of the inner loop.                                              *)
SwapNext ==
  /\ inner
  /\ order[current] # i
  /\ items' = [items EXCEPT ![current] = items[order[current]],
                            ![order[current]] = items[current]]
  /\ order' = [order EXCEPT ![current] = current]
  /\ current' = order[current]
  /\ UNCHANGED <<target, i, inner>>

(* The inner loop is back where the cycle began.                            *)
EndCycle ==
  /\ inner
  /\ order[current] = i
  /\ order' = [order EXCEPT ![current] = current]
  /\ inner' = FALSE
  /\ i' = i + 1
  /\ UNCHANGED <<target, items, current>>

Next == StartCycle \/ SwapNext \/ EndCycle

(* Called on any permutation of any number of items.                        *)
Init == \E n \in Nat : \E p \in Permutation(n) : InitOn(p)
Spec == Init /\ [][Next]_vars

-----------------------------------------------------------------------------
Done == i = Len(target) + 1

(* Each place ends up with the item that "order" named for it.              *)
ItemsAsOrdered == Done => items = target

(* A place before i is final: a later cycle does not move its item again.   *)
PlacedStaysPlaced == \A k \in 1..(i - 1) : items[k] = target[k] /\ order[k] = k
==============================================================================
