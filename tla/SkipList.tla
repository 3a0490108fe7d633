------------------------------- MODULE SkipList -------------------------------
(***************************************************************************)
(* SkipList<K, V, Compare>: a map from prices to levels as towers of       *)
(* forward pointers.  A node is named by its key, which is unique; First   *)
(* is the head sentinel and Null the end of a chain.  C++ level i is       *)
(* position i + 1 of a node's forward sequence.  The coin flips of         *)
(* randomLevel are a parameter of insert.                                  *)
(***************************************************************************)
EXTENDS Integers, Sequences, OrderBook

CONSTANTS First, Null,
          MaxLevel      \* maxLevel, log2 of the expected number of keys

ASSUME MaxLevelAssumption == MaxLevel \in Nat

\* side selects the comparator: std::greater for bids, std::less for asks.
EmptyList(side) ==
    [side |-> side, level |-> 0, value |-> <<>>,
     forward |-> [x \in {First} |-> [i \in 1..(MaxLevel + 1) |-> Null]]]

Forward(sl, node, i) == sl.forward[node][i + 1]

\* From node along level i while the next key is ordered before key.
Walk(sl, i, node, key) ==
    LET walk[x \in DOMAIN sl.forward] ==
            LET next == Forward(sl, x, i)
            IN  IF next # Null /\ Better(sl.side, next, key) THEN walk[next] ELSE x
    IN  walk[node]

\* update[]: on every level the last node before key, from the top down.
Update(sl, key) ==
    LET update[i \in 0..sl.level] ==
            Walk(sl, i, IF i = sl.level THEN First ELSE update[i + 1], key)
    IN  [i \in 0..sl.level |-> update[i]]

\* The node that find() returns, or Null.
Find(sl, key) ==
    LET next == Forward(sl, Update(sl, key)[0], 0)
    IN  IF next # Null /\ next = key THEN next ELSE Null

BestNode(sl) == Forward(sl, First, 0)

Insert(sl, key, value, newLevel) ==
    LET update == Update(sl, key)
        prev(i) == IF i <= sl.level THEN update[i] ELSE First
    IN  IF Forward(sl, update[0], 0) = key THEN sl
        ELSE [sl EXCEPT
                !.level = IF newLevel > @ THEN newLevel ELSE @,
                !.value = Put(@, key, value),
                !.forward =
                    [x \in DOMAIN @ \cup {key} |->
                        IF x = key
                        THEN [j \in 1..(newLevel + 1) |-> @[prev(j - 1)][j]]
                        ELSE [j \in 1..Len(@[x]) |->
                                 IF j <= newLevel + 1 /\ prev(j - 1) = x THEN key
                                 ELSE @[x][j]]]]

\* The levels 0, 1, ... on which the node is unlinked, up to the first one
\* whose chain does not hold it.
Unlinked(sl, key, update) ==
    {i \in 0..sl.level : \A j \in 0..i : Forward(sl, update[j], j) = key}

RemoveKeyKeepsLevel(sl, key) ==      \* mutant: currentLevel is never lowered
    LET update == Update(sl, key)
        gone   == Unlinked(sl, key, update)
    IN  IF Forward(sl, update[0], 0) # key THEN sl
        ELSE [sl EXCEPT
                !.value = Drop(@, key),
                !.forward = [x \in DOMAIN @ \ {key} |->
                    [j \in 1..Len(@[x]) |->
                        IF j - 1 \in gone /\ update[j - 1] = x
                        THEN @[key][j] ELSE @[x][j]]]]

RemoveKey(sl, key) ==
    LET update == Update(sl, key)
        gone   == Unlinked(sl, key, update)
        linked == [x \in DOMAIN sl.forward \ {key} |->
                      [j \in 1..Len(sl.forward[x]) |->
                          IF j - 1 \in gone /\ update[j - 1] = x
                          THEN sl.forward[key][j] ELSE sl.forward[x][j]]]
        used(i) == i = 0 \/ linked[First][i + 1] # Null
    IN  IF Forward(sl, update[0], 0) # key THEN sl
        ELSE [sl EXCEPT
                !.value = Drop(@, key),
                !.forward = linked,
                !.level = Max({i \in 0..sl.level : used(i)})]

\* The keys of level 0 from best() on.
Keys(sl) ==
    LET from[x \in DOMAIN sl.forward \cup {Null}] ==
            IF x = Null THEN <<>> ELSE <<x>> \o from[Forward(sl, x, 0)]
    IN  from[BestNode(sl)]
=============================================================================
