---------------------------- MODULE SkipListProofs ---------------------------
(***************************************************************************)
(* Proof that lock-free readers of the skip list see a set, for any number *)
(* of keys, levels and iterators.                                          *)
(***************************************************************************)
EXTENDS SkipList, TLAPS

Inserts ==
    [pc : {"none", "find", "height", "link", "publish"}, key : 0 .. MaxNode, height : Level,
     level : Level, x : 0 .. MaxNode]
Searches ==
    [op : {"none", "seek", "prev", "last"}, target : 0 .. Nil, level : Level, x : 0 .. MaxNode]

SkipTypeOK ==
    /\ next \in [Level -> [0 .. MaxNode -> 1 .. Nil]]
    /\ max_height \in Level
    /\ ins \in Inserts
    /\ prev \in [Level -> 0 .. MaxNode]
    /\ linked \in [Level -> SUBSET Nodes]
    /\ iter \in [Iterators -> [node : 0 .. MaxNode, search : Searches]]

\* Levels that no node has reached are empty.
EmptyAbove == \A l \in Level : l > max_height => linked[l] = {}

\* The new key belongs between prev[l] and the node after it.
SplitAt(l) ==
    /\ prev[l] \in linked[l] \cup {0}
    /\ prev[l] < ins.key /\ ins.key < next[l][prev[l]]

\* What Insert has found so far.
Finding ==
    ins.pc = "find" =>
        /\ ins.level <= max_height /\ ins.x < ins.key /\ ins.x \in linked[ins.level] \cup {0}
        /\ \A l \in Level : ins.level < l /\ l <= max_height => SplitAt(l)

Found == ins.pc = "height" => \A l \in Level : l <= max_height => SplitAt(l)

\* What Insert has linked, and has still to link.
Linking ==
    ins.pc \in {"link", "publish"} =>
        /\ ins.level <= ins.height /\ ins.height <= max_height
        /\ \A l \in Level : l < ins.level => ins.key \in linked[l]
        /\ \A l \in Level : ins.level <= l /\ l <= ins.height => SplitAt(l)
        /\ ins.pc = "publish" => next[ins.level][ins.key] = next[ins.level][prev[ins.level]]

\* The new key is in no list that Insert has not linked it to.
Fresh ==
    ins.pc # "none" =>
        /\ ins.key \in Nodes
        /\ \A l \in Level : ins.pc \in {"find", "height"} \/ l >= ins.level => ins.key \notin linked[l]

InsertInv == Finding /\ Found /\ Linking /\ Fresh

\* An iterator is at a linked node, and a search is at a node of its list
\* that is before what it looks for.
IterInv ==
    \A i \in Iterators :
        LET search == iter[i].search
        IN  /\ iter[i].node \in linked[1] \cup {0}
            /\ search.op # "none" => /\ search.x \in linked[search.level] \cup {0}
                                     /\ search.x < search.target
            /\ search.op = "prev" => iter[i].node # 0 /\ search.target = iter[i].node
            /\ search.op = "seek" => search.target \in Nodes
            /\ search.op = "last" => search.target = Nil

SkipInv == SkipTypeOK /\ ListsSorted /\ EmptyAbove /\ InsertInv /\ IterInv

\* The constructor's list is empty.
LEMMA SkipInitInv == SkipInit => SkipInv
<1> SUFFICES ASSUME SkipInit PROVE SkipInv
  OBVIOUS
<1> USE SkipListAssumption DEF SkipInit, NoInsert, NoSearch, Level, Nodes, Nil
<1>1. SkipTypeOK
  BY DEF SkipTypeOK, Inserts, Searches
<1>2. ListsSorted /\ EmptyAbove
  BY DEF ListsSorted, EmptyAbove
<1>3. InsertInv
  BY DEF InsertInv, Finding, Found, Linking, Fresh
<1>4. IterInv
  BY DEF IterInv
<1> QED
  BY <1>1, <1>2, <1>3, <1>4 DEF SkipInv

\* What no step of a search changes.
LEMMA SameLists ==
    ASSUME ListsSorted, EmptyAbove, UNCHANGED <<next, max_height, linked>>
    PROVE  ListsSorted' /\ EmptyAbove'
  BY DEF ListsSorted, EmptyAbove

LEMMA SameIterators == ASSUME IterInv, UNCHANGED <<linked, iter>> PROVE IterInv'
  BY DEF IterInv

LEMMA InsType ==
    ASSUME SkipTypeOK
    PROVE  /\ ins.key \in Int /\ ins.x \in 0 .. MaxNode /\ ins.level \in Level /\ ins.height \in Level
           /\ max_height \in Level
           /\ \A l \in Level : linked[l] \subseteq Nodes /\ prev[l] \in 0 .. MaxNode
           /\ \A l \in Level, n \in 0 .. MaxNode : next[l][n] \in 1 .. Nil
<1>1. ins.key \in Int /\ ins.x \in 0 .. MaxNode /\ ins.level \in Level /\ ins.height \in Level
  BY SkipListAssumption DEF SkipTypeOK, Inserts
<1>2. max_height \in Level
  BY DEF SkipTypeOK
<1>3. \A l \in Level : linked[l] \subseteq Nodes /\ prev[l] \in 0 .. MaxNode
  BY DEF SkipTypeOK
<1>4. \A l \in Level, n \in 0 .. MaxNode : next[l][n] \in 1 .. Nil
  BY Zenon DEF SkipTypeOK
<1> QED
  BY <1>1, <1>2, <1>3, <1>4

\* Insert's search, and its choice of a height.
LEMMA StartInsertStep == ASSUME SkipInv, NEW key \in Nodes, StartInsert(key) PROVE SkipInv'
<1> USE SkipListAssumption
<1>0. /\ ins'.pc = "find" /\ ins'.key = key /\ ins'.level = max_height /\ ins'.x = 0
      /\ UNCHANGED <<next, max_height, prev, linked, iter>>
  BY DEF StartInsert, NoInsert
<1>1. SkipTypeOK'
  <2>1. ins' \in Inserts
    <3>1. ins' = [pc |-> "find", key |-> key, height |-> 1, level |-> max_height, x |-> 0]
      BY Zenon DEF StartInsert, NoInsert
    <3> QED
      BY <3>1, InsType DEF SkipInv, Inserts, Level, Nodes
  <2> QED
    BY <1>0, <2>1 DEF SkipInv, SkipTypeOK
<1>2. \A l \in Level : key \notin linked[l]
  <2>1. key \notin linked[1]
    BY DEF StartInsert
  <2> QED
    BY <2>1 DEF SkipInv, ListsSorted, Level
<1>3. Finding'
  BY <1>0, InsType DEF SkipInv, Level, Nodes, Finding
<1>4. Fresh' /\ Found' /\ Linking'
  BY <1>0, <1>2 DEF Fresh, Found, Linking
<1> QED
  BY <1>0, <1>1, <1>3, <1>4, SameLists, SameIterators DEF SkipInv, InsertInv

LEMMA FindForwardStep == ASSUME SkipInv, FindForward PROVE SkipInv'
<1> USE SkipListAssumption
<1> DEFINE y == next[ins.level][ins.x]
<1>0. /\ ins.pc = "find" /\ ins' = [ins EXCEPT !.x = y] /\ y < ins.key
      /\ UNCHANGED <<next, max_height, prev, linked, iter>>
  BY DEF FindForward
<1>1. ins.level \in Level /\ ins.key \in Nodes /\ ins.x \in linked[ins.level] \cup {0}
  BY <1>0, InsType DEF SkipInv, InsertInv, Finding, Fresh
<1>2. y \in linked[ins.level]
  BY <1>0, <1>1 DEF SkipInv, ListsSorted, Nodes, Nil
<1>3. SkipTypeOK'
  <2>1. y \in 0 .. MaxNode
    BY <1>1, <1>2, InsType DEF SkipInv, Nodes
  <2>2. ins' \in Inserts
    BY Zenon, <1>0, <2>1 DEF SkipInv, SkipTypeOK, Inserts
  <2> QED
    BY <1>0, <2>2 DEF SkipInv, SkipTypeOK
<1>4. ins'.pc = "find" /\ ins'.key = ins.key /\ ins'.level = ins.level /\ ins'.x = y
  BY <1>0 DEF SkipInv, SkipTypeOK, Inserts
<1>5. Finding'
  BY <1>0, <1>2, <1>4 DEF SkipInv, InsertInv, Finding, SplitAt
<1>6. Fresh' /\ Found' /\ Linking'
  BY <1>0, <1>4 DEF SkipInv, InsertInv, Fresh, Found, Linking
<1> QED
  BY <1>0, <1>3, <1>5, <1>6, SameLists, SameIterators DEF SkipInv, InsertInv

LEMMA FindDownStep == ASSUME SkipInv, FindDown PROVE SkipInv'
<1> USE SkipListAssumption
<1> DEFINE L == ins.level
<1>0. /\ ins.pc = "find" /\ next[L][ins.x] >= ins.key
      /\ prev' = [prev EXCEPT ![L] = ins.x]
      /\ ins' = IF L = 1 THEN [ins EXCEPT !.pc = "height"] ELSE [ins EXCEPT !.level = @ - 1]
      /\ UNCHANGED <<next, max_height, linked, iter>>
  BY DEF FindDown
<1>1. /\ L \in Level /\ L <= max_height /\ ins.key \in Nodes /\ ins.x < ins.key
      /\ ins.x \in linked[L] \cup {0} /\ ins.x \in 0 .. MaxNode
  BY <1>0, InsType DEF SkipInv, InsertInv, Finding, Fresh
<1>2. SkipTypeOK'
  <2>1. ins' \in Inserts
    <3>0. L # 1 => L - 1 \in Level
      BY <1>1 DEF Level
    <3>1. ins \in Inserts /\ (L # 1 => L - 1 \in Level)
      BY <3>0 DEF SkipInv, SkipTypeOK
    <3>2. CASE L = 1
      BY <1>0, <3>1, <3>2 DEF Inserts
    <3>3. CASE L # 1
      BY <1>0, <3>1, <3>3 DEF Inserts
    <3> QED
      BY <3>2, <3>3
  <2>2. prev' \in [Level -> 0 .. MaxNode]
    BY <1>0, <1>1 DEF SkipInv, SkipTypeOK
  <2> QED
    BY Zenon, <1>0, <2>1, <2>2 DEF SkipInv, SkipTypeOK
<1>3. ins.key < next[L][ins.x]
  <2>1. next[L][ins.x] \in linked[L] \cup {Nil} /\ ins.key \notin linked[L]
    BY <1>0, <1>1 DEF SkipInv, ListsSorted, InsertInv, Fresh
  <2>2. next[L][ins.x] \in Int /\ ins.key # Nil
    BY <1>1, InsType DEF SkipInv, Nodes, Nil
  <2> QED
    BY <1>0, <1>1, <2>1, <2>2 DEF Nodes
<1>4. ASSUME NEW l \in Level, L <= l, l <= max_height PROVE SplitAt(l)'
  <2>1. ins'.key = ins.key
    BY <1>0 DEF SkipInv, SkipTypeOK, Inserts
  <2>2. CASE l = L
    <3>1. prev'[l] = ins.x
      BY <1>0, <1>1, <2>2 DEF SkipInv, SkipTypeOK
    <3> QED
      BY <1>0, <1>1, <1>3, <2>1, <2>2, <3>1 DEF SplitAt
  <2>3. CASE l # L
    <3>1. prev'[l] = prev[l] /\ L < l
      BY <1>0, <1>1, <1>4, <2>3 DEF SkipInv, SkipTypeOK, Level
    <3> QED
      BY <1>0, <1>4, <2>1, <3>1 DEF SkipInv, InsertInv, Finding, SplitAt
  <2> QED
    BY <2>2, <2>3
<1>5. Fresh'
  BY <1>0, <1>1 DEF SkipInv, SkipTypeOK, Inserts, InsertInv, Fresh
<1>6. CASE L = 1
  <2>1. ins'.pc = "height"
    BY <1>0, <1>6 DEF SkipInv, SkipTypeOK, Inserts
  <2>2. Finding' /\ Found' /\ Linking'
    BY <1>0, <1>4, <1>6, <2>1 DEF Finding, Found, Linking, Level
  <2> QED
    BY <1>0, <1>2, <1>5, <2>2, SameLists, SameIterators DEF SkipInv, InsertInv
<1>7. CASE L # 1
  <2>0. ins'.pc = "find" /\ ins'.level = L - 1 /\ ins'.x = ins.x /\ ins'.key = ins.key
    BY <1>0, <1>7 DEF SkipInv, SkipTypeOK, Inserts
  <2>1. L - 1 \in Level /\ max_height \in Level
    BY <1>1, <1>7, InsType DEF SkipInv, Level
  <2>2. ins.x \in linked[L - 1] \cup {0}
    BY <1>1, <2>1 DEF SkipInv, ListsSorted, Level
  <2>3. Finding'
    BY <1>0, <1>1, <1>4, <2>0, <2>1, <2>2 DEF Finding, Level
  <2>4. Found' /\ Linking'
    BY <2>0 DEF Found, Linking
  <2> QED
    BY <1>0, <1>2, <1>5, <2>3, <2>4, SameLists, SameIterators DEF SkipInv, InsertInv
<1> QED
  BY <1>6, <1>7

LEMMA SetHeightStep == ASSUME SkipInv, NEW h \in Level, SetHeight(h) PROVE SkipInv'
<1> USE SkipListAssumption
<1>0. /\ ins.pc = "height" /\ ins' = [ins EXCEPT !.pc = "link", !.height = h, !.level = 1]
      /\ prev' = [l \in Level |-> IF max_height < l /\ l <= h THEN 0 ELSE prev[l]]
      /\ max_height' = IF h > max_height THEN h ELSE max_height
      /\ UNCHANGED <<next, linked, iter>>
  BY DEF SetHeight
<1>1. max_height \in Level /\ max_height' \in Level /\ h <= max_height' /\ max_height <= max_height'
  BY <1>0, InsType DEF SkipInv, Level
<1>2. SkipTypeOK'
  <2>1. ins' \in Inserts
    <3>1. 1 \in Level
      BY DEF Level
    <3> QED
      BY Zenon, <1>0, <3>1 DEF SkipInv, SkipTypeOK, Inserts
  <2>2. prev' \in [Level -> 0 .. MaxNode]
    BY <1>0, InsType DEF SkipInv
  <2> QED
    BY <1>0, <1>1, <2>1, <2>2 DEF SkipInv, SkipTypeOK
<1>3. ListsSorted' /\ EmptyAbove'
  BY <1>0, <1>1 DEF SkipInv, ListsSorted, EmptyAbove, Level
<1>4. ins'.pc = "link" /\ ins'.key = ins.key /\ ins'.height = h /\ ins'.level = 1
  BY <1>0 DEF SkipInv, SkipTypeOK, Inserts
<1>5. ins.key \in Nodes /\ \A l \in Level : ins.key \notin linked[l]
  BY <1>0 DEF SkipInv, InsertInv, Fresh
<1>6. ASSUME NEW l \in Level, l <= h PROVE SplitAt(l)'
  <2>1. CASE l <= max_height
    <3>1. prev'[l] = prev[l] /\ SplitAt(l)
      BY <1>0, <1>1, <2>1 DEF SkipInv, InsertInv, Found, Level
    <3> QED
      BY <1>0, <1>4, <3>1 DEF SplitAt
  <2>2. CASE ~(l <= max_height)
    <3>1. prev'[l] = 0 /\ linked[l] = {}
      BY <1>0, <1>1, <1>6, <2>2 DEF SkipInv, EmptyAbove, Level
    <3>2. next[l][0] = Nil
      BY <3>1 DEF SkipInv, ListsSorted
    <3> QED
      BY <1>0, <1>4, <1>5, <3>1, <3>2 DEF SplitAt, Nodes, Nil
  <2> QED
    BY <2>1, <2>2
<1>7. Finding' /\ Found' /\ Fresh'
  BY <1>0, <1>4, <1>5 DEF Finding, Found, Fresh
<1>8. Linking'
  BY <1>0, <1>1, <1>4, <1>6 DEF Linking, Level
<1> QED
  BY <1>0, <1>2, <1>3, <1>7, <1>8, SameIterators DEF SkipInv, InsertInv

\* The node's own pointer, which no list reaches yet.
LEMMA SetOwnNextStep == ASSUME SkipInv, SetOwnNext PROVE SkipInv'
<1> USE SkipListAssumption
<1> DEFINE L == ins.level
<1>0. /\ ins.pc = "link" /\ ins' = [ins EXCEPT !.pc = "publish"]
      /\ next' = [next EXCEPT ![L][ins.key] = next[L][prev[L]]]
      /\ UNCHANGED <<max_height, prev, linked, iter>>
  BY DEF SetOwnNext
<1>1. /\ L \in Level /\ ins.key \in Nodes /\ ins.key \in 0 .. MaxNode
      /\ \A l \in Level : l >= L => ins.key \notin linked[l]
      /\ ins.key # 0 /\ ins.key \notin linked[L]
  BY <1>0, InsType DEF SkipInv, InsertInv, Fresh, Nodes, Level
<1>2. next[L][prev[L]] \in 1 .. Nil
  BY <1>1, InsType DEF SkipInv
<1>3. SkipTypeOK'
  <2>1. ins' \in Inserts
    BY Zenon, <1>0 DEF SkipInv, SkipTypeOK, Inserts
  <2>2. next' \in [Level -> [0 .. MaxNode -> 1 .. Nil]]
    BY Zenon, <1>0, <1>1, <1>2 DEF SkipInv, SkipTypeOK
  <2> QED
    BY Zenon, <1>0, <2>1, <2>2 DEF SkipInv, SkipTypeOK
<1>4. /\ \A l \in Level : \A n \in linked[l] \cup {0} : next'[l][n] = next[l][n]
      /\ next'[L][ins.key] = next[L][prev[L]]
  <2>1. \A l \in Level : linked[l] \cup {0} \subseteq 0 .. MaxNode
    BY InsType DEF SkipInv, Nodes
  <2> QED
    BY ZenonT(30), <1>0, <1>1, <2>1 DEF SkipInv, SkipTypeOK
<1>5. ListsSorted'
  BY <1>0, <1>4 DEF SkipInv, ListsSorted
<1>6. EmptyAbove'
  BY <1>0 DEF SkipInv, EmptyAbove
<1>7. ins'.pc = "publish" /\ ins'.key = ins.key /\ ins'.height = ins.height /\ ins'.level = L
  BY <1>0 DEF SkipInv, SkipTypeOK, Inserts
<1>8. \A l \in Level : SplitAt(l) => SplitAt(l)'
  BY <1>0, <1>4, <1>7 DEF SplitAt
<1>9. L <= ins.height /\ SplitAt(L)
  BY <1>0, <1>1, InsType DEF SkipInv, InsertInv, Linking, Level
<1>10. Linking'
  <2>1. next'[L][prev[L]] = next[L][prev[L]]
    BY <1>1, <1>4, <1>9 DEF SplitAt
  <2> QED
    BY <1>0, <1>4, <1>7, <1>8, <2>1 DEF SkipInv, InsertInv, Linking
<1>11. Finding' /\ Found' /\ Fresh'
  BY <1>0, <1>1, <1>7 DEF Finding, Found, Fresh
<1> QED
  BY <1>0, <1>3, <1>5, <1>6, <1>10, <1>11, SameIterators DEF SkipInv, InsertInv

\* The store that links the node into one list, at its place.
LEMMA PublishSorted ==
    ASSUME SkipInv, Publish
    PROVE  ListsSorted'
<1> USE SkipListAssumption
<1> DEFINE L == ins.level  k == ins.key  p == prev[L]  q == next[L][p]
<1>0. /\ ins.pc = "publish" /\ next' = [next EXCEPT ![L][p] = k]
      /\ linked' = [linked EXCEPT ![L] = @ \cup {k}]
  BY DEF Publish
<1>1. /\ L \in Level /\ k \in Nodes /\ k \notin linked[L] /\ next[L][k] = q
      /\ \A l \in Level : l < L => k \in linked[l]
      /\ \A l \in Level : l >= L => k \notin linked[l]
  BY <1>0, InsType DEF SkipInv, InsertInv, Fresh, Linking, Level
<1>2. p \in linked[L] \cup {0} /\ p < k /\ k < q
  BY <1>0, <1>1, InsType DEF SkipInv, InsertInv, Linking, SplitAt, Level
<1>3. /\ \A l \in Level : linked[l] \subseteq Int /\ linked[l] \cup {0} \subseteq 0 .. MaxNode
      /\ k \in 0 .. MaxNode /\ k \in Int /\ q \in Int
  BY <1>1, InsType DEF SkipInv, Nodes
<1>4. /\ \A l \in Level \ {L} : linked'[l] = linked[l] /\ next'[l] = next[l]
      /\ linked'[L] = linked[L] \cup {k}
      /\ next'[L][p] = k
      /\ \A n \in (linked[L] \cup {0, k}) \ {p} : next'[L][n] = next[L][n]
  BY ZenonT(30), <1>0, <1>1, <1>3 DEF SkipInv, SkipTypeOK
<1>5. q \in linked[L] \cup {Nil} /\ \A m \in linked[L] : ~(p < m /\ m < q)
  BY <1>1, <1>2 DEF SkipInv, ListsSorted
<1>6. ASSUME NEW n \in linked'[L] \cup {0}
      PROVE  /\ next'[L][n] \in linked'[L] \cup {Nil} /\ n < next'[L][n]
             /\ \A m \in linked'[L] : ~(n < m /\ m < next'[L][n])
  <2>1. CASE n = p
    BY <1>2, <1>3, <1>4, <1>5, <1>1, <2>1
  <2>2. CASE n = k
    BY <1>1, <1>2, <1>3, <1>4, <1>5, <2>2
  <2>3. CASE n # p /\ n # k
    <3>1. n \in linked[L] \cup {0} /\ next'[L][n] = next[L][n]
      BY <1>4, <1>6, <2>3
    <3>2. /\ next[L][n] \in linked[L] \cup {Nil} /\ n < next[L][n]
          /\ \A m \in linked[L] : ~(n < m /\ m < next[L][n])
      BY <1>1, <3>1 DEF SkipInv, ListsSorted
    <3>3. n \in Int /\ next[L][n] \in Int /\ n >= 0
      BY <1>1, <1>3, <3>1, InsType DEF SkipInv
    <3>4. ~(n < k /\ k < next[L][n])
      <4>0. p \in Int /\ p >= 0
        BY <1>1, InsType DEF SkipInv
      <4>1. CASE n < p
        BY <1>2, <1>3, <3>1, <3>2, <3>3, <4>0, <4>1
      <4>2. CASE p < n
        BY <1>2, <1>3, <1>5, <3>1, <3>3, <4>0, <4>2
      <4> QED
        BY <2>3, <3>3, <4>0, <4>1, <4>2
    <3> QED
      BY <1>4, <3>1, <3>2, <3>4
  <2> QED
    BY <2>1, <2>2, <2>3
<1>7. ASSUME NEW l \in Level, NEW m \in Level, m <= l PROVE linked'[l] \subseteq linked'[m]
  <2>1. linked[l] \subseteq linked[m]
    BY <1>7 DEF SkipInv, ListsSorted
  <2>2. l = L /\ m # L => k \in linked[m]
    BY <1>1, <1>7 DEF Level
  <2> QED
    BY <1>4, <2>1, <2>2
<1>8. ASSUME NEW l \in Level \ {L}, NEW n \in linked'[l] \cup {0}
      PROVE  /\ next'[l][n] \in linked'[l] \cup {Nil} /\ n < next'[l][n]
             /\ \A m \in linked'[l] : ~(n < m /\ m < next'[l][n])
  BY <1>4 DEF SkipInv, ListsSorted
<1> QED
  BY <1>6, <1>7, <1>8 DEF ListsSorted

LEMMA PublishStep == ASSUME SkipInv, Publish PROVE SkipInv'
<1> USE SkipListAssumption
<1> DEFINE L == ins.level  k == ins.key  p == prev[L]
<1>0. /\ ins.pc = "publish" /\ next' = [next EXCEPT ![L][p] = k]
      /\ linked' = [linked EXCEPT ![L] = @ \cup {k}]
      /\ ins' = IF L = ins.height THEN NoInsert ELSE [ins EXCEPT !.pc = "link", !.level = @ + 1]
      /\ UNCHANGED <<max_height, prev, iter>>
  BY DEF Publish
<1>1. /\ L \in Level /\ ins.height \in Level /\ k \in Nodes /\ k \in 1 .. Nil
      /\ L <= ins.height /\ ins.height <= max_height
      /\ \A l \in Level : l < L => k \in linked[l]
      /\ \A l \in Level : l >= L => k \notin linked[l]
  BY <1>0, InsType DEF SkipInv, InsertInv, Fresh, Linking, Nodes, Nil
<1>2. p \in 0 .. MaxNode
  BY <1>1, InsType DEF SkipInv
<1>3. SkipTypeOK'
  <2>1. next' \in [Level -> [0 .. MaxNode -> 1 .. Nil]]
    BY Zenon, <1>0, <1>1, <1>2 DEF SkipInv, SkipTypeOK
  <2>2. linked' \in [Level -> SUBSET Nodes]
    BY Zenon, <1>0, <1>1 DEF SkipInv, SkipTypeOK
  <2>3. ins' \in Inserts
    <3>1. L # ins.height => L + 1 \in Level
      BY <1>1 DEF Level
    <3>2. ins \in Inserts
      BY DEF SkipInv, SkipTypeOK
    <3>3. CASE L = ins.height
      BY <1>0, <3>3 DEF NoInsert, Inserts, Level
    <3>4. CASE L # ins.height
      BY Zenon, <1>0, <3>1, <3>2, <3>4 DEF Inserts
    <3> QED
      BY <3>3, <3>4
  <2> QED
    BY Zenon, <1>0, <2>1, <2>2, <2>3 DEF SkipInv, SkipTypeOK
<1>4. EmptyAbove'
  <2> SUFFICES ASSUME NEW l \in Level, l > max_height PROVE linked'[l] = {}
    BY <1>0 DEF EmptyAbove
  <2>1. l # L
    BY <1>1, InsType DEF SkipInv, Level
  <2> QED
    BY <1>0, <2>1 DEF SkipInv, SkipTypeOK, EmptyAbove
<1>5. \A l \in Level : linked[l] \subseteq linked'[l]
  BY Zenon, <1>0, <1>1 DEF SkipInv, SkipTypeOK
<1>6. IterInv'
  <2>1. \A i \in Iterators : iter[i].search.level \in Level
    BY DEF SkipInv, SkipTypeOK, Searches
  <2>2. 1 \in Level
    BY DEF Level
  <2> QED
    BY <1>0, <1>5, <2>1, <2>2 DEF SkipInv, IterInv
<1>7. CASE L = ins.height
  <2>1. ins'.pc = "none"
    BY <1>0, <1>7 DEF NoInsert
  <2>2. InsertInv'
    BY <2>1 DEF InsertInv, Finding, Found, Linking, Fresh
  <2> QED
    BY <1>3, <1>4, <1>6, <2>2, PublishSorted DEF SkipInv
<1>8. CASE L # ins.height
  <2>1. ins'.pc = "link" /\ ins'.key = k /\ ins'.height = ins.height /\ ins'.level = L + 1
    BY <1>0, <1>8 DEF SkipInv, SkipTypeOK, Inserts
  <2>2. ASSUME NEW l \in Level, L < l, l <= ins.height PROVE SplitAt(l)'
    <3>1. SplitAt(l)
      BY SMTT(30), <1>0, <1>1, <2>2 DEF SkipInv, InsertInv, Linking, Level
    <3>2. next'[l] = next[l] /\ linked'[l] = linked[l]
      BY SMTT(30), <1>0, <1>1, <2>2 DEF SkipInv, SkipTypeOK, Level
    <3> QED
      BY <1>0, <2>1, <3>1, <3>2 DEF SplitAt
  <2>3. /\ \A l \in Level : l < L + 1 => k \in linked'[l]
        /\ \A l \in Level : l >= L + 1 => k \notin linked'[l]
    <3>1. /\ linked'[L] = linked[L] \cup {k}
          /\ \A l \in Level : l # L => linked'[l] = linked[l]
      BY Zenon, <1>0, <1>1 DEF SkipInv, SkipTypeOK
    <3> QED
      BY <1>1, <3>1 DEF Level
  <2>4. Linking'
    BY <1>0, <1>1, <1>8, <2>1, <2>2, <2>3 DEF Linking, Level
  <2>5. Finding' /\ Found' /\ Fresh'
    BY <1>1, <2>1, <2>3 DEF Finding, Found, Fresh
  <2> QED
    BY <1>3, <1>4, <1>6, <2>4, <2>5, PublishSorted DEF SkipInv, InsertInv
<1> QED
  BY <1>7, <1>8

\* The searches of the iterators.  They leave the lists and Insert alone.
LEMMA SameInsert ==
    ASSUME SkipInv, UNCHANGED <<next, max_height, ins, prev, linked>>, IterInv',
           iter' \in [Iterators -> [node : 0 .. MaxNode, search : Searches]]
    PROVE  SkipInv'
<1>1. InsertInv'
  BY DEF SkipInv, InsertInv, Finding, Found, Linking, Fresh, SplitAt
<1>2. SkipTypeOK'
  BY DEF SkipInv, SkipTypeOK
<1> QED
  BY <1>1, <1>2, SameLists DEF SkipInv

LEMMA IterType ==
    ASSUME SkipInv, NEW i \in Iterators
    PROVE  /\ iter[i] = [node |-> iter[i].node, search |-> iter[i].search]
           /\ iter[i].node \in 0 .. MaxNode /\ iter[i].search \in Searches
           /\ iter[i].search.target \in 0 .. Nil /\ iter[i].search.level \in Level
           /\ iter[i].search.x \in 0 .. MaxNode
           /\ iter[i].search.op \in {"none", "seek", "prev", "last"}
           /\ 1 \in Level /\ linked[1] \subseteq 0 .. MaxNode
<1>1. iter[i] \in [node : 0 .. MaxNode, search : Searches]
  BY DEF SkipInv, SkipTypeOK
<1>2. iter[i].search \in Searches
  BY <1>1
<1>3. /\ iter[i].search.target \in 0 .. Nil /\ iter[i].search.level \in Level
      /\ iter[i].search.x \in 0 .. MaxNode
      /\ iter[i].search.op \in {"none", "seek", "prev", "last"}
  BY <1>2 DEF Searches
<1>4. 1 \in Level /\ linked[1] \subseteq 0 .. MaxNode
  BY SkipListAssumption DEF SkipInv, SkipTypeOK, Level, Nodes
<1> QED
  BY <1>1, <1>2, <1>3, <1>4

\* Where the pointer that a search follows leads.
LEMMA AfterFact ==
    ASSUME SkipInv, NEW i \in Iterators, iter[i].search.op # "none"
    PROVE  LET l == iter[i].search.level  x == iter[i].search.x
           IN  /\ x \in linked[l] \cup {0} /\ x < iter[i].search.target
               /\ After(i) \in linked[l] \cup {Nil} /\ x < After(i)
               /\ \A m \in linked[l] : ~(x < m /\ m < After(i))
               /\ linked[l] \subseteq linked[1] /\ linked[l] \subseteq Nodes
               /\ After(i) \in 1 .. Nil
<1> USE SkipListAssumption
<1> DEFINE l == iter[i].search.level  x == iter[i].search.x
<1>1. l \in Level /\ 1 \in Level /\ x \in 0 .. MaxNode
  BY Zenon, IterType
<1>2. x \in linked[l] \cup {0} /\ x < iter[i].search.target
  BY DEF SkipInv, IterInv
<1>3. /\ After(i) \in linked[l] \cup {Nil} /\ x < After(i)
      /\ \A m \in linked[l] : ~(x < m /\ m < After(i))
  BY <1>1, <1>2 DEF SkipInv, ListsSorted, After
<1>4. linked[l] \subseteq linked[1]
  BY <1>1 DEF SkipInv, ListsSorted, Level
<1>5. linked[l] \subseteq Nodes /\ After(i) \in 1 .. Nil
  BY <1>1, InsType DEF SkipInv, After
<1> QED
  BY Zenon, <1>2, <1>3, <1>4, <1>5

\* A step that changes the search of one iterator only.
LEMMA SearchStep ==
    ASSUME SkipInv, NEW i \in Iterators, NEW s \in Searches,
           iter' = [iter EXCEPT ![i].search = s],
           UNCHANGED <<next, max_height, ins, prev, linked>>,
           s.op # "none" => s.x \in linked[s.level] \cup {0} /\ s.x < s.target,
           s.op = "prev" => iter[i].node # 0 /\ s.target = iter[i].node,
           s.op = "seek" => s.target \in Nodes,
           s.op = "last" => s.target = Nil
    PROVE  SkipInv'
<1>1. iter' \in [Iterators -> [node : 0 .. MaxNode, search : Searches]]
  BY Zenon DEF SkipInv, SkipTypeOK
<1>2. /\ iter'[i].search = s /\ iter'[i].node = iter[i].node
      /\ \A j \in Iterators \ {i} : iter'[j] = iter[j]
  BY DEF SkipInv, SkipTypeOK
<1>3. IterInv'
  <2> SUFFICES ASSUME NEW j \in Iterators
               PROVE  LET search == iter'[j].search
                      IN  /\ iter'[j].node \in linked[1] \cup {0}
                          /\ search.op # "none" => /\ search.x \in linked[search.level] \cup {0}
                                                   /\ search.x < search.target
                          /\ search.op = "prev" => iter'[j].node # 0 /\ search.target = iter'[j].node
                          /\ search.op = "seek" => search.target \in Nodes
                          /\ search.op = "last" => search.target = Nil
    BY DEF IterInv, Nodes, Nil
  <2>1. CASE j = i
    BY <1>2, <2>1 DEF SkipInv, IterInv
  <2>2. CASE j # i
    BY <1>2, <2>2 DEF SkipInv, IterInv
  <2> QED
    BY Zenon, <2>1, <2>2
<1> QED
  BY <1>1, <1>3, SameInsert

LEMMA StartSearchStep ==
    ASSUME SkipInv, NEW i \in Iterators,
           NEW op \in {"seek", "prev", "last"}, NEW target \in 1 .. Nil, StartSearch(i, op, target),
           op = "prev" => iter[i].node # 0 /\ target = iter[i].node,
           op = "seek" => target \in Nodes,
           op = "last" => target = Nil
    PROVE  SkipInv'
<1> USE SkipListAssumption
<1>1. PICK height \in 1 .. max_height :
          iter' = [iter EXCEPT ![i].search = [op |-> op, target |-> target, level |-> height, x |-> 0]]
  BY Zenon DEF StartSearch
<1>2. height \in Level
  BY InsType DEF SkipInv, Level
<1> DEFINE s == [op |-> op, target |-> target, level |-> height, x |-> 0]
<1>3. target \in 0 .. Nil /\ 0 < target /\ 0 \in 0 .. MaxNode
  BY DEF Nil
<1>4. s \in Searches
  BY <1>2, <1>3 DEF Searches
<1>5. s.op = op /\ s.target = target /\ s.x = 0
  OBVIOUS
<1>6. UNCHANGED <<next, max_height, ins, prev, linked>>
  BY DEF StartSearch
<1> QED
  BY Zenon, <1>1, <1>3, <1>4, <1>5, <1>6, SearchStep

LEMMA SearchForwardStep == ASSUME SkipInv, NEW i \in Iterators, SearchForward(i) PROVE SkipInv'
<1> USE SkipListAssumption
<1>0. /\ iter[i].search.op # "none" /\ After(i) < iter[i].search.target
      /\ iter' = [iter EXCEPT ![i].search.x = After(i)]
      /\ UNCHANGED <<next, max_height, ins, prev, linked>>
  BY DEF SearchForward
<1> DEFINE s == [iter[i].search EXCEPT !.x = After(i)]
<1>1. After(i) \in linked[iter[i].search.level] /\ After(i) \in 0 .. MaxNode
  <2>1. iter[i].search.target \in 0 .. Nil
    BY Zenon, IterType
  <2>2. After(i) \in linked[iter[i].search.level] \cup {Nil} /\ After(i) \in 1 .. Nil
    BY <1>0, AfterFact
  <2> QED
    BY <1>0, <2>1, <2>2 DEF Nil
<1>2. s \in Searches
  BY ZenonT(30), <1>1, IterType DEF Searches
<1>3. iter' = [iter EXCEPT ![i].search = s]
  BY <1>0
<1>4. /\ s.op = iter[i].search.op /\ s.target = iter[i].search.target
      /\ s.level = iter[i].search.level /\ s.x = After(i)
  BY IterType DEF Searches
<1>5. /\ s.op = "prev" => iter[i].node # 0 /\ s.target = iter[i].node
      /\ s.op = "seek" => s.target \in Nodes
      /\ s.op = "last" => s.target = Nil
  BY <1>4 DEF SkipInv, IterInv
<1>6. s.op # "none" => s.x \in linked[s.level] \cup {0} /\ s.x < s.target
  BY <1>0, <1>1, <1>4
<1> QED
  BY Zenon, <1>0, <1>2, <1>3, <1>5, <1>6, SearchStep

LEMMA SearchDownStep == ASSUME SkipInv, NEW i \in Iterators, SearchDown(i) PROVE SkipInv'
<1> USE SkipListAssumption
<1>0. /\ iter[i].search.op # "none" /\ iter[i].search.level > 1
      /\ iter' = [iter EXCEPT ![i].search.level = @ - 1]
      /\ UNCHANGED <<next, max_height, ins, prev, linked>>
  BY DEF SearchDown
<1> DEFINE l == iter[i].search.level  s == [iter[i].search EXCEPT !.level = l - 1]
<1>1. l \in Level /\ l - 1 \in Level /\ l - 1 <= l
  <2>1. l \in Level
    BY Zenon, IterType
  <2> QED
    BY <1>0, <2>1 DEF Level
<1>2. s \in Searches
  BY ZenonT(30), <1>1, IterType DEF Searches
<1>3. iter' = [iter EXCEPT ![i].search = s]
  BY <1>0
<1>4. /\ s.op = iter[i].search.op /\ s.target = iter[i].search.target
      /\ s.level = l - 1 /\ s.x = iter[i].search.x
  BY IterType DEF Searches
<1>5. /\ s.op = "prev" => iter[i].node # 0 /\ s.target = iter[i].node
      /\ s.op = "seek" => s.target \in Nodes
      /\ s.op = "last" => s.target = Nil
  BY <1>4 DEF SkipInv, IterInv
<1>6. linked[l] \subseteq linked[l - 1]
  BY <1>1 DEF SkipInv, ListsSorted
<1>7. s.op # "none" => s.x \in linked[s.level] \cup {0} /\ s.x < s.target
  BY Zenon, <1>0, <1>4, <1>6, AfterFact
<1> QED
  BY Zenon, <1>0, <1>2, <1>3, <1>5, <1>7, SearchStep

\* What MoveTo chooses from a set with one element at most.
LEMMA OneElement ==
    ASSUME NEW r, NEW S, S = IF r = 0 THEN {} ELSE {r}
    PROVE  (IF S = {} THEN 0 ELSE CHOOSE n \in S : TRUE) = r
  OBVIOUS

\* A step that moves an iterator to the node r, or to none when r is 0.
LEMMA NodeStep ==
    ASSUME SkipInv, NEW i \in Iterators, NEW r \in linked[1] \cup {0}, NEW s \in Searches,
           s.op = "none", iter' = [iter EXCEPT ![i] = [node |-> r, search |-> s]],
           UNCHANGED <<next, max_height, ins, prev, linked>>
    PROVE  /\ SkipInv'
           /\ [j \in Iterators |-> iter'[j].node] = [[j \in Iterators |-> iter[j].node] EXCEPT ![i] = r]
<1>1. r \in 0 .. MaxNode
  <2>1. linked[1] \subseteq 0 .. MaxNode
    BY Zenon, IterType
  <2> QED
    BY <2>1, SkipListAssumption
<1>2. iter' \in [Iterators -> [node : 0 .. MaxNode, search : Searches]]
  BY <1>1 DEF SkipInv, SkipTypeOK
<1>3. /\ iter'[i].search = s /\ iter'[i].node = r
      /\ \A j \in Iterators \ {i} : iter'[j] = iter[j]
  BY DEF SkipInv, SkipTypeOK
<1>4. IterInv'
  BY <1>3 DEF SkipInv, IterInv, Nodes, Nil
<1>5. [j \in Iterators |-> iter'[j].node] = [j \in Iterators |-> IF j = i THEN r ELSE iter[j].node]
  BY <1>3
<1>6. [[j \in Iterators |-> iter[j].node] EXCEPT ![i] = r]
          = [j \in Iterators |-> IF j = i THEN r ELSE iter[j].node]
  BY Zenon
<1> QED
  BY Zenon, <1>2, <1>4, <1>5, <1>6, SameInsert

\* A node and the one after it in the bottom list have nothing between them.
LEMMA Neighbours ==
    ASSUME SkipInv, NEW x \in linked[1] \cup {0}
    PROVE  LET n == next[1][x]
               r == IF n = Nil THEN 0 ELSE n
           IN  /\ r \in linked[1] \cup {0}
               /\ Set!LeastAbove(x) = IF r = 0 THEN {} ELSE {r}
               /\ \A t \in Int : x < t /\ t <= n =>
                    /\ Set!LeastAbove(t - 1) = IF r = 0 THEN {} ELSE {r}
                    /\ Set!GreatestBelow(t) = IF x = 0 THEN {} ELSE {x}
               /\ n = Nil => {m \in linked[1] : \A k \in linked[1] : k <= m} = IF x = 0 THEN {} ELSE {x}
<1> USE SkipListAssumption
<1> DEFINE n == next[1][x]  r == IF n = Nil THEN 0 ELSE n
<1>1. 1 \in Level
  BY DEF Level
<1>2. n \in linked[1] \cup {Nil} /\ x < n /\ \A m \in linked[1] : ~(x < m /\ m < n)
  BY <1>1 DEF SkipInv, ListsSorted
<1>3. linked[1] \subseteq Nodes /\ n \in 1 .. Nil /\ x \in 0 .. MaxNode
  BY <1>1, InsType, IterType DEF SkipInv, Nodes
<1>4. /\ Nil \in Int /\ n \in Int /\ x \in Int /\ x >= 0 /\ n > 0
      /\ \A m \in linked[1] : m \in Int /\ m > 0 /\ m < Nil
  BY <1>3 DEF Nodes, Nil
<1>5. r \in linked[1] \cup {0} /\ (r = 0 <=> n = Nil)
  BY <1>2, <1>4
<1>6. ASSUME NEW t \in Int, x < t, t <= n
      PROVE  /\ \A m \in linked[1] : m > t - 1 <=> m >= n
             /\ \A m \in linked[1] : m < t <=> m <= x
  BY <1>2, <1>4, <1>6
<1>7. \A m \in linked[1] : m > x <=> m >= n
  BY <1>2, <1>4
<1>8. ASSUME NEW u \in Int, \A m \in linked[1] : m > u <=> m >= n
      PROVE  Set!LeastAbove(u) = IF r = 0 THEN {} ELSE {r}
  <2>1. CASE n = Nil
    BY <1>4, <1>5, <1>8, <2>1 DEF Set!LeastAbove
  <2>2. CASE n # Nil
    BY <1>2, <1>4, <1>5, <1>8, <2>2 DEF Set!LeastAbove
  <2> QED
    BY <2>1, <2>2
<1>9. ASSUME NEW t \in Int, \A m \in linked[1] : m < t <=> m <= x
      PROVE  Set!GreatestBelow(t) = IF x = 0 THEN {} ELSE {x}
  <2>1. CASE x = 0
    BY <1>4, <1>9, <2>1 DEF Set!GreatestBelow
  <2>2. CASE x # 0
    BY <1>4, <1>9, <2>2 DEF Set!GreatestBelow
  <2> QED
    BY Zenon, <2>1, <2>2
<1>10. ASSUME n = Nil
       PROVE  {m \in linked[1] : \A k \in linked[1] : k <= m} = IF x = 0 THEN {} ELSE {x}
  <2>1. \A m \in linked[1] : m <= x
    BY <1>2, <1>4, <1>10
  <2>2. CASE x = 0
    BY <1>4, <2>1, <2>2
  <2>3. CASE x # 0
    BY <1>4, <2>1, <2>3
  <2> QED
    BY <2>2, <2>3
<1>11. Set!LeastAbove(x) = IF r = 0 THEN {} ELSE {r}
  BY <1>4, <1>7, <1>8
<1>12. ASSUME NEW t \in Int, x < t, t <= n
       PROVE  /\ Set!LeastAbove(t - 1) = IF r = 0 THEN {} ELSE {r}
              /\ Set!GreatestBelow(t) = IF x = 0 THEN {} ELSE {x}
  <2>1. t - 1 \in Int
    OBVIOUS
  <2> QED
    BY Zenon, <1>6, <1>8, <1>9, <1>12, <2>1
<1> QED
  BY <1>5, <1>10, <1>11, <1>12

LEMMA LoadStep ==
    ASSUME SkipInv, NEW i \in Iterators, NEW from \in linked[1] \cup {0}, Load(i, from)
    PROVE  /\ SkipInv' /\ UNCHANGED linked
           /\ [j \in Iterators |-> iter'[j].node]
                = [[j \in Iterators |-> iter[j].node] EXCEPT ![i] =
                      IF Set!LeastAbove(from) = {} THEN 0 ELSE CHOOSE n \in Set!LeastAbove(from) : TRUE]
<1> DEFINE r == IF next[1][from] = Nil THEN 0 ELSE next[1][from]
<1>1. r \in linked[1] \cup {0} /\ Set!LeastAbove(from) = IF r = 0 THEN {} ELSE {r}
  BY Zenon, Neighbours
<1>2. /\ iter[i].search.op = "none" /\ iter' = [iter EXCEPT ![i].node = r]
      /\ UNCHANGED <<next, max_height, ins, prev, linked>>
  BY DEF Load
<1> HIDE DEF r
<1>3. iter' = [iter EXCEPT ![i] = [node |-> r, search |-> iter[i].search]]
  <2>1. iter[i] \in [node : 0 .. MaxNode, search : Searches]
    BY DEF SkipInv, SkipTypeOK
  <2>2. [iter[i] EXCEPT !.node = r] = [node |-> r, search |-> iter[i].search]
    BY <2>1
  <2> QED
    BY Zenon, <1>2, <2>2
<1>4. iter[i].search \in Searches
  BY Zenon, IterType
<1>5. /\ SkipInv'
      /\ [j \in Iterators |-> iter'[j].node] = [[j \in Iterators |-> iter[j].node] EXCEPT ![i] = r]
  BY ZenonT(30), <1>1, <1>2, <1>3, <1>4, NodeStep
<1>6. (IF Set!LeastAbove(from) = {} THEN 0 ELSE CHOOSE n \in Set!LeastAbove(from) : TRUE) = r
  BY <1>1, OneElement
<1> QED
  BY Zenon, <1>2, <1>5, <1>6

LEMMA SearchEndStep ==
    ASSUME SkipInv, NEW i \in Iterators, SearchEnd(i)
    PROVE  /\ SkipInv'
           /\ iter[i].search.op = "seek" => Set!Seek(i, iter[i].search.target)
           /\ iter[i].search.op = "prev" => Set!Prev(i)
           /\ iter[i].search.op = "last" => Set!SeekToLast(i)
<1> USE SkipListAssumption
<1> DEFINE x == iter[i].search.x  t == iter[i].search.target  op == iter[i].search.op
<1>0. /\ op # "none" /\ After(i) >= t /\ iter[i].search.level = 1
      /\ iter' = [iter EXCEPT ![i] = [node |-> Result(i), search |-> NoSearch]]
      /\ UNCHANGED <<next, max_height, ins, prev, linked>>
  BY DEF SearchEnd
<1>1. /\ x \in linked[1] \cup {0} /\ x < t /\ After(i) = next[1][x] /\ After(i) \in 1 .. Nil
  BY Zenon, <1>0, AfterFact DEF After
<1>2. t \in 0 .. Nil
  BY Zenon, IterType
<1>3. t \in Int /\ t <= next[1][x]
  BY <1>0, <1>1, <1>2 DEF Nil
<1> DEFINE r == IF next[1][x] = Nil THEN 0 ELSE next[1][x]
<1>4. /\ r \in linked[1] \cup {0}
      /\ Set!LeastAbove(t - 1) = IF r = 0 THEN {} ELSE {r}
      /\ Set!GreatestBelow(t) = IF x = 0 THEN {} ELSE {x}
      /\ next[1][x] = Nil => {m \in linked[1] : \A k \in linked[1] : k <= m} = IF x = 0 THEN {} ELSE {x}
  BY ZenonT(30), <1>1, <1>3, Neighbours
<1>5. NoSearch \in Searches /\ NoSearch.op = "none"
  BY DEF NoSearch, Searches, Level, Nil
<1>6. Result(i) = IF op = "seek" THEN r ELSE x
  BY Zenon, <1>1 DEF Result
<1>7. /\ SkipInv'
      /\ [j \in Iterators |-> iter'[j].node]
            = [[j \in Iterators |-> iter[j].node] EXCEPT ![i] = Result(i)]
  BY ZenonT(30), <1>0, <1>1, <1>4, <1>5, <1>6, NodeStep
<1>8. ASSUME op = "seek" PROVE Set!Seek(i, t)
  <2>1. (IF Set!LeastAbove(t - 1) = {} THEN 0 ELSE CHOOSE n \in Set!LeastAbove(t - 1) : TRUE) = r
    BY Zenon, <1>4, OneElement
  <2> QED
    BY Zenon, <1>0, <1>6, <1>7, <1>8, <2>1 DEF Set!Seek, Set!MoveTo
<1>9. ASSUME op = "prev" PROVE Set!Prev(i)
  <2>1. (IF Set!GreatestBelow(t) = {} THEN 0 ELSE CHOOSE n \in Set!GreatestBelow(t) : TRUE) = x
    BY Zenon, <1>4, OneElement
  <2>2. iter[i].node # 0 /\ t = iter[i].node
    BY <1>9 DEF SkipInv, IterInv
  <2>3. [j \in Iterators |-> iter[j].node][i] = iter[i].node
    OBVIOUS
  <2> QED
    BY ZenonT(30), <1>0, <1>6, <1>7, <1>9, <2>1, <2>2, <2>3 DEF Set!Prev, Set!MoveTo
<1>10. ASSUME op = "last" PROVE Set!SeekToLast(i)
  <2> DEFINE S == {m \in linked[1] : \A k \in linked[1] : k <= m}
  <2>1. t = Nil
    BY <1>10 DEF SkipInv, IterInv
  <2>2. next[1][x] = Nil
    BY <1>1, <1>3, <2>1, SkipListAssumption DEF Nil
  <2>3. S = IF x = 0 THEN {} ELSE {x}
    BY Zenon, <1>4, <2>2
  <2>4. (IF S = {} THEN 0 ELSE CHOOSE n \in S : TRUE) = x
    BY ZenonT(30), <2>3, OneElement
  <2> QED
    BY Zenon, <1>0, <1>6, <1>7, <1>10, <2>4 DEF Set!SeekToLast, Set!MoveTo
<1> QED
  BY <1>7, <1>8, <1>9, <1>10

LEMMA NextStep ==
    ASSUME SkipInv, NEW i \in Iterators, Next(i) PROVE SkipInv' /\ Set!Next(i)
<1> DEFINE n == iter[i].node
<1>1. n # 0 /\ Load(i, n)
  BY DEF Next
<1>2. n \in linked[1] \cup {0}
  BY DEF SkipInv, IterInv
<1> HIDE DEF n
<1>3. /\ SkipInv' /\ UNCHANGED linked
      /\ [j \in Iterators |-> iter'[j].node]
            = [[j \in Iterators |-> iter[j].node] EXCEPT ![i] =
                  IF Set!LeastAbove(n) = {} THEN 0 ELSE CHOOSE m \in Set!LeastAbove(n) : TRUE]
  BY Zenon, <1>1, <1>2, LoadStep
<1>4. [j \in Iterators |-> iter[j].node][i] = n
  BY DEF n
<1> QED
  BY Zenon, <1>1, <1>3, <1>4 DEF Set!Next, Set!MoveTo

LEMMA SeekToFirstStep ==
    ASSUME SkipInv, NEW i \in Iterators, SeekToFirst(i) PROVE SkipInv' /\ Set!SeekToFirst(i)
<1>1. Load(i, 0) /\ 0 \in linked[1] \cup {0}
  BY DEF SeekToFirst
<1>2. /\ SkipInv' /\ UNCHANGED linked
      /\ [j \in Iterators |-> iter'[j].node]
            = [[j \in Iterators |-> iter[j].node] EXCEPT ![i] =
                  IF Set!LeastAbove(0) = {} THEN 0 ELSE CHOOSE m \in Set!LeastAbove(0) : TRUE]
  BY Zenon, <1>1, LoadStep
<1> QED
  BY <1>2 DEF Set!SeekToFirst, Set!MoveTo

\* What the set sees of a step that moves no iterator.
LEMMA SetUnmoved ==
    ASSUME SkipTypeOK, SkipTypeOK', linked[1] \subseteq linked'[1],
           \A j \in Iterators : iter'[j].node = iter[j].node
    PROVE  Set!Add
<1>1. [j \in Iterators |-> iter'[j].node] = [j \in Iterators |-> iter[j].node]
  OBVIOUS
<1>2. linked'[1] \subseteq Nodes
  BY SkipListAssumption DEF SkipTypeOK, Level
<1> QED
  BY <1>1, <1>2 DEF Set!Add

LEMMA InsertStepInv == ASSUME SkipInv, InsertStep PROVE SkipInv' /\ Set!Step
<1>1. SkipInv'
  BY StartInsertStep, FindForwardStep, FindDownStep, SetHeightStep, SetOwnNextStep, PublishStep
     DEF InsertStep
<1>2. iter' = iter
  BY Zenon DEF InsertStep, StartInsert, FindForward, FindDown, SetHeight, SetOwnNext, Publish
<1>3. linked[1] \subseteq linked'[1]
  <2>1. CASE Publish
    BY <2>1 DEF Publish, SkipInv, SkipTypeOK
  <2>2. CASE UNCHANGED linked
    BY <2>2
  <2> QED
    BY Zenon, <2>1, <2>2 DEF InsertStep, StartInsert, FindForward, FindDown, SetHeight, SetOwnNext
<1>4. Set!Add
  BY <1>1, <1>2, <1>3, SetUnmoved DEF SkipInv
<1> QED
  BY <1>1, <1>4 DEF Set!Step

LEMMA SearchStarts ==
    ASSUME SkipInv, NEW i \in Iterators,
           Prev(i) \/ SeekToLast(i) \/ (\E target \in Nodes : Seek(i, target))
           \/ SearchForward(i) \/ SearchDown(i)
    PROVE  SkipInv' /\ Set!Add
<1> USE SkipListAssumption
<1>1. SkipInv'
  <2>1. CASE Prev(i)
    <3>0. iter[i].node # 0 /\ iter[i].node \in 0 .. MaxNode
      BY Zenon, <2>1, IterType DEF Prev
    <3>1. iter[i].node # 0 /\ iter[i].node \in 1 .. Nil
      BY <3>0 DEF Nil
    <3> QED
      BY <2>1, <3>1, StartSearchStep DEF Prev
  <2>2. CASE SeekToLast(i)
    <3>1. Nil \in 1 .. Nil
      BY DEF Nil
    <3> QED
      BY <2>2, <3>1, StartSearchStep DEF SeekToLast
  <2>3. ASSUME NEW target \in Nodes, Seek(i, target) PROVE SkipInv'
    <3>1. target \in 1 .. Nil
      BY DEF Nil, Nodes
    <3> QED
      BY <2>3, <3>1, StartSearchStep DEF Seek
  <2> QED
    BY <2>1, <2>2, <2>3, SearchForwardStep, SearchDownStep
<1>2. UNCHANGED linked
  BY DEF Prev, SeekToLast, Seek, StartSearch, SearchForward, SearchDown
<1>3. \E s : iter' = [iter EXCEPT ![i].search = s]
  BY DEF Prev, SeekToLast, Seek, StartSearch, SearchForward, SearchDown
<1>4. \A j \in Iterators : iter'[j].node = iter[j].node
  BY <1>3 DEF SkipInv, SkipTypeOK
<1> QED
  BY <1>1, <1>2, <1>4, SetUnmoved DEF SkipInv

\* Every step keeps the invariant, and is a step of the set.
LEMMA SkipStep == ASSUME SkipInv, SkipNext PROVE SkipInv' /\ Set!Step
<1>1. CASE InsertStep
  BY <1>1, InsertStepInv
<1>2. ASSUME NEW i \in Iterators, IteratorStep(i) PROVE SkipInv' /\ Set!Step
  <2>1. CASE Next(i)
    BY <2>1, NextStep DEF Set!Step
  <2>2. CASE SeekToFirst(i)
    BY <2>2, SeekToFirstStep DEF Set!Step
  <2>3. CASE SearchEnd(i)
    <3>1. iter[i].search.op \in {"seek", "prev", "last"}
      BY Zenon, <2>3, IterType DEF SearchEnd
    <3>2. iter[i].search.op = "seek" => iter[i].search.target \in Nodes
      BY Zenon DEF SkipInv, IterInv
    <3> QED
      BY <2>3, <3>1, <3>2, SearchEndStep DEF Set!Step
  <2>4. CASE Prev(i) \/ SeekToLast(i) \/ (\E target \in Nodes : Seek(i, target))
             \/ SearchForward(i) \/ SearchDown(i)
    BY <2>4, SearchStarts DEF Set!Step
  <2> QED
    BY <1>2, <2>1, <2>2, <2>3, <2>4 DEF IteratorStep
<1> QED
  BY <1>1, <1>2 DEF SkipNext

LEMMA SkipStutter == ASSUME SkipInv, UNCHANGED skipVars PROVE SkipInv'
  BY ZenonT(30)
  DEF skipVars, SkipInv, SkipTypeOK, ListsSorted, EmptyAbove, InsertInv, Finding, Found, Linking,
      Fresh, SplitAt, IterInv

LEMMA CallReturns == ASSUME SkipInv, NEW i \in Iterators PROVE Returns(i)
  BY Zenon, NextStep, SeekToFirstStep, SearchEndStep DEF Returns

\* With any number of keys, levels and iterators, the writer and the lock-free
\* readers of db/skiplist.h keep every list sorted and nested in the one below.
THEOREM SkipListSorted == SkipSpec => []ListsSorted
<1>1. SkipInit => SkipInv
  BY SkipInitInv
<1>2. SkipInv /\ [SkipNext]_skipVars => SkipInv'
  BY SkipStep, SkipStutter
<1>3. SkipInv => ListsSorted
  BY DEF SkipInv
<1> QED
  BY <1>1, <1>2, <1>3, PTL DEF SkipSpec

\* With any number of keys, levels and iterators, the skip list implements a
\* set that only grows, and each call of an iterator returns what it would if
\* it looked at the whole set at the moment of its last load (db/skiplist.h).
THEOREM SkipListIsSet == SkipSpec => ReadersSeeSet
<1>1. SkipInit => SkipInv
  BY SkipInitInv
<1>2. SkipInv /\ [SkipNext]_skipVars => SkipInv'
  BY SkipStep, SkipStutter
<1>3. SkipInit => Set!Init
  BY SkipListAssumption DEF SkipInit, Set!Init, Level
<1>4. SkipInv /\ [SkipNext]_skipVars
          => [Set!Step]_<<linked[1], [i \in Iterators |-> iter[i].node]>>
  BY SkipStep DEF skipVars
<1>5. SkipInv /\ [SkipNext]_skipVars => [\A i \in Iterators : Returns(i)]_skipVars
  BY CallReturns
<1> QED
  BY <1>1, <1>2, <1>3, <1>4, <1>5, PTL DEF SkipSpec, ReadersSeeSet, Set!Spec
=============================================================================
