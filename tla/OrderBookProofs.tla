--------------------------- MODULE OrderBookProofs ---------------------------
(***************************************************************************)
(* The order book, for every number of stocks, levels, rows and orders.    *)
(*   OrderBook: under any words the segment trees stay exact, a frame      *)
(*   shows the best rows, and a publication gives the books back.          *)
(*   FeedBook: under the generator's events the levels hold the sums of    *)
(*   the market's orders, and the book implements MarketByPrice.           *)
(*   SoftwareBook: the benchmark's book keeps in step with the hardware's. *)
(***************************************************************************)
EXTENDS SoftwareBook, BasicLemmas, FiniteSetTheorems

\* What an inner node holds: the preferred of its children.
NodeOk(tree, side, n) ==
  tree[n] = choose_preferred(tree[2 * n], tree[2 * n + 1], side)

LeavesOk(tree, qty) == \A l \in Level : tree[l + MaxLevels] = LeafMark(qty, l)

Inner == 1 .. MaxLevels - 1

LEMMA ConsistentNodes ==
  ASSUME NEW book, NEW side
  PROVE  TreeConsistent(book, side) <=>
           /\ LeavesOk(book.segment_tree, book.price_quantity)
           /\ \A n \in Inner : NodeOk(book.segment_tree, side, n)
BY DEF TreeConsistent, LeavesOk, NodeOk, Inner

LEMMA Sizes ==
  /\ MaxLevels \in Nat /\ MaxLevels > 0
  /\ WordSize \in Nat /\ 2 * MaxLevels < WordSize
  /\ NEG_ONE \in Word /\ NEG_ONE \notin Level /\ NEG_ONE \in Int
  /\ Level \subseteq Word /\ Level \subseteq Node
BY SizeAssumption DEF NEG_ONE, Word, Level, Node

LEMMA PreferredType ==
  ASSUME NEW a, NEW b, NEW side
  PROVE  choose_preferred(a, b, side) \in {a, b}
BY DEF choose_preferred

LEMMA MarkType ==
  ASSUME NEW qty, NEW leaf \in Level
  PROVE  LeafMark(qty, leaf) \in Word
BY Sizes DEF LeafMark

-----------------------------------------------------------------------------
(* bubble_up.                                                              *)

\* The loop of bubble_up: the node it is at, and the tree so far.
Bubble == [node : 0 .. MaxLevels - 1, tree : [Node -> Word]]

LEMMA StepType ==
  ASSUME NEW side \in Side, NEW s \in Bubble
  PROVE  BubbleStep(side, s) \in Bubble
<1>1. CASE s.node = 0
  BY <1>1 DEF BubbleStep
<1>2. CASE s.node # 0
  <2>1. s.node \in Inner /\ s.node \in Int /\ s.tree \in [Node -> Word]
    BY <1>2, Sizes DEF Bubble, Inner
  <2>2. 2 * s.node \in Node /\ 2 * s.node + 1 \in Node /\ s.node \in Node
    BY SMTT(30), <2>1, Sizes DEF Node, Inner
  <2>3. choose_preferred(s.tree[2 * s.node], s.tree[2 * s.node + 1], side) \in Word
    BY <2>1, <2>2, PreferredType
  <2>4. s.node \div 2 \in 0 .. MaxLevels - 1
    BY <2>1, Sizes DEF Inner
  <2> QED
    BY <1>2, <2>1, <2>3, <2>4 DEF BubbleStep, Bubble
<1> QED
  BY <1>1, <1>2

\* The state of the loop before its first turn.
BubbleStart(tree, qty, leaf) ==
  [node |-> (leaf + MaxLevels) \div 2,
   tree |-> [tree EXCEPT ![leaf + MaxLevels] = LeafMark(qty, leaf)]]

LEMMA StartType ==
  ASSUME NEW tree \in [Node -> Word], NEW qty, NEW leaf \in Level
  PROVE  BubbleStart(tree, qty, leaf) \in Bubble
<1>1. (leaf + MaxLevels) \div 2 \in 0 .. MaxLevels - 1
  BY Sizes DEF Level
<1>2. LeafMark(qty, leaf) \in Word
  BY MarkType
<1> QED
  BY <1>1, <1>2 DEF BubbleStart, Bubble

\* bubble_up is the last of MaxLevels + 1 states, each the step of the one before.
LEMMA BubbleLoop ==
  ASSUME NEW tree \in [Node -> Word], NEW qty, NEW leaf \in Level, NEW side \in Side
  PROVE  \E g \in [0 .. MaxLevels -> Bubble] :
           /\ g[0] = BubbleStart(tree, qty, leaf)
           /\ \A k \in 0 .. MaxLevels - 1 : g[k + 1] = BubbleStep(side, g[k])
           /\ bubble_up(tree, qty, leaf, side) = g[MaxLevels].tree
<1> DEFINE s0 == BubbleStart(tree, qty, leaf)
           F == [k \in 1 .. MaxLevels |-> [s \in Bubble |-> BubbleStep(side, s)]]
           Rec(g) == g = [k \in 0 .. MaxLevels |->
                            IF k = 0 THEN s0 ELSE BubbleStep(side, g[k - 1])]
           loop == CHOOSE g : Rec(g)
<1>1. F \in Bodies(Bubble, MaxLevels)
  BY StepType DEF Bodies
<1>2. s0 \in Bubble /\ MaxLevels \in Nat
  BY StartType, Sizes
<1>3. \E g : g \in States(Bubble, MaxLevels) /\ IsRun(g, s0, MaxLevels, F)
  <2> HIDE DEF F, s0
  <2> QED
    BY <1>1, <1>2, Iterates, Zenon
<1>4. \E g : Rec(g)
  <2>1. PICK g \in States(Bubble, MaxLevels) : IsRun(g, s0, MaxLevels, F)
    BY <1>3
  <2>2. \A k \in 1 .. MaxLevels : F[k][g[k - 1]] = BubbleStep(side, g[k - 1])
    BY <1>2, <2>1 DEF States
  <2>3. \A k \in 0 .. MaxLevels :
          g[k] = IF k = 0 THEN s0 ELSE BubbleStep(side, g[k - 1])
    <3> HIDE DEF F, s0
    <3> QED
      BY <2>1, <2>2, <1>2 DEF IsRun
  <2>4. Rec(g)
    <3> HIDE DEF F, s0
    <3> QED
      BY <2>1, <2>3 DEF States
  <2> QED
    BY <2>4
<1>5. Rec(loop)
  BY <1>4
<1>6. bubble_up(tree, qty, leaf, side) = loop[MaxLevels].tree
  BY DEF bubble_up, BubbleStart
<1> HIDE DEF loop, F
<1>7. /\ loop[0] = s0
      /\ \A k \in 0 .. MaxLevels - 1 : loop[k + 1] = BubbleStep(side, loop[k])
  <2> HIDE DEF s0
  <2> QED
    BY <1>5, <1>2
<1>8. loop \in [0 .. MaxLevels -> Bubble]
  <2> DEFINE P == {k \in 0 .. MaxLevels : loop[k] \in Bubble}
  <2>1. 0 \in P
    BY <1>2, <1>7
  <2>2. \A k \in 0 .. MaxLevels : k < MaxLevels /\ k \in P => k + 1 \in P
    BY <1>2, <1>7, StepType
  <2>3. 0 .. MaxLevels \subseteq P
    <3> HIDE DEF P
    <3> QED
      BY <1>2, <2>1, <2>2, IntervalInduction
  <2> QED
    BY <1>5, <2>3
<1> QED
  BY <1>6, <1>7, <1>8

\* Between two turns every leaf holds its mark, and only the node about to be
\* recomputed may differ from what its children say.
BubbleInv(s, qty, side) ==
  /\ LeavesOk(s.tree, qty)
  /\ \A n \in Inner : n # s.node => NodeOk(s.tree, side, n)

LEMMA StartInv ==
  ASSUME NEW book \in Book, NEW side \in Side, NEW leaf \in Level, NEW value \in Word,
         TreeConsistent(book, side)
  PROVE  BubbleInv(BubbleStart(book.segment_tree,
                               [book.price_quantity EXCEPT ![leaf] = value], leaf),
                   [book.price_quantity EXCEPT ![leaf] = value], side)
<1> DEFINE qty == [book.price_quantity EXCEPT ![leaf] = value]
           s == BubbleStart(book.segment_tree, qty, leaf)
<1>1. /\ book.segment_tree \in [Node -> Word] /\ book.price_quantity \in [Level -> Word]
      /\ LeavesOk(book.segment_tree, book.price_quantity)
      /\ \A n \in Inner : NodeOk(book.segment_tree, side, n)
  BY ConsistentNodes DEF Book
<1>2. s.node = (leaf + MaxLevels) \div 2
      /\ s.tree = [book.segment_tree EXCEPT ![leaf + MaxLevels] = LeafMark(qty, leaf)]
  BY DEF BubbleStart
<1>3. ASSUME NEW l \in Level PROVE s.tree[l + MaxLevels] = LeafMark(qty, l)
  <2>1. l + MaxLevels \in Node
    BY Sizes DEF Level, Node
  <2>2. CASE l = leaf
    BY <1>1, <1>2, <2>1, <2>2
  <2>3. CASE l # leaf
    <3>1. s.tree[l + MaxLevels] = book.segment_tree[l + MaxLevels]
      BY <1>1, <1>2, <2>1, <2>3, Sizes DEF Level
    <3>2. qty[l] = book.price_quantity[l]
      BY <1>1, <2>3
    <3> QED
      BY <1>1, <3>1, <3>2 DEF LeavesOk, LeafMark
  <2> QED
    BY <2>2, <2>3
<1>4. ASSUME NEW n \in Inner, n # s.node PROVE NodeOk(s.tree, side, n)
  <2>1. n \in Node /\ 2 * n \in Node /\ 2 * n + 1 \in Node
    BY Sizes DEF Inner, Node
  <2>2. n # leaf + MaxLevels /\ 2 * n # leaf + MaxLevels /\ 2 * n + 1 # leaf + MaxLevels
    BY <1>2, <1>4, Sizes DEF Inner, Level
  <2>3. /\ s.tree[n] = book.segment_tree[n]
        /\ s.tree[2 * n] = book.segment_tree[2 * n]
        /\ s.tree[2 * n + 1] = book.segment_tree[2 * n + 1]
    BY <1>1, <1>2, <2>1, <2>2
  <2> QED
    BY <1>1, <2>3 DEF NodeOk
<1> QED
  BY <1>3, <1>4 DEF BubbleInv, LeavesOk

\* A turn keeps that, moves strictly upwards, and leaves slot 0 of the array alone.
LEMMA StepInv ==
  ASSUME NEW side \in Side, NEW s \in Bubble, NEW qty, BubbleInv(s, qty, side)
  PROVE  LET t == BubbleStep(side, s)
         IN  /\ BubbleInv(t, qty, side)
             /\ t.node = 0 \/ t.node < s.node
             /\ t.tree[0] = s.tree[0]
<1>1. CASE s.node = 0
  BY <1>1 DEF BubbleStep
<1>2. CASE s.node # 0
  <2> DEFINE c == s.node
             t == BubbleStep(side, s)
             v == choose_preferred(s.tree[2 * c], s.tree[2 * c + 1], side)
  <2>1. c \in Inner /\ c \in Int /\ s.tree \in [Node -> Word]
    BY <1>2, Sizes DEF Bubble, Inner
  <2>2. t.node = c \div 2 /\ t.tree = [s.tree EXCEPT ![c] = v]
    BY <1>2 DEF BubbleStep
  <2> HIDE DEF t, v
  <2>3. c \in Node /\ 0 \in Node
    BY <2>1, Sizes DEF Inner, Node
  <2>4. \A n \in Node : n # c => t.tree[n] = s.tree[n]
    BY <2>1, <2>2, <2>3
  <2>5. t.tree[c] = v
    BY <2>1, <2>2, <2>3
  <2>6. LeavesOk(t.tree, qty)
    <3>1. \A l \in Level : l + MaxLevels \in Node /\ l + MaxLevels # c
      BY <2>1, Sizes DEF Level, Node, Inner
    <3> QED
      BY <2>4, <3>1 DEF BubbleInv, LeavesOk
  <2>7. ASSUME NEW n \in Inner, n # t.node PROVE NodeOk(t.tree, side, n)
    <3>1. n \in Node /\ 2 * n \in Node /\ 2 * n + 1 \in Node
      BY Sizes DEF Inner, Node
    <3>2. 2 * n # c /\ 2 * n + 1 # c
      BY <2>1, <2>2, <2>7 DEF Inner
    <3>3. t.tree[2 * n] = s.tree[2 * n] /\ t.tree[2 * n + 1] = s.tree[2 * n + 1]
      BY <2>4, <3>1, <3>2
    <3>4. CASE n = c
      BY <2>5, <3>3, <3>4 DEF NodeOk, v
    <3>5. CASE n # c
      BY <2>4, <3>1, <3>3, <3>5 DEF NodeOk, BubbleInv
    <3> QED
      BY <3>4, <3>5
  <2>8. t.node < c /\ t.tree[0] = s.tree[0]
    BY <2>1, <2>2, <2>3, <2>4, <1>2 DEF Inner
  <2> QED
    BY <2>6, <2>7, <2>8 DEF BubbleInv, t
<1> QED
  BY <1>1, <1>2

\* Writing a level of a consistent book leaves it consistent, and changes nothing
\* but that level and the tree.
LEMMA SetLevelKeeps ==
  ASSUME NEW book \in Book, NEW side \in Side, NEW leaf \in Level, NEW value \in Word,
         TreeConsistent(book, side)
  PROVE  LET b == SetLevel(book, side, leaf, value)
         IN  /\ b \in Book
             /\ TreeConsistent(b, side)
             /\ b.price_quantity = [book.price_quantity EXCEPT ![leaf] = value]
             /\ b.segment_tree[0] = book.segment_tree[0]
<1> DEFINE qty == [book.price_quantity EXCEPT ![leaf] = value]
           s0 == BubbleStart(book.segment_tree, qty, leaf)
<1>1. book.segment_tree \in [Node -> Word] /\ qty \in [Level -> Word] /\ MaxLevels \in Nat
  BY Sizes DEF Book
<1>2. PICK g \in [0 .. MaxLevels -> Bubble] :
        /\ g[0] = s0
        /\ \A k \in 0 .. MaxLevels - 1 : g[k + 1] = BubbleStep(side, g[k])
        /\ bubble_up(book.segment_tree, qty, leaf, side) = g[MaxLevels].tree
  BY <1>1, BubbleLoop
<1>3. BubbleInv(s0, qty, side)
  BY StartInv
<1>4. s0.tree[0] = book.segment_tree[0] /\ s0.node \in 0 .. MaxLevels - 1
  BY SMTT(30), <1>1, Sizes, StartType DEF BubbleStart, Level, Node, Bubble
<1> HIDE DEF qty, s0
<1> DEFINE Ok(s, k) == /\ BubbleInv(s, qty, side)
                       /\ s.node = 0 \/ s.node + k < MaxLevels
                       /\ s.tree[0] = book.segment_tree[0]
           P == {k \in 0 .. MaxLevels : Ok(g[k], k)}
<1>5. 0 \in P
  BY <1>1, <1>2, <1>3, <1>4
<1>6. ASSUME NEW k \in 0 .. MaxLevels, k < MaxLevels, k \in P PROVE k + 1 \in P
  <2>1. g[k] \in Bubble /\ g[k + 1] = BubbleStep(side, g[k]) /\ g[k + 1] \in Bubble
    BY <1>1, <1>2, <1>6
  <2>2. /\ BubbleInv(g[k + 1], qty, side)
        /\ g[k + 1].node = 0 \/ g[k + 1].node < g[k].node
        /\ g[k + 1].tree[0] = g[k].tree[0]
    BY <1>6, <2>1, StepInv
  <2>3. g[k].node \in Int /\ g[k + 1].node \in Nat
    BY <2>1 DEF Bubble
  <2> QED
    BY <1>1, <1>6, <2>2, <2>3
<1>7. Ok(g[MaxLevels], MaxLevels) /\ g[MaxLevels] \in Bubble
  <2>1. 0 .. MaxLevels \subseteq P
    <3> HIDE DEF P
    <3> QED
      BY <1>1, <1>5, <1>6, IntervalInduction
  <2> QED
    BY <1>1, <1>2, <2>1
<1>8. g[MaxLevels].node = 0
  BY <1>1, <1>7 DEF Bubble
<1>9. SetLevel(book, side, leaf, value) =
        [price_quantity |-> qty, segment_tree |-> g[MaxLevels].tree]
  BY <1>2 DEF SetLevel, qty
<1>10. g[MaxLevels].tree \in [Node -> Word]
  BY <1>7 DEF Bubble
<1>11. TreeConsistent(SetLevel(book, side, leaf, value), side)
  BY <1>7, <1>8, <1>9, ConsistentNodes DEF BubbleInv, Inner
<1> QED
  BY <1>1, <1>7, <1>9, <1>10, <1>11 DEF Book, qty

-----------------------------------------------------------------------------
(* What a consistent tree says.                                            *)

Nodes == 1 .. 2 * MaxLevels - 1

\* Induction from the leaves to the root.
LEMMA UpwardInduction ==
  ASSUME NEW P,
         \A l \in Level : l + MaxLevels \in P,
         \A n \in Inner : 2 * n \in P /\ 2 * n + 1 \in P => n \in P
  PROVE  Nodes \subseteq P
<1> SUFFICES ASSUME ~ (Nodes \subseteq P) PROVE FALSE
  OBVIOUS
<1> DEFINE T == {2 * MaxLevels - n : n \in Nodes \ P}
<1>1. T \in SUBSET Nat /\ T # {}
  BY Sizes DEF Nodes
<1>2. PICK x \in T : \A y \in T : x <= y
  BY <1>1, LeastNatural
<1>3. PICK n \in Nodes \ P : x = 2 * MaxLevels - n
  BY <1>2
<1>4. \A m \in Nodes : m > n => m \in P
  <2>1. SUFFICES ASSUME NEW m \in Nodes, m > n, m \notin P PROVE FALSE
    OBVIOUS
  <2>2. 2 * MaxLevels - n <= 2 * MaxLevels - m
    BY <1>2, <1>3, <2>1
  <2>3. m \in Int /\ n \in Int /\ MaxLevels \in Int
    BY <2>1, <1>3, Sizes DEF Nodes
  <2> QED
    BY <2>1, <2>2, <2>3
<1>5. CASE n \in Inner
  <2>1. /\ 2 * n \in Nodes /\ 2 * n + 1 \in Nodes
        /\ 2 * n > n /\ 2 * n + 1 > n
    BY <1>5, Sizes DEF Inner, Nodes
  <2> QED
    BY <1>3, <1>4, <1>5, <2>1
<1>6. CASE n \notin Inner
  <2>1. n - MaxLevels \in Level /\ (n - MaxLevels) + MaxLevels = n
    BY <1>3, <1>6, Sizes DEF Inner, Nodes, Level
  <2> QED
    BY <1>3, <2>1
<1> QED
  BY <1>5, <1>6

\* Induction from the root to the leaves.
LEMMA DownwardInduction ==
  ASSUME NEW P,
         1 \in P,
         \A n \in Inner : n \in P => 2 * n \in P /\ 2 * n + 1 \in P
  PROVE  Nodes \subseteq P
<1> SUFFICES ASSUME ~ (Nodes \subseteq P) PROVE FALSE
  OBVIOUS
<1> DEFINE T == Nodes \ P
<1>1. T \in SUBSET Nat /\ T # {}
  BY Sizes DEF Nodes
<1>2. PICK n \in T : \A y \in T : n <= y
  BY <1>1, LeastNatural
<1>3. PICK p \in Inner : n = 2 * p \/ n = 2 * p + 1
  <2>1. n \in Nodes /\ n # 1
    BY <1>2
  <2>2. n \div 2 \in Inner /\ (n = 2 * (n \div 2) \/ n = 2 * (n \div 2) + 1)
    BY <2>1, Sizes DEF Nodes, Inner
  <2> QED
    BY <2>2
<1>4. p \in Nodes /\ p < n
  BY <1>3, Sizes DEF Inner, Nodes
<1>5. p \in P
  BY <1>2, <1>4, Sizes DEF Nodes
<1> QED
  BY <1>2, <1>3, <1>5

\* A node holds NEG_ONE or the index of a level with quantity.
LEMMA NodeHoldsOccupied ==
  ASSUME NEW book \in Book, NEW side \in Side, TreeConsistent(book, side),
         NEW n \in Nodes
  PROVE  book.segment_tree[n] \in Occupied(book) \cup {NEG_ONE}
<1> DEFINE tree == book.segment_tree
           P == {m \in Nodes : tree[m] \in Occupied(book) \cup {NEG_ONE}}
<1>1. LeavesOk(tree, book.price_quantity) /\ \A m \in Inner : NodeOk(tree, side, m)
  BY ConsistentNodes
<1>2. ASSUME NEW l \in Level PROVE l + MaxLevels \in P
  <2>1. l + MaxLevels \in Nodes
    BY Sizes DEF Level, Nodes
  <2> QED
    BY <1>1, <2>1 DEF LeavesOk, LeafMark, Occupied
<1>3. ASSUME NEW m \in Inner, 2 * m \in P, 2 * m + 1 \in P PROVE m \in P
  <2>1. m \in Nodes
    BY Sizes DEF Inner, Nodes
  <2>2. tree[m] \in {tree[2 * m], tree[2 * m + 1]}
    BY <1>1, PreferredType DEF NodeOk
  <2> QED
    BY <1>3, <2>1, <2>2
<1> HIDE DEF P
<1>4. Nodes \subseteq P
  BY <1>2, <1>3, UpwardInduction
<1> QED
  BY <1>4 DEF P

\* a is NEG_ONE only when b is, and is no worse than b.
NoWorse(side, a, b) == b = NEG_ONE \/ (a # NEG_ONE /\ (a = b \/ Better(side, a, b)))

\* The root holds the best of the occupied levels.
LEMMA RootBest ==
  ASSUME NEW book \in Book, NEW side \in Side, TreeConsistent(book, side)
  PROVE  LET root == book.segment_tree[1]
         IN  /\ root \in Occupied(book) \cup {NEG_ONE}
             /\ root = NEG_ONE => Occupied(book) = {}
             /\ root # NEG_ONE => \A l \in Occupied(book) \ {root} : Better(side, root, l)
<1> DEFINE tree == book.segment_tree
           P == {n \in Nodes : NoWorse(side, tree[1], tree[n])}
<1>1. LeavesOk(tree, book.price_quantity) /\ \A n \in Inner : NodeOk(tree, side, n)
  BY ConsistentNodes
<1>2. 1 \in Nodes
  BY Sizes DEF Nodes
<1>3. \A n \in Nodes : tree[n] \in Occupied(book) \cup {NEG_ONE}
  BY NodeHoldsOccupied
<1>4. \A n \in Nodes : tree[n] \in Int
  BY <1>3, Sizes DEF Occupied, Level
<1>5. ASSUME NEW n \in Inner, n \in P PROVE 2 * n \in P /\ 2 * n + 1 \in P
  <2>1. n \in Nodes /\ 2 * n \in Nodes /\ 2 * n + 1 \in Nodes
    BY Sizes DEF Inner, Nodes
  <2>2. tree[n] = choose_preferred(tree[2 * n], tree[2 * n + 1], side)
    BY <1>1 DEF NodeOk
  <2>3. NoWorse(side, tree[n], tree[2 * n]) /\ NoWorse(side, tree[n], tree[2 * n + 1])
    BY <1>4, <2>1, <2>2 DEF NoWorse, Better, choose_preferred
  <2> HIDE DEF tree
  <2>4. \A a, b, c \in Int : NoWorse(side, a, b) /\ NoWorse(side, b, c) => NoWorse(side, a, c)
    BY DEF NoWorse, Better
  <2> QED
    BY <1>2, <1>4, <1>5, <2>1, <2>3, <2>4
<1>6. Nodes \subseteq P
  <2>1. 1 \in P
    BY <1>2 DEF NoWorse
  <2> HIDE DEF P
  <2> QED
    BY <1>5, <2>1, DownwardInduction
<1>7. ASSUME NEW l \in Occupied(book) PROVE NoWorse(side, tree[1], l)
  <2>1. l \in Level /\ l + MaxLevels \in Nodes /\ tree[l + MaxLevels] = l
    BY <1>1, Sizes DEF Occupied, Level, Nodes, LeavesOk, LeafMark
  <2> QED
    BY <1>6, <2>1
<1>8. \A l \in Occupied(book) : l # NEG_ONE
  BY Sizes DEF Occupied
<1> QED
  BY <1>2, <1>3, <1>7, <1>8 DEF NoWorse

\* Level quantities determine the tree, but for the unused slot 0.
LEMMA TreeIsDetermined ==
  ASSUME NEW a \in Book, NEW b \in Book, NEW side \in Side,
         TreeConsistent(a, side), TreeConsistent(b, side),
         a.price_quantity = b.price_quantity,
         a.segment_tree[0] = b.segment_tree[0]
  PROVE  a = b
<1> DEFINE P == {n \in Nodes : a.segment_tree[n] = b.segment_tree[n]}
<1>1. /\ LeavesOk(a.segment_tree, a.price_quantity) /\ LeavesOk(b.segment_tree, b.price_quantity)
      /\ \A n \in Inner : NodeOk(a.segment_tree, side, n) /\ NodeOk(b.segment_tree, side, n)
  BY ConsistentNodes
<1>2. \A l \in Level : l + MaxLevels \in P
  BY <1>1, Sizes DEF Level, Nodes, LeavesOk
<1>3. \A n \in Inner : 2 * n \in P /\ 2 * n + 1 \in P => n \in P
  BY <1>1, Sizes DEF Inner, Nodes, NodeOk
<1>4. Nodes \subseteq P
  <2> HIDE DEF P
  <2> QED
    BY <1>2, <1>3, UpwardInduction
<1>5. \A n \in Node : n = 0 \/ n \in Nodes
  BY Sizes DEF Node, Nodes
<1>6. /\ a.segment_tree \in [Node -> Word] /\ b.segment_tree \in [Node -> Word]
      /\ a = [price_quantity |-> a.price_quantity, segment_tree |-> a.segment_tree]
      /\ b = [price_quantity |-> b.price_quantity, segment_tree |-> b.segment_tree]
  BY DEF Book
<1>7. a.segment_tree = b.segment_tree
  BY <1>4, <1>5, <1>6
<1> QED
  BY <1>6, <1>7

-----------------------------------------------------------------------------
(* get_top_5.                                                              *)

Row == [index : Level, qty : Word]

LEMMA RowsType ==
  ASSUME NEW rows \in Seq(Row)
  PROVE  /\ Len(rows) \in Nat
         /\ \A i \in 1 .. Len(rows) : rows[i].index \in Level /\ rows[i].qty \in Word
<1>1. Len(rows) \in Nat /\ \A i \in 1 .. Len(rows) : rows[i] \in Row
  OBVIOUS
<1> QED
  BY <1>1 DEF Row

\* The first loop of get_top_5: the book, and the rows taken out of it.
Popped(side) == {s \in [book : Book, taken : Seq(Row)] : TreeConsistent(s.book, side)}

PopStep(side, s) ==
  LET best == s.book.segment_tree[1]
  IN  IF best = NEG_ONE THEN s
      ELSE [book |-> SetLevel(s.book, side, best, 0),
            taken |-> Append(s.taken, [index |-> best, qty |-> s.book.price_quantity[best]])]

\* A turn takes out an occupied level, or nothing.
LEMMA PopStepEffect ==
  ASSUME NEW side \in Side, NEW s \in Popped(side)
  PROVE  LET best == s.book.segment_tree[1]
             t == PopStep(side, s)
         IN  /\ t \in Popped(side)
             /\ t.book.segment_tree[0] = s.book.segment_tree[0]
             /\ \/ best = NEG_ONE /\ t = s
                \/ /\ best \in Level
                   /\ s.book.price_quantity[best] > 0
                   /\ t.taken = Append(s.taken, [index |-> best,
                                                 qty |-> s.book.price_quantity[best]])
                   /\ t.book.price_quantity = [s.book.price_quantity EXCEPT ![best] = 0]
<1> DEFINE best == s.book.segment_tree[1]
           t == PopStep(side, s)
<1>1. s.book \in Book /\ s.taken \in Seq(Row) /\ TreeConsistent(s.book, side)
  BY DEF Popped
<1>2. CASE best = NEG_ONE
  BY <1>2 DEF PopStep
<1>3. CASE best # NEG_ONE
  <2>1. best \in Level /\ s.book.price_quantity[best] > 0
    BY <1>1, <1>3, RootBest DEF Occupied
  <2>2. 0 \in Word
    BY Sizes DEF Word
  <2> DEFINE b == SetLevel(s.book, side, best, 0)
             row == [index |-> best, qty |-> s.book.price_quantity[best]]
  <2>3. /\ b \in Book
        /\ TreeConsistent(b, side)
        /\ b.price_quantity = [s.book.price_quantity EXCEPT ![best] = 0]
        /\ b.segment_tree[0] = s.book.segment_tree[0]
    BY <1>1, <2>1, <2>2, SetLevelKeeps
  <2>4. row \in Row
    BY <1>1, <2>1 DEF Row, Book
  <2>5. t = [book |-> b, taken |-> Append(s.taken, row)]
    BY <1>3 DEF PopStep
  <2>6. Append(s.taken, row) \in Seq(Row)
    <3> HIDE DEF row
    <3> QED
      BY <1>1, <2>4
  <2> HIDE DEF b, row, t
  <2>7. /\ t \in Popped(side)
        /\ t.book = b /\ t.taken = Append(s.taken, row)
    BY <2>3, <2>5, <2>6 DEF Popped
  <2> QED
    BY <2>1, <2>3, <2>7 DEF row, t
<1> QED
  BY <1>2, <1>3

\* PopBest is the last of CacheSize + 1 states, each the step of the one before.
LEMMA PopLoop ==
  ASSUME NEW side \in Side, NEW book \in Book, TreeConsistent(book, side)
  PROVE  \E g \in [0 .. CacheSize -> Popped(side)] :
           /\ g[0] = [book |-> book, taken |-> <<>>]
           /\ \A k \in 0 .. CacheSize - 1 : g[k + 1] = PopStep(side, g[k])
           /\ PopBest(book, side) = g[CacheSize]
<1> DEFINE s0 == [book |-> book, taken |-> <<>>]
           F == [k \in 1 .. CacheSize |-> [s \in Popped(side) |-> PopStep(side, s)]]
           Rec(g) == g = [k \in 0 .. CacheSize |->
                            IF k = 0 THEN s0 ELSE PopStep(side, g[k - 1])]
           loop == CHOOSE g : Rec(g)
<1>1. \A s \in Popped(side) : PopStep(side, s) \in Popped(side)
  BY PopStepEffect
<1>2. s0 \in Popped(side) /\ CacheSize \in Nat
  BY SizeAssumption DEF Popped
<1>3. PopBest(book, side) = loop[CacheSize]
  BY DEF PopBest, PopStep
<1> HIDE DEF s0
<1>4. F \in Bodies(Popped(side), CacheSize)
  BY <1>1 DEF Bodies
<1>5. \E g : g \in States(Popped(side), CacheSize) /\ IsRun(g, s0, CacheSize, F)
  <2> HIDE DEF F, s0
  <2> QED
    BY <1>2, <1>4, Iterates, Zenon
<1>6. \E g : Rec(g)
  <2>1. PICK g \in States(Popped(side), CacheSize) : IsRun(g, s0, CacheSize, F)
    BY <1>5
  <2>2. \A k \in 1 .. CacheSize : F[k][g[k - 1]] = PopStep(side, g[k - 1])
    BY <1>2, <2>1 DEF States
  <2> HIDE DEF F
  <2>3. \A k \in 0 .. CacheSize : g[k] = IF k = 0 THEN s0 ELSE PopStep(side, g[k - 1])
    BY <2>1, <2>2, <1>2 DEF IsRun
  <2>4. Rec(g)
    BY <2>1, <2>3 DEF States
  <2> QED
    BY <2>4
<1>7. Rec(loop)
  BY <1>6
<1> HIDE DEF loop, F
<1>8. /\ loop[0] = s0
      /\ \A k \in 0 .. CacheSize - 1 : loop[k + 1] = PopStep(side, loop[k])
  BY <1>2, <1>7
<1>9. loop \in [0 .. CacheSize -> Popped(side)]
  <2> DEFINE P == {k \in 0 .. CacheSize : loop[k] \in Popped(side)}
  <2>1. 0 \in P
    BY <1>2, <1>8
  <2>2. \A k \in 0 .. CacheSize : k < CacheSize /\ k \in P => k + 1 \in P
    BY <1>1, <1>2, <1>8
  <2>3. 0 .. CacheSize \subseteq P
    <3> HIDE DEF P
    <3> QED
      BY <1>2, <2>1, <2>2, IntervalInduction
  <2> QED
    BY <1>7, <2>3
<1> QED
  BY <1>3, <1>8, <1>9 DEF s0

\* Between two turns: a row shows the quantity its level had in the book, a level
\* that was taken is empty, and any other has its quantity still.
PopInv(s, book) ==
  /\ \A i \in 1 .. Len(s.taken) :
       /\ s.taken[i].qty = book.price_quantity[s.taken[i].index]
       /\ s.book.price_quantity[s.taken[i].index] = 0
  /\ \A l \in Level :
       (\A i \in 1 .. Len(s.taken) : s.taken[i].index # l)
         => s.book.price_quantity[l] = book.price_quantity[l]
  /\ s.book.segment_tree[0] = book.segment_tree[0]

LEMMA PopStepInv ==
  ASSUME NEW side \in Side, NEW book \in Book, NEW s \in Popped(side), PopInv(s, book)
  PROVE  PopInv(PopStep(side, s), book)
<1> DEFINE best == s.book.segment_tree[1]
           t == PopStep(side, s)
           row == [index |-> best, qty |-> s.book.price_quantity[best]]
<1>1. /\ t \in Popped(side)
      /\ t.book.segment_tree[0] = s.book.segment_tree[0]
      /\ \/ t = s
         \/ /\ best \in Level
            /\ s.book.price_quantity[best] > 0
            /\ t.taken = Append(s.taken, row)
            /\ t.book.price_quantity = [s.book.price_quantity EXCEPT ![best] = 0]
  BY PopStepEffect
<1> HIDE DEF t, best
<1>2. CASE t = s
  BY <1>2 DEF t
<1>3. CASE /\ best \in Level
           /\ s.book.price_quantity[best] > 0
           /\ t.taken = Append(s.taken, row)
           /\ t.book.price_quantity = [s.book.price_quantity EXCEPT ![best] = 0]
  <2>1. /\ s.taken \in Seq(Row) /\ s.book.price_quantity \in [Level -> Word]
        /\ Len(s.taken) \in Nat
        /\ \A i \in 1 .. Len(s.taken) : s.taken[i].index \in Level
    <3>1. s.taken \in Seq(Row) /\ s.book \in Book
      BY DEF Popped
    <3> QED
      BY <3>1, RowsType DEF Book
  <2>2. \A i \in 1 .. Len(s.taken) : s.taken[i].index # best
    BY <1>3, <2>1 DEF PopInv
  <2>3. s.book.price_quantity[best] = book.price_quantity[best]
    BY <1>3, <2>2 DEF PopInv
  <2>4. /\ Len(t.taken) = Len(s.taken) + 1
        /\ \A i \in 1 .. Len(s.taken) : t.taken[i] = s.taken[i]
        /\ t.taken[Len(s.taken) + 1] = row
    BY <1>3, <2>1
  <2>5. ASSUME NEW i \in 1 .. Len(t.taken)
        PROVE  /\ t.taken[i].qty = book.price_quantity[t.taken[i].index]
               /\ t.book.price_quantity[t.taken[i].index] = 0
    <3>1. CASE i \in 1 .. Len(s.taken)
      <4>1. t.taken[i] = s.taken[i] /\ s.taken[i].index \in Level /\ s.taken[i].index # best
        BY <2>1, <2>2, <2>4, <3>1
      <4> QED
        BY <1>3, <2>1, <3>1, <4>1 DEF PopInv
    <3>2. CASE i = Len(s.taken) + 1
      BY <1>3, <2>1, <2>3, <2>4, <3>2
    <3> QED
      BY <2>1, <2>4, <3>1, <3>2
  <2>6. ASSUME NEW l \in Level, \A i \in 1 .. Len(t.taken) : t.taken[i].index # l
        PROVE  t.book.price_quantity[l] = book.price_quantity[l]
    <3>1. l # best
      BY <2>1, <2>4, <2>6
    <3>2. \A i \in 1 .. Len(s.taken) : s.taken[i].index # l
      BY <2>1, <2>4, <2>6
    <3> QED
      BY <1>3, <2>1, <3>1, <3>2 DEF PopInv
  <2> QED
    BY <1>1, <2>5, <2>6 DEF PopInv, t
<1> QED
  BY <1>1, <1>2, <1>3

LEMMA PopResult ==
  ASSUME NEW side \in Side, NEW book \in Book, TreeConsistent(book, side)
  PROVE  PopBest(book, side) \in Popped(side) /\ PopInv(PopBest(book, side), book)
<1>1. PICK g \in [0 .. CacheSize -> Popped(side)] :
        /\ g[0] = [book |-> book, taken |-> <<>>]
        /\ \A k \in 0 .. CacheSize - 1 : g[k + 1] = PopStep(side, g[k])
        /\ PopBest(book, side) = g[CacheSize]
  BY PopLoop
<1> DEFINE P == {k \in 0 .. CacheSize : PopInv(g[k], book)}
<1>2. CacheSize \in Nat
  BY SizeAssumption
<1>3. 0 \in P
  BY <1>1, <1>2 DEF PopInv
<1>4. \A k \in 0 .. CacheSize : k < CacheSize /\ k \in P => k + 1 \in P
  BY <1>1, <1>2, PopStepInv
<1>5. 0 .. CacheSize \subseteq P
  <2> HIDE DEF P
  <2> QED
    BY <1>2, <1>3, <1>4, IntervalInduction
<1> QED
  BY <1>1, <1>2, <1>5

\* The second loop of get_top_5.
Consistent(side) == {b \in Book : TreeConsistent(b, side)}

LEMMA RestoreLoop ==
  ASSUME NEW side \in Side, NEW book \in Consistent(side), NEW taken \in Seq(Row)
  PROVE  \E g \in [0 .. Len(taken) -> Consistent(side)] :
           /\ g[0] = book
           /\ \A k \in 1 .. Len(taken) :
                g[k] = SetLevel(g[k - 1], side, taken[k].index, taken[k].qty)
           /\ Restore(book, side, taken) = g[Len(taken)]
<1> DEFINE N == Len(taken)
           Turn(k, b) == SetLevel(b, side, taken[k].index, taken[k].qty)
           F == [k \in 1 .. N |-> [b \in Consistent(side) |-> Turn(k, b)]]
           Rec(g) == g = [k \in 0 .. N |-> IF k = 0 THEN book ELSE Turn(k, g[k - 1])]
           loop == CHOOSE g : Rec(g)
<1>1. N \in Nat /\ \A k \in 1 .. N : taken[k].index \in Level /\ taken[k].qty \in Word
  BY RowsType
<1>2. \A k \in 1 .. N : \A b \in Consistent(side) : Turn(k, b) \in Consistent(side)
  BY <1>1, SetLevelKeeps DEF Consistent
<1>3. Restore(book, side, taken) = loop[N]
  BY DEF Restore
<1> HIDE DEF N, Turn
<1>4. F \in Bodies(Consistent(side), N)
  BY <1>2 DEF Bodies
<1>5. \E g : g \in States(Consistent(side), N) /\ IsRun(g, book, N, F)
  <2> HIDE DEF F
  <2> QED
    BY <1>1, <1>4, Iterates, Zenon
<1>6. \E g : Rec(g)
  <2>1. PICK g \in States(Consistent(side), N) : IsRun(g, book, N, F)
    BY <1>5
  <2>2. \A k \in 1 .. N : F[k][g[k - 1]] = Turn(k, g[k - 1])
    BY <1>1, <2>1 DEF States
  <2> HIDE DEF F
  <2>3. \A k \in 0 .. N : g[k] = IF k = 0 THEN book ELSE Turn(k, g[k - 1])
    BY <2>1, <2>2, <1>1 DEF IsRun
  <2>4. Rec(g)
    BY <2>1, <2>3 DEF States
  <2> QED
    BY <2>4
<1>7. Rec(loop)
  BY <1>6
<1> HIDE DEF loop, F
<1>8. /\ loop[0] = book
      /\ \A k \in 1 .. N : loop[k] = Turn(k, loop[k - 1])
  BY <1>1, <1>7
<1>9. loop \in [0 .. N -> Consistent(side)]
  <2> DEFINE P == {k \in 0 .. N : loop[k] \in Consistent(side)}
  <2>1. 0 \in P
    BY <1>1, <1>8
  <2>2. \A k \in 0 .. N : k < N /\ k \in P => k + 1 \in P
    BY <1>1, <1>2, <1>8
  <2>3. 0 .. N \subseteq P
    <3> HIDE DEF P
    <3> QED
      BY <1>1, <2>1, <2>2, IntervalInduction
  <2> QED
    BY <1>7, <2>3
<1> QED
  BY <1>3, <1>8, <1>9 DEF N, Turn

\* Putting back what was taken out gives the book as it was, tree and all.
LEMMA RestoreUndoesPop ==
  ASSUME NEW side \in Side, NEW book \in Book, TreeConsistent(book, side),
         NEW s \in Popped(side), PopInv(s, book)
  PROVE  Restore(s.book, side, s.taken) = book
<1>1. s.book \in Consistent(side) /\ s.taken \in Seq(Row)
  BY DEF Popped, Consistent
<1> DEFINE N == Len(s.taken)
<1>2. PICK g \in [0 .. N -> Consistent(side)] :
        /\ g[0] = s.book
        /\ \A k \in 1 .. N : g[k] = SetLevel(g[k - 1], side, s.taken[k].index, s.taken[k].qty)
        /\ Restore(s.book, side, s.taken) = g[N]
  BY <1>1, RestoreLoop
<1>3. /\ N \in Nat
      /\ \A i \in 1 .. N : s.taken[i].index \in Level /\ s.taken[i].qty \in Word
  BY <1>1, RowsType
<1> DEFINE Back(b, k) ==
             /\ \A l \in Level : (\A i \in k + 1 .. N : s.taken[i].index # l)
                                   => b.price_quantity[l] = book.price_quantity[l]
             /\ b.segment_tree[0] = book.segment_tree[0]
           P == {k \in 0 .. N : Back(g[k], k)}
<1>4. 0 \in P
  BY <1>2, <1>3 DEF PopInv
<1>5. ASSUME NEW k \in 0 .. N, k < N, k \in P PROVE k + 1 \in P
  <2> DEFINE i == k + 1
             row == s.taken[i]
  <2>1. i \in 1 .. N /\ i - 1 = k
    BY <1>3, <1>5
  <2>2. g[k] \in Book /\ TreeConsistent(g[k], side)
    BY <1>2, <1>3 DEF Consistent
  <2>3. row.index \in Level /\ row.qty = book.price_quantity[row.index] /\ row.qty \in Word
    BY <1>3, <2>1 DEF PopInv
  <2>4. /\ g[i].price_quantity = [g[k].price_quantity EXCEPT ![row.index] = row.qty]
        /\ g[i].segment_tree[0] = g[k].segment_tree[0]
    <3> DEFINE b == SetLevel(g[k], side, row.index, row.qty)
    <3>1. /\ b.price_quantity = [g[k].price_quantity EXCEPT ![row.index] = row.qty]
          /\ b.segment_tree[0] = g[k].segment_tree[0]
      BY <2>2, <2>3, SetLevelKeeps
    <3>2. g[i] = b
      BY <1>2, <2>1
    <3> QED
      BY <3>1, <3>2
  <2>5. ASSUME NEW l \in Level, \A j \in i + 1 .. N : s.taken[j].index # l
        PROVE  g[i].price_quantity[l] = book.price_quantity[l]
    <3>1. g[k].price_quantity \in [Level -> Word]
      BY <2>2 DEF Book
    <3>2. CASE l = row.index
      BY <2>3, <2>4, <3>1, <3>2
    <3>3. CASE l # row.index
      <4>1. \A j \in k + 1 .. N : s.taken[j].index # l
        <5>1. \A j \in k + 1 .. N : j = i \/ j \in i + 1 .. N
          BY <1>3, <2>1
        <5> QED
          BY <2>5, <3>3, <5>1
      <4>2. g[k].price_quantity[l] = book.price_quantity[l]
        BY <1>5, <4>1
      <4> QED
        BY <2>3, <2>4, <3>1, <3>3, <4>2
    <3> QED
      BY <3>2, <3>3
  <2>6. Back(g[i], i)
    BY <1>5, <2>4, <2>5
  <2> QED
    BY <1>3, <2>1, <2>6
<1>6. Back(g[N], N)
  <2>1. 0 .. N \subseteq P
    <3> HIDE DEF P
    <3> QED
      BY <1>3, <1>4, <1>5, IntervalInduction
  <2> QED
    BY <1>3, <2>1
<1>7. g[N] \in Book /\ TreeConsistent(g[N], side)
  BY <1>2, <1>3 DEF Consistent
<1>8. g[N].price_quantity = book.price_quantity
  <2>1. \A l \in Level : g[N].price_quantity[l] = book.price_quantity[l]
    BY <1>3, <1>6
  <2> QED
    BY <1>7, <2>1 DEF Book
<1> QED
  BY <1>2, <1>6, <1>7, <1>8, TreeIsDetermined

PriceRow == [price : Word, qty : Word]

LEMMA Modulo == \A n \in Int : n % WordSize \in Word
BY Sizes DEF Word

\* Listing the best rows changes nothing and gives well-formed rows.
LEMMA TopRows ==
  ASSUME TypeOK, NEW b \in Books, TreeConsistent(books[b], b[1])
  PROVE  /\ get_top_5(b).book = books[b]
         /\ get_top_5(b).rows \in [1 .. CacheSize -> PriceRow]
<1> DEFINE popped == PopBest(books[b], b[1])
           row(i) == IF i <= Len(popped.taken) THEN popped.taken[i]
                     ELSE [index |-> WorstLevel(b[1]), qty |-> 1]
<1>1. books[b] \in Book /\ b[1] \in Side /\ b[2] \in Stock
  BY DEF TypeOK, Books
<1>2. popped \in Popped(b[1]) /\ PopInv(popped, books[b])
  BY <1>1, PopResult
<1>3. Restore(popped.book, b[1], popped.taken) = books[b]
  BY <1>1, <1>2, RestoreUndoesPop
<1>4. popped.taken \in Seq(Row)
  BY <1>2 DEF Popped
<1> HIDE DEF popped
<1>5. ASSUME NEW i \in 1 .. CacheSize PROVE row(i).index \in Level /\ row(i).qty \in Word
  <2>1. CASE i <= Len(popped.taken)
    BY <1>4, <2>1, RowsType, SizeAssumption
  <2>2. CASE ~ (i <= Len(popped.taken))
    <3>1. WorstLevel(b[1]) \in Level /\ 1 \in Word
      BY Sizes DEF WorstLevel, Level, Word
    <3> QED
      BY <2>2, <3>1
  <2> QED
    BY <2>1, <2>2
<1> HIDE DEF row
<1>6. ASSUME NEW i \in 1 .. CacheSize
      PROVE  [price |-> index_to_price(b[2], row(i).index), qty |-> row(i).qty] \in PriceRow
  <2>1. MinPrice[b[2]] \in Int /\ TickSize[b[2]] \in Int /\ row(i).index \in Int
    BY <1>1, <1>5, PriceAssumption DEF Word, Level
  <2>2. row(i).index * TickSize[b[2]] \in Int
    BY <2>1
  <2>3. index_to_price(b[2], row(i).index) \in Word
    BY <2>1, <2>2, Modulo DEF index_to_price
  <2> QED
    BY <1>5, <2>3 DEF PriceRow
<1>7. get_top_5(b) =
        [book |-> Restore(popped.book, b[1], popped.taken),
         rows |-> [i \in 1 .. CacheSize |->
                     [price |-> index_to_price(b[2], row(i).index), qty |-> row(i).qty]]]
  BY DEF get_top_5, popped, row
<1> QED
  BY <1>3, <1>6, <1>7

-----------------------------------------------------------------------------
(* The rows that get_top_5 lists.                                          *)

\* The levels of the first i rows, and the levels better than a level.
Taken(rows, i) == {rows[j].index : j \in 1 .. i}
Above(book, side, l) == {k \in Occupied(book) : Better(side, k, l)}

\* The rows are the best levels of the book, in their order.
Ranked(rows, book, side) ==
  /\ \A i \in 1 .. Len(rows) : rows[i].index \in Occupied(book)
  /\ \A i, j \in 1 .. Len(rows) : i < j => Better(side, rows[i].index, rows[j].index)
  /\ \A l \in Occupied(book) \ Taken(rows, Len(rows)) :
       \A i \in 1 .. Len(rows) : Better(side, rows[i].index, l)

LEMMA BetterOrder ==
  ASSUME NEW side, NEW a \in Level, NEW b \in Level, Better(side, a, b)
  PROVE  a # b /\ ~ Better(side, b, a)
BY DEF Better, Level

\* The first i rows have i different levels.
LEMMA TakenCount ==
  ASSUME NEW rows, NEW n \in Nat,
         \A i, j \in 1 .. n : i < j => rows[i].index # rows[j].index
  PROVE  \A i \in 0 .. n : IsFiniteSet(Taken(rows, i)) /\ Cardinality(Taken(rows, i)) = i
<1> DEFINE Counted(i) == IsFiniteSet(Taken(rows, i)) /\ Cardinality(Taken(rows, i)) = i
           P == {i \in 0 .. n : Counted(i)}
<1>1. 0 \in P
  <2>1. Taken(rows, 0) = {}
    BY DEF Taken
  <2> QED
    BY <2>1, FS_EmptySet
<1>2. ASSUME NEW i \in 0 .. n, i < n, i \in P PROVE i + 1 \in P
  <2>1. i + 1 \in 0 .. n /\ i + 1 \in 1 .. n /\ i \in Nat
    BY <1>2
  <2>2. Taken(rows, i + 1) = Taken(rows, i) \cup {rows[i + 1].index}
    <3>1. \A j : j \in 1 .. i + 1 <=> j \in 1 .. i \/ j = i + 1
      BY <2>1
    <3> QED
      BY <3>1 DEF Taken
  <2>3. rows[i + 1].index \notin Taken(rows, i)
    <3>1. \A j \in 1 .. i : j \in 1 .. n /\ j < i + 1
      BY <2>1
    <3> QED
      BY <2>1, <3>1 DEF Taken
  <2>4. Counted(i)
    BY <1>2
  <2> QED
    BY <2>1, <2>2, <2>3, <2>4, FS_AddElement
<1>3. 0 .. n \subseteq P
  <2> HIDE DEF P
  <2> QED
    BY <1>1, <1>2, IntervalInduction
<1> QED
  BY <1>3

\* The i-th row has exactly the i - 1 rows before it above it; a level without a row
\* has all of them.
LEMMA Ranks ==
  ASSUME NEW book \in Book, NEW side, NEW rows, Len(rows) \in Nat, Ranked(rows, book, side)
  PROVE  /\ \A i \in 1 .. Len(rows) : Cardinality(Above(book, side, rows[i].index)) = i - 1
         /\ \A l \in Occupied(book) \ Taken(rows, Len(rows)) :
              /\ Cardinality(Above(book, side, l)) \in Nat
              /\ Cardinality(Above(book, side, l)) >= Len(rows)
<1> DEFINE n == Len(rows)
<1>1. /\ \A i \in 1 .. n : rows[i].index \in Occupied(book)
      /\ \A i, j \in 1 .. n : i < j => Better(side, rows[i].index, rows[j].index)
      /\ \A l \in Occupied(book) \ Taken(rows, n) :
           \A i \in 1 .. n : Better(side, rows[i].index, l)
      /\ n \in Nat
  BY DEF Ranked
<1> HIDE DEF n
<1>2. Occupied(book) \subseteq Level
  BY DEF Occupied
<1>3. \A i \in 0 .. n : IsFiniteSet(Taken(rows, i)) /\ Cardinality(Taken(rows, i)) = i
  <2>1. \A i, j \in 1 .. n : i < j => rows[i].index # rows[j].index
    BY <1>1, <1>2, BetterOrder
  <2> QED
    BY <1>1, <2>1, TakenCount
<1>4. ASSUME NEW i \in 1 .. n PROVE Above(book, side, rows[i].index) = Taken(rows, i - 1)
  <2>1. ASSUME NEW k \in Above(book, side, rows[i].index) PROVE k \in Taken(rows, i - 1)
    <3>1. k \in Occupied(book) /\ Better(side, k, rows[i].index)
      BY <2>1 DEF Above
    <3>2. rows[i].index \in Level /\ k \in Level
      BY <1>1, <1>2, <3>1
    <3>3. PICK j \in 1 .. n : k = rows[j].index
      <4>1. SUFFICES ASSUME k \notin Taken(rows, n) PROVE FALSE
        BY DEF Taken
      <4>2. Better(side, rows[i].index, k)
        BY <1>1, <3>1, <4>1
      <4> QED
        BY <3>1, <3>2, <4>2, BetterOrder
    <3>4. ~ (i < j) /\ i # j
      BY <1>1, <3>1, <3>2, <3>3, BetterOrder
    <3>5. j \in 1 .. i - 1
      BY <1>1, <3>4
    <3> QED
      BY <3>3, <3>5 DEF Taken
  <2>2. ASSUME NEW k \in Taken(rows, i - 1) PROVE k \in Above(book, side, rows[i].index)
    <3>1. PICK j \in 1 .. i - 1 : k = rows[j].index
      BY <2>2 DEF Taken
    <3>2. j \in 1 .. n /\ j < i
      BY <1>1
    <3> QED
      BY <1>1, <3>1, <3>2 DEF Above
  <2> QED
    BY <2>1, <2>2
<1>5. ASSUME NEW i \in 1 .. n PROVE Cardinality(Above(book, side, rows[i].index)) = i - 1
  <2>1. i - 1 \in 0 .. n
    BY <1>1
  <2> QED
    BY <1>3, <1>4, <2>1
<1>6. ASSUME NEW l \in Occupied(book) \ Taken(rows, n)
      PROVE  /\ Cardinality(Above(book, side, l)) \in Nat
             /\ Cardinality(Above(book, side, l)) >= n
  <2>1. Taken(rows, n) \subseteq Above(book, side, l)
    BY <1>1, <1>6 DEF Taken, Above
  <2>2. IsFiniteSet(Above(book, side, l))
    <3>1. IsFiniteSet(Level)
      <4>1. 0 \in Int /\ MaxLevels - 1 \in Int
        BY Sizes
      <4> QED
        BY <4>1, FS_Interval DEF Level
    <3>2. Above(book, side, l) \subseteq Level
      BY <1>2 DEF Above
    <3> QED
      BY <3>1, <3>2, FS_Subset
  <2>3. /\ Cardinality(Taken(rows, n)) <= Cardinality(Above(book, side, l))
        /\ Cardinality(Above(book, side, l)) \in Nat
    BY <2>1, <2>2, FS_Subset, FS_CardinalityType
  <2>4. Cardinality(Taken(rows, n)) = n
    BY <1>1, <1>3
  <2> QED
    BY <1>1, <2>3, <2>4
<1> QED
  BY <1>5, <1>6 DEF n

\* Between two turns of get_top_5's first loop the rows are ranked, and the book
\* holds what they leave.
RankInv(s, book, side) ==
  /\ Ranked(s.taken, book, side)
  /\ Occupied(s.book) = Occupied(book) \ Taken(s.taken, Len(s.taken))

LEMMA RankStep ==
  ASSUME NEW side \in Side, NEW book \in Book, NEW s \in Popped(side), RankInv(s, book, side)
  PROVE  LET t == PopStep(side, s)
         IN  /\ RankInv(t, book, side)
             /\ \/ Occupied(s.book) = {} /\ t = s
                \/ Occupied(s.book) # {} /\ Len(t.taken) = Len(s.taken) + 1
<1> DEFINE best == s.book.segment_tree[1]
           t == PopStep(side, s)
           row == [index |-> best, qty |-> s.book.price_quantity[best]]
<1>1. /\ t \in Popped(side)
      /\ \/ best = NEG_ONE /\ t = s
         \/ /\ best \in Level
            /\ s.book.price_quantity[best] > 0
            /\ t.taken = Append(s.taken, row)
            /\ t.book.price_quantity = [s.book.price_quantity EXCEPT ![best] = 0]
  BY PopStepEffect
<1>2. /\ s.book \in Book /\ s.taken \in Seq(Row) /\ TreeConsistent(s.book, side)
      /\ Len(s.taken) \in Nat /\ s.book.price_quantity \in [Level -> Word]
  BY RowsType DEF Popped, Book
<1>3. /\ best = NEG_ONE => Occupied(s.book) = {}
      /\ best # NEG_ONE => \A l \in Occupied(s.book) \ {best} : Better(side, best, l)
  BY <1>2, RootBest
<1> HIDE DEF t, best
<1>4. CASE best = NEG_ONE /\ t = s
  BY <1>3, <1>4 DEF t
<1>5. CASE /\ best \in Level
           /\ s.book.price_quantity[best] > 0
           /\ t.taken = Append(s.taken, row)
           /\ t.book.price_quantity = [s.book.price_quantity EXCEPT ![best] = 0]
  <2> DEFINE n == Len(s.taken)
  <2>1. /\ Len(t.taken) = n + 1 /\ n \in Nat
        /\ \A i \in 1 .. n : t.taken[i] = s.taken[i]
        /\ t.taken[n + 1] = row /\ row.index = best
    BY <1>2, <1>5
  <2>2. /\ \A i \in 1 .. n : t.taken[i].index = s.taken[i].index
        /\ t.taken[n + 1].index = best
    BY <2>1
  <2>3. best \in Occupied(s.book) /\ best # NEG_ONE
    BY <1>5, Sizes DEF Occupied
  <2> HIDE DEF n, row
  <2>4. /\ \A i \in 1 .. n : s.taken[i].index \in Occupied(book)
        /\ \A i, j \in 1 .. n : i < j => Better(side, s.taken[i].index, s.taken[j].index)
        /\ \A l \in Occupied(book) \ Taken(s.taken, n) :
             \A i \in 1 .. n : Better(side, s.taken[i].index, l)
        /\ Occupied(s.book) = Occupied(book) \ Taken(s.taken, n)
    BY DEF RankInv, Ranked, n
  <2>5. Taken(t.taken, n + 1) = Taken(s.taken, n) \cup {best}
    <3>1. \A i : i \in 1 .. n + 1 <=> i \in 1 .. n \/ i = n + 1
      BY <2>1
    <3> QED
      BY <2>2, <3>1 DEF Taken
  <2>6. Occupied(t.book) = Occupied(s.book) \ {best}
    <3>1. \A l \in Level : t.book.price_quantity[l] =
                             IF l = best THEN 0 ELSE s.book.price_quantity[l]
      BY <1>2, <1>5
    <3> QED
      BY <1>2, <3>1 DEF Occupied
  <2>7. Occupied(t.book) = Occupied(book) \ Taken(t.taken, n + 1)
    BY <2>4, <2>5, <2>6
  <2>8. best \in Occupied(book) \ Taken(s.taken, n)
    BY <2>3, <2>4
  <2>9. ASSUME NEW i \in 1 .. n + 1 PROVE t.taken[i].index \in Occupied(book)
    <3>1. i \in 1 .. n \/ i = n + 1
      BY <2>1
    <3> QED
      BY <2>2, <2>4, <2>8, <3>1
  <2>10. ASSUME NEW i \in 1 .. n + 1, NEW j \in 1 .. n + 1, i < j
         PROVE  Better(side, t.taken[i].index, t.taken[j].index)
    <3>1. i \in 1 .. n /\ (j \in 1 .. n \/ j = n + 1)
      BY <2>1, <2>10
    <3> QED
      BY <2>2, <2>4, <2>8, <2>10, <3>1
  <2>11. ASSUME NEW l \in Occupied(book) \ Taken(t.taken, n + 1), NEW i \in 1 .. n + 1
         PROVE  Better(side, t.taken[i].index, l)
    <3>1. l \in Occupied(book) \ Taken(s.taken, n) /\ l # best
      BY <2>5, <2>11
    <3>2. i \in 1 .. n \/ i = n + 1
      BY <2>1
    <3>3. i = n + 1 => Better(side, t.taken[i].index, l)
      BY <1>3, <2>2, <2>3, <2>4, <3>1
    <3> QED
      BY <2>2, <2>4, <3>1, <3>2, <3>3
  <2>12. RankInv(t, book, side)
    BY <2>1, <2>7, <2>9, <2>10, <2>11 DEF RankInv, Ranked
  <2> QED
    BY <2>1, <2>3, <2>12 DEF n, t
<1> QED
  BY <1>1, <1>4, <1>5

\* The rows taken are ranked, and they are CacheSize or all that the book has.
LEMMA PopRanks ==
  ASSUME NEW side \in Side, NEW book \in Book, TreeConsistent(book, side)
  PROVE  LET s == PopBest(book, side)
         IN  /\ RankInv(s, book, side)
             /\ Len(s.taken) = CacheSize \/ Occupied(s.book) = {}
             /\ Len(s.taken) \in 0 .. CacheSize
<1>1. PICK g \in [0 .. CacheSize -> Popped(side)] :
        /\ g[0] = [book |-> book, taken |-> <<>>]
        /\ \A k \in 0 .. CacheSize - 1 : g[k + 1] = PopStep(side, g[k])
        /\ PopBest(book, side) = g[CacheSize]
  BY PopLoop
<1> DEFINE Ok(s, k) == /\ RankInv(s, book, side)
                       /\ Len(s.taken) = k \/ Occupied(s.book) = {}
                       /\ Len(s.taken) <= k
           P == {k \in 0 .. CacheSize : Ok(g[k], k)}
<1>2. CacheSize \in Nat
  BY SizeAssumption
<1>3. 0 \in P
  <2>1. Taken(<<>>, 0) = {} /\ Len(<<>>) = 0
    BY DEF Taken
  <2>2. g[0].taken = <<>> /\ g[0].book = book
    BY <1>1
  <2>3. RankInv(g[0], book, side)
    BY <2>1, <2>2 DEF RankInv, Ranked
  <2> QED
    BY <1>2, <2>1, <2>2, <2>3
<1>4. ASSUME NEW k \in 0 .. CacheSize, k < CacheSize, k \in P PROVE k + 1 \in P
  <2>1. g[k] \in Popped(side) /\ g[k + 1] = PopStep(side, g[k]) /\ k + 1 \in 0 .. CacheSize
    BY <1>1, <1>2, <1>4
  <2>2. Ok(g[k], k)
    BY <1>4
  <2>3. /\ RankInv(g[k + 1], book, side)
        /\ \/ Occupied(g[k].book) = {} /\ g[k + 1] = g[k]
           \/ Occupied(g[k].book) # {} /\ Len(g[k + 1].taken) = Len(g[k].taken) + 1
    BY <2>1, <2>2, RankStep
  <2>4. Len(g[k].taken) \in Nat
    BY <2>1, RowsType DEF Popped
  <2>5. CASE Occupied(g[k].book) = {} /\ g[k + 1] = g[k]
    BY <1>2, <2>1, <2>2, <2>3, <2>4, <2>5
  <2>6. CASE Occupied(g[k].book) # {} /\ Len(g[k + 1].taken) = Len(g[k].taken) + 1
    BY <1>2, <2>1, <2>2, <2>3, <2>4, <2>6
  <2> QED
    BY <2>3, <2>5, <2>6
<1>5. 0 .. CacheSize \subseteq P
  <2> HIDE DEF P
  <2> QED
    BY <1>2, <1>3, <1>4, IntervalInduction
<1>6. Ok(g[CacheSize], CacheSize) /\ g[CacheSize] \in Popped(side)
  BY <1>1, <1>2, <1>5
<1>7. Len(g[CacheSize].taken) \in Nat
  BY <1>6, RowsType DEF Popped
<1> QED
  BY <1>1, <1>2, <1>6, <1>7

LEMMA DivBound ==
  ASSUME NEW p \in Nat \ {0}, NEW n \in Nat, NEW m \in 0 .. p * n - 1
  PROVE  m \div p \in 0 .. n - 1 /\ m % p \in 0 .. p - 1
<1> DEFINE q == m \div p
           r == m % p
<1>1. m \in Nat /\ p \in Nat /\ p > 0 /\ m < p * n
  OBVIOUS
<1>2. q \in Nat /\ r \in 0 .. p - 1 /\ m = p * q + r
  BY <1>1
<1> HIDE DEF q, r
<1>3. p * q < p * n
  BY <1>1, <1>2
<1>4. q < n
  <2>1. SUFFICES ASSUME n <= q PROVE FALSE
    BY <1>1, <1>2
  <2>2. p * n <= p * q
    BY <1>1, <1>2, <2>1
  <2> QED
    BY <1>1, <1>2, <1>3, <2>2
<1> QED
  BY <1>1, <1>2, <1>4 DEF q, r

LEMMA FrameType ==
  ASSUME NEW rows \in [Books -> [1 .. CacheSize -> PriceRow]]
  PROVE  FrameWords(rows) \in Seq(AxisWord)
<1> DEFINE perStock == 4 * CacheSize
           at(s, r) == IF r <= CacheSize THEN rows[<<SIDE_ASK, s>>][r]
                       ELSE rows[<<SIDE_BID, s>>][r - CacheSize]
           row(j) == at((j - 1) \div perStock, ((j - 1) % perStock) \div 2 + 1)
           word(j) == [data |-> IF j % 2 = 1 THEN row(j).price ELSE row(j).qty,
                       last |-> IF j % perStock = 0 THEN 1 ELSE 0]
<1>1. /\ CacheSize \in Nat /\ CacheSize > 0 /\ NumStocks \in Nat
      /\ perStock \in Nat \ {0} /\ perStock * NumStocks \in Nat
  BY SizeAssumption
<1>2. ASSUME NEW s \in Stock, NEW r \in 1 .. 2 * CacheSize PROVE at(s, r) \in PriceRow
  <2>1. <<SIDE_ASK, s>> \in Books /\ <<SIDE_BID, s>> \in Books
    BY DEF Books, Side
  <2>2. r <= CacheSize => r \in 1 .. CacheSize
    BY <1>1
  <2>3. ~ (r <= CacheSize) => r - CacheSize \in 1 .. CacheSize
    BY <1>1
  <2> QED
    BY <2>1, <2>2, <2>3
<1>3. FrameWords(rows) = [j \in 1 .. perStock * NumStocks |-> word(j)]
  BY DEF FrameWords
<1> HIDE DEF at
<1>4. ASSUME NEW j \in 1 .. perStock * NumStocks PROVE row(j) \in PriceRow
  <2> DEFINE q == (j - 1) \div perStock
             r == (j - 1) % perStock
  <2>1. j - 1 \in 0 .. perStock * NumStocks - 1
    BY <1>1
  <2> HIDE DEF perStock
  <2>2. q \in 0 .. NumStocks - 1 /\ r \in 0 .. perStock - 1
    BY <1>1, <2>1, DivBound
  <2> HIDE DEF q, r
  <2>3. q \in Stock /\ r \div 2 + 1 \in 1 .. 2 * CacheSize
    BY <1>1, <2>2 DEF Stock, perStock
  <2>4. at(q, r \div 2 + 1) \in PriceRow
    BY <1>2, <2>3
  <2> QED
    BY <2>4 DEF q, r
<1> HIDE DEF row, perStock
<1>5. \A j \in 1 .. perStock * NumStocks : word(j) \in AxisWord
  BY <1>4 DEF PriceRow, AxisWord
<1> HIDE DEF word
<1>6. [j \in 1 .. perStock * NumStocks |-> word(j)] \in Seq(AxisWord)
  <2> DEFINE n == perStock * NumStocks
  <2>1. n \in Nat
    BY <1>1
  <2> HIDE DEF n
  <2>2. ASSUME \A j \in 1 .. n : word(j) \in AxisWord
        PROVE  [j \in 1 .. n |-> word(j)] \in Seq(AxisWord)
    BY <2>1, <2>2
  <2> QED
    BY <1>5, <2>2 DEF n
<1> QED
  BY <1>3, <1>6

-----------------------------------------------------------------------------
(* The invariant.                                                          *)

\* A frame is typed only because its rows name levels, which they do because the
\* trees are consistent; the trees are only as good as the levels the orders name.
IInv == TypeOK /\ TreesConsistent

LEMMA InitInv == Init => IInv
<1> SUFFICES ASSUME Init PROVE IInv
  OBVIOUS
<1>1. 0 \in Word /\ 0 \in Nat /\ PublishPeriod \in Nat
  BY Sizes, SizeAssumption DEF Word
<1>2. books \in [Books -> Book]
  BY <1>1 DEF Init, Book
<1> DEFINE blank == [valid |-> FALSE, price_index |-> 0, quantity |-> 0, ask_bid |-> 0]
<1>3. blank \in Order /\ ~blank.valid
  BY <1>1 DEF Order
<1>4. order_list \in [OrderId -> Order] /\ \A id \in OrderId : ~order_list[id].valid
  <2>1. order_list = [id \in OrderId |-> blank]
    BY DEF Init
  <2> HIDE DEF blank
  <2> QED
    BY <1>3, <2>1
<1>5. initialized = FALSE /\ num_new_order \in 0 .. PublishPeriod /\ outStream \in Seq(AxisWord)
  BY <1>1 DEF Init
<1> HIDE DEF blank
<1> QED
  BY <1>2, <1>4, <1>5 DEF IInv, TypeOK, TreesConsistent

LEMMA EmptyConsistent ==
  ASSUME NEW side \in Side
  PROVE  EmptyBook \in Book /\ TreeConsistent(EmptyBook, side)
<1>1. 0 \in Word /\ NEG_ONE \in Word
  BY Sizes DEF Word
<1>2. EmptyBook \in Book
  BY <1>1 DEF EmptyBook, Book
<1>3. \A l \in Level : l + MaxLevels \in Node
  BY Sizes DEF Level, Node
<1>4. \A n \in 1 .. MaxLevels - 1 : n \in Node /\ 2 * n \in Node /\ 2 * n + 1 \in Node
  BY Sizes DEF Node
<1> QED
  BY <1>2, <1>3, <1>4 DEF EmptyBook, TreeConsistent, LeafMark, choose_preferred

LEMMA InitialiseInv == ASSUME IInv, Initialise PROVE IInv'
<1>1. books' = [b \in Books |-> EmptyBook] /\ initialized' = TRUE
  BY DEF Initialise
<1>2. \A b \in Books : EmptyBook \in Book /\ TreeConsistent(EmptyBook, b[1])
  BY EmptyConsistent DEF Books
<1>3. NoOrder \in Order
  BY Sizes DEF NoOrder, Order, Word
<1>4. order_list' \in [OrderId -> Order] /\ \A id \in OrderId : ~order_list'[id].valid
  BY <1>3 DEF Initialise, NoOrder
<1>5. TypeOK'
  BY <1>1, <1>2, <1>4 DEF Initialise, IInv, TypeOK
<1>6. TreesConsistent'
  BY <1>1, <1>2 DEF TreesConsistent
<1> QED
  BY <1>5, <1>6 DEF IInv

\* Every message that changes a book writes one level of one book.
LEMMA WriteLevel ==
  ASSUME IInv, initialized, NEW b \in Books, NEW leaf \in Level, NEW value \in Word,
         books' = [books EXCEPT ![b] = SetLevel(books[b], b[1], leaf, value)]
  PROVE  /\ books' \in [Books -> Book]
         /\ \A c \in Books : TreeConsistent(books'[c], c[1])
<1>1. books \in [Books -> Book] /\ \A c \in Books : TreeConsistent(books[c], c[1])
  BY DEF IInv, TypeOK, TreesConsistent
<1>2. b[1] \in Side
  BY DEF Books
<1> DEFINE new == SetLevel(books[b], b[1], leaf, value)
<1>3. new \in Book /\ TreeConsistent(new, b[1])
  BY <1>1, <1>2, SetLevelKeeps
<1> HIDE DEF new
<1>4. books' = [books EXCEPT ![b] = new]
  BY DEF new
<1>5. books' \in [Books -> Book]
  BY <1>1, <1>3, <1>4
<1>6. ASSUME NEW c \in Books PROVE TreeConsistent(books'[c], c[1])
  <2>1. c = b => books'[c] = new
    BY <1>1, <1>4
  <2>2. c # b => books'[c] = books[c]
    BY <1>1, <1>4
  <2> QED
    BY <1>1, <1>3, <2>1, <2>2
<1> QED
  BY <1>5, <1>6

LEMMA ReadType ==
  ASSUME IInv, Read
  PROVE  /\ initialized /\ initialized' /\ initialized' \in BOOLEAN
         /\ num_new_order' \in 0 .. PublishPeriod
         /\ outStream' \in Seq(AxisWord)
BY SizeAssumption DEF IInv, TypeOK, Read

LEMMA PriceIndexType ==
  ASSUME NEW s \in Stock, NEW p \in Word
  PROVE  price_to_index(s, p) \in Level
<1> DEFINE d == (p - MinPrice[s]) % WordSize
<1>1. MinPrice[s] \in Word /\ TickSize[s] \in Word /\ TickSize[s] # 0
  BY PriceAssumption
<1>2. MinPrice[s] \in Int /\ TickSize[s] \in Nat /\ TickSize[s] > 0 /\ p - MinPrice[s] \in Int
  BY <1>1, Sizes DEF Word
<1>3. d \in Nat
  <2>1. d \in Word
    BY <1>2, Modulo
  <2> QED
    BY <2>1, Sizes DEF Word
<1> HIDE DEF d
<1>4. d \div TickSize[s] \in Nat
  <2>1. ASSUME NEW t \in Nat, t > 0, NEW n \in Nat PROVE n \div t \in Nat
    BY <2>1
  <2> QED
    BY <1>2, <1>3, <2>1
<1>5. price_to_index(s, p) = IF d \div TickSize[s] >= MaxLevels THEN MaxLevels - 1
                             ELSE d \div TickSize[s]
  BY DEF price_to_index, d
<1> QED
  BY <1>4, <1>5, Sizes DEF Level

LEMMA AddOrderInv == ASSUME IInv, NEW m \in ParserWord, AddOrder(m) PROVE IInv'
<1>1. m \in ParserWord /\ Read /\ m.stock_id < NumStocks /\ add_order(m)
  BY DEF AddOrder
<1>2. CASE m.order_ref_num >= MaxOrderNum
  BY <1>1, <1>2, ReadType DEF add_order, IInv, TypeOK, TreesConsistent
<1>3. CASE ~ (m.order_ref_num >= MaxOrderNum)
  <2> DEFINE b == <<m.buy_sell, m.stock_id>>
             idx == price_to_index(m.stock_id, m.price)
             qty == (books[b].price_quantity[idx] + m.num_shares) % WordSize
             order == [valid |-> TRUE, price_index |-> idx, quantity |-> m.num_shares,
                       ask_bid |-> m.buy_sell]
  <2>1. /\ b \in Books /\ b[1] = m.buy_sell /\ m.stock_id \in Stock
        /\ m.order_ref_num \in OrderId /\ m.num_shares \in Word
    BY <1>1, <1>3, SizeAssumption DEF ParserWord, Books, Word, Stock, OrderId
  <2>2. idx \in Level
    BY <1>1, <2>1, PriceIndexType DEF ParserWord
  <2>3. qty \in Word
    <3>1. books[b].price_quantity[idx] \in Word
      BY <2>1, <2>2 DEF IInv, TypeOK, Book
    <3>2. books[b].price_quantity[idx] + m.num_shares \in Int
      BY <2>1, <3>1 DEF Word
    <3> QED
      BY <3>2, Modulo
  <2>4. order \in Order
    <3>1. idx \in Word /\ m.num_shares \in Word
      BY <2>1, <2>2, Sizes
    <3>2. m.buy_sell \in 0 .. 3
      BY <1>1 DEF ParserWord, Side, SIDE_BID, SIDE_ASK
    <3> HIDE DEF idx
    <3> QED
      BY <3>1, <3>2 DEF Order
  <2>5. /\ books' = [books EXCEPT ![b] = SetLevel(books[b], b[1], idx, qty)]
        /\ order_list' = [order_list EXCEPT ![m.order_ref_num] = order]
    BY <1>1, <1>3 DEF add_order
  <2>6. order.valid => order.price_index \in Level
    BY <2>2
  <2> HIDE DEF b, idx, qty, order
  <2>7. books' \in [Books -> Book] /\ \A c \in Books : TreeConsistent(books'[c], c[1])
    BY <1>1, <2>1, <2>2, <2>3, <2>5, ReadType, WriteLevel
  <2>8. /\ order_list' \in [OrderId -> Order]
        /\ \A id \in OrderId : order_list'[id].valid => order_list'[id].price_index \in Level
    BY <2>1, <2>4, <2>5, <2>6 DEF IInv, TypeOK
  <2> QED
    BY <1>1, <2>7, <2>8, ReadType DEF IInv, TypeOK, TreesConsistent
<1> QED
  BY <1>2, <1>3

LEMMA CancelInv ==
  ASSUME IInv, Read, NEW b \in Books, NEW id \in Word, NEW n \in Word,
         cancel_order(b, id, n)
  PROVE  IInv'
<1>1. CASE ~IsLive(id)
  BY <1>1, ReadType DEF cancel_order, IInv, TypeOK, TreesConsistent
<1>2. CASE IsLive(id)
  <2> DEFINE idx == order_list[id].price_index
             old_qty == order_list[id].quantity
             remove_qty == IF n = NEG_ONE \/ n > old_qty THEN old_qty ELSE n
             qty == (books[b].price_quantity[idx] - remove_qty) % WordSize
             order == IF remove_qty = old_qty
                      THEN [order_list[id] EXCEPT !.valid = FALSE, !.quantity = 0, !.ask_bid = 3]
                      ELSE [order_list[id] EXCEPT !.quantity = old_qty - remove_qty]
  <2>1. id \in OrderId /\ order_list[id].valid
    BY <1>2, SizeAssumption DEF IsLive, OrderId, Word
  <2>2. idx \in Level /\ old_qty \in Word /\ order_list[id] \in Order
    BY <2>1 DEF IInv, TypeOK, Order
  <2>3. remove_qty \in Word /\ remove_qty <= old_qty
    BY <2>2, Sizes DEF Word
  <2>4. qty \in Word
    <3>1. books[b].price_quantity[idx] \in Word
      BY <2>2 DEF IInv, TypeOK, Book
    <3>2. books[b].price_quantity[idx] - remove_qty \in Int
      BY <2>3, <3>1 DEF Word
    <3> QED
      BY <3>2, Modulo
  <2>5. /\ books' = [books EXCEPT ![b] = SetLevel(books[b], b[1], idx, qty)]
        /\ order_list' = [order_list EXCEPT ![id] = order]
    BY <1>2 DEF cancel_order
  <2>6. order \in Order /\ (order.valid => order.price_index \in Level)
    <3>1. 0 \in Word /\ old_qty - remove_qty \in Word
      BY <2>2, <2>3, Sizes DEF Word
    <3>2. ASSUME NEW o \in Order, o.price_index \in Level, NEW q \in Word
          PROVE  /\ [o EXCEPT !.quantity = q] \in Order
                 /\ [o EXCEPT !.quantity = q].price_index \in Level
                 /\ ~[o EXCEPT !.valid = FALSE, !.quantity = 0, !.ask_bid = 3].valid
      BY <3>2 DEF Order
    <3>3. ASSUME NEW o \in Order
          PROVE  [o EXCEPT !.valid = FALSE, !.quantity = 0, !.ask_bid = 3] \in Order
      <4>1. 3 \in 0 .. 3
        OBVIOUS
      <4> QED
        BY <3>1, <4>1, Zenon DEF Order
    <3>4. CASE remove_qty = old_qty
      <4>1. order = [order_list[id] EXCEPT !.valid = FALSE, !.quantity = 0, !.ask_bid = 3]
        BY <3>4
      <4> HIDE DEF order
      <4> QED
        BY <2>2, <3>2, <3>3, <4>1
    <3>5. CASE remove_qty # old_qty
      <4>1. order = [order_list[id] EXCEPT !.quantity = old_qty - remove_qty]
        BY <3>5
      <4> HIDE DEF order, old_qty, remove_qty
      <4> QED
        BY <2>2, <3>1, <3>2, <4>1
    <3> QED
      BY <3>4, <3>5
  <2> HIDE DEF idx, qty, order
  <2>7. books' \in [Books -> Book] /\ \A c \in Books : TreeConsistent(books'[c], c[1])
    BY <2>2, <2>4, <2>5, ReadType, WriteLevel
  <2>8. /\ order_list' \in [OrderId -> Order]
        /\ \A i \in OrderId : order_list'[i].valid => order_list'[i].price_index \in Level
    BY <2>1, <2>5, <2>6 DEF IInv, TypeOK
  <2> QED
    BY <2>7, <2>8, ReadType DEF IInv, TypeOK, TreesConsistent
<1> QED
  BY <1>1, <1>2

LEMMA RemoveOrderInv == ASSUME IInv, NEW m \in ParserWord, RemoveOrder(m) PROVE IInv'
<1> DEFINE b == <<check_ask_bid(m.order_ref_num), m.stock_id>>
           n == IF m.order_type = DELETE THEN NEG_ONE ELSE m.num_shares
<1>1. /\ m \in ParserWord /\ Read /\ m.stock_id < NumStocks
      /\ cancel_order(b, m.order_ref_num, n)
  BY DEF RemoveOrder
<1>2. m.order_ref_num \in Word /\ n \in Word /\ m.stock_id \in Stock
  BY <1>1, Sizes, SizeAssumption DEF ParserWord, Word, Stock
<1>3. check_ask_bid(m.order_ref_num) \in Side
  <2>1. IsLive(m.order_ref_num) => order_list[m.order_ref_num].ask_bid \in 0 .. 3
    BY <1>2, SizeAssumption DEF IsLive, IInv, TypeOK, Order, OrderId, Word
  <2>2. \A k \in 0 .. 3 : k % 2 \in Side
    BY DEF Side, SIDE_BID, SIDE_ASK
  <2> QED
    BY <2>1, <2>2 DEF check_ask_bid
<1>4. b \in Books
  BY <1>2, <1>3 DEF Books
<1> HIDE DEF b, n
<1> QED
  BY <1>1, <1>2, <1>4, CancelInv

LEMMA IgnoreWordInv == ASSUME IInv, NEW m \in ParserWord, IgnoreWord(m) PROVE IInv'
BY ReadType DEF IgnoreWord, IInv, TypeOK, TreesConsistent

\* A publication leaves the books as they are.
LEMMA PublishKeepsBooks == ASSUME IInv, Publish PROVE books' = books
<1>1. \A b \in Books : get_top_5(b).book = books[b]
  BY TopRows DEF IInv, TreesConsistent, Publish
<1>2. books' = [b \in Books |-> get_top_5(b).book]
  BY DEF Publish
<1> QED
  BY <1>1, <1>2 DEF IInv, TypeOK

LEMMA PublishInv == ASSUME IInv, Publish PROVE IInv'
<1> DEFINE rows == [b \in Books |-> get_top_5(b).rows]
<1>1. rows \in [Books -> [1 .. CacheSize -> PriceRow]]
  BY TopRows DEF IInv, TreesConsistent, Publish
<1>2. outStream' = FrameWords(rows)
  BY DEF Publish
<1> HIDE DEF rows
<1>3. outStream' \in Seq(AxisWord)
  BY <1>1, <1>2, FrameType
<1>4. num_new_order' \in 0 .. PublishPeriod
  BY SizeAssumption DEF Publish
<1> QED
  BY <1>3, <1>4, PublishKeepsBooks DEF Publish, IInv, TypeOK, TreesConsistent

LEMMA TakeFrameInv == ASSUME IInv, TakeFrame PROVE IInv'
BY DEF TakeFrame, IInv, TypeOK, TreesConsistent

LEMMA StutterInv == ASSUME IInv, UNCHANGED vars PROVE IInv'
BY DEF vars, IInv, TypeOK, TreesConsistent

LEMMA Invariant == Spec => []IInv
<1>1. ASSUME IInv, [Next]_vars PROVE IInv'
  BY <1>1, InputAssumption, InitialiseInv, AddOrderInv, RemoveOrderInv, IgnoreWordInv,
     PublishInv, TakeFrameInv, StutterInv DEF Next
<1> QED
  BY InitInv, <1>1, PTL DEF Spec

\* The rows of a publication are those that the ranks of the levels give.
LEMMA TopIsBest ==
  ASSUME TypeOK, NEW b \in Books, TreeConsistent(books[b], b[1])
  PROVE  get_top_5(b).rows = BestRows(b)
<1> DEFINE side == b[1]
           book == books[b]
           s == PopBest(book, side)
           n == Len(s.taken)
           row(i) == IF i <= n THEN s.taken[i] ELSE [index |-> WorstLevel(side), qty |-> 1]
<1>1. book \in Book /\ side \in Side /\ TreeConsistent(book, side)
  BY DEF TypeOK, Books
<1>2. /\ s \in Popped(side) /\ PopInv(s, book) /\ RankInv(s, book, side)
      /\ n = CacheSize \/ Occupied(s.book) = {}
      /\ n \in 0 .. CacheSize /\ CacheSize \in Nat /\ n \in Nat
  <2>1. s \in Popped(side) /\ PopInv(s, book)
    BY <1>1, PopResult
  <2>2. /\ RankInv(s, book, side) /\ n \in 0 .. CacheSize
        /\ n = CacheSize \/ Occupied(s.book) = {}
    BY <1>1, PopRanks
  <2>3. CacheSize \in Nat
    BY SizeAssumption
  <2> HIDE DEF n
  <2> QED
    BY <2>1, <2>2, <2>3
<1>3. get_top_5(b).rows = [i \in 1 .. CacheSize |->
                             [price |-> index_to_price(b[2], row(i).index), qty |-> row(i).qty]]
  BY DEF get_top_5
<1>4. \A i : RankedLevels(b, i) =
               {l \in Occupied(book) : Cardinality(Above(book, side, l)) = i - 1}
  BY DEF RankedLevels, Above
<1> HIDE DEF side, book, s
<1>5. /\ \A i \in 1 .. n : s.taken[i].index \in Occupied(book)
      /\ Occupied(s.book) = Occupied(book) \ Taken(s.taken, n)
      /\ Ranked(s.taken, book, side)
  BY <1>2 DEF RankInv, Ranked
<1>6. /\ \A i \in 1 .. n : Cardinality(Above(book, side, s.taken[i].index)) = i - 1
      /\ \A l \in Occupied(book) \ Taken(s.taken, n) :
           /\ Cardinality(Above(book, side, l)) \in Nat
           /\ Cardinality(Above(book, side, l)) >= n
  BY <1>1, <1>2, <1>5, Ranks
<1>7. \A i \in 1 .. n : s.taken[i].qty = book.price_quantity[s.taken[i].index]
  BY <1>2 DEF PopInv
<1> HIDE DEF n
<1>8. ASSUME NEW i \in 1 .. CacheSize, i <= n
      PROVE  RankedLevels(b, i) = {s.taken[i].index}
  <2>1. i \in 1 .. n
    BY <1>2, <1>8
  <2>2. s.taken[i].index \in RankedLevels(b, i)
    BY <1>4, <1>5, <1>6, <2>1
  <2>3. ASSUME NEW l \in RankedLevels(b, i) PROVE l = s.taken[i].index
    <3>1. l \in Occupied(book) /\ Cardinality(Above(book, side, l)) = i - 1
      BY <1>4, <2>3
    <3>2. i - 1 < n
      BY <1>2, <2>1
    <3>3. l \in Taken(s.taken, n)
      BY <1>2, <1>6, <2>1, <3>1, <3>2
    <3>4. PICK j \in 1 .. n : l = s.taken[j].index
      BY <3>3 DEF Taken
    <3>5. j - 1 = i - 1
      BY <1>6, <3>1, <3>4
    <3>6. j = i
      BY <1>2, <2>1, <3>5
    <3> QED
      BY <3>4, <3>6
  <2> QED
    BY <2>2, <2>3
<1>9. ASSUME NEW i \in 1 .. CacheSize, ~ (i <= n)
      PROVE  RankedLevels(b, i) = {}
  <2>1. Occupied(book) \subseteq Taken(s.taken, n)
    <3>1. n # CacheSize
      BY <1>2, <1>9
    <3> QED
      BY <1>2, <1>5, <3>1
  <2>2. SUFFICES ASSUME NEW l \in RankedLevels(b, i) PROVE FALSE
    OBVIOUS
  <2>3. l \in Occupied(book) /\ Cardinality(Above(book, side, l)) = i - 1
    BY <1>4, <2>2
  <2>4. PICK j \in 1 .. n : l = s.taken[j].index
    BY <2>1, <2>3 DEF Taken
  <2>5. j - 1 = i - 1
    BY <1>6, <2>3, <2>4
  <2> QED
    BY <1>2, <1>9, <2>5
<1> DEFINE best(i) == IF RankedLevels(b, i) = {}
                      THEN [price |-> index_to_price(b[2], WorstLevel(b[1])), qty |-> 1]
                      ELSE LET l == CHOOSE l \in RankedLevels(b, i) : TRUE
                           IN  [price |-> index_to_price(b[2], l),
                                qty |-> books[b].price_quantity[l]]
<1>10. BestRows(b) = [i \in 1 .. CacheSize |-> best(i)]
  BY DEF BestRows
<1>11. ASSUME NEW i \in 1 .. CacheSize
       PROVE  best(i) = [price |-> index_to_price(b[2], row(i).index), qty |-> row(i).qty]
  <2>1. CASE i <= n
    <3>1. RankedLevels(b, i) = {s.taken[i].index} /\ row(i) = s.taken[i] /\ i \in 1 .. n
      BY <1>2, <1>8, <2>1
    <3>2. (CHOOSE l \in RankedLevels(b, i) : TRUE) = s.taken[i].index
      BY <3>1
    <3>3. s.taken[i].qty = books[b].price_quantity[s.taken[i].index]
      BY <1>7, <3>1 DEF book
    <3>4. RankedLevels(b, i) # {}
      BY <3>1
    <3> QED
      BY <3>1, <3>2, <3>3, <3>4
  <2>2. CASE ~ (i <= n)
    <3>1. row(i) = [index |-> WorstLevel(side), qty |-> 1] /\ RankedLevels(b, i) = {}
      BY <1>9, <2>2
    <3> QED
      BY <3>1 DEF side
  <2> QED
    BY <2>1, <2>2
<1> HIDE DEF best, row
<1> QED
  BY <1>3, <1>10, <1>11

\* Every register of the book keeps its width and every valid order names a level
\* that exists, for any sizes, prices and words.
THEOREM TypeCorrect == Spec => []TypeOK
<1>1. IInv => TypeOK
  BY DEF IInv
<1> QED
  BY <1>1, Invariant, PTL

\* No sequence of words leaves a stale node in a segment tree.
THEOREM TreesStayConsistent == Spec => []TreesConsistent
<1>1. IInv => TreesConsistent
  BY DEF IInv
<1> QED
  BY <1>1, Invariant, PTL

\* The root of every tree is the best level with quantity, which get_top_5 reads in
\* place of a scan.
THEOREM RootStaysBest == Spec => []RootIsBest
<1>1. ASSUME IInv PROVE RootIsBest
  <2>1. SUFFICES ASSUME initialized, NEW b \in Books
                 PROVE  LET root == books[b].segment_tree[1]
                        IN  IF Occupied(books[b]) = {} THEN root = NEG_ONE
                            ELSE /\ root \in Occupied(books[b])
                                 /\ \A l \in Occupied(books[b]) \ {root} : Better(b[1], root, l)
    BY DEF RootIsBest
  <2>2. books[b] \in Book /\ b[1] \in Side /\ TreeConsistent(books[b], b[1])
    BY <1>1, <2>1 DEF IInv, TypeOK, TreesConsistent, Books
  <2> QED
    BY <2>2, RootBest
<1> QED
  BY <1>1, Invariant, PTL

\* A publication takes the books apart and gives them back exactly as they were.
THEOREM PublishRestores == Spec => PublishRestoresBooks
<1>1. ASSUME IInv, [Next]_vars
      PROVE  [num_new_order' < num_new_order => books' = books]_vars
  <2>1. CASE Publish
    BY <1>1, <2>1, PublishKeepsBooks
  <2>2. CASE \E m \in Inputs : AddOrder(m) \/ RemoveOrder(m) \/ IgnoreWord(m)
    <3>1. num_new_order \in Int /\ num_new_order' = num_new_order + 1
      BY <1>1, <2>2, SizeAssumption DEF AddOrder, RemoveOrder, IgnoreWord, Read, IInv, TypeOK
    <3> QED
      BY <3>1
  <2>3. CASE Initialise \/ TakeFrame \/ UNCHANGED vars
    <3>1. num_new_order \in Int /\ num_new_order' = num_new_order
      BY <1>1, <2>3, SizeAssumption DEF Initialise, TakeFrame, vars, IInv, TypeOK
    <3> QED
      BY <3>1
  <2> QED
    BY <1>1, <2>1, <2>2, <2>3 DEF Next
<1> QED
  BY <1>1, Invariant, PTL DEF Spec, PublishRestoresBooks

\* A frame shows the best rows of each book, in their order, whatever the sizes, the
\* prices and the words: what the trees are for (get_top_5).
THEOREM FramesShowTheBest == Spec => FramesShowBestRows
<1>1. ASSUME IInv, [Next]_vars
      PROVE  [outStream' # <<>> =>
                outStream' = FrameWords([b \in Books |-> BestRows(b)])]_outStream
  <2>1. CASE Publish
    <3>1. \A b \in Books : get_top_5(b).rows = BestRows(b)
      BY <1>1, <2>1, TopIsBest DEF IInv, TreesConsistent, Publish
    <3>2. outStream' = FrameWords([b \in Books |-> get_top_5(b).rows])
      BY <2>1 DEF Publish
    <3>3. [b \in Books |-> get_top_5(b).rows] = [b \in Books |-> BestRows(b)]
      BY <3>1
    <3> QED
      BY <3>2, <3>3
  <2>2. CASE TakeFrame
    BY <2>2 DEF TakeFrame
  <2>3. CASE \/ \E m \in Inputs : AddOrder(m) \/ RemoveOrder(m) \/ IgnoreWord(m)
             \/ Initialise \/ UNCHANGED vars
    BY <2>3 DEF AddOrder, RemoveOrder, IgnoreWord, Read, Initialise, vars
  <2> QED
    BY <1>1, <2>1, <2>2, <2>3 DEF Next
<1> QED
  BY <1>1, Invariant, PTL DEF Spec, FramesShowBestRows

-----------------------------------------------------------------------------
(* The book fed by the generator shows the market.                         *)

\* The orders of a, a value of active_orders, that have a slot in the order list;
\* those of them that rest on a level; what rests on it.
TrackedIn(a) == {ref \in 1 .. Len(a) : ~a[ref].deleted /\ a[ref].remaining_shares > 0
                                       /\ ref < MaxOrderNum}
OnLevel(a, b, l) ==
  {ref \in TrackedIn(a) : price_to_index(a[ref].stock_id, a[ref].price) = l
                          /\ a[ref].buy_sell = b[1] /\ a[ref].stock_id = b[2]}
Remaining(a) == [ref \in 1 .. Len(a) |-> a[ref].remaining_shares]
Resting(a, b, l) == Total(Remaining(a), OnLevel(a, b, l))

MarketOrder == [stock_id : Stock, buy_sell : Side, price : Word,
                remaining_shares : Word, deleted : BOOLEAN]

\* The sum as BookIsMarket writes it.
SharesOf(a, T) == MapThenSumSet(LAMBDA ref : a[ref].remaining_shares, T)

LEMMA SharesAreTotal ==
  ASSUME NEW a, NEW T, IsFiniteSet(T), T \subseteq 1 .. Len(a),
         \A ref \in T : a[ref].remaining_shares \in Int
  PROVE  SharesOf(a, T) = Total(Remaining(a), T)
<1> DEFINE f == Remaining(a)
           Rec(g) == g = [s \in SUBSET T |->
                            IF s = {} THEN 0 ELSE a[CHOOSE x \in s : TRUE].remaining_shares
                                                  + g[s \ {CHOOSE x \in s : TRUE}]]
           iter == CHOOSE g : Rec(g)
<1>1. SharesOf(a, T) = iter[T]
  BY DEF SharesOf, MapThenSumSet, MapThenFoldSet
<1>2. \A x \in T : f[x] = a[x].remaining_shares /\ f[x] \in Int
  BY DEF Remaining
<1> HIDE DEF f
<1>3. PICK g \in [SUBSET T -> Int] : IsSum(g, f, T) /\ Total(f, T) = g[T]
  BY <1>2, TotalIs
<1>4. \A s \in SUBSET T : s # {} => a[Chosen(s)].remaining_shares = f[Chosen(s)]
  <2> SUFFICES ASSUME NEW s \in SUBSET T, s # {} PROVE Chosen(s) \in T
    BY <1>2
  <2> QED  BY ChosenIn
<1>5. ASSUME NEW h PROVE Rec(h) <=> IsSum(h, f, T)
  <2>1. \A s \in SUBSET T :
          (IF s = {} THEN 0 ELSE a[Chosen(s)].remaining_shares + h[s \ {Chosen(s)}])
            = (IF s = {} THEN 0 ELSE f[Chosen(s)] + h[s \ {Chosen(s)}])
    BY <1>4
  <2>2. Rec(h) <=> h = [s \in SUBSET T |-> IF s = {} THEN 0 ELSE
                          a[Chosen(s)].remaining_shares + h[s \ {Chosen(s)}]]
    BY DEF Chosen
  <2> HIDE DEF Rec
  <2> QED  BY <2>1, <2>2 DEF IsSum
<1>6. Rec(iter)
  <2>1. Rec(g)
    BY <1>3, <1>5
  <2> HIDE DEF Rec
  <2> QED  BY <2>1
<1>7. IsSum(iter, f, T)
  BY <1>5, <1>6
<1> HIDE DEF iter, Rec
<1>8. iter[T] = g[T]
  BY <1>2, <1>3, <1>7, SumsAgree
<1> QED  BY <1>1, <1>3, <1>8 DEF f

\* The largest size of an order with which no level can overflow.
MostShares == (WordSize - 1) \div MaxOrderNum

\* What the generator's records look like.
MarketTyped(a) ==
  /\ a \in Seq(MarketOrder)
  /\ Len(a) <= MaxRef
  /\ \A ref \in 1 .. Len(a) : a[ref].remaining_shares <= MostShares

LEMMA MostType == /\ MostShares \in Nat /\ MostShares * MaxOrderNum < WordSize
                  /\ \A n \in Nat : n * MaxOrderNum < WordSize => n <= MostShares
<1> DEFINE w == WordSize - 1
<1>1. w \in Nat /\ MaxOrderNum \in Nat /\ MaxOrderNum > 0 /\ WordSize \in Nat
  BY Sizes, SizeAssumption
<1> HIDE DEF w
<1> DEFINE m == w \div MaxOrderNum
           r == w % MaxOrderNum
<1>3. m \in Nat /\ r \in 0 .. MaxOrderNum - 1 /\ w = MaxOrderNum * m + r
  <2>1. MaxOrderNum \in Nat \ {0}
    BY <1>1
  <2> QED  BY <1>1, <2>1, Division
<1>4. MostShares = m
  BY DEF MostShares, w
<1> HIDE DEF m, r
<1>5. m * MaxOrderNum = MaxOrderNum * m
  BY <1>1, <1>3
<1>6. m * MaxOrderNum < WordSize
  BY <1>1, <1>3, <1>5 DEF w
<1>7. ASSUME NEW n \in Nat, n * MaxOrderNum < WordSize PROVE n <= m
  <2> SUFFICES ASSUME n >= m + 1 PROVE FALSE
    BY <1>3
  <2>1. n * MaxOrderNum >= (m + 1) * MaxOrderNum
    BY <1>1, <1>3
  <2>2. (m + 1) * MaxOrderNum = m * MaxOrderNum + MaxOrderNum
    BY <1>1, <1>3
  <2>3. m * MaxOrderNum \in Nat /\ n * MaxOrderNum \in Nat
    BY <1>1, <1>3
  <2> QED  BY <2>1, <2>2, <2>3, <1>1, <1>3, <1>5, <1>7 DEF w
<1> QED  BY <1>3, <1>4, <1>6, <1>7

LEMMA RecordType ==
  ASSUME NEW a, MarketTyped(a), NEW ref \in 1 .. Len(a)
  PROVE  /\ a[ref] \in MarketOrder /\ a[ref].stock_id \in Stock /\ a[ref].buy_sell \in Side
         /\ a[ref].price \in Word /\ a[ref].remaining_shares \in 0 .. MostShares
         /\ a[ref].remaining_shares \in Word
         /\ price_to_index(a[ref].stock_id, a[ref].price) \in Level
<1>1. a[ref] \in MarketOrder
  BY DEF MarketTyped
<1>2. a[ref].remaining_shares <= MostShares
  BY DEF MarketTyped
<1> HIDE DEF MarketTyped
<1>3. /\ a[ref].stock_id \in Stock /\ a[ref].buy_sell \in Side
      /\ a[ref].price \in Word /\ a[ref].remaining_shares \in Word
  BY <1>1 DEF MarketOrder
<1> QED  BY <1>1, <1>2, <1>3, PriceIndexType, Sizes, MostType DEF Word

LEMMA TrackedSize ==
  ASSUME NEW a, MarketTyped(a)
  PROVE  /\ TrackedIn(a) \subseteq 1 .. Len(a) /\ TrackedIn(a) \subseteq OrderId
         /\ IsFiniteSet(TrackedIn(a)) /\ Cardinality(TrackedIn(a)) <= MaxOrderNum
<1>1. Len(a) \in Nat /\ MaxOrderNum \in Nat
  BY SizeAssumption DEF MarketTyped
<1>2. TrackedIn(a) \subseteq 1 .. Len(a) /\ TrackedIn(a) \subseteq OrderId
  BY <1>1 DEF TrackedIn, OrderId
<1>3. IsFiniteSet(OrderId) /\ Cardinality(OrderId) = MaxOrderNum
  <2>1. IsFiniteSet(0 .. MaxOrderNum - 1)
        /\ Cardinality(0 .. MaxOrderNum - 1) = IF 0 > MaxOrderNum - 1 THEN 0
                                               ELSE MaxOrderNum - 1 - 0 + 1
    BY <1>1, FS_Interval
  <2> QED  BY <1>1, <2>1, SizeAssumption DEF OrderId
<1> QED  BY <1>2, <1>3, FS_Subset

\* What is summed for a level.
LEMMA LevelSum ==
  ASSUME NEW a, MarketTyped(a), NEW b, NEW l
  PROVE  /\ OnLevel(a, b, l) \subseteq TrackedIn(a) /\ OnLevel(a, b, l) \subseteq 1 .. Len(a)
         /\ IsFiniteSet(OnLevel(a, b, l))
         /\ \A ref \in OnLevel(a, b, l) :
              /\ Remaining(a)[ref] = a[ref].remaining_shares
              /\ Remaining(a)[ref] \in Int /\ Remaining(a)[ref] \in 0 .. MostShares
              /\ Remaining(a)[ref] > 0
<1>1. OnLevel(a, b, l) \subseteq TrackedIn(a) /\ OnLevel(a, b, l) \subseteq 1 .. Len(a)
  BY TrackedSize DEF OnLevel
<1>2. IsFiniteSet(OnLevel(a, b, l))
  BY <1>1, TrackedSize, FS_Subset
<1>3. ASSUME NEW ref \in OnLevel(a, b, l)
      PROVE  /\ Remaining(a)[ref] = a[ref].remaining_shares
             /\ Remaining(a)[ref] \in Int /\ Remaining(a)[ref] \in 0 .. MostShares
             /\ Remaining(a)[ref] > 0
  <2>1. ref \in 1 .. Len(a) /\ a[ref].remaining_shares > 0
    BY <1>1, <1>3 DEF TrackedIn
  <2>2. Remaining(a)[ref] = a[ref].remaining_shares
    BY <2>1 DEF Remaining
  <2> QED  BY <2>1, <2>2, RecordType, MostType
<1> QED  BY <1>1, <1>2, <1>3

LEMMA RestingType ==
  ASSUME NEW a, MarketTyped(a), NEW b, NEW l
  PROVE  Resting(a, b, l) \in Word
<1> DEFINE T == OnLevel(a, b, l)
<1>1. IsFiniteSet(T) /\ Cardinality(T) \in Nat /\ Cardinality(T) <= MaxOrderNum
      /\ \A ref \in T : Remaining(a)[ref] \in 0 .. MostShares
  <2>1. IsFiniteSet(T) /\ T \in SUBSET TrackedIn(a)
    BY LevelSum
  <2>2. Cardinality(T) <= Cardinality(TrackedIn(a))
    BY <2>1, TrackedSize, FS_Subset
  <2>3. Cardinality(T) \in Nat /\ Cardinality(TrackedIn(a)) \in Nat
    BY <2>1, TrackedSize, FS_CardinalityType
  <2> QED  BY <2>1, <2>2, <2>3, TrackedSize, LevelSum, SizeAssumption
<1> HIDE DEF T
<1>2. Total(Remaining(a), T) \in 0 .. Cardinality(T) * MostShares
  BY <1>1, MostType, TotalBound
<1>3. Cardinality(T) * MostShares <= MaxOrderNum * MostShares
  BY <1>1, MostType, SizeAssumption
<1>4. MaxOrderNum * MostShares = MostShares * MaxOrderNum
  BY MostType, SizeAssumption
<1>5. Cardinality(T) * MostShares \in Nat /\ MostShares * MaxOrderNum \in Nat /\ WordSize \in Nat
  BY <1>1, MostType, SizeAssumption
<1> QED  BY <1>2, <1>3, <1>4, <1>5, MostType DEF Resting, T, Word

\* The market e is a with the order o at its end.
Added(a, o, e) ==
  /\ MarketTyped(e)
  /\ Len(e) = Len(a) + 1 /\ e[Len(e)] = o
  /\ \A ref \in 1 .. Len(a) : e[ref] = a[ref]
  /\ TrackedIn(e) = TrackedIn(a) \cup (IF Len(e) < MaxOrderNum THEN {Len(e)} ELSE {})
  /\ \A b, l : Resting(e, b, l) = Resting(a, b, l) +
       (IF Len(e) < MaxOrderNum /\ price_to_index(o.stock_id, o.price) = l
           /\ o.buy_sell = b[1] /\ o.stock_id = b[2]
        THEN o.remaining_shares ELSE 0)

LEMMA AddToMarket ==
  ASSUME NEW a, MarketTyped(a), NEW o \in MarketOrder, ~o.deleted,
         o.remaining_shares \in 1 .. MostShares, Len(a) + 1 <= MaxRef
  PROVE  Added(a, o, Append(a, o))
<1> DEFINE new == Len(a) + 1
           e == Append(a, o)
<1>1. a \in Seq(MarketOrder) /\ Len(a) \in Nat
  BY DEF MarketTyped
<1>2. /\ Len(e) = new /\ e \in Seq(MarketOrder) /\ e[new] = o
      /\ \A ref \in 1 .. Len(a) : e[ref] = a[ref]
  BY <1>1
<1> HIDE DEF e
<1>3. MarketTyped(e)
  <2> SUFFICES ASSUME NEW ref \in 1 .. new PROVE e[ref].remaining_shares <= MostShares
    BY <1>2 DEF MarketTyped
  <2>1. CASE ref = new
    BY <1>2, <2>1, MostType
  <2>2. CASE ref # new
    <3>1. ref \in 1 .. Len(a)
      BY <1>1, <2>2
    <3> QED  BY <1>2, <3>1, RecordType, MostType
  <2> QED  BY <2>1, <2>2
<1>4. TrackedIn(e) = TrackedIn(a) \cup (IF new < MaxOrderNum THEN {new} ELSE {})
  <2>1. 1 .. new = (1 .. Len(a)) \cup {new} /\ new \notin 1 .. Len(a)
    BY <1>1
  <2>2. ~e[new].deleted /\ e[new].remaining_shares > 0
    BY <1>2, MostType
  <2> QED  BY <1>2, <2>1, <2>2 DEF TrackedIn
<1>5. ASSUME NEW b, NEW l
      PROVE  Resting(e, b, l) = Resting(a, b, l) +
               (IF new < MaxOrderNum /\ price_to_index(o.stock_id, o.price) = l
                   /\ o.buy_sell = b[1] /\ o.stock_id = b[2]
                THEN o.remaining_shares ELSE 0)
  <2> DEFINE T == OnLevel(a, b, l)
             Here == new < MaxOrderNum /\ price_to_index(o.stock_id, o.price) = l
                     /\ o.buy_sell = b[1] /\ o.stock_id = b[2]
  <2>1. /\ T \subseteq 1 .. Len(a) /\ IsFiniteSet(T)
        /\ \A ref \in T : Remaining(a)[ref] = a[ref].remaining_shares /\ Remaining(a)[ref] \in Int
    BY LevelSum
  <2>2. OnLevel(e, b, l) = T \cup (IF Here THEN {new} ELSE {})
    <3>1. \A ref \in TrackedIn(a) : e[ref] = a[ref]
      BY <1>2, TrackedSize
    <3> QED  BY <1>2, <1>4, <3>1 DEF OnLevel
  <2>3. \A ref \in T : Remaining(e)[ref] = Remaining(a)[ref]
    <3> SUFFICES ASSUME NEW ref \in T PROVE Remaining(e)[ref] = Remaining(a)[ref]
      OBVIOUS
    <3>1. ref \in 1 .. Len(a) /\ ref \in 1 .. Len(e)
      BY <1>1, <1>2, <2>1
    <3> QED  BY <1>2, <3>1 DEF Remaining
  <2>4. Remaining(e)[new] = o.remaining_shares /\ o.remaining_shares \in Int /\ new \notin T
    <3>1. new \in 1 .. Len(e)
      BY <1>1, <1>2
    <3> QED  BY <1>1, <1>2, <2>1, <3>1, MostType DEF Remaining
  <2>5. Total(Remaining(e), T) = Total(Remaining(a), T) /\ Total(Remaining(a), T) \in Int
    BY <2>1, <2>3, TotalSame, TotalType
  <2>6. CASE Here
    <3>1. OnLevel(e, b, l) = T \cup {new}
      BY <2>2, <2>6
    <3>2. \A ref \in T \cup {new} : Remaining(e)[ref] \in Int
      BY <2>1, <2>3, <2>4
    <3> HIDE DEF T, new
    <3>3. Total(Remaining(e), T \cup {new}) = Remaining(e)[new] + Total(Remaining(e), T)
      BY <2>1, <2>4, <3>2, TotalAdded
    <3> QED  BY <2>4, <2>5, <2>6, <3>1, <3>3 DEF Resting, T
  <2>7. CASE ~Here
    <3>1. OnLevel(e, b, l) = T
      BY <2>2, <2>7
    <3> QED  BY <2>5, <2>7, <3>1 DEF Resting
  <2> QED  BY <2>6, <2>7
<1> QED  BY <1>2, <1>3, <1>4, <1>5 DEF Added, e

\* The market e is a with the order at ref replaced by o, which has less left.
Reduced(a, ref, o, e) ==
  /\ MarketTyped(e) /\ Len(e) = Len(a) /\ e[ref] = o
  /\ \A r \in 1 .. Len(a) : r # ref => e[r] = a[r]
  /\ TrackedIn(e) = TrackedIn(a) \ (IF o.remaining_shares = 0 THEN {ref} ELSE {})
  /\ \A b, l : Resting(e, b, l) = Resting(a, b, l) -
       (IF ref \in OnLevel(a, b, l) THEN a[ref].remaining_shares - o.remaining_shares
        ELSE 0)

LEMMA ReduceMarket ==
  ASSUME NEW a, MarketTyped(a), NEW ref \in 1 .. Len(a), ~a[ref].deleted,
         NEW o \in MarketOrder,
         o.stock_id = a[ref].stock_id, o.buy_sell = a[ref].buy_sell, o.price = a[ref].price,
         o.remaining_shares < a[ref].remaining_shares,
         o.deleted => o.remaining_shares = 0
  PROVE  Reduced(a, ref, o, [a EXCEPT ![ref] = o])
<1> DEFINE left == o.remaining_shares
           e == [a EXCEPT ![ref] = o]
<1>1. a \in Seq(MarketOrder) /\ Len(a) \in Nat
  BY DEF MarketTyped
<1>2. a[ref] \in MarketOrder /\ a[ref].remaining_shares \in 0 .. MostShares
      /\ a[ref].remaining_shares \in Word /\ a[ref].remaining_shares \in Nat
  BY RecordType, MostType
<1>3. left \in Nat /\ left <= MostShares
  BY <1>2, MostType, Sizes DEF Word, MarketOrder
<1>4. o.remaining_shares = left /\ (o.deleted => left = 0) /\ o.deleted \in BOOLEAN
  BY DEF MarketOrder
<1> HIDE DEF left
<1>6. /\ e \in Seq(MarketOrder) /\ Len(e) = Len(a) /\ e[ref] = o
      /\ \A r \in 1 .. Len(a) : r # ref => e[r] = a[r]
  <2>1. a \in [1 .. Len(a) -> MarketOrder] /\ ref \in DOMAIN a
    BY <1>1
  <2>2. e \in [1 .. Len(a) -> MarketOrder] /\ e[ref] = o
        /\ \A r \in 1 .. Len(a) : r # ref => e[r] = a[r]
    BY <2>1
  <2>3. e \in Seq(MarketOrder) /\ Len(e) = Len(a)
    BY <1>1, <2>2
  <2> QED  BY <2>2, <2>3
<1> HIDE DEF e
<1>7. MarketTyped(e)
  BY <1>3, <1>4, <1>6 DEF MarketTyped
<1>8. \A r \in 1 .. Len(a) : e[r].stock_id = a[r].stock_id
                             /\ e[r].buy_sell = a[r].buy_sell /\ e[r].price = a[r].price
  BY <1>6
<1>9. TrackedIn(e) = TrackedIn(a) \ (IF left = 0 THEN {ref} ELSE {})
  <2>1. a[ref].remaining_shares > 0
    BY <1>2, <1>3, <1>4
  <2>2. (~o.deleted /\ o.remaining_shares > 0) <=> left # 0
    BY <1>3, <1>4
  <2>3. ASSUME NEW r \in 1 .. Len(a)
        PROVE  r \in TrackedIn(e) <=> r \in TrackedIn(a) /\ (left = 0 => r # ref)
    BY <1>4, <1>6, <2>1, <2>2 DEF TrackedIn
  <2> QED  BY <1>6, <2>3 DEF TrackedIn
<1>10. ASSUME NEW b, NEW l
       PROVE  Resting(e, b, l) = Resting(a, b, l) -
                (IF ref \in OnLevel(a, b, l) THEN a[ref].remaining_shares - left ELSE 0)
  <2> DEFINE T == OnLevel(a, b, l)
             f == Remaining(a)
             g == Remaining(e)
  <2>1. /\ T \subseteq 1 .. Len(a) /\ IsFiniteSet(T)
        /\ \A r \in T : f[r] = a[r].remaining_shares /\ f[r] \in Int
    BY LevelSum
  <2>2. OnLevel(e, b, l) = T \ (IF left = 0 THEN {ref} ELSE {})
    <3>1. TrackedIn(a) \subseteq 1 .. Len(a)
      BY TrackedSize
    <3> QED  BY <1>8, <1>9, <3>1 DEF OnLevel
  <2>3. \A r \in T : g[r] = IF r = ref THEN left ELSE f[r]
    <3> SUFFICES ASSUME NEW r \in T PROVE g[r] = IF r = ref THEN left ELSE f[r]
      OBVIOUS
    <3>1. r \in 1 .. Len(a)
      BY <2>1
    <3>2. g[r] = e[r].remaining_shares /\ f[r] = a[r].remaining_shares
      BY <1>6, <3>1 DEF Remaining
    <3> QED  BY <1>4, <1>6, <3>1, <3>2
  <2> HIDE DEF T, f, g
  <2>4. \A r \in T : f[r] \in Int /\ g[r] \in Int
    BY <1>3, <2>1, <2>3
  <2>5. Resting(a, b, l) = Total(f, T) /\ Total(f, T) \in Int
    BY <2>1, TotalType DEF Resting, f, T
  <2>6. CASE ref \notin T
    <3>1. OnLevel(e, b, l) = T
      BY <2>2, <2>6
    <3>2. \A r \in T : f[r] \in Int /\ f[r] = g[r]
      BY <2>3, <2>4, <2>6
    <3>3. Total(f, T) = Total(g, T)
      BY <2>1, <3>2, TotalSame
    <3> QED  BY <2>5, <2>6, <3>1, <3>3 DEF Resting, g, T
  <2>7. CASE ref \in T
    <3>1. f[ref] = a[ref].remaining_shares /\ g[ref] = left
      BY <2>1, <2>3, <2>7
    <3>2. Total(g, T) = Total(f, T) + (g[ref] - f[ref])
      <4>1. \A r \in T : r # ref => f[r] = g[r]
        BY <2>3
      <4>2. IsFiniteSet(T)
        BY <2>1
      <4> QED  BY ONLY <2>4, <2>7, <4>1, <4>2, TotalExcept
    <3>3. Total(g, T) = g[ref] + Total(g, T \ {ref})
      <4>1. IsFiniteSet(T)
        BY <2>1
      <4>2. \A r \in T : g[r] \in Int
        BY <2>4
      <4>3. \A x \in T : Total(g, T) = g[x] + Total(g, T \ {x})
        BY ONLY <4>1, <4>2, TotalSplit
      <4> QED  BY <2>7, <4>3
    <3>4. Total(g, T \ {ref}) \in Int
      <4>1. IsFiniteSet(T \ {ref})
        BY <2>1, FS_Subset
      <4> QED  BY <2>4, <4>1, TotalType
    <3>5. Total(g, OnLevel(e, b, l)) = Total(g, T)
      <4>1. CASE left = 0
        <5>1. OnLevel(e, b, l) = T \ {ref}
          BY <2>2, <4>1
        <5>2. Total(g, T) = Total(g, T \ {ref})
          BY <3>1, <3>3, <3>4, <4>1
        <5> QED  BY <5>1, <5>2
      <4>2. CASE left # 0
        BY <2>2, <4>2
      <4> QED  BY <4>1, <4>2
    <3>6. Resting(e, b, l) = Total(g, T)
      BY <3>5 DEF Resting, g
    <3> QED  BY <1>2, <1>3, <1>4, <2>5, <2>7, <3>1, <3>2, <3>6 DEF T
  <2> QED  BY <2>6, <2>7
<1> QED  BY <1>4, <1>6, <1>7, <1>9, <1>10 DEF Reduced, e

-----------------------------------------------------------------------------
(* The invariant.                                                          *)

LevelsHold ==
  \A b \in Books, l \in Level :
    books[b].price_quantity[l] = Resting(active_orders, b, l)

\* A valid slot holds the order it was filled with.
SlotsHold ==
  \A id \in OrderId :
    /\ order_list[id].valid <=> id \in TrackedIn(active_orders)
    /\ id \in TrackedIn(active_orders) =>
         /\ order_list[id].quantity = active_orders[id].remaining_shares
         /\ order_list[id].price_index = LevelOf(id)
         /\ order_list[id].ask_bid = active_orders[id].buy_sell

MarketInv ==
  /\ IInv
  /\ MarketTyped(active_orders)
  /\ initialized => LevelsHold /\ SlotsHold
  /\ ~initialized => active_orders = <<>>

LEMMA FinalPriceType ==
  ASSUME NEW s \in Stock, NEW raw \in RawPrices[s]
  PROVE  final_price(s, raw) \in Word
<1> DEFINE capped == IF raw > MaxPrice[s] THEN MaxPrice[s] ELSE raw
           p == IF capped < MinPrice[s] THEN MinPrice[s] ELSE capped
           t == TickSize[s]
<1>1. p \in Word /\ t \in Nat \ {0}
  BY FeedAssumption, PriceAssumption DEF Word
<1>2. final_price(s, raw) = (p \div t) * t
  BY DEF final_price
<1> HIDE DEF p, t
<1>3. p \in Nat /\ p < WordSize
  BY <1>1, Sizes DEF Word
<1>4. p \div t \in Nat /\ p % t \in 0 .. t - 1 /\ p = t * (p \div t) + (p % t)
  BY <1>1, <1>3, Division
<1> DEFINE q == p \div t
           r == p % t
<1>5. q \in Nat /\ r \in Nat /\ p = t * q + r
  BY <1>1, <1>4
<1> HIDE DEF q, r
<1>6. t * q = q * t /\ q * t \in Nat
  BY <1>1, <1>5
<1>7. q * t \in Word
  BY <1>3, <1>5, <1>6, Sizes DEF Word
<1> QED  BY <1>2, <1>7 DEF q

\* The level arrays of the books after a write of one level.
Written(before, after, b, leaf, value) ==
  \A c \in Books, l \in Level :
    after[c].price_quantity[l] = IF c = b /\ l = leaf THEN value
                                 ELSE before[c].price_quantity[l]

LEMMA LevelWritten ==
  ASSUME IInv, initialized, NEW b \in Books, NEW leaf \in Level, NEW value \in Word,
         books' = [books EXCEPT ![b] = SetLevel(books[b], b[1], leaf, value)]
  PROVE  Written(books, books', b, leaf, value)
<1> DEFINE new == SetLevel(books[b], b[1], leaf, value)
<1>1. books \in [Books -> Book] /\ TreeConsistent(books[b], b[1]) /\ b[1] \in Side
  BY DEF IInv, TypeOK, TreesConsistent, Books
<1>2. new.price_quantity = [books[b].price_quantity EXCEPT ![leaf] = value]
  BY <1>1, SetLevelKeeps
<1>3. books[b].price_quantity \in [Level -> Word]
  BY <1>1 DEF Book
<1> HIDE DEF new
<1>4. books' = [books EXCEPT ![b] = new]
  BY DEF new
<1> SUFFICES ASSUME NEW c \in Books, NEW l \in Level
             PROVE  books'[c].price_quantity[l] = IF c = b /\ l = leaf THEN value
                                                  ELSE books[c].price_quantity[l]
  BY DEF Written
<1>5. books'[c] = IF c = b THEN new ELSE books[c]
  BY <1>1, <1>4
<1> QED  BY <1>2, <1>3, <1>5

LEMMA FeedAddInv ==
  ASSUME MarketInv, NEW s \in Stock, NEW side \in Side, NEW shares \in AddShares,
         NEW raw \in RawPrices[s], FeedAdd(s, side, shares, raw)
  PROVE  MarketInv'
<1> DEFINE ref == Len(active_orders) + 1
           price == final_price(s, raw)
           m == Event(ADD, ref, side, shares, s, price)
           o == [stock_id |-> s, buy_sell |-> side, price |-> price,
                 remaining_shares |-> shares, deleted |-> FALSE]
           a == active_orders
<1>1. ref <= MaxRef /\ AddOrder(m) /\ active_orders' = Append(a, o)
  BY DEF FeedAdd
<1>2. price \in Word
  BY FinalPriceType
<1> HIDE DEF price
<1>3. Len(a) \in Nat /\ MarketTyped(a)
  BY DEF MarketInv, MarketTyped
<1>4. ref \in Word /\ shares \in Word /\ shares \in 1 .. MostShares
  <2>1. shares \in Nat /\ shares > 0 /\ shares \in Word /\ shares * MaxOrderNum < WordSize
    BY FeedAssumption, RangeAssumption DEF Word
  <2> QED  BY <1>1, <1>3, <2>1, RangeAssumption, FeedAssumption, MostType, Sizes DEF Word
<1>5. /\ m \in ParserWord /\ m.order_ref_num = ref /\ m.buy_sell = side
      /\ m.num_shares = shares /\ m.stock_id = s /\ m.price = price
  <2>1. ADD \in 0 .. 15
    BY DEF ADD
  <2>2. s \in Word
    BY RangeAssumption, SizeAssumption DEF Stock, Word
  <2> HIDE DEF ref
  <2> QED  BY <1>2, <1>4, <2>1, <2>2 DEF Event, ParserWord
<1> HIDE DEF m
<1>6. IInv'
  BY <1>1, <1>5, AddOrderInv DEF MarketInv
<1>7. /\ o \in MarketOrder /\ ~o.deleted /\ o.remaining_shares = shares
      /\ o.stock_id = s /\ o.buy_sell = side /\ o.price = price
  BY <1>2, <1>4 DEF MarketOrder
<1> HIDE DEF o
<1> DEFINE fits == ref < MaxOrderNum
           idx == price_to_index(s, price)
<1>8. /\ MarketTyped(active_orders')
      /\ Len(active_orders') = ref /\ active_orders'[ref] = o
      /\ \A r \in 1 .. Len(a) : active_orders'[r] = a[r]
      /\ TrackedIn(active_orders') = TrackedIn(a) \cup (IF fits THEN {ref} ELSE {})
      /\ \A b, l : Resting(active_orders', b, l) = Resting(a, b, l) +
           (IF fits /\ idx = l /\ side = b[1] /\ s = b[2] THEN shares ELSE 0)
  <2>1. /\ Len(a) + 1 <= MaxRef /\ MarketTyped(a)
        /\ o \in MarketOrder /\ ~o.deleted /\ o.remaining_shares \in 1 .. MostShares
    BY <1>1, <1>3, <1>4, <1>7
  <2>2. Added(a, o, active_orders')
    <3> HIDE DEF a
    <3>1. Added(a, o, Append(a, o))
      BY <2>1, AddToMarket
    <3> QED  BY <1>1, <3>1 DEF a
  <2>3. Len(active_orders') = ref /\ price_to_index(o.stock_id, o.price) = idx
    BY <1>7, <2>2 DEF Added
  <2> HIDE DEF a, ref, idx
  <2> QED  BY <1>7, <2>2, <2>3 DEF Added
<1>9. initialized /\ initialized' /\ Read /\ add_order(m)
  BY <1>1 DEF AddOrder, Read
<1>10. LevelsHold /\ SlotsHold
  BY <1>9 DEF MarketInv
<1>11. \A b, l : Resting(a, b, l) \in Word /\ Resting(active_orders', b, l) \in Word
  BY <1>3, <1>8, RestingType
<1>12. idx \in Level
  BY <1>2, PriceIndexType
<1> HIDE DEF idx
<1>13. CASE ~fits
  <2>1. UNCHANGED <<books, order_list>>
    BY <1>5, <1>9, <1>13, <1>3, SizeAssumption DEF add_order
  <2>2. TrackedIn(active_orders') = TrackedIn(a)
        /\ \A b, l : Resting(active_orders', b, l) = Resting(a, b, l)
    <3>1. \A b, l : Resting(a, b, l) \in Int
      BY <1>11 DEF Word
    <3> QED  BY <1>8, <1>13, <3>1
  <2>3. LevelsHold'
    BY <1>10, <2>1, <2>2 DEF LevelsHold
  <2>4. \A r \in TrackedIn(a) : active_orders'[r] = a[r]
    BY <1>3, <1>8, TrackedSize
  <2>5. SlotsHold'
    BY <1>10, <2>1, <2>2, <2>4 DEF SlotsHold, LevelOf
  <2> QED  BY <1>6, <1>8, <1>9, <2>3, <2>5 DEF MarketInv
<1>14. CASE fits
  <2> DEFINE b0 == <<side, s>>
             held == books[b0].price_quantity[idx]
             value == (held + shares) % WordSize
  <2>1. /\ books' = [books EXCEPT ![b0] = SetLevel(books[b0], side, idx, value)]
        /\ order_list' = [order_list EXCEPT ![ref] =
             [valid |-> TRUE, price_index |-> idx, quantity |-> shares, ask_bid |-> side]]
    BY <1>3, <1>5, <1>9, <1>14, SizeAssumption DEF add_order, idx
  <2>2. b0 \in Books /\ b0[1] = side /\ b0[2] = s
    BY DEF Books
  <2>3. held = Resting(a, b0, idx) /\ held \in Word
    BY <1>10, <1>11, <1>12, <2>2 DEF LevelsHold
  <2>4. Resting(active_orders', b0, idx) = held + shares
    <3> HIDE DEF held, b0
    <3> QED  BY <1>8, <1>14, <2>2, <2>3
  <2>5. value = held + shares /\ value \in Word
    <3>1. held + shares \in Word
      BY <1>11, <2>4
    <3> QED  BY <3>1, Sizes, ModOfSmall DEF Word
  <2> HIDE DEF held, value, b0
  <2>6. ASSUME NEW c \in Books, NEW l \in Level
        PROVE  books'[c].price_quantity[l] = Resting(active_orders', c, l)
    <3>1. books'[c].price_quantity[l] = IF c = b0 /\ l = idx THEN value
                                        ELSE books[c].price_quantity[l]
      <4>1. books' = [books EXCEPT ![b0] = SetLevel(books[b0], b0[1], idx, value)] /\ IInv
        BY <2>1, <2>2 DEF MarketInv
      <4>2. Written(books, books', b0, idx, value)
        BY <4>1, <1>9, <1>12, <2>2, <2>5, LevelWritten
      <4> QED  BY <4>2 DEF Written
    <3>2. c = b0 <=> side = c[1] /\ s = c[2]
      BY <2>2 DEF Books, b0
    <3>3. books[c].price_quantity[l] = Resting(a, c, l) /\ Resting(a, c, l) \in Int
      BY <1>10, <1>11 DEF LevelsHold, Word
    <3>4. Resting(active_orders', c, l) = Resting(a, c, l) +
            (IF fits /\ idx = l /\ side = c[1] /\ s = c[2] THEN shares ELSE 0)
      BY <1>8
    <3>5. CASE c = b0 /\ l = idx
      BY <2>4, <2>5, <3>1, <3>5
    <3>6. CASE ~ (c = b0 /\ l = idx)
      BY <3>1, <3>2, <3>3, <3>4, <3>6
    <3> QED  BY <3>5, <3>6
  <2>7. LevelsHold'
    BY <2>6 DEF LevelsHold
  <2>8. TrackedIn(active_orders') = TrackedIn(a) \cup {ref} /\ ref \notin TrackedIn(a)
        /\ ref \in OrderId
    BY <1>3, <1>8, <1>14, TrackedSize, SizeAssumption DEF OrderId
  <2>9. \A r \in TrackedIn(a) : active_orders'[r] = a[r]
    BY <1>3, <1>8, TrackedSize
  <2>10. ASSUME NEW id \in OrderId
         PROVE  /\ order_list'[id].valid <=> id \in TrackedIn(active_orders')
                /\ id \in TrackedIn(active_orders') =>
                     /\ order_list'[id].quantity = active_orders'[id].remaining_shares
                     /\ order_list'[id].price_index = LevelOf(id)'
                     /\ order_list'[id].ask_bid = active_orders'[id].buy_sell
    <3>1. order_list \in [OrderId -> Order]
      BY DEF MarketInv, IInv, TypeOK
    <3>2. order_list'[id] = IF id = ref THEN
            [valid |-> TRUE, price_index |-> idx, quantity |-> shares, ask_bid |-> side]
            ELSE order_list[id]
      BY <2>1, <3>1
    <3>3. CASE id = ref
      <4>1. active_orders'[id] = o
        BY <1>8, <3>3
      <4>2. LevelOf(id)' = idx
        BY <1>7, <4>1 DEF LevelOf, idx
      <4> QED  BY <1>7, <2>8, <3>2, <3>3, <4>1, <4>2
    <3>4. CASE id # ref
      <4>1. order_list'[id] = order_list[id]
            /\ (id \in TrackedIn(active_orders') <=> id \in TrackedIn(a))
        BY <2>8, <3>2, <3>4
      <4>2. id \in TrackedIn(a) => active_orders'[id] = a[id] /\ LevelOf(id)' = LevelOf(id)
        BY <2>9 DEF LevelOf
      <4> QED  BY <1>10, <4>1, <4>2 DEF SlotsHold
    <3> QED  BY <3>3, <3>4
  <2>11. SlotsHold'
    BY <2>10 DEF SlotsHold
  <2> QED  BY <1>6, <1>8, <1>9, <2>7, <2>11 DEF MarketInv
<1> QED  BY <1>13, <1>14

\* A removal of what the generator takes off an active order, m its word.
RemovalOf(m, ref, o) ==
  LET a == active_orders
      taken == IF m.order_type = DELETE THEN NEG_ONE ELSE m.num_shares
  IN  /\ ref \in 1 .. Len(a) /\ IsActive(ref)
      /\ o \in MarketOrder
      /\ o.stock_id = a[ref].stock_id /\ o.buy_sell = a[ref].buy_sell
      /\ o.price = a[ref].price
      /\ o.remaining_shares < a[ref].remaining_shares
      /\ o.deleted => o.remaining_shares = 0
      /\ active_orders' = [a EXCEPT ![ref] = o]
      /\ m \in ParserWord /\ m.order_ref_num = ref /\ m.stock_id = a[ref].stock_id
      /\ taken = NEG_ONE => o.remaining_shares = 0
      /\ taken # NEG_ONE => taken = a[ref].remaining_shares - o.remaining_shares
      /\ RemoveOrder(m)

LEMMA RemovalInv ==
  ASSUME MarketInv, NEW m, NEW ref, NEW o, RemovalOf(m, ref, o)
  PROVE  MarketInv'
<1> DEFINE a == active_orders
           n == IF m.order_type = DELETE THEN NEG_ONE ELSE m.num_shares
           fits == ref < MaxOrderNum
           b0 == <<a[ref].buy_sell, a[ref].stock_id>>
           idx == LevelOf(ref)
           left == o.remaining_shares
           had == a[ref].remaining_shares
<1>1. /\ ref \in 1 .. Len(a) /\ ~a[ref].deleted /\ had > 0 /\ o \in MarketOrder
      /\ o.stock_id = a[ref].stock_id /\ o.buy_sell = a[ref].buy_sell /\ o.price = a[ref].price
      /\ left < had /\ (o.deleted => left = 0)
      /\ active_orders' = [a EXCEPT ![ref] = o]
      /\ m \in ParserWord /\ m.order_ref_num = ref /\ m.stock_id = a[ref].stock_id
      /\ n = NEG_ONE => left = 0
      /\ n # NEG_ONE => n = had - left
      /\ RemoveOrder(m)
  BY DEF RemovalOf, IsActive
<1>2. MarketTyped(a) /\ Len(a) \in Nat /\ ref \in Nat /\ MaxOrderNum \in Nat
  BY <1>1, SizeAssumption DEF MarketInv, MarketTyped
<1>3. /\ a[ref].stock_id \in Stock /\ a[ref].buy_sell \in Side
      /\ idx \in Level /\ had \in 0 .. MostShares /\ had \in Word /\ left \in Word
      /\ had \in Nat /\ left \in Nat
  <2> HIDE DEF a
  <2>1. /\ a[ref] \in MarketOrder /\ a[ref].stock_id \in Stock /\ a[ref].buy_sell \in Side
        /\ a[ref].price \in Word /\ a[ref].remaining_shares \in 0 .. MostShares
        /\ a[ref].remaining_shares \in Word
        /\ price_to_index(a[ref].stock_id, a[ref].price) \in Level
    BY <1>1, <1>2, RecordType
  <2> QED  BY <1>1, <2>1, Sizes DEF MarketOrder, LevelOf, Word, a
<1>4. Reduced(a, ref, o, active_orders')
  <2> HIDE DEF a
  <2>1. Reduced(a, ref, o, [a EXCEPT ![ref] = o])
    BY <1>1, <1>2, ReduceMarket
  <2> QED  BY <1>1, <2>1
<1>5. initialized /\ initialized' /\ Read /\ LevelsHold /\ SlotsHold
      /\ cancel_order(<<check_ask_bid(ref), a[ref].stock_id>>, ref, n)
  BY <1>1 DEF RemoveOrder, Read, MarketInv
<1>6. IInv'
  BY <1>1, RemoveOrderInv DEF MarketInv
<1>7. \A b, l : Resting(a, b, l) \in Word /\ Resting(active_orders', b, l) \in Word
  BY <1>2, <1>4, RestingType DEF Reduced
<1> HIDE DEF n, left, had, idx, a
<1>8. /\ MarketTyped(active_orders') /\ Len(active_orders') = Len(a)
      /\ active_orders'[ref] = o
      /\ \A r \in 1 .. Len(a) : r # ref => active_orders'[r] = a[r]
      /\ TrackedIn(active_orders') = TrackedIn(a) \ (IF left = 0 THEN {ref} ELSE {})
      /\ \A b, l : Resting(active_orders', b, l) = Resting(a, b, l) -
           (IF ref \in OnLevel(a, b, l) THEN had - left ELSE 0)
  BY <1>4 DEF Reduced, left, had
<1>9. ref \in TrackedIn(a) <=> fits
  BY <1>1, <1>2 DEF TrackedIn, had
<1>10. \A r \in TrackedIn(a) : r # ref =>
         active_orders'[r] = a[r] /\ price_to_index(active_orders'[r].stock_id,
           active_orders'[r].price) = price_to_index(a[r].stock_id, a[r].price)
  BY <1>2, <1>8, TrackedSize
<1>11. CASE ~fits
  <2>1. UNCHANGED <<books, order_list>>
    BY <1>5, <1>11 DEF cancel_order, IsLive
  <2>2. ref \notin TrackedIn(a)
    BY <1>9, <1>11
  <2>3. TrackedIn(active_orders') = TrackedIn(a)
    BY <1>8, <2>2
  <2>4. \A b, l : Resting(active_orders', b, l) = Resting(a, b, l)
    <3>1. \A b, l : Resting(a, b, l) \in Int /\ ref \notin OnLevel(a, b, l)
      BY <1>7, <2>2 DEF Word, OnLevel
    <3> QED  BY <1>8, <3>1
  <2>5. LevelsHold'
    BY <1>5, <2>1, <2>4 DEF LevelsHold, a
  <2>6. SlotsHold'
    BY <1>5, <1>10, <2>1, <2>2, <2>3 DEF SlotsHold, LevelOf, a
  <2> QED  BY <1>5, <1>6, <1>8, <2>5, <2>6 DEF MarketInv
<1>12. CASE fits
  <2>1. /\ ref \in OrderId /\ ref \in TrackedIn(a) /\ order_list[ref].valid
        /\ order_list[ref].quantity = had /\ order_list[ref].price_index = idx
        /\ order_list[ref].ask_bid = a[ref].buy_sell
    <3>1. ref \in OrderId /\ ref \in TrackedIn(a)
      BY <1>2, <1>9, <1>12, TrackedSize
    <3> QED  BY <1>5, <3>1 DEF SlotsHold, a, had, idx
  <2>2. IsLive(ref) /\ check_ask_bid(ref) = a[ref].buy_sell
    <3>1. \A k \in Side : k % 2 = k
      BY DEF Side, SIDE_BID, SIDE_ASK
    <3> QED  BY <1>3, <1>12, <2>1, <3>1 DEF IsLive, check_ask_bid
  <2> DEFINE gone == IF n = NEG_ONE \/ n > had THEN had ELSE n
             held == books[b0].price_quantity[idx]
             value == (held - gone) % WordSize
  <2>3. gone = had - left
    BY <1>1, <1>3 DEF left, had
  <2>4. /\ books' = [books EXCEPT ![b0] = SetLevel(books[b0], b0[1], idx, value)]
        /\ order_list' = [order_list EXCEPT ![ref] =
             IF gone = had
             THEN [order_list[ref] EXCEPT !.valid = FALSE, !.quantity = 0, !.ask_bid = 3]
             ELSE [order_list[ref] EXCEPT !.quantity = had - gone]]
    BY <1>5, <2>1, <2>2 DEF cancel_order
  <2>5. b0 \in Books /\ b0[1] = a[ref].buy_sell /\ b0[2] = a[ref].stock_id
    BY <1>3 DEF Books
  <2>6. \A b \in Books : \A l : ref \in OnLevel(a, b, l) <=> (b = b0 /\ l = idx)
    BY <2>1, <2>5 DEF OnLevel, Books, idx, LevelOf, a
  <2> HIDE DEF gone, b0
  <2>7. held = Resting(a, b0, idx) /\ held \in Int
    BY <1>3, <1>5, <1>7, <2>5 DEF LevelsHold, Word, a
  <2>8. Resting(active_orders', b0, idx) = held - gone
    <3>1. Resting(active_orders', b0, idx) = Resting(a, b0, idx) - (had - left)
      BY <1>8, <2>5, <2>6
    <3> QED  BY <2>3, <2>7, <3>1
  <2>9. value = held - gone /\ value \in Word
    <3>1. held - gone \in Word
      BY <1>7, <2>8
    <3> QED  BY <3>1, Sizes, ModOfSmall DEF Word
  <2> HIDE DEF held, value
  <2>10. Written(books, books', b0, idx, value)
    BY <1>3, <1>5, <2>4, <2>5, <2>9, LevelWritten DEF MarketInv
  <2>11. ASSUME NEW c \in Books, NEW l \in Level
         PROVE  books'[c].price_quantity[l] = Resting(active_orders', c, l)
    <3>1. books'[c].price_quantity[l] = IF c = b0 /\ l = idx THEN value
                                        ELSE books[c].price_quantity[l]
      BY <2>10 DEF Written
    <3>2. books[c].price_quantity[l] = Resting(a, c, l) /\ Resting(a, c, l) \in Int
      BY <1>5, <1>7 DEF LevelsHold, Word, a
    <3>3. CASE c = b0 /\ l = idx
      BY <2>8, <2>9, <3>1, <3>3
    <3>4. CASE ~ (c = b0 /\ l = idx)
      <4>1. ref \notin OnLevel(a, c, l)
        BY <2>6, <3>4
      <4>2. Resting(active_orders', c, l) = Resting(a, c, l)
        BY <1>8, <3>2, <4>1
      <4> QED  BY <3>1, <3>2, <3>4, <4>2
    <3> QED  BY <3>3, <3>4
  <2>12. LevelsHold'
    BY <2>11 DEF LevelsHold
  <2>13. order_list \in [OrderId -> Order] /\ order_list[ref] \in Order
    BY <2>1 DEF MarketInv, IInv, TypeOK
  <2>14. ASSUME NEW id \in OrderId
         PROVE  /\ order_list'[id].valid <=> id \in TrackedIn(active_orders')
                /\ id \in TrackedIn(active_orders') =>
                     /\ order_list'[id].quantity = active_orders'[id].remaining_shares
                     /\ order_list'[id].price_index = LevelOf(id)'
                     /\ order_list'[id].ask_bid = active_orders'[id].buy_sell
    <3>1. CASE id # ref
      <4>1. order_list'[id] = order_list[id]
        BY <2>4, <2>13, <3>1
      <4>2. id \in TrackedIn(active_orders') <=> id \in TrackedIn(a)
        BY <1>8, <3>1
      <4>3. id \in TrackedIn(a) => active_orders'[id] = a[id] /\ LevelOf(id)' = LevelOf(id)
        BY <1>10, <3>1 DEF LevelOf, a
      <4> QED  BY <1>5, <4>1, <4>2, <4>3 DEF SlotsHold, a
    <3>2. CASE id = ref /\ left = 0
      <4>1. gone = had
        BY <1>3, <2>3, <3>2
      <4>2. order_list'[id] =
              [order_list[ref] EXCEPT !.valid = FALSE, !.quantity = 0, !.ask_bid = 3]
        BY <2>4, <2>13, <3>2, <4>1
      <4>3. ~order_list'[id].valid
        BY <2>13, <4>2 DEF Order
      <4>4. id \notin TrackedIn(active_orders')
        BY <1>8, <3>2
      <4> QED  BY <4>3, <4>4
    <3>3. CASE id = ref /\ left # 0
      <4>1. gone # had /\ had - gone = left
        BY <1>3, <2>3, <3>3
      <4>2. order_list'[id] = [order_list[ref] EXCEPT !.quantity = left]
        BY <2>4, <2>13, <3>3, <4>1
      <4>3. /\ order_list'[id].valid /\ order_list'[id].quantity = left
            /\ order_list'[id].price_index = idx
            /\ order_list'[id].ask_bid = a[ref].buy_sell
        BY <2>1, <2>13, <4>2 DEF Order
      <4>4. id \in TrackedIn(active_orders')
        BY <1>8, <2>1, <3>3
      <4>5. /\ active_orders'[id].remaining_shares = left /\ LevelOf(id)' = idx
            /\ active_orders'[id].buy_sell = a[ref].buy_sell
        BY <1>1, <1>8, <3>3 DEF LevelOf, idx, left, a
      <4> QED  BY <4>3, <4>4, <4>5
    <3> QED  BY <3>1, <3>2, <3>3
  <2>15. SlotsHold'
    BY <2>14 DEF SlotsHold
  <2> QED  BY <1>5, <1>6, <1>8, <2>12, <2>15 DEF MarketInv
<1> QED  BY <1>11, <1>12

LEMMA StockWord == Stock \subseteq Word /\ 0 \in Word
BY RangeAssumption, SizeAssumption, Sizes DEF Stock, Word

LEMMA ActiveOrder ==
  ASSUME MarketTyped(active_orders), NEW ref \in 1 .. Len(active_orders), IsActive(ref)
  PROVE  LET o == active_orders[ref]
         IN  /\ o \in MarketOrder /\ o.stock_id \in Stock /\ o.buy_sell \in Side
             /\ o.remaining_shares \in Word /\ o.remaining_shares \in Nat
             /\ o.remaining_shares > 0 /\ o.deleted = FALSE
             /\ ref \in Word
<1>1. Len(active_orders) \in Nat /\ Len(active_orders) <= MaxRef
  BY DEF MarketTyped
<1>2. ref \in Word
  BY <1>1, FeedAssumption, RangeAssumption, Sizes DEF Word
<1> QED  BY <1>2, RecordType, MostType DEF IsActive, MarketOrder

LEMMA FeedCancelRemoves ==
  ASSUME MarketInv, NEW type \in {CANCEL, EXECUTE}, NEW ref \in 1 .. Len(active_orders),
         NEW qty \in 1 .. active_orders[ref].remaining_shares, FeedCancel(type, ref, qty)
  PROVE  \E m, o : RemovalOf(m, ref, o) /\ m.order_type # DELETE /\ m.num_shares = qty
<1> DEFINE old == active_orders[ref]
           m == Event(type, ref, old.buy_sell, qty, old.stock_id, 0)
           o == [old EXCEPT !.remaining_shares = old.remaining_shares - qty]
<1>1. /\ IsActive(ref) /\ RemoveOrder(m) /\ qty <= old.remaining_shares
      /\ active_orders' = [active_orders EXCEPT ![ref] = o]
  BY DEF FeedCancel
<1>2. /\ old \in MarketOrder /\ old.stock_id \in Stock /\ old.buy_sell \in Side
      /\ old.remaining_shares \in Word /\ old.remaining_shares \in Nat
      /\ old.remaining_shares > 0 /\ old.deleted = FALSE /\ ref \in Word
  BY <1>1, ActiveOrder DEF MarketInv
<1> HIDE DEF old
<1>3. qty \in Nat /\ qty > 0 /\ qty \in Word /\ qty <= old.remaining_shares
  BY <1>1, <1>2, Sizes DEF Word, old
<1>4. type \in 0 .. 15 /\ type # DELETE
  BY DEF CANCEL, EXECUTE, DELETE
<1>5. /\ m \in ParserWord /\ m.order_type = type /\ m.order_ref_num = ref
      /\ m.num_shares = qty /\ m.stock_id = old.stock_id
  BY <1>2, <1>3, <1>4, StockWord DEF Event, ParserWord
<1>6. old.remaining_shares - qty \in Word
  BY <1>2, <1>3, Sizes DEF Word
<1>7. /\ o \in MarketOrder /\ o.stock_id = old.stock_id /\ o.buy_sell = old.buy_sell
      /\ o.price = old.price /\ o.deleted = FALSE
      /\ o.remaining_shares = old.remaining_shares - qty
  BY <1>2, <1>6 DEF MarketOrder
<1> HIDE DEF m, o
<1>8. qty = NEG_ONE => o.remaining_shares = 0
  BY <1>2, <1>3, <1>7, Sizes DEF Word, NEG_ONE
<1>9. o.remaining_shares < old.remaining_shares
      /\ qty = old.remaining_shares - o.remaining_shares
  BY <1>2, <1>3, <1>7
<1>10. RemovalOf(m, ref, o)
  BY <1>1, <1>4, <1>5, <1>7, <1>8, <1>9 DEF RemovalOf, old
<1> QED  BY <1>4, <1>5, <1>10

LEMMA FeedDeleteRemoves ==
  ASSUME MarketInv, NEW ref \in 1 .. Len(active_orders), FeedDelete(ref)
  PROVE  \E m, o : RemovalOf(m, ref, o) /\ m.order_type = DELETE
<1> DEFINE old == active_orders[ref]
           m == Event(DELETE, ref, old.buy_sell, 0, old.stock_id, 0)
           o == [old EXCEPT !.remaining_shares = 0, !.deleted = TRUE]
<1>1. IsActive(ref) /\ RemoveOrder(m)
  BY DEF FeedDelete
<1>2. /\ old \in MarketOrder /\ old.stock_id \in Stock /\ old.buy_sell \in Side
      /\ old.remaining_shares \in Nat /\ old.remaining_shares > 0 /\ ref \in Word
  BY <1>1, ActiveOrder DEF MarketInv
<1>3. active_orders' = [active_orders EXCEPT ![ref] = o]
  <2>1. active_orders' = [active_orders EXCEPT ![ref].remaining_shares = 0,
                                               ![ref].deleted = TRUE]
    BY DEF FeedDelete
  <2>2. active_orders \in Seq(MarketOrder)
    BY DEF MarketInv, MarketTyped
  <2>3. active_orders \in [1 .. Len(active_orders) -> MarketOrder]
    BY <2>2
  <2> DEFINE D == DOMAIN active_orders
  <2>4. active_orders' = [i \in D |-> IF i = ref THEN o ELSE active_orders[i]]
    BY <2>1, <2>3
  <2> QED  BY <2>4
<1> HIDE DEF old
<1>4. 0 \in Word /\ DELETE \in 0 .. 15
  BY Sizes DEF Word, DELETE
<1>5. /\ m \in ParserWord /\ m.order_type = DELETE /\ m.order_ref_num = ref
      /\ m.stock_id = old.stock_id
  BY <1>2, <1>4, StockWord DEF Event, ParserWord
<1>6. /\ o \in MarketOrder /\ o.stock_id = old.stock_id /\ o.buy_sell = old.buy_sell
      /\ o.price = old.price /\ o.deleted = TRUE /\ o.remaining_shares = 0
  BY <1>2, <1>4 DEF MarketOrder
<1> HIDE DEF m, o
<1>7. RemovalOf(m, ref, o)
  BY <1>1, <1>2, <1>3, <1>5, <1>6 DEF RemovalOf, old
<1> QED  BY <1>5, <1>7

\* The book's own steps leave the market alone, and with it what the book shows.
LEMMA KeptInv ==
  ASSUME MarketInv, IInv', UNCHANGED <<active_orders, order_list>>,
         initialized => books' = books, initialized' = initialized
  PROVE  MarketInv'
<1>1. LevelsHold /\ books' = books => LevelsHold'
  BY DEF LevelsHold
<1>2. SlotsHold => SlotsHold'
  BY DEF SlotsHold, LevelOf
<1> QED  BY <1>1, <1>2 DEF MarketInv

LEMMA InitMarket == FeedInit => MarketInv
<1> SUFFICES ASSUME FeedInit PROVE MarketInv
  OBVIOUS
<1>1. IInv /\ initialized = FALSE /\ active_orders = <<>>
  BY InitInv DEF FeedInit, Init
<1>2. MarketTyped(<<>>)
  BY FeedAssumption DEF MarketTyped
<1> QED  BY <1>1, <1>2 DEF MarketInv

LEMMA InitialiseMarket ==
  ASSUME MarketInv, Initialise, UNCHANGED active_orders
  PROVE  MarketInv'
<1>1. /\ initialized' /\ active_orders = <<>> /\ active_orders' = <<>>
      /\ books' = [b \in Books |-> EmptyBook]
      /\ order_list' = [id \in OrderId |-> NoOrder]
  BY DEF Initialise, MarketInv
<1>2. TrackedIn(<<>>) = {}
  BY DEF TrackedIn
<1>3. \A b, l : Resting(<<>>, b, l) = 0
  BY <1>2, TotalEmpty DEF Resting, OnLevel
<1>4. LevelsHold'
  BY <1>1, <1>3 DEF LevelsHold, EmptyBook
<1>5. SlotsHold'
  BY <1>1, <1>2 DEF SlotsHold, NoOrder
<1>6. IInv' /\ MarketTyped(active_orders')
  BY <1>1, InitialiseInv DEF MarketInv
<1> QED  BY <1>1, <1>4, <1>5, <1>6 DEF MarketInv

LEMMA MarketStep == MarketInv /\ [SoftNext]_softVars => MarketInv'
<1> SUFFICES ASSUME MarketInv, [SoftNext]_softVars PROVE MarketInv'
  OBVIOUS
<1>1. CASE SoftAdd
  BY <1>1, FeedAddInv DEF SoftAdd
<1>2. CASE SoftCancel
  <2>1. PICK type \in {CANCEL, EXECUTE}, ref \in 1 .. Len(active_orders) :
          \E qty \in 1 .. active_orders[ref].remaining_shares : FeedCancel(type, ref, qty)
    BY <1>2 DEF SoftCancel
  <2>2. PICK qty \in 1 .. active_orders[ref].remaining_shares : FeedCancel(type, ref, qty)
    BY <2>1
  <2> QED  BY <2>2, FeedCancelRemoves, RemovalInv
<1>3. CASE SoftDelete
  BY <1>3, FeedDeleteRemoves, RemovalInv DEF SoftDelete
<1>4. CASE SoftPublish
  <2>1. Publish /\ UNCHANGED <<active_orders, order_list, initialized>>
    BY <1>4 DEF SoftPublish, Publish
  <2> QED  BY <2>1, PublishInv, PublishKeepsBooks, KeptInv DEF MarketInv
<1>5. CASE HardwareStep
  <2>1. CASE Initialise
    BY <1>5, <2>1, InitialiseMarket DEF HardwareStep
  <2>2. CASE TakeFrame
    <3>1. IInv' /\ UNCHANGED <<active_orders, order_list, initialized, books>>
      BY <1>5, <2>2, TakeFrameInv DEF HardwareStep, TakeFrame, MarketInv
    <3> QED  BY <3>1, KeptInv
  <2> QED  BY <1>5, <2>1, <2>2 DEF HardwareStep
<1>6. CASE UNCHANGED softVars
  <2>1. IInv' /\ UNCHANGED <<active_orders, order_list, initialized, books>>
    BY <1>6, StutterInv DEF softVars, feedVars, vars, MarketInv
  <2> QED  BY <2>1, KeptInv
<1> QED  BY <1>1, <1>2, <1>3, <1>4, <1>5, <1>6 DEF SoftNext

LEMMA MarketInvariant == SoftSpec => []MarketInv
<1>1. SoftInit => MarketInv
  BY InitMarket DEF SoftInit
<1> QED  BY <1>1, MarketStep, PTL DEF SoftSpec

LEMMA TrackedIs == Tracked = TrackedIn(active_orders)
BY DEF Tracked, TrackedIn, IsActive

LEMMA MarketShown == MarketInv => BookIsMarket
<1> SUFFICES ASSUME MarketInv, initialized PROVE BookIsMarket
  BY DEF BookIsMarket
<1> DEFINE a == active_orders
<1>1. LevelsHold /\ SlotsHold /\ MarketTyped(a)
  BY DEF MarketInv
<1>2. ASSUME NEW b \in Books, NEW l \in Level
      PROVE  books[b].price_quantity[l] =
               MapThenSumSet(LAMBDA ref : active_orders[ref].remaining_shares,
                 {ref \in Tracked : LevelOf(ref) = l /\
                    active_orders[ref].buy_sell = b[1] /\ active_orders[ref].stock_id = b[2]})
  <2> DEFINE T == OnLevel(a, b, l)
  <2>1. {ref \in Tracked : LevelOf(ref) = l /\
           active_orders[ref].buy_sell = b[1] /\ active_orders[ref].stock_id = b[2]} = T
    BY TrackedIs DEF OnLevel, LevelOf
  <2>2. IsFiniteSet(T) /\ T \subseteq 1 .. Len(a) /\ \A ref \in T : a[ref].remaining_shares \in Int
    BY <1>1, LevelSum
  <2>3. SharesOf(a, T) = Total(Remaining(a), T)
    BY <2>2, SharesAreTotal
  <2>4. books[b].price_quantity[l] = SharesOf(a, T)
    BY <1>1, <2>3 DEF LevelsHold, Resting
  <2> QED  BY <2>1, <2>4 DEF SharesOf
<1>3. \A id \in OrderId : order_list[id].valid <=> id \in Tracked
  BY <1>1, TrackedIs DEF SlotsHold
<1>4. \A id \in Tracked : order_list[id].quantity = active_orders[id].remaining_shares
  BY <1>1, TrackedIs, TrackedSize DEF SlotsHold
<1> QED  BY <1>2, <1>3, <1>4 DEF BookIsMarket

\* The hardware book shows the generator's market: whatever adds, cancels, executions
\* and deletes it sends, in whatever order, every level holds the sum of what remains of
\* the orders on it and the valid slots are those of the market's orders, for any
\* numbers of stocks, levels, orders and adds.
THEOREM BookStaysMarket == SoftSpec => []BookIsMarket
BY MarketInvariant, MarketShown, PTL

-----------------------------------------------------------------------------
(* The software book, on levels that exist, works as the hardware's does.  *)

\* bubble_up from the state in which its loop starts.
BubbleFrom(side, start) ==
  LET loop[k \in 0 .. MaxLevels] ==
        IF k = 0 THEN start ELSE BubbleStep(side, loop[k - 1])
  IN  loop[MaxLevels].tree

LEMMA SoftBubbleUp ==
  ASSUME NEW tree, NEW qty, NEW leaf \in Level, NEW side
  PROVE  soft_bubble_up(tree, qty, leaf, side) = bubble_up(tree, qty, leaf, side)
<1> DEFINE mark == IF qty[At(leaf, MaxLevels)] > 0 THEN leaf ELSE NEG_ONE
           start == [node |-> (leaf + MaxLevels) \div 2,
                     tree |-> [tree EXCEPT ![leaf + MaxLevels] = mark]]
<1>1. soft_bubble_up(tree, qty, leaf, side) = BubbleFrom(side, start)
  BY DEF soft_bubble_up, BubbleFrom
<1>2. bubble_up(tree, qty, leaf, side) = BubbleFrom(side, BubbleStart(tree, qty, leaf))
  BY DEF bubble_up, BubbleFrom, BubbleStart
<1>3. At(leaf, MaxLevels) = leaf
  BY DEF At, Level
<1>4. start = BubbleStart(tree, qty, leaf)
  BY <1>3 DEF BubbleStart, LeafMark
<1> HIDE DEF start
<1> QED  BY <1>1, <1>2, <1>4

LEMMA SoftLevel ==
  ASSUME NEW book, NEW side, NEW leaf \in Level, NEW value
  PROVE  /\ SoftSetLevel(book, side, leaf, value) = SetLevel(book, side, leaf, value)
         /\ At(leaf, MaxLevels) = leaf
<1>1. At(leaf, MaxLevels) = leaf
  BY DEF At, Level
<1> DEFINE qty == [book.price_quantity EXCEPT ![leaf] = value]
<1>2. soft_bubble_up(book.segment_tree, qty, leaf, side)
        = bubble_up(book.segment_tree, qty, leaf, side)
  BY SoftBubbleUp
<1> QED  BY <1>1, <1>2 DEF SoftSetLevel, SetLevel

SoftPopStep(side, s) ==
  LET best == s.book.segment_tree[1]
  IN  IF best = NEG_ONE THEN s
      ELSE [book |-> SoftSetLevel(s.book, side, best, 0),
            saved |-> Append(s.saved, [index |-> best,
              qty |-> s.book.price_quantity[At(best, MaxLevels)]])]

LEMMA SoftPopStepIs ==
  ASSUME NEW side \in Side, NEW s \in Popped(side)
  PROVE  SoftPopStep(side, [book |-> s.book, saved |-> s.taken]) =
           [book |-> PopStep(side, s).book, saved |-> PopStep(side, s).taken]
<1> DEFINE best == s.book.segment_tree[1]
<1>1. best = NEG_ONE \/ best \in Level
  BY PopStepEffect
<1>2. CASE best = NEG_ONE
  BY <1>2 DEF SoftPopStep, PopStep
<1>3. CASE best # NEG_ONE
  <2>1. SoftSetLevel(s.book, side, best, 0) = SetLevel(s.book, side, best, 0)
        /\ At(best, MaxLevels) = best
    BY <1>1, <1>3, SoftLevel
  <2> QED  BY <1>3, <2>1 DEF SoftPopStep, PopStep
<1> QED  BY <1>2, <1>3

LEMMA SoftPopIs ==
  ASSUME NEW side \in Side, NEW book \in Book, TreeConsistent(book, side)
  PROVE  LET s == PopBest(book, side)
         IN  SoftPop(book, side) = [book |-> s.book, saved |-> s.taken]
<1>1. PICK g \in [0 .. CacheSize -> Popped(side)] :
        /\ g[0] = [book |-> book, taken |-> <<>>]
        /\ \A k \in 0 .. CacheSize - 1 : g[k + 1] = PopStep(side, g[k])
        /\ PopBest(book, side) = g[CacheSize]
  BY PopLoop
<1>2. CacheSize \in Nat
  BY SizeAssumption
<1> DEFINE s0 == [book |-> book, saved |-> <<>>]
           Rec(h) == h = [k \in 0 .. CacheSize |->
                            IF k = 0 THEN s0 ELSE SoftPopStep(side, h[k - 1])]
           loop == CHOOSE h : Rec(h)
           soft == [k \in 0 .. CacheSize |-> [book |-> g[k].book, saved |-> g[k].taken]]
<1>3. SoftPop(book, side) = loop[CacheSize]
  BY DEF SoftPop, SoftPopStep
<1>4. \A k \in 0 .. CacheSize : soft[k] = IF k = 0 THEN s0 ELSE SoftPopStep(side, soft[k - 1])
  <2> SUFFICES ASSUME NEW k \in 0 .. CacheSize
               PROVE  soft[k] = IF k = 0 THEN s0 ELSE SoftPopStep(side, soft[k - 1])
    OBVIOUS
  <2>1. CASE k = 0
    BY <1>1, <1>2, <2>1
  <2>2. CASE k # 0
    <3>1. k - 1 \in 0 .. CacheSize - 1 /\ (k - 1) + 1 = k /\ k - 1 \in 0 .. CacheSize
      BY <1>2, <2>2
    <3>2. g[k - 1] \in Popped(side) /\ g[k] = PopStep(side, g[k - 1])
      BY <1>1, <3>1
    <3>3. SoftPopStep(side, [book |-> g[k - 1].book, saved |-> g[k - 1].taken]) =
            [book |-> g[k].book, saved |-> g[k].taken]
      BY <3>2, SoftPopStepIs
    <3>4. soft[k - 1] = [book |-> g[k - 1].book, saved |-> g[k - 1].taken]
          /\ soft[k] = [book |-> g[k].book, saved |-> g[k].taken]
      BY <3>1
    <3> HIDE DEF soft, s0
    <3> QED  BY <2>2, <3>3, <3>4
  <2> QED  BY <2>1, <2>2
<1>5. Rec(loop)
  <2>1. Rec(soft)
    <3>1. soft = [k \in 0 .. CacheSize |-> soft[k]]
      OBVIOUS
    <3> HIDE DEF soft, s0
    <3> QED  BY <1>4, <3>1
  <2> HIDE DEF Rec
  <2> QED  BY <2>1
<1> HIDE DEF loop, s0, soft
<1>6. \A k \in 0 .. CacheSize : loop[k] = IF k = 0 THEN s0 ELSE SoftPopStep(side, loop[k - 1])
  BY <1>5
<1> DEFINE P == {k \in 0 .. CacheSize : loop[k] = soft[k]}
<1>7. 0 \in P
  BY <1>2, <1>4, <1>6
<1>8. \A k \in 0 .. CacheSize : k < CacheSize /\ k \in P => k + 1 \in P
  <2> SUFFICES ASSUME NEW k \in 0 .. CacheSize, k < CacheSize, k \in P PROVE k + 1 \in P
    OBVIOUS
  <2>1. k + 1 \in 0 .. CacheSize /\ k + 1 # 0 /\ (k + 1) - 1 = k
    BY <1>2
  <2>2. loop[k + 1] = SoftPopStep(side, loop[k]) /\ soft[k + 1] = SoftPopStep(side, soft[k])
    BY <1>4, <1>6, <2>1
  <2> QED  BY <2>1, <2>2
<1>9. loop[CacheSize] = soft[CacheSize]
  <2>1. 0 .. CacheSize \subseteq P
    <3> HIDE DEF P
    <3> QED  BY <1>2, <1>7, <1>8, IntervalInduction
  <2> QED  BY <1>2, <2>1
<1> QED  BY <1>1, <1>2, <1>3, <1>9 DEF soft

LEMMA SoftRestoreIs ==
  ASSUME NEW side \in Side, NEW book \in Consistent(side), NEW taken \in Seq(Row)
  PROVE  SoftRestore(book, side, taken) = Restore(book, side, taken)
<1> DEFINE N == Len(taken)
<1>1. PICK g \in [0 .. N -> Consistent(side)] :
        /\ g[0] = book
        /\ \A k \in 1 .. N : g[k] = SetLevel(g[k - 1], side, taken[k].index, taken[k].qty)
        /\ Restore(book, side, taken) = g[N]
  BY RestoreLoop
<1> DEFINE Turn(k, b) == SoftSetLevel(b, side, taken[k].index, taken[k].qty)
           Rec(h) == h = [k \in 0 .. N |-> IF k = 0 THEN book ELSE Turn(k, h[k - 1])]
           loop == CHOOSE h : Rec(h)
<1>2. N \in Nat /\ \A k \in 1 .. N : taken[k].index \in Level /\ taken[k].qty \in Word
  BY RowsType
<1>3. SoftRestore(book, side, taken) = loop[N]
  BY DEF SoftRestore
<1>4. \A k \in 1 .. N : g[k] = Turn(k, g[k - 1])
  BY <1>1, <1>2, SoftLevel
<1> HIDE DEF N, Turn
<1>5. Rec(loop)
  <2>1. \A k \in 0 .. N : g[k] = IF k = 0 THEN book ELSE Turn(k, g[k - 1])
    BY <1>1, <1>2, <1>4
  <2>2. Rec(g)
    BY <1>1, <2>1
  <2> HIDE DEF Rec
  <2> QED  BY <2>2
<1> HIDE DEF loop
<1>6. loop[0] = book /\ \A k \in 1 .. N : loop[k] = Turn(k, loop[k - 1])
  BY <1>2, <1>5
<1> DEFINE P == {k \in 0 .. N : loop[k] = g[k]}
<1>7. 0 \in P
  BY <1>1, <1>2, <1>6
<1>8. \A k \in 0 .. N : k < N /\ k \in P => k + 1 \in P
  BY <1>2, <1>4, <1>6
<1>9. loop[N] = g[N]
  <2>1. 0 .. N \subseteq P
    <3> HIDE DEF P
    <3> QED  BY <1>2, <1>7, <1>8, IntervalInduction
  <2> QED  BY <1>2, <2>1
<1> QED  BY <1>1, <1>3, <1>9

LEMMA LevelPrice ==
  ASSUME NEW s \in Stock, NEW l \in Level
  PROVE  /\ index_to_price(s, l) = MinPrice[s] + l * TickSize[s]
         /\ l * TickSize[s] \in Nat /\ MinPrice[s] + l * TickSize[s] \in Word
         /\ MinPrice[s] \in Nat
<1> DEFINE m == MinPrice[s]
           t == TickSize[s]
<1>1. m \in Nat /\ t \in Nat /\ l \in Nat /\ MaxLevels \in Nat /\ l <= MaxLevels - 1
  BY PriceAssumption, Sizes DEF Word, Level
<1>2. m + (MaxLevels - 1) * t < WordSize /\ WordSize \in Nat /\ WordSize > 0
  BY RangeAssumption, Sizes
<1>3. index_to_price(s, l) = (m + l * t) % WordSize
  BY DEF index_to_price
<1> HIDE DEF m, t
<1>4. l * t \in Nat /\ (MaxLevels - 1) * t \in Nat /\ l * t <= (MaxLevels - 1) * t
  BY <1>1
<1>5. m + l * t \in Nat /\ m + l * t < WordSize
  BY <1>1, <1>2, <1>4
<1>6. (m + l * t) % WordSize = m + l * t
  BY <1>2, <1>5, ModOfSmall
<1>7. m + l * t \in Word
  BY <1>2, <1>5 DEF Word
<1> QED  BY <1>1, <1>3, <1>4, <1>6, <1>7 DEF m, t

\* On a book like the hardware's, get_top_5 of the benchmark gives the book back and,
\* as long as the prices of the levels fit in a word, lists the hardware's rows.
LEMMA SoftTopIs ==
  ASSUME TypeOK, NEW b \in Books, TreeConsistent(books[b], b[1]), soft_books[b] = books[b]
  PROVE  soft_get_top_5(b) = get_top_5(b)
<1> DEFINE popped == PopBest(books[b], b[1])
           softly == SoftPop(soft_books[b], b[1])
           row(i) == IF i <= Len(popped.taken) THEN popped.taken[i]
                     ELSE [index |-> WorstLevel(b[1]), qty |-> 1]
           worst == IF b[1] = SIDE_BID THEN 0 ELSE MaxLevels - 1
           softrow(i) == IF i <= Len(softly.saved) THEN softly.saved[i]
                         ELSE [index |-> worst, qty |-> 1]
<1>1. books[b] \in Book /\ b[1] \in Side /\ b[2] \in Stock
  BY DEF TypeOK, Books
<1>2. popped \in Popped(b[1])
  BY <1>1, PopResult
<1>3. popped.book \in Consistent(b[1]) /\ popped.taken \in Seq(Row)
  BY <1>2 DEF Popped, Consistent
<1>4. softly.book = popped.book /\ softly.saved = popped.taken
  <2>1. softly = [book |-> popped.book, saved |-> popped.taken]
    BY <1>1, SoftPopIs
  <2> HIDE DEF softly, popped
  <2> QED  BY <2>1
<1>5. get_top_5(b) =
        [book |-> Restore(popped.book, b[1], popped.taken),
         rows |-> [i \in 1 .. CacheSize |->
                     [price |-> index_to_price(b[2], row(i).index), qty |-> row(i).qty]]]
  BY DEF get_top_5
<1>6. soft_get_top_5(b) =
        [book |-> SoftRestore(softly.book, b[1], softly.saved),
         rows |-> [i \in 1 .. CacheSize |->
                     [price |-> MinPrice[b[2]] + softrow(i).index * TickSize[b[2]],
                      qty |-> softrow(i).qty]]]
  BY DEF soft_get_top_5
<1>7. \A i : softrow(i) = row(i)
  <2> HIDE DEF softly, popped
  <2> QED  BY <1>4 DEF WorstLevel
<1>8. ASSUME NEW i \in 1 .. CacheSize PROVE row(i).index \in Level
  <2> HIDE DEF popped
  <2>1. CASE i <= Len(popped.taken)
    BY <1>3, <2>1, RowsType, SizeAssumption
  <2>2. CASE ~ (i <= Len(popped.taken))
    BY <2>2, Sizes DEF WorstLevel, Level
  <2> QED  BY <2>1, <2>2
<1>9. SoftRestore(softly.book, b[1], softly.saved) = Restore(popped.book, b[1], popped.taken)
  <2> HIDE DEF softly, popped
  <2>1. SoftRestore(popped.book, b[1], popped.taken) = Restore(popped.book, b[1], popped.taken)
    BY <1>1, <1>3, SoftRestoreIs
  <2> QED  BY <1>4, <2>1
<1> HIDE DEF softly, popped, row, softrow
<1>10. ASSUME NEW l \in Level PROVE index_to_price(b[2], l) = MinPrice[b[2]] + l * TickSize[b[2]]
  BY <1>1, LevelPrice
<1>11. [i \in 1 .. CacheSize |->
          [price |-> index_to_price(b[2], row(i).index), qty |-> row(i).qty]]
       = [i \in 1 .. CacheSize |->
            [price |-> MinPrice[b[2]] + softrow(i).index * TickSize[b[2]],
             qty |-> softrow(i).qty]]
  BY <1>7, <1>8, <1>10
<1> QED  BY <1>5, <1>6, <1>9, <1>11

-----------------------------------------------------------------------------
(* Prices that no level stands for.                                        *)

LEMMA DivMonotone ==
  ASSUME NEW t \in Nat \ {0}, NEW x \in Nat, NEW y \in Nat, x <= y
  PROVE  x \div t \in Nat /\ y \div t \in Nat /\ x \div t <= y \div t
<1> DEFINE a == x \div t
           b == y \div t
           r == x % t
           u == y % t
<1>1. /\ a \in Nat /\ r \in 0 .. t - 1 /\ x = t * a + r
      /\ b \in Nat /\ u \in 0 .. t - 1 /\ y = t * b + u
  BY Division
<1> HIDE DEF a, b, r, u
<1>2. a <= b
  <2> SUFFICES ASSUME a >= b + 1 PROVE FALSE
    BY <1>1
  <2>1. t * a >= t * (b + 1)
    BY <1>1
  <2>2. t * (b + 1) = t * b + t
    BY <1>1
  <2>3. t * a \in Nat /\ t * b \in Nat
    BY <1>1
  <2> QED  BY <1>1, <2>1, <2>2, <2>3
<1> QED  BY <1>1, <1>2 DEF a, b

LEMMA SnapAbove ==
  ASSUME NEW t \in Nat \ {0}, NEW m \in Nat, m % t = 0, NEW p \in Nat, m <= p
  PROVE  (p \div t) * t >= m
<1> DEFINE a == m \div t
           b == p \div t
<1>1. a \in Nat /\ b \in Nat /\ a <= b
  BY DivMonotone
<1>2. m = t * a
  <2>1. a \in Nat /\ m = t * a + (m % t)
    BY Division
  <2> HIDE DEF a
  <2>2. t * a \in Nat
    BY <2>1
  <2> QED  BY <2>1, <2>2
<1> HIDE DEF a, b
<1>3. b * t >= a * t /\ a * t = t * a
  BY <1>1
<1> QED  BY <1>2, <1>3 DEF b

\* A range that starts on a tick is never left below: the generator raises a price to
\* min_price before it snaps it.
LEMMA AlignedRange ==
  ASSUME NEW s \in Stock, MinPrice[s] % TickSize[s] = 0, NEW raw \in RawPrices[s]
  PROVE  final_price(s, raw) >= MinPrice[s]
<1> DEFINE capped == IF raw > MaxPrice[s] THEN MaxPrice[s] ELSE raw
           p == IF capped < MinPrice[s] THEN MinPrice[s] ELSE capped
           t == TickSize[s]
           m == MinPrice[s]
<1>1. p \in Word /\ t \in Nat \ {0} /\ m \in Word /\ raw \in Word /\ MaxPrice[s] \in Word
  BY FeedAssumption, PriceAssumption DEF Word
<1>2. p \in Nat /\ m \in Nat /\ m <= p
  BY <1>1, Sizes DEF Word
<1>3. m % t = 0
  OBVIOUS
<1>4. final_price(s, raw) = (p \div t) * t
  BY DEF final_price
<1> HIDE DEF p, t, m
<1>5. (p \div t) * t >= m
  BY <1>1, <1>2, <1>3, SnapAbove
<1> QED  BY <1>4, <1>5 DEF m

\* In the range the index is the distance in ticks, in words as in integers.
LEMMA IndexInRange ==
  ASSUME NEW s \in Stock, NEW p \in Word, p >= MinPrice[s]
  PROVE  /\ p - MinPrice[s] \in Nat
         /\ price_to_index(s, p) = soft_price_to_index(s, p)
<1> DEFINE m == MinPrice[s]
<1>1. m \in Nat /\ p \in Nat /\ p < WordSize /\ WordSize \in Nat \ {0} /\ p >= m
  BY PriceAssumption, Sizes DEF Word
<1>2. p - m \in Nat /\ p - m < WordSize
  <2> HIDE DEF m
  <2> QED  BY <1>1
<1>3. (p - m) % WordSize = p - m
  <2> DEFINE d == p - m
  <2> HIDE DEF d
  <2>1. d % WordSize = d
    BY <1>1, <1>2, ModOfSmall DEF d
  <2> QED  BY <2>1 DEF d
<1> QED  BY <1>2, <1>3 DEF price_to_index, soft_price_to_index

LEMMA IndexMonotone ==
  ASSUME NEW s \in Stock, NEW p \in Word, NEW q \in Word, p >= MinPrice[s], p <= q
  PROVE  price_to_index(s, p) <= price_to_index(s, q)
<1> DEFINE x == p - MinPrice[s]
           y == q - MinPrice[s]
           t == TickSize[s]
<1>1. p \in Nat /\ q \in Nat /\ MinPrice[s] \in Nat /\ t \in Nat \ {0} /\ MaxLevels \in Nat
  BY PriceAssumption, Sizes DEF Word
<1>2. q >= MinPrice[s]
  BY <1>1
<1>3. x \in Nat /\ y \in Nat /\ x <= y
  BY <1>1, <1>2
<1>4. /\ price_to_index(s, p) = soft_price_to_index(s, p)
      /\ price_to_index(s, q) = soft_price_to_index(s, q)
  BY <1>2, IndexInRange
<1>5. x \div t \in Nat /\ y \div t \in Nat /\ x \div t <= y \div t
  <2> HIDE DEF x, y, t
  <2> QED  BY <1>1, <1>3, DivMonotone
<1>6. /\ soft_price_to_index(s, p) = IF x \div t >= MaxLevels THEN MaxLevels - 1 ELSE x \div t
      /\ soft_price_to_index(s, q) = IF y \div t >= MaxLevels THEN MaxLevels - 1 ELSE y \div t
  BY DEF soft_price_to_index
<1> DEFINE i == x \div t
           j == y \div t
<1> HIDE DEF i, j
<1>7. (IF i >= MaxLevels THEN MaxLevels - 1 ELSE i) <= (IF j >= MaxLevels THEN MaxLevels - 1 ELSE j)
  BY <1>1, <1>5 DEF i, j
<1> QED  BY <1>4, <1>6, <1>7 DEF i, j

LEMMA ModOfNegative ==
  ASSUME NEW M \in Nat \ {0}, NEW r \in Int, r < 0, r + M >= 0
  PROVE  r % M = r + M
  OBVIOUS

\* Below the range the distance wraps to a number past the last level.
LEMMA IndexBelow ==
  ASSUME NEW s \in Stock, NEW p \in Word, p < MinPrice[s]
  PROVE  price_to_index(s, p) = MaxLevels - 1
<1> DEFINE m == MinPrice[s]
           t == TickSize[s]
           n == (MaxLevels - 1) * t
           d == p - m + WordSize
<1>1. /\ m \in Nat /\ p \in Nat /\ p < m /\ m < WordSize /\ WordSize \in Nat \ {0}
      /\ t \in Nat \ {0} /\ MaxLevels - 1 \in Nat /\ MaxLevels \in Nat
  BY PriceAssumption, Sizes DEF Word
<1>2. m + n < WordSize
  BY RangeAssumption
<1>3. n \in Nat
  BY <1>1
<1>4. n \div t = MaxLevels - 1
  <2> DEFINE k == MaxLevels - 1
  <2>1. (k * t + 0) \div t = k
    <3> HIDE DEF t, k
    <3>1. 0 \in 0 .. t - 1
      BY <1>1
    <3> QED  BY <1>1, <3>1, DivOfMultiple DEF k
  <2> QED  BY <1>3, <2>1
<1>5. (p - m) % WordSize = d
  <2> DEFINE x == p - m
  <2>1. x \in Int /\ x < 0 /\ x + WordSize >= 0
    BY <1>1
  <2> HIDE DEF x
  <2>2. x % WordSize = x + WordSize
    BY <1>1, <2>1, ModOfNegative
  <2> QED  BY <2>2 DEF x
<1>6. price_to_index(s, p) = IF d \div t >= MaxLevels THEN MaxLevels - 1 ELSE d \div t
  BY <1>5 DEF price_to_index
<1> HIDE DEF m, n
<1>7. d \in Nat /\ n <= d
  BY <1>1, <1>2, <1>3
<1> HIDE DEF d, t
<1>8. d \div t \in Nat /\ n \div t <= d \div t
  BY <1>1, <1>3, <1>7, DivMonotone
<1> DEFINE i == d \div t
<1> HIDE DEF i
<1>9. i \in Nat /\ MaxLevels - 1 <= i
  BY <1>4, <1>8 DEF i
<1>10. (IF i >= MaxLevels THEN MaxLevels - 1 ELSE i) = MaxLevels - 1
  BY <1>1, <1>9
<1> QED  BY <1>6, <1>10 DEF i

LEMMA LevelsRankInv == ASSUME MarketInv PROVE LevelsRankAsPrices
<1> DEFINE a == active_orders
<1> SUFFICES ASSUME NEW r \in Tracked, NEW q \in Tracked
             PROVE  IF Below(r) THEN LevelOf(r) = MaxLevels - 1
                    ELSE /\ a[r].stock_id = a[q].stock_id
                         /\ a[r].price <= a[q].price
                         => LevelOf(r) <= LevelOf(q)
  BY DEF LevelsRankAsPrices
<1>1. MarketTyped(a) /\ r \in 1 .. Len(a) /\ q \in 1 .. Len(a)
  BY TrackedIs, TrackedSize DEF MarketInv
<1>2. \A x \in 1 .. Len(a) : a[x].stock_id \in Stock /\ a[x].price \in Word
  BY <1>1, RecordType
<1>3. CASE Below(r)
  <2>1. price_to_index(a[r].stock_id, a[r].price) = MaxLevels - 1
    BY <1>1, <1>2, <1>3, IndexBelow DEF Below
  <2> QED  BY <1>3, <2>1 DEF LevelOf
<1>4. CASE ~ Below(r)
  <2> SUFFICES ASSUME a[r].stock_id = a[q].stock_id, a[r].price <= a[q].price
               PROVE  LevelOf(r) <= LevelOf(q)
    BY <1>4
  <2>1. a[r].price >= MinPrice[a[r].stock_id]
    <3>1. MinPrice[a[r].stock_id] \in Nat /\ a[r].price \in Nat
      BY <1>1, <1>2, PriceAssumption DEF Word
    <3> QED  BY <1>4, <3>1 DEF Below
  <2>2. price_to_index(a[r].stock_id, a[r].price) <= price_to_index(a[r].stock_id, a[q].price)
    BY <1>1, <1>2, <2>1, IndexMonotone
  <2> QED  BY <2>2 DEF LevelOf
<1> QED  BY <1>3, <1>4

-----------------------------------------------------------------------------
(* The two books keep in step.                                             *)

IsSlot(r) == r = [valid |-> r.valid, price_index |-> r.price_index, quantity |-> r.quantity,
                  ask_bid |-> r.ask_bid]

\* Books and slots that agree; each slot in use names the side of its order, so that an
\* order out of its range touches no other book.  Before the first call of the wrapper
\* the hardware's registers hold zeros, where the benchmark starts empty.
Synced ==
  /\ soft_books = [b \in Books |-> soft_books[b]]
  /\ soft_list = [id \in OrderId |-> soft_list[id]]
  /\ \A id \in OrderId :
       /\ IsSlot(soft_list[id])
       /\ soft_list[id].valid /\ id \in 1 .. Len(active_orders) =>
            soft_list[id].ask_bid = active_orders[id].buy_sell
  /\ BooksAgree
  /\ ~ initialized => /\ soft_books = [b \in Books |-> EmptyBook]
                      /\ soft_list = [id \in OrderId |-> NoOrder]
                      /\ outStream = <<>>

AgreeInv == MarketInv /\ Synced

\* What the orders of a are worth comparing by: nothing changes for those that stay.
SameOrders(n) ==
  \A ref \in 1 .. n : /\ active_orders'[ref].price = active_orders[ref].price
                      /\ active_orders'[ref].stock_id = active_orders[ref].stock_id
                      /\ active_orders'[ref].buy_sell = active_orders[ref].buy_sell

LEMMA RangeKept ==
  ASSUME Len(active_orders) \in Nat, Len(active_orders') \in Nat,
         Len(active_orders) <= Len(active_orders'), SameOrders(Len(active_orders))
  PROVE  /\ \A ref \in 1 .. Len(active_orders) :
              BookOf(ref)' = BookOf(ref) /\ (Below(ref)' <=> Below(ref))
         /\ \A b : InRange(b)' => InRange(b)
<1>1. \A ref \in 1 .. Len(active_orders) :
        /\ ref \in 1 .. Len(active_orders')
        /\ BookOf(ref)' = BookOf(ref) /\ (Below(ref)' <=> Below(ref))
  BY DEF SameOrders, BookOf, Below
<1>2. ASSUME NEW b, InRange(b)' PROVE InRange(b)
  BY <1>1, <1>2 DEF InRange
<1> QED  BY <1>1, <1>2

\* An add that fits the list makes no level overflow.
LEMMA AddFits ==
  ASSUME MarketInv, NEW s \in Stock, NEW side \in Side, NEW shares \in AddShares,
         NEW raw \in RawPrices[s], FeedAdd(s, side, shares, raw),
         Len(active_orders) + 1 < MaxOrderNum
  PROVE  LET held == books[<<side, s>>].price_quantity[price_to_index(s, final_price(s, raw))]
         IN  held \in Nat /\ shares \in Nat /\ held + shares < WordSize
<1> DEFINE a == active_orders
           price == final_price(s, raw)
           idx == price_to_index(s, price)
           o == [stock_id |-> s, buy_sell |-> side, price |-> price,
                 remaining_shares |-> shares, deleted |-> FALSE]
           e == Append(a, o)
           b == <<side, s>>
<1>1. price \in Word /\ idx \in Level
  BY FinalPriceType, PriceIndexType
<1> HIDE DEF price
<1>2. MarketTyped(a) /\ Len(a) \in Nat /\ Len(a) + 1 <= MaxRef
      /\ initialized /\ LevelsHold
  BY DEF MarketInv, MarketTyped, FeedAdd, AddOrder, Read
<1>3. shares \in Word /\ shares \in 1 .. MostShares /\ shares \in Nat
  <2>1. shares \in Nat /\ shares > 0 /\ shares \in Word /\ shares * MaxOrderNum < WordSize
    BY FeedAssumption, RangeAssumption DEF Word
  <2> QED  BY <2>1, MostType
<1>4. /\ o \in MarketOrder /\ ~o.deleted /\ o.remaining_shares = shares
      /\ o.stock_id = s /\ o.buy_sell = side /\ o.price = price
  BY <1>1, <1>3 DEF MarketOrder
<1> HIDE DEF o
<1>5. Added(a, o, e)
  <2> HIDE DEF a
  <2> QED  BY <1>2, <1>3, <1>4, AddToMarket
<1> HIDE DEF e
<1>6. b \in Books /\ b[1] = side /\ b[2] = s
  BY DEF Books
<1>7. Len(e) < MaxOrderNum /\ MarketTyped(e)
  BY <1>5 DEF Added
<1> HIDE DEF b, idx
<1>8. Resting(e, b, idx) = Resting(a, b, idx) + shares
  <2>1. price_to_index(o.stock_id, o.price) = idx
    BY <1>4 DEF idx
  <2>2. Resting(e, b, idx) = Resting(a, b, idx) +
          (IF Len(e) < MaxOrderNum /\ price_to_index(o.stock_id, o.price) = idx
              /\ o.buy_sell = b[1] /\ o.stock_id = b[2]
           THEN o.remaining_shares ELSE 0)
    BY <1>5 DEF Added
  <2> QED  BY <1>4, <1>6, <1>7, <2>1, <2>2
<1>9. Resting(a, b, idx) \in Word /\ Resting(e, b, idx) \in Word
  BY <1>2, <1>7, RestingType
<1>10. books[b].price_quantity[idx] = Resting(a, b, idx)
  BY <1>1, <1>2, <1>6 DEF LevelsHold
<1>11. WordSize \in Nat
  BY Sizes
<1> QED  BY <1>3, <1>8, <1>9, <1>10, <1>11 DEF Word, b, idx, price

\* An event changes one book and one slot on either side: what agreed still does, if
\* both sides do the same to a book in its range.
LEMMA OneChange ==
  ASSUME MarketInv, Synced, initialized, initialized',
         Len(active_orders) \in Nat, Len(active_orders') \in Nat,
         Len(active_orders) <= Len(active_orders'), SameOrders(Len(active_orders)),
         NEW ref \in OrderId, ref \in 1 .. Len(active_orders'),
         1 .. Len(active_orders') \subseteq (1 .. Len(active_orders)) \cup {ref},
         NEW b \in Books, b = BookOf(ref)',
         NEW x, NEW y, NEW slotx, NEW sloty,
         soft_books' = [soft_books EXCEPT ![b] = x], books' = [books EXCEPT ![b] = y],
         soft_list' = [soft_list EXCEPT ![ref] = slotx],
         order_list' = [order_list EXCEPT ![ref] = sloty],
         InRange(b)' => x = y /\ slotx = sloty,
         IsSlot(slotx), slotx.valid => slotx.ask_bid = b[1]
  PROVE  Synced'
<1>1. /\ books = [c \in Books |-> books[c]] /\ order_list = [id \in OrderId |-> order_list[id]]
      /\ soft_books = [c \in Books |-> soft_books[c]]
      /\ soft_list = [id \in OrderId |-> soft_list[id]]
  BY DEF MarketInv, IInv, TypeOK, Synced
<1>2. /\ \A c \in Books : /\ soft_books'[c] = IF c = b THEN x ELSE soft_books[c]
                          /\ books'[c] = IF c = b THEN y ELSE books[c]
      /\ \A id \in OrderId : /\ soft_list'[id] = IF id = ref THEN slotx ELSE soft_list[id]
                             /\ order_list'[id] = IF id = ref THEN sloty ELSE order_list[id]
      /\ soft_books' = [c \in Books |-> soft_books'[c]]
      /\ soft_list' = [id \in OrderId |-> soft_list'[id]]
  BY <1>1
<1>3. /\ \A r \in 1 .. Len(active_orders) : /\ BookOf(r)' = BookOf(r)
                                            /\ active_orders'[r].buy_sell = active_orders[r].buy_sell
      /\ \A c : InRange(c)' => InRange(c)
  BY RangeKept DEF SameOrders
<1>4. \A id \in OrderId :
        /\ IsSlot(soft_list'[id])
        /\ soft_list'[id].valid /\ id \in 1 .. Len(active_orders') =>
             soft_list'[id].ask_bid = active_orders'[id].buy_sell
  <2> SUFFICES ASSUME NEW id \in OrderId
               PROVE  /\ IsSlot(soft_list'[id])
                      /\ soft_list'[id].valid /\ id \in 1 .. Len(active_orders') =>
                           soft_list'[id].ask_bid = active_orders'[id].buy_sell
    OBVIOUS
  <2>1. CASE id = ref
    <3>1. b[1] = active_orders'[ref].buy_sell
      BY DEF BookOf
    <3> QED  BY <1>2, <2>1, <3>1
  <2>2. CASE id # ref
    <3>1. soft_list'[id] = soft_list[id]
      BY <1>2, <2>2
    <3>2. id \in 1 .. Len(active_orders') => id \in 1 .. Len(active_orders)
      BY <2>2
    <3> QED  BY <1>3, <3>1, <3>2 DEF Synced
  <2> QED  BY <2>1, <2>2
<1>5. ASSUME NEW c \in Books, InRange(c)' PROVE soft_books'[c] = books'[c]
  <2>1. CASE c = b
    BY <1>2, <1>5, <2>1
  <2>2. CASE c # b
    BY <1>2, <1>3, <1>5, <2>2 DEF Synced, BooksAgree
  <2> QED  BY <2>1, <2>2
<1>6. ASSUME NEW id \in OrderId, id \in 1 .. Len(active_orders') => InRange(BookOf(id))'
      PROVE  soft_list'[id] = order_list'[id]
  <2>1. CASE id = ref
    <3>1. InRange(b)'
      BY <1>6, <2>1
    <3> QED  BY <1>2, <2>1, <3>1
  <2>2. CASE id # ref
    <3>1. id \in 1 .. Len(active_orders) => InRange(BookOf(id))
      <4> SUFFICES ASSUME id \in 1 .. Len(active_orders) PROVE InRange(BookOf(id))
        OBVIOUS
      <4>1. id \in 1 .. Len(active_orders')
        OBVIOUS
      <4>2. InRange(BookOf(id))' /\ BookOf(id)' = BookOf(id)
        BY <1>3, <1>6, <4>1
      <4> DEFINE c == BookOf(id)
      <4>3. InRange(c)' => InRange(c)
        BY <1>3
      <4> QED  BY <4>2, <4>3
    <3>2. soft_list[id] = order_list[id]
      BY <3>1 DEF Synced, BooksAgree
    <3> QED  BY <1>2, <2>2, <3>2
  <2> QED  BY <2>1, <2>2
<1>7. BooksAgree'
  BY <1>5, <1>6 DEF BooksAgree
<1> QED  BY <1>2, <1>4, <1>7 DEF Synced

\* An event about an order that has no slot changes neither side.
LEMMA NoChange ==
  ASSUME Synced, initialized, initialized',
         Len(active_orders) \in Nat, Len(active_orders') \in Nat,
         Len(active_orders) <= Len(active_orders'), SameOrders(Len(active_orders)),
         1 .. Len(active_orders') \cap OrderId \subseteq 1 .. Len(active_orders),
         UNCHANGED <<books, order_list, soft_books, soft_list>>
  PROVE  Synced'
<1>1. /\ \A r \in 1 .. Len(active_orders) : /\ BookOf(r)' = BookOf(r)
                                            /\ active_orders'[r].buy_sell = active_orders[r].buy_sell
      /\ \A c : InRange(c)' => InRange(c)
  BY RangeKept DEF SameOrders
<1>2. \A id \in OrderId : id \in 1 .. Len(active_orders') <=> id \in 1 .. Len(active_orders)
  OBVIOUS
<1>3. ASSUME NEW id \in OrderId, id \in 1 .. Len(active_orders') => InRange(BookOf(id))'
      PROVE  soft_list[id] = order_list[id]
  <2>1. id \in 1 .. Len(active_orders) => InRange(BookOf(id))
    <3> SUFFICES ASSUME id \in 1 .. Len(active_orders) PROVE InRange(BookOf(id))
      OBVIOUS
    <3>1. InRange(BookOf(id))' /\ BookOf(id)' = BookOf(id)
      BY <1>1, <1>2, <1>3
    <3> DEFINE c == BookOf(id)
    <3>2. InRange(c)' => InRange(c)
      BY <1>1
    <3> QED  BY <3>1, <3>2
  <2> QED  BY <2>1 DEF Synced, BooksAgree
<1>4. BooksAgree'
  BY <1>1, <1>3 DEF Synced, BooksAgree
<1>5. \A id \in OrderId :
        soft_list[id].valid /\ id \in 1 .. Len(active_orders') =>
          soft_list[id].ask_bid = active_orders'[id].buy_sell
  BY <1>1, <1>2 DEF Synced
<1> QED  BY <1>4, <1>5 DEF Synced

LEMMA AddAgrees ==
  ASSUME AgreeInv,
         NEW s \in Stock, NEW side \in Side, NEW shares \in AddShares,
         NEW raw \in RawPrices[s], FeedAdd(s, side, shares, raw),
         NEW ref, ref = Len(active_orders) + 1, NEW b, b = <<side, s>>,
         soft_add_order(s, ref, final_price(s, raw), shares, side)
  PROVE  AgreeInv'
<1> DEFINE a == active_orders
           price == final_price(s, raw)
           m == Event(ADD, ref, side, shares, s, price)
           o == [stock_id |-> s, buy_sell |-> side, price |-> price,
                 remaining_shares |-> shares, deleted |-> FALSE]
           idx == price_to_index(s, price)
           softidx == soft_price_to_index(s, price)
           held == books[b].price_quantity[idx]
<1>1. /\ AddOrder(m) /\ active_orders' = Append(a, o) /\ initialized /\ initialized'
  BY DEF FeedAdd, AddOrder, Read
<1>2. MarketInv' /\ MarketInv /\ Synced
  BY FeedAddInv DEF AgreeInv
<1>3. price \in Word /\ idx \in Level /\ MinPrice[s] \in Nat /\ price \in Nat
  BY FinalPriceType, PriceIndexType, PriceAssumption DEF Word
<1>4. m.order_ref_num = ref /\ m.buy_sell = side /\ m.num_shares = shares
      /\ m.stock_id = s /\ m.price = price
  BY DEF Event
<1>5. add_order(m)
  BY <1>1 DEF AddOrder
<1>7. a \in Seq(MarketOrder) /\ Len(a) \in Nat /\ ref \in Nat /\ MaxOrderNum \in Nat /\ ~ (s >= NumStocks)
  BY <1>2, SizeAssumption DEF MarketInv, MarketTyped, Stock
<1>8. /\ Len(active_orders') = ref /\ active_orders'[ref] = o
      /\ \A r \in 1 .. Len(a) : active_orders'[r] = a[r]
  <2> HIDE DEF o
  <2> QED  BY <1>1, <1>7
<1>9. /\ o.price = price /\ o.stock_id = s /\ o.buy_sell = side
  OBVIOUS
<1>10. /\ SameOrders(Len(a)) /\ Len(active_orders') \in Nat /\ Len(a) <= Len(active_orders')
       /\ 1 .. Len(active_orders') \subseteq (1 .. Len(a)) \cup {ref}
       /\ ref \in 1 .. Len(active_orders')
  <2> HIDE DEF o
  <2> QED  BY <1>7, <1>8 DEF SameOrders
<1>11. BookOf(ref)' = b /\ (~ Below(ref)' => price >= MinPrice[s])
  <2>1. BookOf(ref)' = b
    BY <1>8, <1>9 DEF BookOf
  <2>2. Below(ref)' <=> price < MinPrice[s]
    BY <1>8, <1>9 DEF Below
  <2> HIDE DEF price
  <2> QED  BY <1>3, <2>1, <2>2
<1> HIDE DEF m, o
<1>12. CASE ref >= MaxOrderNum
  <2>1. UNCHANGED <<books, order_list>>
    BY <1>4, <1>5, <1>12 DEF add_order
  <2>2. UNCHANGED <<soft_books, soft_list>>
    BY <1>12 DEF soft_add_order
  <2>3. 1 .. Len(active_orders') \cap OrderId \subseteq 1 .. Len(a)
    BY <1>7, <1>8, <1>12 DEF OrderId
  <2>4. Synced'
    BY <1>1, <1>2, <1>7, <1>10, <2>1, <2>2, <2>3, NoChange
  <2> QED  BY <1>2, <2>4 DEF AgreeInv
<1>13. CASE ~ (ref >= MaxOrderNum)
  <2>1. held \in Nat /\ shares \in Nat /\ held + shares < WordSize
    <3>1. Len(active_orders) + 1 < MaxOrderNum
      BY <1>7, <1>13
    <3> QED  BY <1>2, <3>1, AddFits
  <2>2. (held + shares) % WordSize = held + shares
    <3> DEFINE n == held + shares
    <3>1. n \in Nat /\ n < WordSize
      BY <2>1
    <3> HIDE DEF n
    <3>2. n % WordSize = n
      BY <3>1, Sizes, ModOfSmall
    <3> QED  BY <3>2 DEF n
  <2> DEFINE slot == [valid |-> TRUE, price_index |-> idx, quantity |-> shares, ask_bid |-> side]
             softslot == [valid |-> TRUE, price_index |-> softidx, quantity |-> shares,
                          ask_bid |-> side]
             book == SetLevel(books[b], side, idx, held + shares)
             softbook == SoftSetLevel(soft_books[b], side, softidx,
                           soft_books[b].price_quantity[At(softidx, MaxLevels)] + shares)
  <2>3. /\ books' = [books EXCEPT ![b] = book]
        /\ order_list' = [order_list EXCEPT ![ref] = slot]
    <3>1. /\ books' = [books EXCEPT ![b] = SetLevel(books[b], side, idx, (held + shares) % WordSize)]
          /\ order_list' = [order_list EXCEPT ![ref] = slot]
      BY <1>4, <1>5, <1>13 DEF add_order
    <3> QED  BY <2>2, <3>1
  <2>4. /\ soft_books' = [soft_books EXCEPT ![b] = softbook]
        /\ soft_list' = [soft_list EXCEPT ![ref] = softslot]
    <3>1. soft_add_order(s, ref, price, shares, side)
      OBVIOUS
    <3> HIDE DEF price
    <3> QED  BY <1>7, <1>13, <3>1 DEF soft_add_order
  <2>5. b \in Books /\ b[1] = side /\ ref \in OrderId
    BY <1>7, <1>13 DEF Books, OrderId
  <2>6. ASSUME InRange(b)' PROVE softbook = book /\ softslot = slot
    <3>1. InRange(b)
      BY <1>7, <1>10, <2>6, RangeKept
    <3>2. soft_books[b] = books[b]
      BY <1>1, <1>2, <2>5, <3>1 DEF Synced, BooksAgree
    <3>3. ~ Below(ref)'
      <4>1. ref < MaxOrderNum
        BY <1>7, <1>13
      <4> QED  BY <1>10, <1>11, <2>6, <4>1 DEF InRange
    <3>4. price >= MinPrice[s]
      BY <1>11, <3>3
    <3>5. softidx = idx
      BY <1>3, <3>4, IndexInRange
    <3>6. At(idx, MaxLevels) = idx
      BY <1>3, SoftLevel
    <3>7. SoftSetLevel(books[b], side, idx, held + shares) = book
      BY <1>3, SoftLevel
    <3> HIDE DEF idx, softidx, book
    <3> QED  BY <3>2, <3>5, <3>6, <3>7
  <2>7. IsSlot(softslot) /\ softslot.ask_bid = side
    BY DEF IsSlot
  <2> HIDE DEF slot, softslot, book, softbook
  <2>8. Synced'
    BY <1>1, <1>2, <1>7, <1>10, <1>11, <2>3, <2>4, <2>5, <2>6, <2>7, OneChange
  <2> QED  BY <1>2, <2>8 DEF AgreeInv
<1> QED  BY <1>12, <1>13

\* What the book knows of an active order that has a slot.
Known(ref) ==
  LET o == active_orders[ref]
      b == <<o.buy_sell, o.stock_id>>
      held == books[b].price_quantity[LevelOf(ref)]
  IN  /\ o.stock_id \in Stock /\ o.buy_sell \in Side /\ LevelOf(ref) \in Level
      /\ IsLive(ref) /\ ref \in OrderId
      /\ order_list[ref].quantity = o.remaining_shares
      /\ order_list[ref].price_index = LevelOf(ref)
      /\ order_list[ref].ask_bid = o.buy_sell /\ check_ask_bid(ref) = o.buy_sell
      /\ held \in Nat /\ held < WordSize
      /\ o.remaining_shares \in Nat /\ o.remaining_shares <= held

LEMMA KnownOrder ==
  ASSUME MarketInv, initialized, NEW ref \in 1 .. Len(active_orders), IsActive(ref),
         ref < MaxOrderNum
  PROVE  Known(ref)
<1> DEFINE a == active_orders
           o == a[ref]
           b == <<o.buy_sell, o.stock_id>>
           idx == LevelOf(ref)
<1>1. MarketTyped(a) /\ LevelsHold /\ SlotsHold
  BY DEF MarketInv
<1>2. ref \in TrackedIn(a) /\ ref \in OrderId
  BY <1>1, TrackedSize DEF TrackedIn, IsActive
<1>3. /\ order_list[ref].valid /\ order_list[ref].quantity = o.remaining_shares
      /\ order_list[ref].price_index = idx /\ order_list[ref].ask_bid = o.buy_sell
  BY <1>1, <1>2 DEF SlotsHold
<1>4. o.stock_id \in Stock /\ o.buy_sell \in Side /\ o.remaining_shares \in Nat /\ idx \in Level
  <2> HIDE DEF a
  <2>1. /\ a[ref].stock_id \in Stock /\ a[ref].buy_sell \in Side
        /\ a[ref].remaining_shares \in 0 .. MostShares
        /\ price_to_index(a[ref].stock_id, a[ref].price) \in Level
    BY <1>1, RecordType DEF a
  <2> QED  BY <2>1 DEF LevelOf, a
<1>5. IsLive(ref) /\ check_ask_bid(ref) = o.buy_sell
  <2>1. \A k \in Side : k % 2 = k
    BY DEF Side, SIDE_BID, SIDE_ASK
  <2> HIDE DEF o
  <2>2. IsLive(ref)
    BY <1>3 DEF IsLive
  <2> QED  BY <1>3, <1>4, <2>1, <2>2 DEF check_ask_bid
<1>6. b \in Books /\ b[1] = o.buy_sell /\ b[2] = o.stock_id
  BY <1>4 DEF Books
<1> HIDE DEF b, idx
<1>7. ref \in OnLevel(a, b, idx)
  BY <1>2, <1>6 DEF OnLevel, LevelOf, idx
<1>8. Resting(a, b, idx) >= o.remaining_shares
  <2> DEFINE T == OnLevel(a, b, idx)
             f == Remaining(a)
  <2>1. /\ IsFiniteSet(T)
        /\ \A r \in T : f[r] \in 0 .. MostShares /\ f[r] = a[r].remaining_shares
    BY <1>1, LevelSum
  <2>2. MostShares \in Nat /\ \A r \in T : f[r] \in 0 .. MostShares
    BY <2>1, MostType
  <2> HIDE DEF T, f
  <2>3. \A r \in T : Total(f, T) >= f[r]
    BY ONLY <2>1, <2>2, TotalAtLeast
  <2>4. Total(f, T) >= f[ref] /\ f[ref] = a[ref].remaining_shares
    BY <1>7, <2>1, <2>3 DEF T
  <2> QED  BY <2>4 DEF Resting, T, f
<1>9. Resting(a, b, idx) \in Word
  BY <1>1, RestingType
<1>10. books[b].price_quantity[idx] = Resting(a, b, idx)
  BY <1>1, <1>4, <1>6 DEF LevelsHold, idx
<1>11. WordSize \in Nat
  BY Sizes
<1> DEFINE held == books[b].price_quantity[idx]
<1>12. held \in Nat /\ held < WordSize /\ o.remaining_shares <= held
  <2> HIDE DEF o
  <2> QED  BY <1>4, <1>8, <1>9, <1>10, <1>11 DEF Word
<1> QED  BY <1>2, <1>3, <1>4, <1>5, <1>12 DEF Known, b, idx

LEMMA RemovalAgrees ==
  ASSUME AgreeInv, NEW m, NEW ref, NEW o, RemovalOf(m, ref, o),
         NEW b, b = BookOf(ref),
         NEW n, n = (IF m.order_type = DELETE THEN NEG_ONE ELSE m.num_shares),
         soft_cancel_order(active_orders[ref].stock_id, ref, n)
  PROVE  AgreeInv'
<1> DEFINE a == active_orders
           s == a[ref].stock_id
           had == a[ref].remaining_shares
<1>1. /\ ref \in 1 .. Len(a) /\ IsActive(ref) /\ o \in MarketOrder
      /\ o.stock_id = s /\ o.price = a[ref].price /\ o.remaining_shares < had
      /\ o.buy_sell = a[ref].buy_sell
      /\ active_orders' = [a EXCEPT ![ref] = o]
      /\ m.order_ref_num = ref /\ m.stock_id = s
      /\ n = NEG_ONE \/ n = had - o.remaining_shares
      /\ RemoveOrder(m)
  BY DEF RemovalOf
<1>2. /\ initialized /\ initialized'
      /\ cancel_order(<<check_ask_bid(ref), s>>, ref, n)
  BY <1>1 DEF RemoveOrder, Read
<1>3. MarketInv' /\ MarketInv /\ Synced
  BY RemovalInv DEF AgreeInv
<1>4. a \in Seq(MarketOrder) /\ MarketTyped(a) /\ ref \in Nat /\ MaxOrderNum \in Nat
  BY <1>1, <1>3, SizeAssumption DEF MarketInv, MarketTyped
<1>5. /\ Len(a) \in Nat /\ Len(active_orders') = Len(a) /\ SameOrders(Len(a))
      /\ BookOf(ref)' = BookOf(ref)
  <2>1. a \in [1 .. Len(a) -> MarketOrder] /\ Len(a) \in Nat
    BY <1>4
  <2>2. /\ active_orders' \in [1 .. Len(a) -> MarketOrder]
        /\ \A r \in 1 .. Len(a) : /\ active_orders'[r].price = a[r].price
                                  /\ active_orders'[r].stock_id = a[r].stock_id
                                  /\ active_orders'[r].buy_sell = a[r].buy_sell
    BY <1>1, <2>1
  <2>3. Len(active_orders') = Len(a)
    BY <2>1, <2>2
  <2>4. SameOrders(Len(a))
    BY <2>2 DEF SameOrders
  <2>5. BookOf(ref)' = BookOf(ref)
    BY <1>1, <2>2 DEF BookOf
  <2> QED  BY <2>1, <2>3, <2>4, <2>5
<1>6. CASE ref >= MaxOrderNum
  <2>1. UNCHANGED <<books, order_list>>
    BY <1>2, <1>4, <1>6 DEF cancel_order, IsLive
  <2>2. UNCHANGED <<soft_books, soft_list>>
    BY <1>6 DEF soft_cancel_order
  <2>3. Synced'
    BY <1>2, <1>3, <1>5, <2>1, <2>2, NoChange
  <2> QED  BY <1>3, <2>3 DEF AgreeInv
<1>7. CASE ~ (ref >= MaxOrderNum)
  <2> DEFINE idx == LevelOf(ref)
             side == a[ref].buy_sell
             held == books[b].price_quantity[idx]
             gone == IF n = NEG_ONE \/ n > had THEN had ELSE n
             r == soft_list[ref]
             there == soft_books[b].price_quantity[At(r.price_index, MaxLevels)]
             want == IF n = NEG_ONE THEN r.quantity ELSE Min({n, r.quantity})
             took == Min({want, there})
             slot == IF gone = had
                     THEN [order_list[ref] EXCEPT !.valid = FALSE, !.quantity = 0, !.ask_bid = 3]
                     ELSE [order_list[ref] EXCEPT !.quantity = had - gone]
             softslot == IF took = r.quantity
                         THEN [r EXCEPT !.valid = FALSE, !.quantity = 0, !.ask_bid = 3]
                         ELSE [r EXCEPT !.quantity = r.quantity - took]
             book == SetLevel(books[b], side, idx, held - gone)
             softbook == SoftSetLevel(soft_books[b], side, r.price_index, there - took)
  <2>1. ref < MaxOrderNum
    BY <1>4, <1>7
  <2>14. b = <<side, s>>
    BY DEF BookOf
  <2>2. Known(ref)
    BY <1>1, <1>2, <1>3, <2>1, KnownOrder
  <2>3. /\ s \in Stock /\ side \in Side /\ idx \in Level /\ IsLive(ref) /\ ref \in OrderId
        /\ order_list[ref].quantity = had /\ order_list[ref].price_index = idx
        /\ order_list[ref].ask_bid = side /\ check_ask_bid(ref) = side
        /\ held \in Nat /\ held < WordSize /\ had \in Nat /\ had <= held
    BY <2>2, <2>14 DEF Known
  <2>4. o.remaining_shares \in Nat
    BY <1>1, Sizes DEF MarketOrder, Word
  <2>5. ~ (s >= NumStocks)
    BY <2>3, SizeAssumption DEF Stock
  <2>6. b \in Books /\ b[1] = side /\ BookOf(ref) = b
    BY <2>3 DEF Books, BookOf
  <2>7. IsSlot(r) /\ (r.valid => r.ask_bid = side)
    BY <1>1, <1>3, <2>3 DEF Synced
  <2> HIDE DEF idx, side, s, had
  <2>8. gone \in Nat /\ gone <= had /\ (n # NEG_ONE => n \in Nat /\ n <= had)
    BY <1>1, <2>3, <2>4
  <2>9. held - gone \in Nat /\ held - gone < WordSize /\ (held - gone) % WordSize = held - gone
    <3> HIDE DEF held, gone
    <3>1. held - gone \in Nat /\ held - gone < WordSize
      BY <2>3, <2>8, Sizes
    <3> DEFINE k == held - gone
    <3> HIDE DEF k
    <3>2. k % WordSize = k
      BY <3>1, Sizes, ModOfSmall DEF k
    <3> QED  BY <3>1, <3>2 DEF k
  <2>10. /\ books' = [books EXCEPT ![b] = book]
         /\ order_list' = [order_list EXCEPT ![ref] = slot]
    <3>1. /\ books' = [books EXCEPT ![b] = SetLevel(books[b], b[1], idx, (held - gone) % WordSize)]
          /\ order_list' = [order_list EXCEPT ![ref] = slot]
      BY <1>2, <2>3, <2>14 DEF cancel_order
    <3> QED  BY <2>6, <2>9, <3>1
  <2>15. /\ Len(active_orders') \in Nat /\ Len(a) <= Len(active_orders')
         /\ ref \in 1 .. Len(active_orders')
         /\ 1 .. Len(active_orders') \subseteq (1 .. Len(a)) \cup {ref}
         /\ b = BookOf(ref)'
    BY <1>1, <1>5
  <2>11. ASSUME InRange(b)' PROVE r = order_list[ref] /\ soft_books[b] = books[b]
    <3>1. InRange(b)
      BY <1>5, <2>11, RangeKept
    <3> QED  BY <1>2, <1>3, <2>3, <2>6, <3>1 DEF Synced, BooksAgree
  <2>12. CASE ~ r.valid
    <3>1. UNCHANGED <<soft_books, soft_list>>
      BY <2>12 DEF soft_cancel_order
    <3>2. /\ soft_books' = [soft_books EXCEPT ![b] = soft_books[b]]
          /\ soft_list' = [soft_list EXCEPT ![ref] = r]
      <4>1. /\ soft_books = [c \in Books |-> soft_books[c]]
            /\ soft_list = [id \in OrderId |-> soft_list[id]]
        BY <1>3 DEF Synced
      <4> QED  BY <2>3, <2>6, <3>1, <4>1
    <3>3. ~ InRange(b)'
      BY <2>3, <2>11, <2>12 DEF IsLive
    <3> HIDE DEF slot, book, r
    <3>4. Synced'
      <4>1. IsSlot(r) /\ (r.valid => r.ask_bid = b[1])
        BY <2>6, <2>7
      <4> QED  BY <1>2, <1>3, <1>5, <2>3, <2>6, <2>10, <2>15, <3>2, <3>3, <4>1, OneChange
    <3> QED  BY <1>3, <3>4 DEF AgreeInv
  <2>13. CASE r.valid
    <3>1. /\ soft_books' = [soft_books EXCEPT ![b] = softbook]
          /\ soft_list' = [soft_list EXCEPT ![ref] = softslot]
      <4> DEFINE c == <<r.ask_bid, s>>
                 held2 == soft_books[c].price_quantity[At(r.price_index, MaxLevels)]
                 took2 == Min({want, held2})
      <4>1. soft_cancel_order(s, ref, n)
        BY DEF s
      <4>2. ~ (s >= NumStocks \/ ref >= MaxOrderNum \/ ~ soft_list[ref].valid)
        BY <1>7, <2>5, <2>13
      <4>3. soft_books' = [soft_books EXCEPT ![c] =
               SoftSetLevel(soft_books[c], r.ask_bid, r.price_index, held2 - took2)]
        BY ONLY <4>1, <4>2 DEF soft_cancel_order
      <4>4. soft_list' = [soft_list EXCEPT ![ref] =
               IF took2 = r.quantity
               THEN [r EXCEPT !.valid = FALSE, !.quantity = 0, !.ask_bid = 3]
               ELSE [r EXCEPT !.quantity = r.quantity - took2]]
        BY ONLY <4>1, <4>2 DEF soft_cancel_order
      <4>5. c = b /\ r.ask_bid = side
        BY <2>7, <2>13, <2>14
      <4> HIDE DEF c, want, r
      <4>6. held2 = there /\ took2 = took
        BY <4>5
      <4> HIDE DEF held2, took2, there, took
      <4> QED  BY <4>3, <4>4, <4>5, <4>6
    <3>2. ASSUME InRange(b)' PROVE softbook = book /\ softslot = slot
      <4>1. r = order_list[ref] /\ soft_books[b] = books[b]
        BY <2>11, <3>2
      <4>2. r.quantity = had /\ r.price_index = idx
        BY <2>3, <4>1
      <4>3. At(idx, MaxLevels) = idx
        BY <2>3, SoftLevel
      <4>4. there = held
        BY <4>1, <4>2, <4>3
      <4>5. want = gone
        <5> HIDE DEF r
        <5>1. CASE n = NEG_ONE
          BY <4>2, <5>1 DEF gone
        <5>2. CASE n # NEG_ONE
          <6>1. Min({n, had}) = n /\ ~ (n > had)
            BY <2>3, <2>8, <5>2, MinOfTwo
          <6> QED  BY <4>2, <5>2, <6>1
        <5> QED  BY <5>1, <5>2
      <4>6. took = gone
        <5> HIDE DEF want, there, gone, held
        <5>1. Min({gone, held}) = gone
          BY <2>3, <2>8, MinOfTwo
        <5> QED  BY <4>4, <4>5, <5>1
      <4>7. softslot = slot
        <5>1. order_list[ref] \in Order
          BY <1>3, <2>3 DEF MarketInv, IInv, TypeOK
        <5> HIDE DEF took, gone, r
        <5> QED  BY <4>1, <4>2, <4>6, <5>1
      <4>8. SoftSetLevel(books[b], side, idx, held - gone) = book
        BY <2>3, SoftLevel
      <4> HIDE DEF took, gone, there, held, r, book
      <4> QED  BY <4>1, <4>2, <4>4, <4>6, <4>7, <4>8
    <3>3. IsSlot(softslot) /\ (softslot.valid => softslot.ask_bid = side)
      <4>1. PICK v, i, q, w : r = [valid |-> v, price_index |-> i, quantity |-> q, ask_bid |-> w]
        BY <2>7 DEF IsSlot
      <4>2. r.ask_bid = side
        BY <2>7, <2>13
      <4> HIDE DEF r, took
      <4>3. CASE took = r.quantity
        <5>1. softslot = [valid |-> FALSE, price_index |-> i, quantity |-> 0, ask_bid |-> 3]
          BY <4>1, <4>3
        <5> QED  BY <5>1 DEF IsSlot
      <4>4. CASE took # r.quantity
        <5>1. softslot = [valid |-> v, price_index |-> i, quantity |-> r.quantity - took,
                          ask_bid |-> w]
          BY <4>1, <4>4
        <5>2. w = side
          BY <4>1, <4>2
        <5> HIDE DEF softslot
        <5> QED  BY <5>1, <5>2 DEF IsSlot
      <4> QED  BY <4>3, <4>4
    <3> HIDE DEF slot, softslot, book, softbook
    <3>4. Synced'
      <4>1. IsSlot(softslot) /\ (softslot.valid => softslot.ask_bid = b[1])
        BY <2>6, <3>3
      <4> QED  BY <1>2, <1>3, <1>5, <2>3, <2>6, <2>10, <2>15, <3>1, <3>2, <4>1, OneChange
    <3> QED  BY <1>3, <3>4 DEF AgreeInv
  <2> QED  BY <2>12, <2>13
<1> QED  BY <1>6, <1>7

LEMMA PublishAgrees ==
  ASSUME AgreeInv, SoftPublish
  PROVE  /\ AgreeInv'
         /\ outStream' = FrameWords([b \in Books |-> get_top_5(b).rows])
         /\ \A b \in Books : InRange(b) => soft_get_top_5(b) = get_top_5(b)
<1>1. /\ Publish /\ initialized /\ initialized' /\ IInv /\ MarketInv /\ Synced
      /\ UNCHANGED <<soft_list, active_orders, order_list, initialized>>
      /\ soft_books' = [b \in Books |-> soft_get_top_5(b).book]
  BY DEF SoftPublish, Publish, AgreeInv, MarketInv
<1>2. MarketInv' /\ books' = books
  BY <1>1, PublishInv, PublishKeepsBooks, KeptInv
<1>3. \A b \in Books : InRange(b) => soft_get_top_5(b) = get_top_5(b)
  BY <1>1, SoftTopIs DEF IInv, TreesConsistent, Synced, BooksAgree
<1>4. /\ books' = [b \in Books |-> get_top_5(b).book]
      /\ outStream' = FrameWords([b \in Books |-> get_top_5(b).rows])
  BY <1>1 DEF Publish
<1>5. \A c : /\ InRange(c)' <=> InRange(c)
             /\ BookOf(c)' = BookOf(c)
  BY <1>1 DEF InRange, BookOf, Below
<1>6. \A b \in Books : InRange(b)' => soft_books'[b] = books'[b]
  BY <1>1, <1>3, <1>4, <1>5
<1>7. \A id \in OrderId :
        (id \in 1 .. Len(active_orders') => InRange(BookOf(id))') => soft_list'[id] = order_list'[id]
  <2> SUFFICES ASSUME NEW id \in OrderId, id \in 1 .. Len(active_orders') => InRange(BookOf(id))'
               PROVE  soft_list'[id] = order_list'[id]
    OBVIOUS
  <2> DEFINE c == BookOf(id)
  <2>1. InRange(BookOf(id))' => InRange(c)
    BY <1>5
  <2>2. id \in 1 .. Len(active_orders) => InRange(c)
    BY <1>1, <2>1
  <2> QED  BY <1>1, <2>2 DEF Synced, BooksAgree
<1>8. BooksAgree'
  BY <1>6, <1>7 DEF BooksAgree
<1>9. soft_books' = [b \in Books |-> soft_books'[b]]
  BY <1>1
<1>10. Synced'
  BY <1>1, <1>8, <1>9 DEF Synced
<1> QED  BY <1>2, <1>3, <1>4, <1>10 DEF AgreeInv

LEMMA InitAgrees == SoftInit => AgreeInv
<1> SUFFICES ASSUME SoftInit PROVE AgreeInv
  OBVIOUS
<1>1. MarketInv
  BY InitMarket DEF SoftInit
<1>2. initialized = FALSE /\ outStream = <<>>
  BY DEF SoftInit, FeedInit, Init
<1>3. \A id \in OrderId : IsSlot(soft_list[id]) /\ ~ soft_list[id].valid
  BY DEF SoftInit, IsSlot, NoOrder
<1>4. BooksAgree
  BY <1>2 DEF BooksAgree
<1> QED  BY <1>1, <1>2, <1>3, <1>4 DEF AgreeInv, Synced, SoftInit

LEMMA HardwareAgrees ==
  ASSUME AgreeInv, HardwareStep \/ UNCHANGED softVars
  PROVE  AgreeInv' /\ (outStream' # <<>> => UNCHANGED softVars)
<1>1. UNCHANGED <<active_orders, soft_books, soft_list>> /\ Synced
  BY DEF HardwareStep, softVars, feedVars, AgreeInv
<1>2. MarketInv'
  BY MarketStep DEF AgreeInv, SoftNext
<1>3. CASE Initialise
  <2>1. soft_books' = books' /\ soft_list' = order_list'
    BY <1>1, <1>3 DEF Initialise, Synced
  <2>2. BooksAgree'
    BY <2>1 DEF BooksAgree
  <2>3. outStream' = <<>> /\ initialized'
    BY <1>1, <1>3 DEF Initialise, Synced
  <2>4. Synced'
    BY <1>1, <2>2, <2>3 DEF Synced
  <2> QED  BY <1>2, <2>3, <2>4 DEF AgreeInv
<1>4. CASE TakeFrame \/ UNCHANGED softVars
  <2>1. UNCHANGED <<initialized, books, order_list>>
    BY <1>4 DEF TakeFrame, softVars, feedVars, vars
  <2>2. \A c : /\ InRange(c)' <=> InRange(c)
               /\ BookOf(c)' = BookOf(c)
    BY <1>1 DEF InRange, BookOf, Below
  <2>3. ASSUME initialized', NEW id \in OrderId,
               id \in 1 .. Len(active_orders') => InRange(BookOf(id))'
        PROVE  soft_list'[id] = order_list'[id]
    <3> DEFINE c == BookOf(id)
    <3>1. InRange(BookOf(id))' => InRange(c)
      BY <2>2
    <3>2. id \in 1 .. Len(active_orders) => InRange(c)
      BY <1>1, <2>3, <3>1
    <3> QED  BY <1>1, <2>1, <2>3, <3>2 DEF Synced, BooksAgree
  <2>4. ASSUME initialized', NEW b \in Books, InRange(b)' PROVE soft_books'[b] = books'[b]
    BY <1>1, <2>1, <2>2, <2>4 DEF Synced, BooksAgree
  <2>5. BooksAgree'
    BY <2>3, <2>4 DEF BooksAgree
  <2>6. outStream' = <<>> \/ UNCHANGED softVars
    BY <1>4 DEF TakeFrame
  <2>7. ~ initialized' => outStream' = <<>>
    BY <1>1, <2>1, <2>6 DEF Synced, softVars, feedVars, vars
  <2>8. Synced'
    BY <1>1, <2>1, <2>5, <2>7 DEF Synced
  <2> QED  BY <1>2, <2>6, <2>8 DEF AgreeInv
<1> QED  BY <1>3, <1>4 DEF HardwareStep

LEMMA AgreeStep == ASSUME AgreeInv, [SoftNext]_softVars PROVE AgreeInv'
<1>1. CASE SoftAdd
  <2>0. PICK s \in Stock, side \in Side, shares \in AddShares :
          \E raw \in RawPrices[s] :
            /\ FeedAdd(s, side, shares, raw)
            /\ soft_add_order(s, Len(active_orders) + 1, final_price(s, raw), shares, side)
    BY <1>1 DEF SoftAdd
  <2>1. PICK raw \in RawPrices[s] :
          /\ FeedAdd(s, side, shares, raw)
          /\ soft_add_order(s, Len(active_orders) + 1, final_price(s, raw), shares, side)
    BY <2>0
  <2>2. PICK ref : ref = Len(active_orders) + 1
    OBVIOUS
  <2>3. soft_add_order(s, ref, final_price(s, raw), shares, side)
    BY <2>1, <2>2
  <2>4. PICK b : b = <<side, s>>
    OBVIOUS
  <2> QED  BY <2>1, <2>2, <2>3, <2>4, AddAgrees
<1>2. CASE SoftCancel
  <2>1. PICK type \in {CANCEL, EXECUTE}, ref \in 1 .. Len(active_orders) :
          \E qty \in 1 .. active_orders[ref].remaining_shares :
            FeedCancel(type, ref, qty) /\ soft_cancel_order(active_orders[ref].stock_id, ref, qty)
    BY <1>2 DEF SoftCancel
  <2>2. PICK qty \in 1 .. active_orders[ref].remaining_shares :
          FeedCancel(type, ref, qty) /\ soft_cancel_order(active_orders[ref].stock_id, ref, qty)
    BY <2>1
  <2>3. PICK m, o : RemovalOf(m, ref, o) /\ m.order_type # DELETE /\ m.num_shares = qty
    BY <2>2, FeedCancelRemoves DEF AgreeInv
  <2>4. PICK b : b = BookOf(ref)
    OBVIOUS
  <2> QED  BY <2>2, <2>3, <2>4, RemovalAgrees
<1>3. CASE SoftDelete
  <2>1. PICK ref \in 1 .. Len(active_orders) :
          FeedDelete(ref) /\ soft_cancel_order(active_orders[ref].stock_id, ref, NEG_ONE)
    BY <1>3 DEF SoftDelete
  <2>2. PICK m, o : RemovalOf(m, ref, o) /\ m.order_type = DELETE
    BY <2>1, FeedDeleteRemoves DEF AgreeInv
  <2>3. PICK b : b = BookOf(ref)
    OBVIOUS
  <2> QED  BY <2>1, <2>2, <2>3, RemovalAgrees
<1>4. CASE SoftPublish
  BY <1>4, PublishAgrees
<1>5. CASE HardwareStep \/ UNCHANGED softVars
  BY <1>5, HardwareAgrees
<1> QED  BY <1>1, <1>2, <1>3, <1>4, <1>5 DEF SoftNext

LEMMA AgreeInvariant == SoftSpec => []AgreeInv
<1>1. AgreeInv /\ [SoftNext]_softVars => AgreeInv'
  BY AgreeStep
<1> QED  BY InitAgrees, <1>1, PTL DEF SoftSpec

\* Within the range of its stock, a dearer order never rests on a lower level; an order
\* below the range rests on the top level.
THEOREM LevelsRank == SoftSpec => []LevelsRankAsPrices
<1>1. AgreeInv => LevelsRankAsPrices
  BY LevelsRankInv DEF AgreeInv
<1> QED  BY <1>1, AgreeInvariant, PTL

\* Between publications trees, levels and list entries of the benchmark are the
\* hardware's for every book in its range, though its numbers are unbounded, its removals
\* clamped to the level, and its indices signed.
THEOREM BooksStayAlike == SoftSpec => []BooksAgree
<1>1. AgreeInv => BooksAgree
  BY DEF AgreeInv, Synced
<1> QED  BY <1>1, AgreeInvariant, PTL

-----------------------------------------------------------------------------
(* The refinement of MarketByPrice.                                        *)

MarketOrders ==
  [ref \in Tracked |-> [stock |-> active_orders[ref].stock_id,
                        side |-> active_orders[ref].buy_sell,
                        level |-> LevelOf(ref),
                        quantity |-> active_orders[ref].remaining_shares]]
MarketFrame == IF outStream = <<>> THEN <<>>
               ELSE [b \in Books |-> [i \in 1 .. CacheSize |-> RowAt(b, i)]]

LEMMA MarketDefs ==
  /\ UNCHANGED Market!vars <=> UNCHANGED <<MarketOrders, num_new_order, MarketFrame>>
  /\ Market!Init <=> /\ MarketOrders = [r \in {} |-> 0]
                     /\ num_new_order = 0 /\ MarketFrame = <<>>
  /\ Market!Message <=> /\ num_new_order < PublishPeriod /\ MarketFrame = <<>>
                        /\ num_new_order' = num_new_order + 1 /\ MarketFrame' = MarketFrame
  /\ Market!Untracked <=> Market!Message /\ MarketOrders' = MarketOrders
  /\ Market!Take <=> /\ MarketFrame # <<>> /\ MarketFrame' = <<>>
                     /\ UNCHANGED <<MarketOrders, num_new_order>>
BY DEF Market!vars, Market!Init, Market!Message, Market!Untracked, Market!Take, Market!None,
  MarketOrders, MarketFrame

LEMMA MarketAdd ==
  Market!Add <=>
    /\ Market!Message
    /\ \E r \in (1 .. MaxRef) \ DOMAIN MarketOrders :
         /\ DOMAIN MarketOrders' = DOMAIN MarketOrders \cup {r}
         /\ MarketOrders'[r].side \in {0, 1} /\ MarketOrders'[r].stock \in 0 .. NumStocks - 1
         /\ MarketOrders'[r].level \in 0 .. MaxLevels - 1 /\ MarketOrders'[r].quantity > 0
         /\ \A s \in DOMAIN MarketOrders : MarketOrders'[s] = MarketOrders[s]
BY DEF Market!Add, Market!Side, Market!Level, MarketOrders

LEMMA MarketReduce ==
  Market!Reduce <=>
    /\ Market!Message
    /\ \E r \in DOMAIN MarketOrders : \E left \in 0 .. MarketOrders[r].quantity - 1 :
         MarketOrders' = IF left = 0 THEN [s \in DOMAIN MarketOrders \ {r} |-> MarketOrders[s]]
                         ELSE [MarketOrders EXCEPT ![r].quantity = left]
BY DEF Market!Reduce, MarketOrders

DepthOf(o, T) == MapThenSumSet(LAMBDA r : o[r].quantity, T)

\* The operators of the library, as the instance of MarketByPrice names them.
LEMMA MarketCardinality == \A S : Market!Cardinality(S) = Cardinality(S)
BY DEF Market!Cardinality, Cardinality

LEMMA MarketLevels ==
  \A b, l :
    /\ Market!Resting(b, l) = {r \in DOMAIN MarketOrders : MarketOrders[r].side = b[1]
                                 /\ MarketOrders[r].stock = b[2] /\ MarketOrders[r].level = l}
    /\ Market!Depth(b, l) = DepthOf(MarketOrders, Market!Resting(b, l))
<1> SUFFICES ASSUME NEW b, NEW l
             PROVE
    /\ Market!Resting(b, l) = {r \in DOMAIN MarketOrders : MarketOrders[r].side = b[1]
                                 /\ MarketOrders[r].stock = b[2] /\ MarketOrders[r].level = l}
    /\ Market!Depth(b, l) = DepthOf(MarketOrders, Market!Resting(b, l))
  OBVIOUS
<1>1. Market!Resting(b, l) = {r \in DOMAIN MarketOrders : MarketOrders[r].side = b[1]
                                 /\ MarketOrders[r].stock = b[2] /\ MarketOrders[r].level = l}
  BY DEF Market!Resting, MarketOrders
<1>2. Market!Depth(b, l) = DepthOf(MarketOrders, Market!Resting(b, l))
  BY DEF Market!Depth, DepthOf, MarketOrders, Market!MapThenSumSet, MapThenSumSet,
    Market!MapThenFoldSet, MapThenFoldSet
<1> QED  BY <1>1, <1>2

LEMMA MarketRow ==
  \A b, i, l :
    Market!IsRow(b, i, l) <=>
      /\ Market!Resting(b, l) # {}
      /\ Cardinality({k \in Level : Market!Resting(b, k) # {} /\ Better(b[1], k, l)}) = i - 1
<1> SUFFICES ASSUME NEW b, NEW i, NEW l
             PROVE  Market!IsRow(b, i, l) <=>
               /\ Market!Resting(b, l) # {}
               /\ Cardinality({k \in Level : Market!Resting(b, k) # {} /\ Better(b[1], k, l)}) = i - 1
  OBVIOUS
<1>1. {k \in Market!Level : Market!Resting(b, k) # {} /\ IF b[1] = 0 THEN k > l ELSE k < l}
        = {k \in Level : Market!Resting(b, k) # {} /\ Better(b[1], k, l)}
  BY DEF Better, SIDE_BID, Market!Level, Level
<1> QED  BY <1>1, MarketCardinality DEF Market!IsRow

LEMMA MarketPublish ==
  Market!Publish <=>
    /\ num_new_order = PublishPeriod /\ num_new_order' = 0
    /\ MarketFrame' = [b \in Books |-> [i \in 1 .. CacheSize |-> Market!Row(b, i)]]
    /\ MarketOrders' = MarketOrders
<1>1. Market!Books = Books
  BY DEF Market!Books, Market!Side, Books, Side, SIDE_BID, SIDE_ASK, Stock
<1> QED  BY <1>1 DEF Market!Publish, MarketOrders, MarketFrame

-----------------------------------------------------------------------------
(* Orders.                                                                 *)

OrderIn(o) == [stock |-> o.stock_id, side |-> o.buy_sell,
               level |-> price_to_index(o.stock_id, o.price), quantity |-> o.remaining_shares]
OrdersIn(a) == [ref \in TrackedIn(a) |-> OrderIn(a[ref])]

LEMMA OrdersAre == MarketOrders = OrdersIn(active_orders) /\ MarketOrders' = OrdersIn(active_orders')
<1>1. MarketOrders = OrdersIn(active_orders)
  BY TrackedIs DEF MarketOrders, OrdersIn, OrderIn, LevelOf
<1>2. Tracked' = TrackedIn(active_orders')
  BY DEF Tracked, TrackedIn, IsActive
<1>3. MarketOrders' = OrdersIn(active_orders')
  BY <1>2 DEF MarketOrders, OrdersIn, OrderIn, LevelOf
<1> QED  BY <1>1, <1>3

\* A message the hardware reads is one message of the abstract book.
LEMMA ReadIsMessage == Read => Market!Message
BY MarketDefs DEF Read, MarketFrame

LEMMA AddRefines ==
  ASSUME MarketInv, NEW s \in Stock, NEW side \in Side, NEW shares \in AddShares,
         NEW raw \in RawPrices[s], FeedAdd(s, side, shares, raw)
  PROVE  Market!Add \/ Market!Untracked
<1> DEFINE a == active_orders
           price == final_price(s, raw)
           o == [stock_id |-> s, buy_sell |-> side, price |-> price,
                 remaining_shares |-> shares, deleted |-> FALSE]
           new == Len(a) + 1
<1>1. /\ active_orders' = Append(a, o) /\ new <= MaxRef /\ Read
      /\ MarketTyped(a) /\ Len(a) \in Nat
  BY DEF FeedAdd, AddOrder, MarketInv, MarketTyped
<1>2. price \in Word /\ price_to_index(s, price) \in Level
  BY FinalPriceType, PriceIndexType
<1>3. shares \in Word /\ shares \in 1 .. MostShares /\ shares > 0
  <2>1. shares \in Nat /\ shares > 0 /\ shares \in Word /\ shares * MaxOrderNum < WordSize
    BY FeedAssumption, RangeAssumption DEF Word
  <2> QED  BY <2>1, MostType
<1> HIDE DEF price
<1>4. /\ o \in MarketOrder /\ ~o.deleted /\ o.remaining_shares = shares
      /\ o.stock_id = s /\ o.buy_sell = side /\ o.price = price
  BY <1>2, <1>3 DEF MarketOrder
<1> HIDE DEF o
<1>5. Added(a, o, active_orders')
  <2> HIDE DEF a
  <2> QED  BY <1>1, <1>3, <1>4, AddToMarket
<1> HIDE DEF new, a
<1>6. /\ Len(active_orders') = new
      /\ active_orders'[new] = o
      /\ \A ref \in 1 .. Len(a) : active_orders'[ref] = a[ref]
      /\ TrackedIn(active_orders') = TrackedIn(a) \cup (IF new < MaxOrderNum THEN {new} ELSE {})
  BY <1>5 DEF Added, new
<1>7. TrackedIn(a) \subseteq 1 .. Len(a)
  BY <1>1, TrackedSize
<1>8. MarketOrders = OrdersIn(a) /\ MarketOrders' = OrdersIn(active_orders')
  BY OrdersAre DEF a
<1>9. \A ref \in TrackedIn(a) :
        OrdersIn(active_orders')[ref] = OrdersIn(a)[ref]
  <2> SUFFICES ASSUME NEW ref \in TrackedIn(a)
               PROVE  OrdersIn(active_orders')[ref] = OrdersIn(a)[ref]
    OBVIOUS
  <2>1. ref \in TrackedIn(active_orders') /\ active_orders'[ref] = a[ref]
    BY <1>6, <1>7
  <2> QED  BY <2>1 DEF OrdersIn
<1>10. CASE new < MaxOrderNum
  <2>1. new \in TrackedIn(active_orders') /\ new \notin TrackedIn(a) /\ new \in 1 .. MaxRef
    BY <1>1, <1>6, <1>7, <1>10, FeedAssumption DEF new
  <2>2. MarketOrders'[new] = OrderIn(o)
    BY <1>6, <1>8, <2>1 DEF OrdersIn
  <2>3. /\ MarketOrders'[new].side \in {0, 1} /\ MarketOrders'[new].stock \in 0 .. NumStocks - 1
        /\ MarketOrders'[new].level \in 0 .. MaxLevels - 1 /\ MarketOrders'[new].quantity > 0
    BY <1>2, <1>3, <1>4, <2>2 DEF OrderIn, Side, SIDE_BID, SIDE_ASK, Stock, Level
  <2>4. DOMAIN MarketOrders = TrackedIn(a) /\ DOMAIN MarketOrders' = TrackedIn(a) \cup {new}
    BY <1>6, <1>8, <1>10 DEF OrdersIn
  <2> QED  BY <1>1, <1>8, <1>9, <2>1, <2>3, <2>4, ReadIsMessage, MarketAdd
<1>11. CASE ~ (new < MaxOrderNum)
  <2>1. TrackedIn(active_orders') = TrackedIn(a)
    BY <1>6, <1>11
  <2>2. OrdersIn(active_orders') = OrdersIn(a)
    BY <1>6, <1>7, <2>1 DEF OrdersIn
  <2> QED  BY <1>1, <1>8, <2>2, ReadIsMessage, MarketDefs
<1> QED  BY <1>10, <1>11

LEMMA RemovalRefines ==
  ASSUME MarketInv, NEW m, NEW ref, NEW o, RemovalOf(m, ref, o)
  PROVE  Market!Reduce \/ Market!Untracked
<1> DEFINE a == active_orders
           left == o.remaining_shares
<1>1. /\ ref \in 1 .. Len(a) /\ ~a[ref].deleted /\ a[ref].remaining_shares > 0
      /\ o \in MarketOrder
      /\ o.stock_id = a[ref].stock_id /\ o.buy_sell = a[ref].buy_sell /\ o.price = a[ref].price
      /\ left < a[ref].remaining_shares /\ (o.deleted => left = 0)
      /\ active_orders' = [a EXCEPT ![ref] = o] /\ Read
  BY DEF RemovalOf, IsActive, RemoveOrder
<1>2. MarketTyped(a)
  BY DEF MarketInv
<1>3. Reduced(a, ref, o, active_orders')
  <2> HIDE DEF a
  <2>1. Reduced(a, ref, o, [a EXCEPT ![ref] = o])
    BY <1>1, <1>2, ReduceMarket
  <2> QED  BY <1>1, <2>1
<1>4. a[ref].remaining_shares \in Nat /\ left \in Nat
  <2> HIDE DEF a
  <2> QED  BY <1>1, <1>2, RecordType, MostType, Sizes DEF MarketOrder, Word
<1>5. left \in 0 .. a[ref].remaining_shares - 1
  <2> HIDE DEF left, a
  <2> QED  BY <1>1, <1>4
<1> HIDE DEF a, left
<1>6. /\ active_orders'[ref] = o
      /\ \A r \in 1 .. Len(a) : r # ref => active_orders'[r] = a[r]
      /\ TrackedIn(active_orders') = TrackedIn(a) \ (IF left = 0 THEN {ref} ELSE {})
  BY <1>3 DEF Reduced, left
<1>7. TrackedIn(a) \subseteq 1 .. Len(a)
  BY <1>2, TrackedSize
<1>8. MarketOrders = OrdersIn(a) /\ MarketOrders' = OrdersIn(active_orders')
  BY OrdersAre DEF a
<1>9. CASE ref \notin TrackedIn(a)
  <2>1. TrackedIn(active_orders') = TrackedIn(a)
    BY <1>6, <1>9
  <2>2. OrdersIn(active_orders') = OrdersIn(a)
    BY <1>6, <1>7, <1>9, <2>1 DEF OrdersIn
  <2> QED  BY <1>1, <1>8, <2>2, ReadIsMessage, MarketDefs
<1>10. CASE ref \in TrackedIn(a)
  <2>1. ref \in DOMAIN MarketOrders /\ MarketOrders[ref] = OrderIn(a[ref])
        /\ MarketOrders[ref].quantity = a[ref].remaining_shares
    BY <1>8, <1>10 DEF OrdersIn, OrderIn
  <2>2. MarketOrders' = IF left = 0
                        THEN [r \in DOMAIN MarketOrders \ {ref} |-> MarketOrders[r]]
                        ELSE [MarketOrders EXCEPT ![ref].quantity = left]
    <3>1. CASE left = 0
      <4>1. TrackedIn(active_orders') = TrackedIn(a) \ {ref}
        BY <1>6, <3>1
      <4>2. OrdersIn(active_orders') = [r \in TrackedIn(a) \ {ref} |-> OrderIn(a[r])]
        BY <1>6, <1>7, <4>1 DEF OrdersIn
      <4>3. DOMAIN MarketOrders = TrackedIn(a)
            /\ \A r \in TrackedIn(a) : MarketOrders[r] = OrderIn(a[r])
        BY <1>8 DEF OrdersIn
      <4>4. [r \in TrackedIn(a) \ {ref} |-> OrderIn(a[r])]
              = [r \in DOMAIN MarketOrders \ {ref} |-> MarketOrders[r]]
        BY <4>3
      <4> QED  BY <1>8, <3>1, <4>2, <4>4
    <3>2. CASE left # 0
      <4>1. TrackedIn(active_orders') = TrackedIn(a)
        BY <1>6, <3>2
      <4>2. OrderIn(o) = [OrderIn(a[ref]) EXCEPT !.quantity = left]
        BY <1>1 DEF OrderIn, left
      <4>3. OrdersIn(active_orders') = [r \in TrackedIn(a) |-> IF r = ref THEN OrderIn(o)
                                                              ELSE OrderIn(a[r])]
        BY <1>6, <1>7, <4>1 DEF OrdersIn
      <4>4. DOMAIN OrdersIn(a) = TrackedIn(a)
            /\ \A r \in TrackedIn(a) : OrdersIn(a)[r] = OrderIn(a[r])
            /\ OrdersIn(a) = [x \in TrackedIn(a) |-> OrdersIn(a)[x]]
        BY DEF OrdersIn
      <4>5. [OrdersIn(a) EXCEPT ![ref].quantity = left]
              = [r \in TrackedIn(a) |-> IF r = ref THEN [OrderIn(a[ref]) EXCEPT !.quantity = left]
                                        ELSE OrderIn(a[r])]
        BY <1>10, <4>4
      <4> QED  BY <1>8, <3>2, <4>2, <4>3, <4>5
    <3> QED  BY <3>1, <3>2
  <2>3. left \in 0 .. MarketOrders[ref].quantity - 1
    BY <1>5, <2>1
  <2> QED  BY <1>1, <2>1, <2>2, <2>3, ReadIsMessage, MarketReduce
<1> QED  BY <1>9, <1>10

-----------------------------------------------------------------------------
(* Frames.                                                                 *)

Quantities(o) == [r \in DOMAIN o |-> o[r].quantity]

LEMMA DepthIsTotal ==
  ASSUME NEW o, NEW T, IsFiniteSet(T), T \subseteq DOMAIN o,
         \A r \in T : o[r].quantity \in Int
  PROVE  DepthOf(o, T) = Total(Quantities(o), T)
<1> DEFINE f == Quantities(o)
           Rec(g) == g = [s \in SUBSET T |->
                            IF s = {} THEN 0 ELSE o[CHOOSE x \in s : TRUE].quantity
                                                  + g[s \ {CHOOSE x \in s : TRUE}]]
           iter == CHOOSE g : Rec(g)
<1>1. DepthOf(o, T) = iter[T]
  BY DEF DepthOf, MapThenSumSet, MapThenFoldSet
<1>2. \A x \in T : f[x] = o[x].quantity /\ f[x] \in Int
  BY DEF Quantities
<1> HIDE DEF f
<1>3. PICK g \in [SUBSET T -> Int] : IsSum(g, f, T) /\ Total(f, T) = g[T]
  BY <1>2, TotalIs
<1>4. \A s \in SUBSET T : s # {} => o[Chosen(s)].quantity = f[Chosen(s)]
  BY <1>2, ChosenIn
<1>5. ASSUME NEW h PROVE Rec(h) <=> IsSum(h, f, T)
  <2>1. \A s \in SUBSET T :
          (IF s = {} THEN 0 ELSE o[Chosen(s)].quantity + h[s \ {Chosen(s)}])
            = (IF s = {} THEN 0 ELSE f[Chosen(s)] + h[s \ {Chosen(s)}])
    BY <1>4
  <2>2. Rec(h) <=> h = [s \in SUBSET T |-> IF s = {} THEN 0 ELSE
                          o[Chosen(s)].quantity + h[s \ {Chosen(s)}]]
    BY DEF Chosen
  <2> HIDE DEF Rec
  <2> QED  BY <2>1, <2>2 DEF IsSum
<1>6. Rec(iter)
  <2>1. Rec(g)
    BY <1>3, <1>5
  <2> HIDE DEF Rec
  <2> QED  BY <2>1
<1>7. IsSum(iter, f, T)
  BY <1>5, <1>6
<1> HIDE DEF iter, Rec
<1>8. iter[T] = g[T]
  BY <1>2, <1>3, <1>7, SumsAgree
<1> QED  BY <1>1, <1>3, <1>8 DEF f

\* What the abstract book sums for a level is what the level array holds.
LEMMA DepthIsLevel ==
  ASSUME MarketInv, initialized, NEW b \in Books, NEW l \in Level
  PROVE  /\ Market!Depth(b, l) = books[b].price_quantity[l]
         /\ Market!Resting(b, l) # {} <=> l \in Occupied(books[b])
<1> DEFINE a == active_orders
           T == OnLevel(a, b, l)
           O == OrdersIn(a)
<1>1. MarketTyped(a) /\ books[b].price_quantity[l] = Resting(a, b, l)
  BY DEF MarketInv, LevelsHold
<1>2. MarketOrders = O
  BY OrdersAre
<1>3. DOMAIN O = TrackedIn(a) /\ \A r \in TrackedIn(a) : O[r] = OrderIn(a[r])
  BY DEF OrdersIn
<1>4. Market!Resting(b, l) = T
  BY <1>2, <1>3, MarketLevels DEF OnLevel, OrderIn
<1>5. /\ T \subseteq TrackedIn(a) /\ IsFiniteSet(T)
      /\ \A r \in T : Remaining(a)[r] = a[r].remaining_shares
                      /\ Remaining(a)[r] \in Int /\ Remaining(a)[r] \in 0 .. MostShares
                      /\ Remaining(a)[r] > 0
  BY <1>1, LevelSum
<1>6. \A r \in T : O[r].quantity = Remaining(a)[r] /\ Quantities(O)[r] = Remaining(a)[r]
  BY <1>3, <1>5 DEF OrderIn, Quantities
<1> HIDE DEF T, O
<1>7. DepthOf(O, T) = Total(Quantities(O), T)
  <2>1. T \subseteq DOMAIN O
    BY <1>3, <1>5
  <2>2. \A r \in T : O[r].quantity \in Int
    BY <1>5, <1>6
  <2> QED  BY <1>5, <2>1, <2>2, DepthIsTotal
<1>8. Total(Quantities(O), T) = Total(Remaining(a), T)
  <2>1. \A r \in T : Quantities(O)[r] \in Int /\ Quantities(O)[r] = Remaining(a)[r]
    BY <1>5, <1>6
  <2> QED  BY <1>5, <2>1, TotalSame
<1>9. Market!Depth(b, l) = books[b].price_quantity[l]
  <2>1. Market!Depth(b, l) = DepthOf(O, T)
    BY <1>2, <1>4, MarketLevels
  <2> QED  BY <1>1, <1>7, <1>8, <2>1 DEF Resting, T
<1>10. CASE T = {}
  <2>1. books[b].price_quantity[l] = 0
    BY <1>1, <1>10, TotalEmpty DEF Resting, T
  <2> QED  BY <1>4, <1>9, <1>10, <2>1 DEF Occupied
<1>11. CASE T # {}
  <2>1. PICK r : r \in T
    BY <1>11
  <2> DEFINE f == Remaining(a)
  <2>2. MostShares \in Nat /\ \A x \in T : f[x] \in 0 .. MostShares
    BY <1>5, MostType
  <2>3. f[r] \in Int /\ f[r] > 0
    BY <1>5, <2>1
  <2> HIDE DEF f
  <2>4. \A x \in T : Total(f, T) >= f[x]
    BY ONLY <1>5, <2>2, TotalAtLeast
  <2>5. Total(f, T) >= f[r]
    BY <2>1, <2>4
  <2>6. books[b].price_quantity[l] = Total(f, T)
    BY <1>1 DEF Resting, f, T
  <2>7. Total(f, T) \in Int
    <3>1. Resting(a, b, l) \in Word
      BY <1>1, RestingType
    <3>2. Resting(a, b, l) \in Int
      BY <3>1, Sizes DEF Word
    <3> QED  BY <1>1, <2>6, <3>2
  <2>8. books[b].price_quantity[l] > 0
    BY <2>3, <2>5, <2>6, <2>7
  <2> QED  BY <1>4, <1>9, <1>11, <2>8 DEF Occupied
<1> QED  BY <1>10, <1>11

\* Two levels of one book have different ranks.
LEMMA RankUnique ==
  ASSUME TypeOK, NEW b \in Books, NEW i \in Nat,
         NEW l \in RankedLevels(b, i), NEW k \in RankedLevels(b, i)
  PROVE  l = k
<1> DEFINE C == Occupied(books[b])
           side == b[1]
           up(x) == Above(books[b], side, x)
<1>1. C \subseteq Level /\ Level \subseteq Int
  BY DEF Occupied, Level
<1>2. IsFiniteSet(C)
  <2>1. IsFiniteSet(Level)
    BY FS_Interval, Sizes DEF Level
  <2> QED  BY <1>1, <2>1, FS_Subset
<1>3. \A x \in RankedLevels(b, i) : x \in C /\ Cardinality(up(x)) = i - 1
  BY DEF RankedLevels, Above
<1>4. \A x : up(x) \subseteq C /\ IsFiniteSet(up(x))
  BY <1>2, FS_Subset DEF Above
<1>5. ASSUME NEW x \in RankedLevels(b, i), NEW y \in RankedLevels(b, i), Better(side, x, y)
      PROVE  FALSE
  <2>1. x \in C /\ y \in C /\ x \in Int /\ y \in Int
    BY <1>1, <1>3
  <2>2. x \notin up(x) /\ up(x) \cup {x} \subseteq up(y)
    <3> HIDE DEF C, side
    <3>1. \A z \in Int : Better(side, z, x) => Better(side, z, y)
      BY <1>5, <2>1 DEF Better
    <3>2. \A z \in C : Better(side, z, x) => Better(side, z, y)
      BY <1>1, <3>1
    <3>3. ~ Better(side, x, x)
      BY <2>1 DEF Better
    <3>4. \A z : z \in up(x) <=> z \in C /\ Better(side, z, x)
      BY DEF Above, C
    <3>5. \A z : z \in up(y) <=> z \in C /\ Better(side, z, y)
      BY DEF Above, C
    <3> HIDE DEF up
    <3> QED  BY <1>5, <2>1, <3>2, <3>3, <3>4, <3>5
  <2> HIDE DEF up
  <2>3. Cardinality(up(x) \cup {x}) = Cardinality(up(x)) + 1 /\ IsFiniteSet(up(x) \cup {x})
    BY <1>4, <2>2, FS_AddElement
  <2>4. Cardinality(up(x) \cup {x}) <= Cardinality(up(y))
    BY <1>4, <2>2, FS_Subset
  <2>5. Cardinality(up(x)) = i - 1 /\ Cardinality(up(y)) = i - 1
    BY <1>3
  <2> QED  BY <2>3, <2>4, <2>5
<1>6. l \in Int /\ k \in Int
  BY <1>1, <1>3
<1>7. l = k \/ Better(side, l, k) \/ Better(side, k, l)
  BY <1>6 DEF Better
<1> QED  BY <1>5, <1>7

\* Row i of the abstract frame names the level and the quantity whose price and
\* quantity are row i of the hardware's.
LEMMA RowIs ==
  ASSUME MarketInv, initialized, NEW b \in Books, NEW i \in 1 .. CacheSize
  PROVE  \E l \in Level : \E q :
           /\ Market!Row(b, i) = [level |-> l, quantity |-> q]
           /\ BestRows(b)[i] = [price |-> index_to_price(b[2], l), qty |-> q]
<1> DEFINE R == RankedLevels(b, i)
<1>1. TypeOK /\ books[b] \in Book /\ i \in Nat
  BY SizeAssumption DEF MarketInv, IInv, TypeOK
<1>2. BestRows(b)[i] =
        IF R = {} THEN [price |-> index_to_price(b[2], WorstLevel(b[1])), qty |-> 1]
        ELSE LET l == CHOOSE l \in R : TRUE
             IN  [price |-> index_to_price(b[2], l), qty |-> books[b].price_quantity[l]]
  BY DEF BestRows
<1>3. ASSUME NEW l \in Level PROVE Market!IsRow(b, i, l) <=> l \in R
  <2>1. {k \in Level : Market!Resting(b, k) # {} /\ Better(b[1], k, l)}
          = {k \in Occupied(books[b]) : Better(b[1], k, l)}
    BY DepthIsLevel DEF Occupied
  <2>2. Market!IsRow(b, i, l) <=>
          /\ l \in Occupied(books[b])
          /\ Cardinality({k \in Occupied(books[b]) : Better(b[1], k, l)}) = i - 1
    BY <2>1, MarketRow, DepthIsLevel
  <2> QED  BY <2>2 DEF RankedLevels
<1>4. R \subseteq Level
  BY DEF RankedLevels, Occupied
<1>5. Market!Level = Level
  BY DEF Market!Level, Level
<1> HIDE DEF R
<1>6. CASE R = {}
  <2> DEFINE l == WorstLevel(b[1])
  <2>1. ~ \E k \in Level : Market!IsRow(b, i, k)
    BY <1>3, <1>6
  <2>2. l \in Level
    BY Sizes DEF WorstLevel, Level
  <2>3. Market!Row(b, i) = [level |-> l, quantity |-> 1]
    BY <1>5, <2>1 DEF Market!Row, WorstLevel, SIDE_BID
  <2>4. BestRows(b)[i] = [price |-> index_to_price(b[2], l), qty |-> 1]
    BY <1>2, <1>6
  <2> QED  BY <2>2, <2>3, <2>4
<1>7. CASE R # {}
  <2> DEFINE l == CHOOSE l \in R : TRUE
             k == CHOOSE x \in Market!Level : Market!IsRow(b, i, x)
             q == books[b].price_quantity[l]
  <2>1. l \in R /\ l \in Level
    BY <1>4, <1>7
  <2>2. Market!IsRow(b, i, l)
    BY <1>3, <2>1
  <2>3. \E x \in Market!Level : Market!IsRow(b, i, x)
    BY <1>5, <2>1, <2>2
  <2>4. k \in Level /\ Market!IsRow(b, i, k)
    BY <1>5, <2>3
  <2>5. Market!Row(b, i) = [level |-> k, quantity |-> Market!Depth(b, k)]
    BY <2>3 DEF Market!Row
  <2>6. BestRows(b)[i] = [price |-> index_to_price(b[2], l), qty |-> q]
    BY <1>2, <1>7
  <2> HIDE DEF k, l
  <2>7. k = l
    <3>1. k \in R
      BY <1>3, <2>4
    <3> QED  BY <1>1, <2>1, <3>1, RankUnique DEF R
  <2>8. Market!Depth(b, l) = q
    BY <2>1, DepthIsLevel
  <2> QED  BY <2>1, <2>5, <2>6, <2>7, <2>8
<1> QED  BY <1>6, <1>7

\* The price of a level is read back as that level.
LEMMA IndexOfPrice ==
  ASSUME NEW s \in Stock, NEW l \in Level
  PROVE  price_to_index(s, index_to_price(s, l)) = l
<1> DEFINE m == MinPrice[s]
           t == TickSize[s]
           p == m + l * t
<1>1. /\ index_to_price(s, l) = p /\ l * t \in Nat /\ p \in Word /\ m \in Nat
  BY LevelPrice
<1>2. t \in Nat \ {0} /\ l \in Nat /\ l < MaxLevels /\ MaxLevels \in Nat
  BY PriceAssumption, Sizes DEF Word, Level
<1>3. p >= m /\ p - m = l * t
  <2> DEFINE n == l * t
  <2> HIDE DEF n, m
  <2> QED  BY <1>1
<1>4. price_to_index(s, p) = soft_price_to_index(s, p)
  BY <1>1, <1>3, IndexInRange
<1>5. (l * t) \div t = l
  <2>1. (l * t + 0) \div t = l
    <3> HIDE DEF t
    <3>1. 0 \in 0 .. t - 1
      BY <1>2
    <3> QED  BY <1>2, <3>1, DivOfMultiple
  <2>2. l * t + 0 = l * t
    BY <1>1
  <2> QED  BY <2>1, <2>2
<1>6. soft_price_to_index(s, p) = IF (p - m) \div t >= MaxLevels THEN MaxLevels - 1
                                  ELSE (p - m) \div t
  BY DEF soft_price_to_index
<1> HIDE DEF p, m, t
<1>7. (p - m) \div t = l
  BY <1>3, <1>5
<1> QED  BY <1>1, <1>2, <1>4, <1>6, <1>7

LEMMA PlaceIs ==
  ASSUME NEW b \in Books, NEW i \in 1 .. CacheSize,
         NEW u, u = 2 * (i - 1) + (IF b[1] = SIDE_ASK THEN 0 ELSE 2 * CacheSize)
  PROVE  /\ Place(b, i) = b[2] * (4 * CacheSize) + u
         /\ u \in Nat /\ u + 1 \in 0 .. 4 * CacheSize - 1 /\ u % 2 = 0
         /\ u \div 2 + 1 = (IF b[1] = SIDE_ASK THEN i ELSE i + CacheSize)
         /\ (u + 1) \div 2 + 1 = (IF b[1] = SIDE_ASK THEN i ELSE i + CacheSize)
         /\ Place(b, i) \in Nat /\ (Place(b, i) + 1) % 2 = 1 /\ (Place(b, i) + 2) % 2 = 0
         /\ Place(b, i) + 2 <= 4 * CacheSize * NumStocks
         /\ b[2] \in Nat /\ b[2] < NumStocks
<1> DEFINE s == b[2]
           C == CacheSize
           off == IF b[1] = SIDE_ASK THEN 0 ELSE C
           h == i - 1 + off
<1>1. C \in Nat /\ C > 0 /\ s \in Nat /\ s < NumStocks /\ NumStocks \in Nat /\ i \in Nat
      /\ i >= 1 /\ i <= C
  BY SizeAssumption DEF Books, Stock
<1>2. off \in Nat /\ off <= C /\ (off = IF b[1] = SIDE_ASK THEN 0 ELSE C)
  BY <1>1
<1> HIDE DEF s, C, off
<1>3. h \in Nat /\ h < 2 * C /\ h + 1 = IF b[1] = SIDE_ASK THEN i ELSE i + C
  BY <1>1, <1>2
<1>4. u = 2 * h
  BY <1>1, <1>2 DEF C
<1> HIDE DEF h
<1>5. u \in Nat /\ u + 1 \in 0 .. 4 * C - 1 /\ u % 2 = 0 /\ u \div 2 = h /\ (u + 1) \div 2 = h
  BY <1>1, <1>3, <1>4
<1>6. 4 * C * s = s * (4 * C) /\ s * (4 * C) \in Nat /\ 4 * C * NumStocks \in Nat
      /\ s * (4 * C) = 2 * (2 * C * s) /\ 2 * C * s \in Nat
  BY <1>1
<1>7. Place(b, i) = s * (4 * C) + u
  <2>1. Place(b, i) = 4 * C * s + 2 * (i - 1) + (IF b[1] = SIDE_ASK THEN 0 ELSE 2 * C)
    BY DEF Place, C, s
  <2>2. (IF b[1] = SIDE_ASK THEN 0 ELSE 2 * C) = 2 * off
    BY <1>1, <1>2
  <2> DEFINE n == s * (4 * C)
  <2> HIDE DEF n
  <2>3. n \in Nat /\ 4 * C * s = n
    BY <1>6 DEF n
  <2>4. n + 2 * (i - 1) + 2 * off = n + u
    BY <1>1, <1>2, <1>4, <2>3 DEF h
  <2> QED  BY <2>1, <2>2, <2>3, <2>4 DEF n
<1>8. Place(b, i) \in Nat /\ (Place(b, i) + 1) % 2 = 1 /\ (Place(b, i) + 2) % 2 = 0
  <2> DEFINE g == 2 * C * s + h
  <2>1. g \in Nat /\ Place(b, i) = 2 * g
    BY <1>3, <1>4, <1>6, <1>7
  <2> HIDE DEF g
  <2> QED  BY <2>1
<1>9. Place(b, i) + 2 <= 4 * C * NumStocks
  <2>1. (s + 1) * (4 * C) <= NumStocks * (4 * C)
    BY <1>1
  <2>2. (s + 1) * (4 * C) = s * (4 * C) + 4 * C /\ NumStocks * (4 * C) = 4 * C * NumStocks
    BY <1>1
  <2> DEFINE n == s * (4 * C)
             z == 4 * C * NumStocks
  <2> HIDE DEF n, z
  <2>3. n + 4 * C <= z /\ n \in Nat /\ z \in Nat
    BY <1>6, <2>1, <2>2 DEF n, z
  <2>4. n + u + 2 <= z
    BY <1>1, <1>5, <2>3
  <2> QED  BY <1>7, <2>4 DEF n, z
<1> QED  BY <1>1, <1>3, <1>5, <1>7, <1>8, <1>9 DEF s, C

LEMMA FrameRow ==
  ASSUME NEW rows, NEW b \in Books, NEW i \in 1 .. CacheSize
  PROVE  /\ FrameWords(rows)[Place(b, i) + 1].data = rows[b][i].price
         /\ FrameWords(rows)[Place(b, i) + 2].data = rows[b][i].qty
<1> DEFINE perStock == 4 * CacheSize
           at(s, r) == IF r <= CacheSize THEN rows[<<SIDE_ASK, s>>][r]
                       ELSE rows[<<SIDE_BID, s>>][r - CacheSize]
           row(j) == at((j - 1) \div perStock, ((j - 1) % perStock) \div 2 + 1)
           word(j) == [data |-> IF j % 2 = 1 THEN row(j).price ELSE row(j).qty,
                       last |-> IF j % perStock = 0 THEN 1 ELSE 0]
           u == 2 * (i - 1) + (IF b[1] = SIDE_ASK THEN 0 ELSE 2 * CacheSize)
           s == b[2]
           p == Place(b, i)
           r == IF b[1] = SIDE_ASK THEN i ELSE i + CacheSize
<1>1. FrameWords(rows) = [j \in 1 .. perStock * NumStocks |-> word(j)]
  BY DEF FrameWords
<1>2. /\ p = s * perStock + u /\ u \in Nat /\ u + 1 \in 0 .. perStock - 1
      /\ u \div 2 + 1 = r /\ (u + 1) \div 2 + 1 = r
      /\ p \in Nat /\ (p + 1) % 2 = 1 /\ (p + 2) % 2 = 0 /\ p + 2 <= perStock * NumStocks
      /\ s \in Nat /\ s < NumStocks
  BY PlaceIs
<1>3. CacheSize \in Nat /\ CacheSize > 0 /\ i \in Nat /\ i >= 1 /\ i <= CacheSize
      /\ perStock \in Nat \ {0} /\ perStock * NumStocks \in Nat
  BY SizeAssumption
<1>4. at(s, r) = rows[b][i]
  <2>1. b = <<b[1], s>> /\ b[1] \in {SIDE_BID, SIDE_ASK}
    BY DEF Books, Side
  <2>2. CASE b[1] = SIDE_ASK
    <3>1. r = i /\ r <= CacheSize /\ b = <<SIDE_ASK, s>>
      BY <1>3, <2>1, <2>2
    <3> QED  BY <3>1
  <2>3. CASE b[1] # SIDE_ASK
    <3>1. r = i + CacheSize /\ ~ (r <= CacheSize) /\ r - CacheSize = i /\ b = <<SIDE_BID, s>>
      BY <1>3, <2>1, <2>3
    <3> QED  BY <3>1
  <2> QED  BY <2>2, <2>3
<1> HIDE DEF at, r, p, u, s, perStock
<1>5. row(p + 1) = at(s, r)
  <2>1. (p + 1) - 1 = s * perStock + u /\ u \in 0 .. perStock - 1
    BY <1>2, <1>3
  <2>2. (s * perStock + u) \div perStock = s /\ (s * perStock + u) % perStock = u
    BY <1>2, <1>3, <2>1, DivOfMultiple, ModOfMultiple
  <2> QED  BY <1>2, <2>1, <2>2
<1>6. row(p + 2) = at(s, r)
  <2>1. (p + 2) - 1 = s * perStock + (u + 1)
    <3> DEFINE n == s * perStock
    <3>1. n \in Nat
      BY <1>2, <1>3
    <3>2. p = n + u
      BY <1>2 DEF n
    <3> HIDE DEF n
    <3>3. (p + 2) - 1 = n + (u + 1)
      BY <1>2, <3>1, <3>2
    <3> QED  BY <3>3 DEF n
  <2>2. (s * perStock + (u + 1)) \div perStock = s /\ (s * perStock + (u + 1)) % perStock = u + 1
    BY <1>2, <1>3, DivOfMultiple, ModOfMultiple
  <2> QED  BY <1>2, <2>1, <2>2
<1> HIDE DEF row
<1>7. /\ p + 1 \in 1 .. perStock * NumStocks /\ p + 2 \in 1 .. perStock * NumStocks
  BY <1>2, <1>3
<1>8. FrameWords(rows)[p + 1] = word(p + 1) /\ FrameWords(rows)[p + 2] = word(p + 2)
  BY <1>1, <1>7
<1>9. word(p + 1).data = row(p + 1).price /\ word(p + 2).data = row(p + 2).qty
  BY <1>2
<1> HIDE DEF word
<1> QED  BY <1>4, <1>5, <1>6, <1>8, <1>9 DEF p

LEMMA SnapshotStep ==
  ASSUME AgreeInv, [SoftNext]_softVars
  PROVE  [outStream' # <<>> =>
            \A b \in Books : InRange(b) => FrameHas(b, soft_get_top_5(b).rows)]_softVars
<1>1. CASE SoftAdd \/ SoftCancel \/ SoftDelete
  <2>1. (\E m : AddOrder(m)) \/ (\E m : RemoveOrder(m))
    BY <1>1 DEF SoftAdd, SoftCancel, SoftDelete, FeedAdd, FeedCancel, FeedDelete
  <2>2. outStream' = <<>>
    BY <2>1 DEF AddOrder, RemoveOrder, Read
  <2> QED  BY <2>2
<1>2. CASE SoftPublish
  <2> SUFFICES ASSUME NEW b \in Books, InRange(b), NEW i \in 1 .. CacheSize
               PROVE  /\ outStream'[Place(b, i) + 1].data = soft_get_top_5(b).rows[i].price
                      /\ outStream'[Place(b, i) + 2].data = soft_get_top_5(b).rows[i].qty
    BY DEF FrameHas
  <2> DEFINE rows == [c \in Books |-> get_top_5(c).rows]
  <2>1. outStream' = FrameWords(rows) /\ soft_get_top_5(b) = get_top_5(b)
    BY <1>2, PublishAgrees
  <2>2. rows[b] = get_top_5(b).rows
    OBVIOUS
  <2> HIDE DEF rows
  <2>3. /\ FrameWords(rows)[Place(b, i) + 1].data = rows[b][i].price
        /\ FrameWords(rows)[Place(b, i) + 2].data = rows[b][i].qty
    BY FrameRow
  <2> QED  BY <2>1, <2>2, <2>3
<1>3. CASE HardwareStep \/ UNCHANGED softVars
  BY <1>3, HardwareAgrees
<1> QED  BY <1>1, <1>2, <1>3 DEF SoftNext

\* At each publication the benchmark lists, for every book in its range, the words of
\* the hardware's frame.
THEOREM SnapshotsAreFrames == SoftSpec => SnapshotIsFrame
<1>1. AgreeInv /\ [SoftNext]_softVars =>
        [outStream' # <<>> =>
           \A b \in Books : InRange(b) => FrameHas(b, soft_get_top_5(b).rows)]_softVars
  BY SnapshotStep
<1> QED  BY <1>1, AgreeInvariant, PTL DEF SoftSpec, SnapshotIsFrame

LEMMA RowAtIs ==
  ASSUME NEW b, NEW i
  PROVE  RowAt(b, i)' = [level |-> price_to_index(b[2], outStream'[Place(b, i) + 1].data),
                         quantity |-> outStream'[Place(b, i) + 2].data]
BY DEF RowAt

LEMMA PublishRefines == ASSUME MarketInv, SoftPublish PROVE Market!Publish
<1> DEFINE rows == [b \in Books |-> BestRows(b)]
<1>1. /\ initialized /\ num_new_order >= PublishPeriod /\ num_new_order' = 0
      /\ outStream' = FrameWords([b \in Books |-> get_top_5(b).rows])
      /\ active_orders' = active_orders
  BY DEF SoftPublish, Publish
<1>2. TypeOK /\ \A b \in Books : TreeConsistent(books[b], b[1])
  BY <1>1 DEF MarketInv, IInv, TreesConsistent
<1>3. num_new_order = PublishPeriod
  BY <1>1, <1>2, SizeAssumption DEF TypeOK
<1>4. outStream' = FrameWords(rows)
  <2>1. [b \in Books |-> get_top_5(b).rows] = rows
    BY <1>2, TopIsBest
  <2> QED  BY <1>1, <2>1
<1> HIDE DEF rows
<1>5. outStream' # <<>>
  <2> DEFINE n == 4 * CacheSize * NumStocks
  <2>1. DOMAIN FrameWords(rows) = 1 .. n
    BY DEF FrameWords
  <2>2. n \in Nat /\ n >= 1
    <3>1. CacheSize \in Nat /\ CacheSize >= 1 /\ NumStocks \in Nat /\ NumStocks >= 1
      BY SizeAssumption
    <3>2. 4 * CacheSize \in Nat /\ 4 * CacheSize >= 1
      BY <3>1
    <3> DEFINE c == 4 * CacheSize
    <3> HIDE DEF c
    <3>3. c * NumStocks \in Nat /\ c * NumStocks >= 1
      BY <3>1, <3>2 DEF c
    <3> QED  BY <3>3 DEF c
  <2> HIDE DEF n
  <2>3. 1 \in DOMAIN outStream'
    BY <1>4, <2>1, <2>2
  <2> QED  BY <2>3
<1>6. ASSUME NEW b \in Books, NEW i \in 1 .. CacheSize
      PROVE  RowAt(b, i)' = Market!Row(b, i)
  <2>0. PICK l \in Level : \E q :
          /\ Market!Row(b, i) = [level |-> l, quantity |-> q]
          /\ BestRows(b)[i] = [price |-> index_to_price(b[2], l), qty |-> q]
    BY <1>1, RowIs
  <2>1. PICK q : /\ Market!Row(b, i) = [level |-> l, quantity |-> q]
                 /\ BestRows(b)[i] = [price |-> index_to_price(b[2], l), qty |-> q]
    BY <2>0
  <2>2. rows[b] = BestRows(b)
    BY DEF rows
  <2>3. /\ outStream'[Place(b, i) + 1].data = index_to_price(b[2], l)
        /\ outStream'[Place(b, i) + 2].data = q
    BY <1>4, <2>1, <2>2, FrameRow
  <2>4. b[2] \in Stock
    BY DEF Books
  <2>5. price_to_index(b[2], index_to_price(b[2], l)) = l
    BY <2>4, IndexOfPrice
  <2> QED  BY <2>1, <2>3, <2>5, RowAtIs
<1>7. MarketFrame' = [b \in Books |-> [i \in 1 .. CacheSize |-> Market!Row(b, i)]]
  <2>1. MarketFrame' = [b \in Books |-> [i \in 1 .. CacheSize |-> RowAt(b, i)']]
    BY <1>5 DEF MarketFrame
  <2> QED  BY <1>6, <2>1
<1>8. MarketOrders' = MarketOrders
  BY <1>1, OrdersAre
<1> QED  BY <1>1, <1>3, <1>7, <1>8, MarketPublish

LEMMA HardwareRefines ==
  ASSUME HardwareStep \/ UNCHANGED softVars
  PROVE  Market!Take \/ UNCHANGED Market!vars
<1>1. active_orders' = active_orders
  BY DEF HardwareStep, softVars, feedVars
<1>2. MarketOrders' = MarketOrders
  BY <1>1, OrdersAre
<1>3. CASE Initialise \/ UNCHANGED softVars
  <2>1. outStream' = outStream /\ num_new_order' = num_new_order
    BY <1>3 DEF Initialise, softVars, feedVars, vars
  <2>2. \A b, i : RowAt(b, i)' = RowAt(b, i)
    BY <2>1 DEF RowAt
  <2>3. MarketFrame' = MarketFrame
    BY <2>1, <2>2 DEF MarketFrame
  <2> QED  BY <1>2, <2>1, <2>3, MarketDefs
<1>4. CASE TakeFrame
  <2>1. outStream # <<>> /\ outStream' = <<>> /\ num_new_order' = num_new_order
    BY <1>4 DEF TakeFrame
  <2>2. MarketFrame # <<>> /\ MarketFrame' = <<>>
    <3>1. MarketFrame = [b \in Books |-> [i \in 1 .. CacheSize |-> RowAt(b, i)]]
      BY <2>1 DEF MarketFrame
    <3>2. <<SIDE_ASK, 0>> \in DOMAIN MarketFrame
      BY <3>1, SizeAssumption DEF Books, Side, Stock
    <3> QED  BY <2>1, <3>2 DEF MarketFrame
  <2> QED  BY <1>2, <2>1, <2>2, MarketDefs
<1> QED  BY <1>3, <1>4 DEF HardwareStep

LEMMA InitRefines == ASSUME SoftInit PROVE Market!Init
<1>1. active_orders = <<>> /\ outStream = <<>> /\ num_new_order = 0
  BY DEF SoftInit, FeedInit, Init
<1>2. TrackedIn(<<>>) = {}
  BY DEF TrackedIn
<1>3. MarketOrders = [r \in {} |-> 0]
  <2>1. MarketOrders = OrdersIn(<<>>)
    BY <1>1, OrdersAre
  <2> QED  BY <1>2, <2>1 DEF OrdersIn
<1> QED  BY <1>1, <1>3, MarketDefs DEF MarketFrame

LEMMA StepRefines ==
  ASSUME MarketInv, [SoftNext]_softVars
  PROVE  [Market!Next]_Market!vars
<1>1. CASE SoftAdd
  BY <1>1, AddRefines DEF SoftAdd, Market!Next
<1>2. CASE SoftCancel
  <2>1. PICK type \in {CANCEL, EXECUTE}, ref \in 1 .. Len(active_orders) :
          \E qty \in 1 .. active_orders[ref].remaining_shares : FeedCancel(type, ref, qty)
    BY <1>2 DEF SoftCancel
  <2>2. PICK qty \in 1 .. active_orders[ref].remaining_shares : FeedCancel(type, ref, qty)
    BY <2>1
  <2> QED  BY <2>2, FeedCancelRemoves, RemovalRefines DEF Market!Next
<1>3. CASE SoftDelete
  BY <1>3, FeedDeleteRemoves, RemovalRefines DEF SoftDelete, Market!Next
<1>4. CASE SoftPublish
  BY <1>4, PublishRefines DEF Market!Next
<1>5. CASE HardwareStep \/ UNCHANGED softVars
  BY <1>5, HardwareRefines DEF Market!Next
<1> QED  BY <1>1, <1>2, <1>3, <1>4, <1>5 DEF SoftNext

\* The book with its trees, level arrays and order list implements MarketByPrice, for
\* any numbers of stocks, levels, rows, orders and adds: every message changes one order,
\* every frame shows the best levels of the market with the sum of what rests on them.
THEOREM BookImplementsMarket == SoftSpec => ImplementsMarketByPrice
<1>1. MarketInv /\ [SoftNext]_softVars => [Market!Next]_Market!vars
  BY StepRefines
<1>2. SoftInit => Market!Init
  BY InitRefines
<1> QED  BY <1>1, <1>2, MarketInvariant, PTL DEF SoftSpec, ImplementsMarketByPrice, Market!Spec
=============================================================================
