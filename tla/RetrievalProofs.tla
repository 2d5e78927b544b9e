---------------------------- MODULE RetrievalProofs ----------------------------
(***************************************************************************)
(* The safety of Retrieval for any manuals, sections, questions, options   *)
(* and replies, of one question (Spec) and of a worker that goes on to     *)
(* others (WorkerSpec).                                                    *)
(*                                                                         *)
(* First the functions, for all their arguments: orders and lists, the     *)
(* gate's choice, merging and ranking, the fast search, the outline and    *)
(* the budget.  Then the state: Inv says of each part of it what the       *)
(* others rely on.  What merging gave stays so because no search is at     *)
(* work any more when a run is past its searches (TaskInv); a pruned       *)
(* choice lasts only where there is evidence (FullInv); an excerpt is of   *)
(* the resolved revision because resolving comes before reading and what   *)
(* was resolved stays (ResolvedInv).                                       *)
(***************************************************************************)
EXTENDS Retrieval, WellFoundedInduction, FiniteSetTheorems, TLAPS

-----------------------------------------------------------------------------
(* Orders and lists. *)

(* A set of numbers that is not empty has a least one. *)
LEMMA LeastNumber ==
  ASSUME NEW T \in SUBSET Nat, T # {}
  PROVE  \E n \in T : \A m \in T : n <= m
<1>. DEFINE R == {p \in Nat \X Nat : p[1] < p[2]}
<1>1. IsWellFoundedOn(R, Nat)
  BY NatLessThanWellFounded DEF OpToRel
<1>2. PICK n \in T : \A m \in T : <<m, n>> \notin R
  <2>. HIDE DEF R
  <2>. QED BY <1>1, WFMin, Zenon
<1>3. \A m \in T : n <= m
  <2>1. n \in Nat /\ \A m \in T : m \in Nat /\ ~(m < n)
    BY <1>2
  <2>. QED BY <2>1
<1>. QED BY <1>3

(* A set with 0 and with the successor of each of its numbers has all      *)
(* numbers: counting, without an induction rule that takes an operator.    *)
LEMMA Counting ==
  ASSUME NEW S, 0 \in S, \A n \in Nat : n \in S => n + 1 \in S
  PROVE  Nat \subseteq S
<1>. SUFFICES ASSUME Nat \ S # {} PROVE FALSE
  OBVIOUS
<1>1. PICK n \in Nat \ S : \A m \in Nat \ S : n <= m
  BY LeastNumber
<1>2. n # 0 /\ n - 1 \in Nat
  BY <1>1
<1>3. n - 1 \in S /\ (n - 1) + 1 = n
  BY <1>1, <1>2
<1>. QED BY <1>2, <1>3

(* R orders the set S strictly and totally. *)
StrictOrder(R, S) ==
  /\ \A x, y \in S : <<x, y>> \in R => <<y, x>> \notin R
  /\ \A x, y, z \in S : <<x, y>> \in R /\ <<y, z>> \in R => <<x, z>> \in R
  /\ \A x, y \in S : x # y => <<x, y>> \in R \/ <<y, x>> \in R

(* In a strict total order of a finite set, the elements have 0, 1, 2 ...  *)
(* others before them, each a number of its own.                           *)
LEMMA PlaceOfEach ==
  ASSUME NEW S, IsFiniteSet(S), NEW R, StrictOrder(R, S)
  PROVE  /\ Cardinality(S) \in Nat
         /\ \A x \in S : Cardinality(Earlier(S, R, x)) \in 0..(Cardinality(S) - 1)
         /\ \A x, y \in S : <<x, y>> \in R => Cardinality(Earlier(S, R, x)) < Cardinality(Earlier(S, R, y))
         /\ \A r \in 1..Cardinality(S) : \E x \in S : Cardinality(Earlier(S, R, x)) = r - 1
<1>. DEFINE n == Cardinality(S)
            E(x) == Earlier(S, R, x)
            place == [x \in S |-> Cardinality(E(x)) + 1]
<1>1. n \in Nat
  BY FS_CardinalityType
<1>2. ASSUME NEW x \in S
      PROVE  IsFiniteSet(E(x)) /\ Cardinality(E(x)) \in Nat /\ Cardinality(E(x)) <= n - 1
  <2>1. E(x) \in SUBSET (S \ {x})
    BY DEF StrictOrder, Earlier
  <2>2. IsFiniteSet(S \ {x}) /\ Cardinality(S \ {x}) = n - 1
    BY FS_RemoveElement
  <2>. HIDE DEF E
  <2>3. IsFiniteSet(E(x)) /\ Cardinality(E(x)) <= n - 1
    BY <2>1, <2>2, FS_Subset
  <2>. QED BY <2>3, FS_CardinalityType
<1>3. ASSUME NEW x \in S, NEW y \in S, <<x, y>> \in R
      PROVE  Cardinality(E(x)) < Cardinality(E(y))
  <2>1. E(x) \in SUBSET E(y) /\ x \in E(y) /\ x \notin E(x)
    BY <1>3 DEF StrictOrder, Earlier
  <2>. HIDE DEF E
  <2>2. E(x) # E(y)
    BY <2>1
  <2>3. Cardinality(E(x)) <= Cardinality(E(y)) /\ Cardinality(E(x)) # Cardinality(E(y))
    BY <1>2, <2>1, <2>2, FS_Subset
  <2>. QED BY <1>2, <2>3
<1>4. place \in Injection(S, 1..n)
  <2>. HIDE DEF E
  <2>1. \A x \in S : Cardinality(E(x)) + 1 \in 1..n
    BY <1>1, <1>2
  <2>2. \A x, y \in S : x # y => Cardinality(E(x)) # Cardinality(E(y))
    <3>1. \A x, y \in S : x # y => <<x, y>> \in R \/ <<y, x>> \in R
      BY DEF StrictOrder
    <3>2. \A x, y \in S : <<x, y>> \in R => Cardinality(E(x)) # Cardinality(E(y))
      BY <1>2, <1>3
    <3>. QED BY <3>1, <3>2
  <2>3. place \in [S -> 1..n]
    BY <2>1
  <2>4. \A x, y \in S : place[x] = place[y] => x = y
    <3>. SUFFICES ASSUME NEW x \in S, NEW y \in S, place[x] = place[y] PROVE x = y
      OBVIOUS
    <3>1. Cardinality(E(x)) = Cardinality(E(y))
      BY <1>2
    <3>. QED BY <3>1, <2>2
  <2>. QED BY <2>3, <2>4 DEF Injection, IsInjective
<1>5. place \in Surjection(S, 1..n)
  <2>1. IsFiniteSet(1..n) /\ Cardinality(1..n) = n
    BY <1>1, FS_Interval
  <2>. HIDE DEF place
  <2>. QED BY <1>4, <2>1, FS_Injection
<1>6. ASSUME NEW r \in 1..n PROVE \E x \in S : Cardinality(E(x)) = r - 1
  <2>1. PICK x \in S : place[x] = r
    BY <1>5 DEF Surjection
  <2>. QED BY <1>2, <2>1
<1>7. \A x \in S : Cardinality(E(x)) \in 0..(n - 1)
  BY <1>1, <1>2
<1>. QED BY <1>1, <1>3, <1>6, <1>7

(* InOrder lists each element of a finite set once, as the order has them  *)
(* (what Python's sorted gives).                                           *)
LEMMA OrderIsSorted ==
  ASSUME NEW S, IsFiniteSet(S), NEW R, StrictOrder(R, S)
  PROVE  /\ Cardinality(S) \in Nat
         /\ InOrder(S, R) \in [1..Cardinality(S) -> S]
         /\ \A x \in S : \E r \in 1..Cardinality(S) : InOrder(S, R)[r] = x
         /\ \A r, q \in 1..Cardinality(S) : r < q => <<InOrder(S, R)[r], InOrder(S, R)[q]>> \in R
<1>. DEFINE s == InOrder(S, R)
            n == Cardinality(S)
            c(x) == Cardinality(Earlier(S, R, x))
<1>0. /\ n \in Nat
      /\ \A x \in S : c(x) \in 0..(n - 1)
      /\ \A x, y \in S : <<x, y>> \in R => c(x) < c(y)
      /\ \A r \in 1..n : \E x \in S : c(x) = r - 1
  BY PlaceOfEach
<1>1. s = [r \in 1..n |-> CHOOSE x \in S : c(x) = r - 1]
  BY DEF InOrder
<1>. HIDE DEF s, n, c
<1>2. \A r \in 1..n : s[r] \in S /\ c(s[r]) = r - 1
  BY <1>0, <1>1
<1>3. s \in [1..n -> S]
  BY <1>1, <1>2
<1>4. ASSUME NEW x \in S PROVE \E r \in 1..n : s[r] = x
  <2>1. c(x) + 1 \in 1..n
    BY <1>0
  <2>2. s[c(x) + 1] \in S /\ c(s[c(x) + 1]) = c(x)
    BY <1>0, <1>2, <2>1
  <2>3. ~(<<x, s[c(x) + 1]>> \in R) /\ ~(<<s[c(x) + 1], x>> \in R)
    BY <1>0, <2>2
  <2>4. s[c(x) + 1] = x
    BY <2>2, <2>3 DEF StrictOrder
  <2>. QED BY <2>1, <2>4
<1>5. ASSUME NEW r \in 1..n, NEW q \in 1..n, r < q PROVE <<s[r], s[q]>> \in R
  <2>1. c(s[r]) < c(s[q])
    BY <1>2, <1>5, <1>0
  <2>2. s[r] # s[q] /\ ~(<<s[q], s[r]>> \in R)
    BY <1>0, <1>2, <2>1
  <2>. QED BY <1>2, <2>2 DEF StrictOrder
<1>. QED BY <1>0, <1>3, <1>4, <1>5 DEF s, n

(* A function on 1..n is a sequence. *)
LEMMA SequenceOf ==
  ASSUME NEW S, NEW n \in Nat, NEW f \in [1..n -> S]
  PROVE  f \in Seq(S) /\ Len(f) = n /\ IsSequence(f)
<1>1. f \in [1..n -> Range(f)]
  BY DEF Range
<1>. QED BY <1>1 DEF IsSequence

(* What IsSequence says, for the provers. *)
LEMMA SequenceHas ==
  ASSUME NEW s, IsSequence(s)
  PROVE  /\ Len(s) \in Nat /\ DOMAIN s = 1..Len(s) /\ s = [i \in 1..Len(s) |-> s[i]]
         /\ \A i \in DOMAIN s : s[i] \in Range(s)
BY DEF IsSequence, Range

(* A slice [:k] is the beginning of the list. *)
LEMMA TakeIs ==
  ASSUME NEW S, NEW s \in Seq(S), NEW k \in Int
  PROVE  /\ Take(s, k) \in Seq(S)
         /\ IsSequence(Take(s, k))
         /\ Len(Take(s, k)) <= Len(s)
         /\ Len(Take(s, k)) = IF k < 0 THEN 0 ELSE Lesser(k, Len(s))
         /\ \A i \in DOMAIN Take(s, k) : i \in DOMAIN s /\ Take(s, k)[i] = s[i]
<1>. DEFINE n == IF k < 0 THEN 0 ELSE Lesser(k, Len(s))
<1>1. n \in Nat /\ n <= Len(s) /\ 1..Lesser(k, Len(s)) = 1..n
  BY DEF Lesser
<1>2. Take(s, k) = [r \in 1..n |-> s[r]]
  BY <1>1 DEF Take
<1>3. Take(s, k) \in [1..n -> S]
  BY <1>1, <1>2
<1>. HIDE DEF n
<1>4. Take(s, k) \in Seq(S) /\ Len(Take(s, k)) = n /\ IsSequence(Take(s, k))
  BY <1>1, <1>3, SequenceOf
<1>. QED BY <1>1, <1>2, <1>4 DEF n

(* A filtered list has as many elements as positions were chosen, each     *)
(* one of them.                                                            *)
LEMMA FilteredIs ==
  ASSUME NEW S, NEW s \in Seq(S), NEW P \in SUBSET DOMAIN s
  PROVE  /\ Filtered(s, P) \in Seq(S)
         /\ IsSequence(Filtered(s, P))
         /\ Len(Filtered(s, P)) = Cardinality(P)
         /\ \A r \in DOMAIN Filtered(s, P) : \E i \in P : Filtered(s, P)[r] = s[i]
<1>. DEFINE R == {p \in P \X P : p[1] < p[2]}
            n == Cardinality(P)
            order == InOrder(P, R)
<1>1. IsFiniteSet(P)
  <2>1. P \in SUBSET (1..Len(s)) /\ IsFiniteSet(1..Len(s))
    BY FS_Interval
  <2>. QED BY <2>1, FS_Subset
<1>2. StrictOrder(R, P)
  <2>1. P \subseteq Int
    OBVIOUS
  <2>. QED BY <2>1 DEF StrictOrder
<1>3. Filtered(s, P) = [r \in DOMAIN order |-> s[order[r]]]
  BY Zenon DEF Filtered, Sorted
<1>. HIDE DEF R
<1>4. n \in Nat /\ order \in [1..n -> P]
  BY <1>1, <1>2, OrderIsSorted
<1>. HIDE DEF order, n
<1>5. Filtered(s, P) \in [1..n -> S]
  BY <1>3, <1>4
<1>6. Filtered(s, P) \in Seq(S) /\ Len(Filtered(s, P)) = n /\ IsSequence(Filtered(s, P))
  BY <1>4, <1>5, SequenceOf
<1>. QED BY <1>3, <1>4, <1>6 DEF n

-----------------------------------------------------------------------------
(* The gate. *)

(* The depths of a structure are well defined, since a section is below    *)
(* an earlier one: the recursive function that StructureNodes chooses      *)
(* exists.                                                                 *)
LEMMA DepthsDefined ==
  ASSUME NEW n \in Nat, NEW above, \A i \in 1..n : above[i] \in 0..(i - 1)
  PROVE  \E f : f = [i \in 1..n |-> IF above[i] = 0 THEN 0 ELSE f[above[i]] + 1]
<1>. DEFINE Good(m, f) == f = [i \in 1..m |-> IF above[i] = 0 THEN 0 ELSE f[above[i]] + 1]
            S == {m \in Nat : m <= n => \E f : Good(m, f)}
<1>1. 0 \in S
  <2>1. Good(0, [i \in 1..0 |-> 0])
    OBVIOUS
  <2>. QED BY <2>1
<1>2. ASSUME NEW m \in Nat, m \in S PROVE m + 1 \in S
  <2>. SUFFICES ASSUME m + 1 <= n PROVE \E f : Good(m + 1, f)
    OBVIOUS
  <2>1. PICK f : Good(m, f)
    BY <1>2
  <2>. DEFINE next == IF above[m + 1] = 0 THEN 0 ELSE f[above[m + 1]] + 1
              g == [i \in 1..(m + 1) |-> IF i = m + 1 THEN next ELSE f[i]]
  <2>2. \A i \in 1..(m + 1) : above[i] = 0 \/ (above[i] \in 1..m /\ above[i] < i)
    OBVIOUS
  <2>3. \A i \in 1..m : g[i] = f[i]
    OBVIOUS
  <2>4. ASSUME NEW i \in 1..(m + 1)
        PROVE  g[i] = IF above[i] = 0 THEN 0 ELSE g[above[i]] + 1
    <3>1. CASE i = m + 1
      BY <2>2, <2>3, <3>1
    <3>2. CASE i \in 1..m
      <4>1. g[i] = f[i]
        BY <2>3, <3>2
      <4>2. f[i] = IF above[i] = 0 THEN 0 ELSE f[above[i]] + 1
        BY <2>1, <3>2
      <4>. HIDE DEF g
      <4>. QED BY <2>2, <2>3, <3>2, <4>1, <4>2
    <3>. QED BY <3>1, <3>2
  <2>5. g = [i \in 1..(m + 1) |-> g[i]]
    OBVIOUS
  <2>. HIDE DEF g
  <2>6. Good(m + 1, g)
    BY <2>4, <2>5
  <2>. QED BY <2>6
<1>3. n \in S
  <2>. HIDE DEF S
  <2>. QED BY <1>1, <1>2, Counting
<1>. QED BY <1>3

(* Every section of a parsed structure has a depth (StructureNodes). *)
LEMMA NodesAreNodes ==
  ASSUME NEW forest, NEW label, IsSequence(forest),
         \A i \in DOMAIN forest : forest[i].above \in 0..(i - 1)
  PROVE  /\ DOMAIN StructureNodes(forest, label) = DOMAIN forest
         /\ \A i \in DOMAIN forest : StructureNodes(forest, label)[i].depth \in Nat
<1>. DEFINE n == Len(forest)
            above == [i \in 1..n |-> forest[i].above]
            Def(f) == [i \in DOMAIN forest |-> IF forest[i].above = 0 THEN 0 ELSE f[forest[i].above] + 1]
            depth == CHOOSE f : f = Def(f)
            trail == CHOOSE f : f = [i \in DOMAIN forest |->
                       forest[i].title \cup (IF forest[i].above = 0 THEN label ELSE f[forest[i].above])]
<1>1. n \in Nat /\ DOMAIN forest = 1..n
  BY SequenceHas
<1>2. StructureNodes(forest, label) =
        [i \in DOMAIN forest |->
           [title |-> forest[i].title, breadcrumb |-> trail[i], depth |-> depth[i],
            first |-> forest[i].first, last |-> forest[i].last]]
  BY Zenon DEF StructureNodes
<1>3. \E f : f = Def(f)
  <2>1. \A i \in 1..n : above[i] \in 0..(i - 1)
    BY <1>1
  <2>2. PICK f : f = [i \in 1..n |-> IF above[i] = 0 THEN 0 ELSE f[above[i]] + 1]
    <3>. HIDE DEF n, above
    <3>. QED BY <1>1, <2>1, DepthsDefined
  <2>3. f = Def(f)
    BY <1>1, <2>2
  <2>. QED BY <2>3
<1>4. depth = Def(depth)
  <2>. HIDE DEF Def
  <2>. QED BY <1>3
<1>. HIDE DEF depth, trail
<1>5. \A i \in 1..n : depth[i] \in Nat
  <2>. DEFINE S == {m \in Nat : \A i \in 1..n : i <= m => depth[i] \in Nat}
  <2>1. 0 \in S
    OBVIOUS
  <2>2. ASSUME NEW m \in Nat, m \in S PROVE m + 1 \in S
    <3>. SUFFICES ASSUME m + 1 \in 1..n PROVE depth[m + 1] \in Nat
      BY <1>1, <2>2
    <3>1. depth[m + 1] = IF forest[m + 1].above = 0 THEN 0 ELSE depth[forest[m + 1].above] + 1
      BY <1>1, <1>4
    <3>2. forest[m + 1].above = 0 \/ (forest[m + 1].above \in 1..n /\ forest[m + 1].above <= m)
      BY <1>1
    <3>. QED BY <2>2, <3>1, <3>2
  <2>3. n \in S
    <3>. HIDE DEF S
    <3>. QED BY <1>1, <2>1, <2>2, Counting
  <2>. QED BY <1>1, <2>3
<1>. QED BY <1>1, <1>2, <1>5

(* Nodes as the scores read them: a list, each with a depth. *)
IsNodes(nodes) == /\ IsSequence(nodes)
                  /\ \A i \in DOMAIN nodes : nodes[i].depth \in Nat

(* A parsed structure: each section is below an earlier one, or at the     *)
(* top.                                                                    *)
IsForest(sections) == /\ IsSequence(sections)
                      /\ \A i \in DOMAIN sections : sections[i].above \in 0..(i - 1)

(* What is known of a manual, from each of its sources. *)
IsRef(ref) == IsNodes(ref.rows) /\ IsNodes(ref.index) /\ IsForest(ref.structure)

(* The sections of a parsed structure are nodes the gate can score. *)
LEMMA ForestNodes ==
  ASSUME NEW forest, NEW label, IsForest(forest)
  PROVE  IsNodes(StructureNodes(forest, label))
<1>. DEFINE nodes == StructureNodes(forest, label)
<1>1. DOMAIN nodes = DOMAIN forest /\ \A i \in DOMAIN forest : nodes[i].depth \in Nat
  BY NodesAreNodes DEF IsForest
<1>2. Len(forest) \in Nat /\ DOMAIN forest = 1..Len(forest)
  BY SequenceHas DEF IsForest
<1>3. nodes = [i \in DOMAIN forest |-> nodes[i]]
  BY Zenon DEF StructureNodes
<1>. HIDE DEF nodes
<1>4. nodes \in [1..Len(forest) -> Range(nodes)]
  BY <1>1, <1>2, <1>3 DEF Range
<1>5. IsSequence(nodes)
  BY <1>2, <1>4, SequenceOf
<1>. QED BY <1>1, <1>5 DEF IsNodes, nodes

(* Whatever source a manual's inventory comes from, it is a list of nodes  *)
(* (build_manual_inventory).                                               *)
LEMMA InventoryFits ==
  ASSUME NEW ref, IsRef(ref)
  PROVE  IsNodes(Inventory(ref).nodes) /\ InventoryBonus[Inventory(ref).source] \in Int
<1>1. IsNodes(<<>>)
  <2>1. IsSequence(<<>>)
    BY DEF IsSequence, Range
  <2>. QED BY <2>1 DEF IsNodes
<1>2. IsNodes(StructureNodes(ref.structure, ref.label.tokens))
  BY ForestNodes DEF IsRef
<1>. QED BY <1>1, <1>2 DEF Inventory, IsRef, InventoryBonus

(* A section's signal is a number. *)
LEMMA SignalIsNumber ==
  ASSUME NEW question, IsFiniteSet(question.tokens), NEW node, node.depth \in Nat
  PROVE  NodeSignal(question, node).score \in Int
<1>1. ASSUME NEW tokens, NEW cap \in Nat PROVE Overlap(question, tokens, cap) \in Nat
  <2>1. Cardinality(question.tokens \cap tokens) \in Nat
    BY FS_Subset, FS_CardinalityType
  <2>. QED BY <2>1 DEF Overlap, Lesser
<1>. DEFINE title == Overlap(question, node.title, 6)
            crumb == Overlap(question, node.breadcrumb, 4)
            bonus == IF title > 0 \/ crumb > 0 THEN Lesser(node.depth, 3) + SpanBonus(PageSpan(node)) ELSE 0
<1>2. title \in Nat /\ crumb \in Nat
  BY <1>1
<1>. HIDE DEF title, crumb
<1>3. Lesser(node.depth, 3) \in Nat /\ SpanBonus(PageSpan(node)) \in Nat /\ Lesser(crumb, 2) \in Nat
  BY <1>2 DEF Lesser, SpanBonus
<1>4. bonus \in Nat
  BY <1>3
<1>. HIDE DEF bonus
<1>5. NodeSignal(question, node).score = 5 * title + 3 * Lesser(crumb, 2) + bonus
  BY DEF NodeSignal, title, crumb, bonus
<1>. QED BY <1>2, <1>3, <1>4, <1>5

(* A manual's score is a number, and is of the manual it is given. *)
LEMMA ScoreIsNumber ==
  ASSUME NEW question, IsFiniteSet(question.tokens), NEW key, NEW ref, IsRef(ref)
  PROVE  ScoreManual(question, key, ref).score \in Int /\ ScoreManual(question, key, ref).key = key
<1>. DEFINE inventory == Inventory(ref)
            nodes == inventory.nodes
            best == BestNode(question, nodes)
            label == Overlap(question, ref.label.tokens, 4)
            file == Overlap(question, ref.file.tokens, 4)
<1>1. label \in Nat /\ file \in Nat
  <2>1. ASSUME NEW tokens PROVE Cardinality(question.tokens \cap tokens) \in Nat
    BY FS_Subset, FS_CardinalityType
  <2>. QED BY <2>1 DEF Overlap, Lesser
<1>2. best.score \in Int
  <2>. DEFINE signal == [i \in DOMAIN nodes |-> NodeSignal(question, nodes[i])]
              top == {i \in DOMAIN nodes : /\ signal[i].score > 0
                                           /\ \A j \in DOMAIN nodes : signal[j].score <= signal[i].score}
  <2>1. best = IF top = {} THEN [title |-> 0, breadcrumb |-> 0, score |-> 0] ELSE signal[Min(top)]
    BY Zenon DEF BestNode
  <2>2. IsNodes(nodes)
    BY InventoryFits
  <2>3. \A i \in DOMAIN nodes : signal[i].score \in Int
    <3>. HIDE DEF nodes
    <3>. QED BY <2>2, SignalIsNumber DEF IsNodes
  <2>4. top \in SUBSET Nat /\ top \subseteq DOMAIN nodes
    <3>1. DOMAIN nodes \subseteq Nat
      <4>. HIDE DEF nodes
      <4>. QED BY <2>2, SequenceHas DEF IsNodes
    <3>. QED BY <3>1
  <2>. HIDE DEF top, signal, nodes, best
  <2>5. ASSUME top # {} PROVE Min(top) \in top
    <3>1. \E n \in top : \A m \in top : n <= m
      BY <2>4, <2>5, LeastNumber
    <3>. QED BY <3>1 DEF Min
  <2>6. CASE top = {}
    BY <2>1, <2>6
  <2>7. CASE top # {}
    BY <2>1, <2>3, <2>4, <2>5, <2>7
  <2>. QED BY <2>6, <2>7
<1>3. InventoryBonus[inventory.source] \in Int
  BY InventoryFits
<1>4. /\ ScoreManual(question, key, ref).key = key
      /\ ScoreManual(question, key, ref).score =
           (IF PhraseHit(question, ref.label) THEN 12 ELSE 0) + (IF PhraseHit(question, ref.file) THEN 8 ELSE 0)
             + 6 * label + 4 * file + best.score + InventoryBonus[inventory.source]
  BY DEF ScoreManual
<1>. HIDE DEF inventory, nodes, best, label, file
<1>. QED BY <1>1, <1>2, <1>3, <1>4

(* The ranking of the gate has every manual once. *)
LEMMA RankedIs ==
  ASSUME NEW question, IsFiniteSet(question.tokens), NEW n \in Nat, NEW refs, DOMAIN refs = 1..n,
         \A i \in 1..n : IsRef(refs[i])
  PROVE  /\ Keys(Ranked(question, refs)) \in [1..n -> 1..n]
         /\ Len(Ranked(question, refs)) = n
         /\ \A i, j \in 1..n : Keys(Ranked(question, refs))[i] = Keys(Ranked(question, refs))[j] => i = j
         /\ Range(Keys(Ranked(question, refs))) = 1..n
<1>. DEFINE D == DOMAIN refs
            scored == [i \in D |-> ScoreManual(question, i, refs[i])]
            R == {p \in D \X D : \/ scored[p[1]].score > scored[p[2]].score
                                 \/ scored[p[1]].score = scored[p[2]].score /\ p[1] < p[2]}
            order == InOrder(D, R)
            keys == Keys(Ranked(question, refs))
<1>1. Ranked(question, refs) = [r \in D |-> scored[order[r]]]
  BY Zenon DEF Ranked, Sorted
<1>2. \A i \in D : scored[i].score \in Int /\ scored[i].key = i
  BY ScoreIsNumber
<1>3. IsFiniteSet(D) /\ Cardinality(D) = n /\ D = 1..n
  BY FS_Interval
<1>. HIDE DEF D, scored
<1>4. StrictOrder(R, D)
  <2>1. D \subseteq Int
    BY <1>3
  <2>2. \A x, y \in D : <<x, y>> \in R <=> \/ scored[x].score > scored[y].score
                                           \/ scored[x].score = scored[y].score /\ x < y
    OBVIOUS
  <2>. HIDE DEF R
  <2>. QED BY <1>2, <2>1, <2>2 DEF StrictOrder
<1>. HIDE DEF R
<1>5. /\ order \in [1..n -> D]
      /\ \A x \in D : \E r \in 1..n : order[r] = x
      /\ \A r, q \in 1..n : r < q => <<order[r], order[q]>> \in R
  <2>1. /\ order \in [1..Cardinality(D) -> D]
        /\ \A x \in D : \E r \in 1..Cardinality(D) : order[r] = x
        /\ \A r, q \in 1..Cardinality(D) : r < q => <<order[r], order[q]>> \in R
    BY <1>3, <1>4, OrderIsSorted
  <2>. HIDE DEF order
  <2>. QED BY <1>3, <2>1
<1>. HIDE DEF order
<1>6. keys = [r \in D |-> order[r]]
  BY <1>1, <1>2, <1>3, <1>5 DEF Keys
<1>7. \A i, j \in 1..n : i # j => order[i] # order[j]
  <2>1. \A x \in D : <<x, x>> \notin R
    BY <1>4 DEF StrictOrder
  <2>2. \A i, j \in 1..n : i < j => order[i] # order[j]
    BY <1>5, <2>1
  <2>. QED BY <2>2
<1>8. Len(Ranked(question, refs)) = n
  BY <1>1, <1>3
<1>. HIDE DEF keys
<1>9. Range(keys) = 1..n
  BY <1>3, <1>5, <1>6 DEF Range
<1>. QED BY <1>3, <1>5, <1>6, <1>7, <1>8, <1>9 DEF keys

(* A list of some of the manuals 1..n, none of them twice. *)
IsChoice(s, n) == s \in Seq(1..n) /\ \A i, j \in 1..Len(s) : s[i] = s[j] => i = j

(* All manuals, each once. *)
LEMMA AllAreChosen ==
  ASSUME NEW n \in Nat
  PROVE  IsChoice(AllManuals(n), n) /\ Range(AllManuals(n)) = 1..n
<1>1. AllManuals(n) \in [1..n -> 1..n] /\ \A i \in 1..n : AllManuals(n)[i] = i
  BY DEF AllManuals
<1>2. AllManuals(n) \in Seq(1..n) /\ Len(AllManuals(n)) = n
  BY <1>1, SequenceOf
<1>. QED BY <1>1, <1>2 DEF IsChoice, Range

(* The gate applies manuals it was given, none twice; and when it leaves   *)
(* one out it says so in live mode, as Pruned reads it (run_manual_gate).  *)
LEMMA GateChooses ==
  ASSUME NEW question, IsFiniteSet(question.tokens), NEW n \in Nat, n > 0, NEW refs, DOMAIN refs = 1..n, Len(refs) = n,
         \A i \in 1..n : IsRef(refs[i]), NEW requested, NEW default, NEW allow
  PROVE  LET g == RunGate(question, refs, requested, default, allow)
         IN  /\ IsChoice(g.applied, n)
             /\ g.predicted \in Seq(1..n)
             /\ Range(g.applied) = 1..n \/ Pruned(g, n)
<1>. DEFINE ranked == Ranked(question, refs)
            keys == Keys(ranked)
            decision == Decision(ranked)
            mode == ResolveMode(requested, default, allow)
            g == RunGate(question, refs, requested, default, allow)
<1>. SUFFICES /\ IsChoice(g.applied, n)
              /\ g.predicted \in Seq(1..n)
              /\ Range(g.applied) = 1..n \/ Pruned(g, n)
  BY Zenon
<1>1. /\ keys \in [1..n -> 1..n] /\ Len(ranked) = n
      /\ \A i, j \in 1..n : keys[i] = keys[j] => i = j
      /\ Range(keys) = 1..n
  <2>. HIDE DEF decision, mode, g
  <2>1. keys \in [1..n -> 1..n] /\ Len(ranked) = n
    BY RankedIs
  <2>2. \A i, j \in 1..n : keys[i] = keys[j] => i = j
    BY RankedIs
  <2>3. Range(keys) = 1..n
    BY RankedIs
  <2>. QED BY <2>1, <2>2, <2>3
<1>. HIDE DEF keys, ranked
<1>2. keys \in Seq(1..n) /\ Len(keys) = n /\ IsSequence(keys)
  BY <1>1, SequenceOf
<1>3. /\ decision.count \in 1..n
      /\ \/ decision.count = n
         \/ decision.decision \in {"select_top1", "select_top2"} /\ decision.count < n
  BY <1>1 DEF Decision, TopOne, TopTwo
<1>4. /\ g.effective = mode.effective
      /\ g.selection = IF mode.effective = "live" THEN decision.decision ELSE "full_manuals"
      /\ g.predicted = Take(keys, decision.count)
      /\ g.applied = IF mode.effective = "live" THEN Take(keys, decision.count) ELSE AllManuals(n)
  BY Zenon DEF RunGate, keys, ranked
<1>. HIDE DEF decision, mode, g
<1>5. /\ Take(keys, decision.count) \in Seq(1..n)
      /\ Len(Take(keys, decision.count)) = decision.count
      /\ \A i \in 1..decision.count : Take(keys, decision.count)[i] = keys[i]
  <2>. DEFINE t == Take(keys, decision.count)
  <2>1. /\ t \in Seq(1..n)
        /\ Len(t) = IF decision.count < 0 THEN 0 ELSE Lesser(decision.count, Len(keys))
        /\ \A i \in DOMAIN t : t[i] = keys[i]
    BY <1>2, <1>3, TakeIs
  <2>. HIDE DEF t
  <2>2. Len(t) = decision.count
    BY <1>2, <1>3, <2>1 DEF Lesser
  <2>. QED BY <2>1, <2>2 DEF t
<1>6. IsChoice(Take(keys, decision.count), n)
  <2>. DEFINE t == Take(keys, decision.count)
  <2>1. \A i, j \in 1..decision.count : t[i] = t[j] => i = j
    <3>1. \A i \in 1..decision.count : t[i] = keys[i] /\ i \in 1..n
      BY <1>3, <1>5
    <3>. HIDE DEF t
    <3>. QED BY <1>1, <3>1
  <2>2. t \in Seq(1..n) /\ Len(t) = decision.count
    BY <1>5
  <2>. HIDE DEF t
  <2>3. IsChoice(t, n)
    BY <2>1, <2>2 DEF IsChoice
  <2>. QED BY <2>3 DEF t
<1>7. IsChoice(AllManuals(n), n) /\ Range(AllManuals(n)) = 1..n
  BY AllAreChosen
<1>8. CASE g.applied = AllManuals(n)
  BY <1>4, <1>5, <1>7, <1>8
<1>9. CASE g.applied = Take(keys, decision.count) /\ mode.effective = "live"
  <2>1. CASE decision.count = n
    <3>. DEFINE t == Take(keys, decision.count)
    <3>0. t \in Seq(1..n) /\ Len(t) = n /\ \A i \in 1..n : t[i] = keys[i]
      BY <1>5, <2>1
    <3>. HIDE DEF t
    <3>a. t = [i \in 1..n |-> t[i]] /\ keys = [i \in 1..n |-> keys[i]]
      BY <1>1, <3>0
    <3>b. t = keys
      BY <3>0, <3>a
    <3>1. g.applied = keys
      BY <1>9, <3>b DEF t
    <3>2. Range(g.applied) = 1..n
      BY <1>1, <3>1
    <3>. QED BY <1>4, <1>5, <1>6, <1>9, <3>2
  <2>2. CASE decision.decision \in {"select_top1", "select_top2"} /\ decision.count < n
    <3>1. Pruned(g, n)
      BY <1>4, <1>5, <1>9, <2>2 DEF Pruned
    <3>. QED BY <1>4, <1>5, <1>6, <1>9, <3>1
  <2>. QED BY <1>3, <2>1, <2>2
<1>. QED BY <1>4, <1>8, <1>9

-----------------------------------------------------------------------------
(* Merging and ranking the manuals' candidates. *)

(* A list of lists. *)
AreLists(perManual) == IsSequence(perManual) /\ \A m \in DOMAIN perManual : IsSequence(perManual[m])

(* The places of the candidates: finitely many, each a number and its      *)
(* manual's.                                                               *)
LEMMA SlotsAre ==
  ASSUME NEW perManual, AreLists(perManual)
  PROVE  /\ IsFiniteSet(Slots(perManual))
         /\ Cardinality(Slots(perManual)) \in Nat
         /\ \A s : s \in Slots(perManual) <=>
              s \in Nat \X Nat /\ s[2] \in DOMAIN perManual /\ s[1] \in DOMAIN perManual[s[2]]
<1>. DEFINE D == DOMAIN perManual
            f == [m \in D |-> (DOMAIN perManual[m]) \X {m}]
<1>1. IsFiniteSet(D) /\ D \subseteq Nat
  <2>1. Len(perManual) \in Nat /\ D = 1..Len(perManual)
    BY SequenceHas DEF AreLists
  <2>. QED BY <2>1, FS_Interval
<1>2. ASSUME NEW m \in D PROVE IsFiniteSet(f[m]) /\ DOMAIN perManual[m] \subseteq Nat
  <2>1. Len(perManual[m]) \in Nat /\ DOMAIN perManual[m] = 1..Len(perManual[m])
    BY SequenceHas DEF AreLists
  <2>2. IsFiniteSet(1..Len(perManual[m])) /\ IsFiniteSet({m})
    <3>. HIDE DEF D, f
    <3>1. IsFiniteSet(1..Len(perManual[m]))
      BY <2>1, FS_Interval
    <3>2. IsFiniteSet({m})
      BY FS_Singleton, Zenon
    <3>. QED BY <3>1, <3>2
  <2>3. f[m] = (1..Len(perManual[m])) \X {m}
    BY <2>1
  <2>. HIDE DEF D, f
  <2>. QED BY <2>1, <2>2, <2>3, FS_Product
<1>3. f \in Surjection(D, Range(f))
  BY DEF Surjection, Range
<1>4. Slots(perManual) = UNION Range(f)
  BY DEF Slots, Range
<1>5. \A s : s \in Slots(perManual) <=>
        s \in Nat \X Nat /\ s[2] \in D /\ s[1] \in DOMAIN perManual[s[2]]
  <2>1. ASSUME NEW s \in Slots(perManual)
        PROVE  s \in Nat \X Nat /\ s[2] \in D /\ s[1] \in DOMAIN perManual[s[2]]
    <3>1. PICK m \in D : s \in (DOMAIN perManual[m]) \X {m}
      BY <2>1 DEF Slots
    <3>2. m \in Nat /\ DOMAIN perManual[m] \subseteq Nat
      BY <1>1, <1>2
    <3>. QED BY <3>1, <3>2
  <2>2. ASSUME NEW s \in Nat \X Nat, s[2] \in D, s[1] \in DOMAIN perManual[s[2]]
        PROVE  s \in Slots(perManual)
    <3>1. s \in (DOMAIN perManual[s[2]]) \X {s[2]}
      BY <2>2
    <3>. QED BY <2>2, <3>1 DEF Slots
  <2>. QED BY <2>1, <2>2
<1>. HIDE DEF f, D
<1>6. IsFiniteSet(Range(f))
  BY <1>1, <1>3, FS_Surjection
<1>7. \A T \in Range(f) : IsFiniteSet(T)
  BY <1>2, <1>3 DEF Surjection
<1>8. IsFiniteSet(UNION Range(f))
  BY <1>6, <1>7, FS_UNION
<1>. QED BY <1>4, <1>5, <1>8, FS_CardinalityType DEF D

(* The order of RoundRobin: by place, and by manual. *)
ByPlace(slots) == {p \in slots \X slots : \/ p[1][1] < p[2][1]
                                          \/ p[1][1] = p[2][1] /\ p[1][2] < p[2][2]}
(* The order of InARow: by manual, and by place. *)
ByManual(slots) == {p \in slots \X slots : \/ p[1][2] < p[2][2]
                                           \/ p[1][2] = p[2][2] /\ p[1][1] < p[2][1]}

(* Both orders of the places are strict and total. *)
LEMMA SlotsOrdered ==
  ASSUME NEW S \in SUBSET (Nat \X Nat)
  PROVE  StrictOrder(ByPlace(S), S) /\ StrictOrder(ByManual(S), S)
<1>1. /\ \A a, b \in S : <<a, b>> \in ByPlace(S) <=> a[1] < b[1] \/ (a[1] = b[1] /\ a[2] < b[2])
      /\ \A a, b \in S : <<a, b>> \in ByManual(S) <=> a[2] < b[2] \/ (a[2] = b[2] /\ a[1] < b[1])
  BY DEF ByPlace, ByManual
<1>2. \A a, b \in S : a # b => a[1] # b[1] \/ a[2] # b[2]
  OBVIOUS
<1>3. \A a \in S : a[1] \in Nat /\ a[2] \in Nat
  OBVIOUS
<1>. QED BY <1>1, <1>2, <1>3 DEF StrictOrder

(* The candidates of all the manuals in a row: as many as there are, none  *)
(* made up.                                                                *)
LEMMA InARowIs ==
  ASSUME NEW perManual, AreLists(perManual)
  PROVE  /\ IsSequence(InARow(perManual))
         /\ Len(InARow(perManual)) = Cardinality(Slots(perManual))
         /\ \A r \in DOMAIN InARow(perManual) :
              \E s \in Slots(perManual) : InARow(perManual)[r] = perManual[s[2]][s[1]]
<1>. DEFINE S == Slots(perManual)
            order == InOrder(S, ByManual(S))
            n == Cardinality(S)
            row == InARow(perManual)
<1>1. IsFiniteSet(S) /\ n \in Nat /\ S \in SUBSET (Nat \X Nat)
  BY SlotsAre
<1>2. row = [r \in DOMAIN order |-> perManual[order[r][2]][order[r][1]]]
  BY Zenon DEF InARow, Sorted, ByManual
<1>. HIDE DEF S, row
<1>3. StrictOrder(ByManual(S), S)
  BY <1>1, SlotsOrdered
<1>4. order \in [1..n -> S]
  BY <1>1, <1>3, OrderIsSorted
<1>. HIDE DEF order, n
<1>5. row \in [1..n -> Range(row)]
  BY <1>2, <1>4 DEF Range
<1>6. IsSequence(row) /\ Len(row) = n
  BY <1>1, <1>5, SequenceOf
<1>. QED BY <1>2, <1>4, <1>6 DEF S, row, n

(* The merged list is the beginning of the order by place and manual       *)
(* (merge_candidates_round_robin).                                         *)
LEMMA RoundRobinIs ==
  ASSUME NEW perManual, AreLists(perManual), NEW k \in Nat
  PROVE  LET S == Slots(perManual)
             order == InOrder(S, ByPlace(S))
             n == Cardinality(S)
             merged == RoundRobin(perManual, k)
         IN  /\ n \in Nat
             /\ order \in [1..n -> S]
             /\ \A s \in S : \E r \in 1..n : order[r] = s
             /\ \A r, q \in 1..n : r < q => <<order[r], order[q]>> \in ByPlace(S)
             /\ IsSequence(merged)
             /\ Len(merged) = Lesser(k, n)
             /\ \A r \in 1..Lesser(k, n) : merged[r] = perManual[order[r][2]][order[r][1]]
<1>. DEFINE S == Slots(perManual)
            order == InOrder(S, ByPlace(S))
            n == Cardinality(S)
            merged == RoundRobin(perManual, k)
<1>1. IsFiniteSet(S) /\ n \in Nat /\ S \in SUBSET (Nat \X Nat)
  BY SlotsAre
<1>2. merged = [r \in 1..Lesser(k, Len(order)) |-> perManual[order[r][2]][order[r][1]]]
  BY Zenon DEF RoundRobin, Sorted, ByPlace
<1>. HIDE DEF S, merged
<1>3. StrictOrder(ByPlace(S), S)
  BY <1>1, SlotsOrdered
<1>4. /\ order \in [1..n -> S]
      /\ \A s \in S : \E r \in 1..n : order[r] = s
      /\ \A r, q \in 1..n : r < q => <<order[r], order[q]>> \in ByPlace(S)
  BY <1>1, <1>3, OrderIsSorted
<1>. HIDE DEF order, n
<1>5. Len(order) = n
  BY <1>1, <1>4, SequenceOf
<1>6. Lesser(k, n) \in Nat
  BY <1>1 DEF Lesser
<1>7. merged \in [1..Lesser(k, n) -> Range(merged)]
  BY <1>2, <1>5 DEF Range
<1>8. IsSequence(merged) /\ Len(merged) = Lesser(k, n)
  BY <1>6, <1>7, SequenceOf
<1>9. \A r \in 1..Lesser(k, n) : merged[r] = perManual[order[r][2]][order[r][1]]
  BY <1>2, <1>5
<1>. QED BY <1>1, <1>4, <1>8, <1>9 DEF S, merged, order, n

(* A reranked list has only candidates that were given                     *)
(* (rerank_candidates).                                                    *)
LEMMA RerankIs ==
  ASSUME NEW candidates, IsSequence(candidates), NEW places, IsSequence(places), NEW k \in Nat
  PROVE  /\ IsSequence(Rerank(candidates, places, k).list)
         /\ \A r \in DOMAIN Rerank(candidates, places, k).list :
              \E i \in DOMAIN candidates : Rerank(candidates, places, k).list[r] = candidates[i]
<1>. DEFINE n == Len(candidates)
            firsts == {r \in DOMAIN places : /\ places[r] \in 1..n
                                             /\ \A q \in 1..(r - 1) : places[q] # places[r]}
            distinct == Filtered(places, firsts)
            ranked == Take(distinct, k)
            list == Rerank(candidates, places, k).list
<1>1. Distinct(places, n) = distinct
  BY Zenon DEF Distinct
<1>2. list = IF ranked = <<>> THEN Take(candidates, k) ELSE [r \in DOMAIN ranked |-> candidates[ranked[r]]]
  BY <1>1 DEF Rerank
<1>3. /\ distinct \in Seq(Range(places))
      /\ \A r \in DOMAIN distinct : distinct[r] \in 1..n
  <2>1. places \in Seq(Range(places)) /\ firsts \in SUBSET DOMAIN places
    BY DEF IsSequence
  <2>2. \A i \in firsts : places[i] \in 1..n
    OBVIOUS
  <2>. HIDE DEF firsts, n
  <2>. QED BY <2>1, <2>2, FilteredIs
<1>. HIDE DEF distinct
<1>4. IsSequence(ranked) /\ \A r \in DOMAIN ranked : ranked[r] \in 1..n
  BY <1>3, TakeIs
<1>5. n \in Nat /\ DOMAIN candidates = 1..n
  BY SequenceHas
<1>6. IsSequence(Take(candidates, k)) /\ \A r \in DOMAIN Take(candidates, k) :
        r \in DOMAIN candidates /\ Take(candidates, k)[r] = candidates[r]
  BY TakeIs DEF IsSequence
<1>. HIDE DEF ranked, n, list
<1>. SUFFICES IsSequence(list) /\ \A r \in DOMAIN list : \E i \in DOMAIN candidates : list[r] = candidates[i]
  BY DEF list
<1>7. CASE ranked = <<>>
  BY <1>2, <1>6, <1>7
<1>8. CASE ranked # <<>>
  <2>1. list = [r \in DOMAIN ranked |-> candidates[ranked[r]]]
    BY <1>2, <1>8
  <2>2. Len(ranked) \in Nat /\ DOMAIN ranked = 1..Len(ranked)
    BY <1>4, SequenceHas
  <2>3. list \in [1..Len(ranked) -> Range(list)]
    BY <2>1, <2>2 DEF Range
  <2>4. IsSequence(list)
    BY <2>2, <2>3, SequenceOf
  <2>. QED BY <1>4, <1>5, <2>1, <2>4
<1>. QED BY <1>7, <1>8

-----------------------------------------------------------------------------
(* The fast search. *)

(* The greatest of finitely many numbers. *)
LEMMA LargestNumber ==
  ASSUME NEW T \in SUBSET Int, IsFiniteSet(T), T # {}
  PROVE  Max(T) \in T /\ \A x \in T : Max(T) >= x
<1>. DEFINE R == {p \in T \X T : p[1] > p[2]}
            n == Cardinality(T)
            order == InOrder(T, R)
<1>1. StrictOrder(R, T)
  BY DEF StrictOrder
<1>2. /\ n \in Nat /\ order \in [1..n -> T]
      /\ \A x \in T : \E r \in 1..n : order[r] = x
      /\ \A r, q \in 1..n : r < q => <<order[r], order[q]>> \in R
  <2>. HIDE DEF R
  <2>. QED BY <1>1, OrderIsSorted
<1>3. n # 0
  BY FS_EmptySet
<1>. HIDE DEF n, order
<1>4. order[1] \in T /\ 1 \in 1..n
  BY <1>2, <1>3
<1>5. ASSUME NEW x \in T PROVE order[1] >= x
  <2>1. PICK r \in 1..n : order[r] = x
    BY <1>2
  <2>2. CASE r = 1
    BY <1>4, <2>1, <2>2
  <2>3. CASE 1 < r
    <3>1. <<order[1], order[r]>> \in R
      BY <1>2, <1>4, <2>3
    <3>2. order[1] > order[r]
      BY <3>1
    <3>. HIDE DEF R
    <3>3. order[1] \in Int /\ x \in Int
      BY <1>4
    <3>. QED BY <2>1, <3>2, <3>3
  <2>. QED BY <2>2, <2>3
<1>6. \E x \in T : \A y \in T : x >= y
  BY <1>4, <1>5
<1>. QED BY <1>6 DEF Max

(* R compares the elements of S by their tuples of n numbers. *)
ComparesTuples(R, S, rank, n) ==
  /\ rank \in [S -> [1..n -> Int]]
  /\ \A x, y \in S : rank[x] = rank[y] => x = y
  /\ \A x, y \in S : <<x, y>> \in R <=>
       \E k \in 1..n : rank[x][k] < rank[y][k] /\ \A j \in 1..(k - 1) : rank[x][j] = rank[y][j]

(* Comparing tuples of numbers from left to right, where no two elements   *)
(* have the same tuple, is a strict total order.                           *)
LEMMA TuplesOrdered ==
  ASSUME NEW S, NEW n \in Nat, NEW rank, NEW R, ComparesTuples(R, S, rank, n)
  PROVE  StrictOrder(R, S)
<1>. /\ rank \in [S -> [1..n -> Int]]
     /\ \A x, y \in S : rank[x] = rank[y] => x = y
     /\ \A x, y \in S : <<x, y>> \in R <=>
          \E k \in 1..n : rank[x][k] < rank[y][k] /\ \A j \in 1..(k - 1) : rank[x][j] = rank[y][j]
  BY Zenon DEF ComparesTuples
<1>1. ASSUME NEW x \in S, NEW y \in S, <<x, y>> \in R PROVE <<y, x>> \notin R
  <2>. SUFFICES ASSUME <<y, x>> \in R PROVE FALSE
    OBVIOUS
  <2>1. PICK k \in 1..n : rank[x][k] < rank[y][k] /\ \A j \in 1..(k - 1) : rank[x][j] = rank[y][j]
    BY <1>1
  <2>2. PICK l \in 1..n : rank[y][l] < rank[x][l] /\ \A j \in 1..(l - 1) : rank[y][j] = rank[x][j]
    OBVIOUS
  <2>3. rank[x][k] \in Int /\ rank[y][k] \in Int /\ rank[x][l] \in Int /\ rank[y][l] \in Int
    OBVIOUS
  <2>4. k \in Int /\ l \in Int
    OBVIOUS
  <2>5. CASE k = l
    <3>1. rank[x][k] < rank[y][k] /\ rank[y][k] < rank[x][k]
      BY <2>1, <2>2, <2>5
    <3>. QED BY ONLY <3>1, <2>3
  <2>6. CASE k < l
    <3>1. rank[y][k] = rank[x][k]
      BY <2>2, <2>6
    <3>2. rank[x][k] < rank[y][k]
      BY <2>1
    <3>. QED BY ONLY <3>1, <3>2, <2>3
  <2>7. CASE l < k
    <3>1. rank[x][l] = rank[y][l]
      BY <2>1, <2>7
    <3>2. rank[y][l] < rank[x][l]
      BY <2>2
    <3>. QED BY ONLY <3>1, <3>2, <2>3
  <2>. QED BY ONLY <2>4, <2>5, <2>6, <2>7
<1>2. ASSUME NEW x \in S, NEW y \in S, NEW z \in S, <<x, y>> \in R, <<y, z>> \in R
      PROVE  <<x, z>> \in R
  <2>1. PICK k \in 1..n : rank[x][k] < rank[y][k] /\ \A j \in 1..(k - 1) : rank[x][j] = rank[y][j]
    BY <1>2
  <2>2. PICK l \in 1..n : rank[y][l] < rank[z][l] /\ \A j \in 1..(l - 1) : rank[y][j] = rank[z][j]
    BY <1>2
  <2>3. \A j \in 1..n : rank[x][j] \in Int /\ rank[y][j] \in Int /\ rank[z][j] \in Int
    OBVIOUS
  <2>4. CASE k <= l
    <3>1. rank[x][k] < rank[z][k]
      BY <2>1, <2>2, <2>3, <2>4
    <3>2. \A j \in 1..(k - 1) : rank[x][j] = rank[z][j]
      BY <2>1, <2>2, <2>4
    <3>. QED BY <3>1, <3>2
  <2>5. CASE l < k
    <3>1. rank[x][l] < rank[z][l]
      BY <2>1, <2>2, <2>3, <2>5
    <3>2. \A j \in 1..(l - 1) : rank[x][j] = rank[z][j]
      BY <2>1, <2>2, <2>5
    <3>. QED BY <3>1, <3>2
  <2>. QED BY <2>4, <2>5
<1>3. ASSUME NEW x \in S, NEW y \in S, x # y PROVE <<x, y>> \in R \/ <<y, x>> \in R
  <2>. DEFINE T == {k \in 1..n : rank[x][k] # rank[y][k]}
  <2>1. T # {}
    <3>. SUFFICES ASSUME T = {} PROVE FALSE
      OBVIOUS
    <3>1. rank[x] \in [1..n -> Int] /\ rank[y] \in [1..n -> Int] /\ rank[x] # rank[y]
      BY <1>3
    <3>2. \A k \in 1..n : rank[x][k] = rank[y][k]
      OBVIOUS
    <3>. QED BY <3>1, <3>2
  <2>2. T \in SUBSET Nat
    OBVIOUS
  <2>3. PICK k \in T : \A j \in T : k <= j
    <3>. HIDE DEF T
    <3>. QED BY <2>1, <2>2, LeastNumber
  <2>4. \A j \in 1..(k - 1) : rank[x][j] = rank[y][j]
    BY <2>3
  <2>5. rank[x][k] < rank[y][k] \/ rank[y][k] < rank[x][k]
    BY <2>3
  <2>. QED BY <2>3, <2>4, <2>5
<1>. QED BY <1>1, <1>2, <1>3 DEF StrictOrder

(* The lexical score of a section is a number. *)
LEMMA LexicalIsNumber ==
  ASSUME NEW question, IsFiniteSet(question.tokens), NEW node, node.depth \in Nat
  PROVE  LexicalScore(question, node) \in Int
<1>1. ASSUME NEW tokens, NEW cap \in Nat PROVE Overlap(question, tokens, cap) \in Nat
  <2>1. Cardinality(question.tokens \cap tokens) \in Nat
    BY FS_Subset, FS_CardinalityType
  <2>. QED BY <2>1 DEF Overlap, Lesser
<1>. DEFINE shared(field, cap) == Overlap(question, node[field].tokens, cap)
<1>2. \A field : \A cap \in Nat : shared(field, cap) \in Nat
  BY <1>1
<1>3. TightSpan(PageSpan(node)) \in Nat /\ Lesser(node.depth, 4) \in Nat
  BY DEF TightSpan, Lesser
<1>4. /\ shared("title", 8) \in Nat /\ shared("crumb", 8) \in Nat /\ shared("manual", 6) \in Nat
      /\ shared("summary", 6) \in Nat /\ shared("section", 40) \in Nat /\ shared("extra", 4) \in Nat
  BY <1>2
<1>. QED BY <1>3, <1>4 DEF LexicalScore

(* The sections of n manuals, each from a source that is known. *)
IsCorpora(corpora, n) ==
  /\ corpora = [m \in 1..n |-> corpora[m]]
  /\ \A m \in 1..n : /\ IsNodes(corpora[m].nodes)
                     /\ corpora[m].source \in DOMAIN SourceRank

(* The sections of all the manuals: finitely many, each by its manual and  *)
(* its number there.                                                       *)
LEMMA PlacesAre ==
  ASSUME NEW n \in Nat, NEW corpora, IsCorpora(corpora, n)
  PROVE  /\ IsFiniteSet(Places(corpora))
         /\ \A p \in Places(corpora) : /\ p \in Nat \X Nat /\ p[1] \in 1..n
                                       /\ p[2] \in DOMAIN corpora[p[1]].nodes
<1>. DEFINE D == 1..n
            f == [m \in D |-> {m} \X DOMAIN corpora[m].nodes]
<1>1. IsFiniteSet(D) /\ D \subseteq Nat /\ DOMAIN corpora = D
  BY FS_Interval DEF IsCorpora
<1>2. ASSUME NEW m \in D PROVE IsFiniteSet(f[m]) /\ DOMAIN corpora[m].nodes \subseteq Nat
  <2>1. Len(corpora[m].nodes) \in Nat /\ DOMAIN corpora[m].nodes = 1..Len(corpora[m].nodes)
    BY SequenceHas DEF IsCorpora, IsNodes
  <2>2. f[m] = {m} \X (1..Len(corpora[m].nodes))
    BY <2>1
  <2>. HIDE DEF D, f
  <2>3. IsFiniteSet(1..Len(corpora[m].nodes))
    BY <2>1, FS_Interval
  <2>4. IsFiniteSet({m})
    BY FS_Singleton, Zenon
  <2>. QED BY <2>1, <2>2, <2>3, <2>4, FS_Product
<1>3. f \in Surjection(D, Range(f))
  BY DEF Surjection, Range
<1>4. Places(corpora) = UNION Range(f)
  BY <1>1 DEF Places, Range
<1>5. ASSUME NEW p \in Places(corpora)
      PROVE  p \in Nat \X Nat /\ p[1] \in 1..n /\ p[2] \in DOMAIN corpora[p[1]].nodes
  <2>1. PICK m \in D : p \in {m} \X DOMAIN corpora[m].nodes
    BY <1>1, <1>5 DEF Places
  <2>2. m \in Nat /\ DOMAIN corpora[m].nodes \subseteq Nat
    BY <1>1, <1>2
  <2>. QED BY <2>1, <2>2
<1>. HIDE DEF f, D
<1>6. IsFiniteSet(Range(f))
  BY <1>1, <1>3, FS_Surjection
<1>7. \A T \in Range(f) : IsFiniteSet(T)
  BY <1>2, <1>3 DEF Surjection
<1>8. IsFiniteSet(UNION Range(f))
  BY <1>6, <1>7, FS_UNION
<1>. QED BY <1>4, <1>5, <1>8

(* The ranking of a fast search lists sections of the manuals searched     *)
(* (score_node_corpora).                                                   *)
LEMMA SectionsRanked ==
  ASSUME NEW question, IsFiniteSet(question.tokens), NEW n \in Nat, NEW corpora, IsCorpora(corpora, n),
         NEW dense, NEW scores, \A key \in DOMAIN scores : scores[key] \in Int
  PROVE  /\ IsSequence(RankSections(question, corpora, dense, scores))
         /\ \A r \in DOMAIN RankSections(question, corpora, dense, scores) :
              RankSections(question, corpora, dense, scores)[r] \in Places(corpora)
<1>. DEFINE places == Places(corpora)
            node(p) == corpora[p[1]].nodes[p[2]]
            raw == [p \in places |-> LexicalScore(question, node(p))]
            best == Max({0} \cup {raw[p] : p \in places})
            hybrid == [p \in places |-> Hybrid(raw[p], best, dense, scores, node(p).key)]
            rank(p) == << -hybrid[p], -raw[p], SourceRank[corpora[p[1]].source], p[1], p[2] >>
            R == {pair \in places \X places :
                    \E k \in 1..5 : /\ rank(pair[1])[k] < rank(pair[2])[k]
                                    /\ \A j \in 1..(k - 1) : rank(pair[1])[j] = rank(pair[2])[j]}
            ranked == RankSections(question, corpora, dense, scores)
<1>1. /\ IsFiniteSet(places)
      /\ \A p \in places : p \in Nat \X Nat /\ p[1] \in 1..n /\ p[2] \in DOMAIN corpora[p[1]].nodes
  BY PlacesAre
<1>2. ranked = InOrder(places, R)
  BY Zenon DEF RankSections, Sorted
<1>. HIDE DEF places
<1>3. \A p \in places : raw[p] \in Int
  <2>1. \A p \in places : node(p).depth \in Nat
    BY <1>1 DEF IsCorpora, IsNodes
  <2>. HIDE DEF node
  <2>. QED BY <2>1, LexicalIsNumber
<1>4. best \in Int
  <2>. DEFINE T == {raw[p] : p \in places}
  <2>1. raw \in Surjection(places, T)
    BY DEF Surjection
  <2>2. T \subseteq Int
    BY <1>3
  <2>. HIDE DEF T, raw
  <2>3. IsFiniteSet(T)
    BY <1>1, <2>1, FS_Surjection
  <2>4. IsFiniteSet({0})
    BY FS_Singleton, Zenon
  <2>5. IsFiniteSet({0} \cup T)
    BY <2>3, <2>4, FS_Union
  <2>6. Max({0} \cup T) \in {0} \cup T
    BY <2>2, <2>5, LargestNumber
  <2>. QED BY <2>2, <2>6 DEF T
<1>5. \A p \in places : hybrid[p] \in Int
  <2>. HIDE DEF raw, best
  <2>1. ASSUME NEW a \in Int, NEW b \in Int, NEW key PROVE Hybrid(a, b, dense, scores, key) \in Int
    <3>. DEFINE x == IF key \in DOMAIN scores THEN scores[key] ELSE 0
    <3>1. x \in Int
      OBVIOUS
    <3>2. Hybrid(a, b, dense, scores, key) = IF ~dense.enabled THEN a ELSE 700 * a + 3 * b * x
      BY DEF Hybrid
    <3>. HIDE DEF x
    <3>3. 3 * b * x \in Int
      BY <3>1
    <3>. QED BY <3>2, <3>3
  <2>. QED BY <1>3, <1>4, <2>1
<1>6. \A p \in places : SourceRank[corpora[p[1]].source] \in Int
  BY <1>1 DEF IsCorpora, SourceRank
<1>7. StrictOrder(R, places)
  <2>. DEFINE f == [p \in places |-> rank(p)]
  <2>. HIDE DEF hybrid, raw, best
  <2>1. f \in [places -> [1..5 -> Int]]
    <3>1. \A p \in places : rank(p) \in [1..5 -> Int]
      BY <1>1, <1>3, <1>5, <1>6
    <3>. HIDE DEF rank
    <3>. QED BY <3>1
  <2>2. \A x, y \in places : f[x] = f[y] => x = y
    BY <1>1
  <2>3. \A x, y \in places : <<x, y>> \in R <=>
          \E k \in 1..5 : f[x][k] < f[y][k] /\ \A j \in 1..(k - 1) : f[x][j] = f[y][j]
    <3>. HIDE DEF rank
    <3>. QED OBVIOUS
  <2>4. ComparesTuples(R, places, f, 5)
    <3>. HIDE DEF f, R, rank
    <3>. QED BY <2>1, <2>2, <2>3, Zenon DEF ComparesTuples
  <2>. HIDE DEF f, R, rank, node, ranked
  <2>. QED BY <2>4, TuplesOrdered
<1>. HIDE DEF R, ranked
<1>8. Cardinality(places) \in Nat /\ ranked \in [1..Cardinality(places) -> places]
  BY <1>1, <1>2, <1>7, OrderIsSorted
<1>9. IsSequence(ranked) /\ DOMAIN ranked = 1..Cardinality(places)
  BY <1>8, SequenceOf
<1>. QED BY <1>8, <1>9 DEF ranked, places

-----------------------------------------------------------------------------
(* The outline and the budget. *)

(* The choice by title is a list. *)
LEMMA LexicalIs ==
  ASSUME NEW sections, IsSequence(sections), \A i \in DOMAIN sections : sections[i].hits \in Int,
         NEW k \in Nat
  PROVE  IsSequence(Lexical(sections, k))
<1>. DEFINE hit == {i \in DOMAIN sections : sections[i].hits > 0}
            R == {p \in hit \X hit : \/ sections[p[1]].hits > sections[p[2]].hits
                                     \/ (sections[p[1]].hits = sections[p[2]].hits /\ p[1] < p[2])}
            order == InOrder(hit, R)
            ranked == IF hit = {} THEN sections ELSE [r \in DOMAIN order |-> sections[order[r]]]
            top == Lexical(sections, k)
<1>1. top = [r \in 1..Lesser(k, Len(ranked)) |-> ranked[r].id]
  BY Zenon DEF Lexical, Sorted
<1>2. Len(sections) \in Nat /\ DOMAIN sections = 1..Len(sections)
  BY SequenceHas
<1>3. hit \in SUBSET (1..Len(sections)) /\ IsFiniteSet(1..Len(sections))
  BY <1>2, FS_Interval
<1>4. IsFiniteSet(hit)
  <2>. HIDE DEF hit
  <2>. QED BY <1>3, FS_Subset
<1>5. StrictOrder(R, hit)
  <2>1. hit \subseteq Int /\ \A i \in hit : sections[i].hits \in Int
    BY <1>2
  <2>2. \A x, y \in hit : <<x, y>> \in R <=> \/ sections[x].hits > sections[y].hits
                                             \/ sections[x].hits = sections[y].hits /\ x < y
    OBVIOUS
  <2>. HIDE DEF hit, R
  <2>. QED BY <2>1, <2>2 DEF StrictOrder
<1>. HIDE DEF hit, R, top
<1>6. Cardinality(hit) \in Nat /\ order \in [1..Cardinality(hit) -> hit]
  BY <1>4, <1>5, OrderIsSorted
<1>. HIDE DEF order
<1>7. Len(ranked) \in Nat
  BY <1>2, <1>6
<1>. HIDE DEF ranked
<1>8. Lesser(k, Len(ranked)) \in Nat
  BY <1>7 DEF Lesser
<1>9. top \in [1..Lesser(k, Len(ranked)) -> Range(top)]
  BY <1>1 DEF Range
<1>. QED BY <1>8, <1>9, SequenceOf DEF top

(* The candidates of a manual are a list, whatever the model replied       *)
(* (select_sections_from_outline).                                         *)
LEMMA OutlineIs ==
  ASSUME NEW sections, IsSequence(sections), \A i \in DOMAIN sections : sections[i].hits \in Int,
         NEW reply, IsSequence(reply.ids), NEW k \in Nat
  PROVE  IsSequence(Outline(sections, reply, k))
<1>. DEFINE known(id) == \E i \in DOMAIN sections : sections[i].id = id
            knownOnes == {i \in DOMAIN reply.ids : known(reply.ids[i])}
            named == Take(Filtered(reply.ids, knownOnes), k)
<1>1. Outline(sections, reply, k) = IF named = <<>> THEN Lexical(sections, k) ELSE named
  BY Zenon DEF Outline
<1>2. reply.ids \in Seq(Range(reply.ids)) /\ knownOnes \in SUBSET DOMAIN reply.ids
  BY DEF IsSequence
<1>. HIDE DEF knownOnes
<1>3. Filtered(reply.ids, knownOnes) \in Seq(Range(reply.ids))
  BY <1>2, FilteredIs
<1>4. IsSequence(named)
  BY <1>3, TakeIs
<1>. QED BY <1>1, <1>4, LexicalIs

(* The number of candidates a manual may give. *)
LEMMA CandidateTopKIs ==
  ASSUME NEW topK \in Nat
  PROVE  CandidateTopK(topK) \in Nat
<1>. DEFINE T == {3 * topK, 12}
<1>1. \E x \in T : \A y \in T : x >= y
  <2>1. CASE 3 * topK >= 12
    BY <2>1
  <2>2. CASE 3 * topK < 12
    BY <2>2
  <2>. QED BY <2>1, <2>2
<1>2. Max(T) \in T
  BY <1>1 DEF Max
<1>. QED BY <1>2 DEF CandidateTopK

(* What comes of a reply and its repair names sections in a list. *)
LEMMA RepairsAre ==
  ASSUME NEW calls, \A reply \in calls : IsSequence(reply.ids), NEW reply \in Repairs(calls)
  PROVE  IsSequence(reply.ids)
<1>1. IsSequence(Named(<<>>).ids)
  BY DEF IsSequence, Range, Named
<1>2. PICK first \in calls, second \in calls : reply = Repaired(first, second)
  BY DEF Repairs
<1>3. reply \in {first, second, Named(<<>>)}
  BY <1>2 DEF Repaired
<1>. QED BY <1>1, <1>3

(* Leaving out the empty blocks makes none up. *)
LEMMA NonEmptyIs ==
  ASSUME NEW S, NEW blocks \in Seq(S)
  PROVE  NonEmpty(blocks) \in Seq(S) /\ \A r \in DOMAIN NonEmpty(blocks) :
           \E i \in DOMAIN blocks : NonEmpty(blocks)[r] = blocks[i]
<1>. DEFINE P == {i \in DOMAIN blocks : blocks[i].tokens > 0}
<1>1. NonEmpty(blocks) = Filtered(blocks, P) /\ P \in SUBSET DOMAIN blocks
  BY Zenon DEF NonEmpty
<1>. HIDE DEF P
<1>. QED BY <1>1, FilteredIs

(* The sum that Cost chooses exists. *)
LEMMA CostDefined ==
  ASSUME NEW S, NEW blocks \in Seq(S)
  PROVE  \E upTo : /\ upTo = [i \in 0..Len(blocks) |-> IF i = 0 THEN 0 ELSE upTo[i - 1] + blocks[i].tokens]
                   /\ Cost(blocks) = upTo[Len(blocks)]
<1>. DEFINE n == Len(blocks)
            Good(m, f) == f = [i \in 0..m |-> IF i = 0 THEN 0 ELSE f[i - 1] + blocks[i].tokens]
            Counts == {m \in Nat : \E f : Good(m, f)}
            upTo == CHOOSE f : f = [i \in 0..n |-> IF i = 0 THEN 0 ELSE f[i - 1] + blocks[i].tokens]
<1>1. n \in Nat
  OBVIOUS
<1>. HIDE DEF n
<1>2. 0 \in Counts
  <2>1. Good(0, [i \in 0..0 |-> 0])
    OBVIOUS
  <2>. QED BY <2>1
<1>3. ASSUME NEW m \in Nat, m \in Counts PROVE m + 1 \in Counts
  <2>1. PICK f : Good(m, f)
    BY <1>3
  <2>. DEFINE g == [i \in 0..(m + 1) |-> IF i = m + 1 THEN f[m] + blocks[m + 1].tokens ELSE f[i]]
  <2>2. \A i \in 0..m : g[i] = f[i]
    OBVIOUS
  <2>3. ASSUME NEW i \in 0..(m + 1)
        PROVE  g[i] = IF i = 0 THEN 0 ELSE g[i - 1] + blocks[i].tokens
    <3>1. CASE i = m + 1
      BY <2>2, <3>1
    <3>2. CASE i \in 0..m
      <4>1. g[i] = f[i] /\ (i # 0 => i - 1 \in 0..m)
        BY <2>2, <3>2
      <4>2. f[i] = IF i = 0 THEN 0 ELSE f[i - 1] + blocks[i].tokens
        BY <2>1, <3>2
      <4>. HIDE DEF g
      <4>. QED BY <2>2, <3>2, <4>1, <4>2
    <3>. QED BY <3>1, <3>2
  <2>4. g = [i \in 0..(m + 1) |-> g[i]]
    OBVIOUS
  <2>. HIDE DEF g
  <2>5. Good(m + 1, g)
    BY <2>3, <2>4
  <2>. QED BY <2>5
<1>4. n \in Counts
  <2>. HIDE DEF Counts
  <2>. QED BY <1>1, <1>2, <1>3, Counting
<1>5. Good(n, upTo)
  BY <1>4
<1>6. Cost(blocks) = upTo[n]
  BY Zenon DEF Cost, n
<1>. HIDE DEF upTo
<1>. QED BY <1>5, <1>6 DEF n

(* The cost of blocks grows by the tokens of each. *)
LEMMA CostIs ==
  ASSUME NEW S
  PROVE  /\ \A s \in Seq(S), b \in S : Cost(Append(s, b)) = Cost(s) + b.tokens
         /\ \A s \in Seq(S) : s = <<>> => Cost(s) = 0
<1>1. ASSUME NEW s \in Seq(S), s = <<>> PROVE Cost(s) = 0
  <2>1. PICK upTo : /\ upTo = [i \in 0..Len(s) |-> IF i = 0 THEN 0 ELSE upTo[i - 1] + s[i].tokens]
                    /\ Cost(s) = upTo[Len(s)]
    BY CostDefined
  <2>2. Len(s) = 0
    BY <1>1
  <2>. QED BY <2>1, <2>2
<1>2. ASSUME NEW s \in Seq(S), NEW b \in S PROVE Cost(Append(s, b)) = Cost(s) + b.tokens
  <2>. DEFINE t == Append(s, b)
              n == Len(s)
  <2>1. n \in Nat /\ t \in Seq(S) /\ Len(t) = n + 1 /\ t[n + 1] = b /\ \A i \in 1..n : t[i] = s[i]
    OBVIOUS
  <2>. HIDE DEF t, n
  <2>2. PICK f : f = [i \in 0..Len(s) |-> IF i = 0 THEN 0 ELSE f[i - 1] + s[i].tokens] /\ Cost(s) = f[Len(s)]
    BY CostDefined
  <2>3. PICK g : g = [i \in 0..Len(t) |-> IF i = 0 THEN 0 ELSE g[i - 1] + t[i].tokens] /\ Cost(t) = g[Len(t)]
    BY <2>1, CostDefined
  <2>4. /\ f[0] = 0 /\ \A i \in 1..n : f[i] = f[i - 1] + s[i].tokens
        /\ Cost(s) = f[n]
    BY <2>1, <2>2 DEF n
  <2>5. /\ g[0] = 0 /\ \A i \in 1..(n + 1) : g[i] = g[i - 1] + t[i].tokens
        /\ Cost(t) = g[n + 1]
    BY <2>1, <2>3
  <2>. DEFINE Same == {m \in Nat : m <= n => f[m] = g[m]}
  <2>6. 0 \in Same
    BY <2>4, <2>5
  <2>7. ASSUME NEW m \in Nat, m \in Same PROVE m + 1 \in Same
    <3>. SUFFICES ASSUME m + 1 <= n PROVE f[m + 1] = g[m + 1]
      OBVIOUS
    <3>1. m + 1 \in 1..n /\ f[m] = g[m] /\ (m + 1) - 1 = m
      BY <2>1, <2>7
    <3>2. f[m + 1] = f[m] + s[m + 1].tokens
      BY <2>4, <3>1
    <3>3. g[m + 1] = g[m] + t[m + 1].tokens
      BY <2>1, <2>5, <3>1
    <3>. QED BY <2>1, <3>1, <3>2, <3>3
  <2>8. n \in Same
    <3>. HIDE DEF Same
    <3>. QED BY <2>1, <2>6, <2>7, Counting
  <2>9. g[n + 1] = g[n] + t[n + 1].tokens
    BY <2>1, <2>5
  <2>. QED BY <2>1, <2>4, <2>5, <2>8, <2>9 DEF t
<1>. QED BY <1>1, <1>2

(* A block of the context; one of the section index is of the revision     *)
(* resolved for its manual.                                                *)
IsBlock(b, revs) ==
  /\ b = [from |-> b.from, manual |-> b.manual, rev |-> b.rev, tokens |-> b.tokens]
  /\ b.from = "index" => b.rev = revs[b.manual].rev

(* The steps of TotalBudget: its state before any block, and after one     *)
(* more.                                                                   *)
NoBlock == [kept |-> <<>>, total |-> 0, cut |-> FALSE]

AfterBlock(s, b, max) ==
  LET total == s.total + b.tokens
  IN IF s.cut THEN s
     ELSE IF Within(total, max)
     THEN [kept |-> Append(s.kept, b), total |-> total, cut |-> FALSE]
     ELSE IF s.kept # <<>> THEN s
     ELSE [kept |-> IF max > 0 THEN <<[b EXCEPT !.tokens = max + MarkerTokens]>> ELSE <<>>,
           total |-> max, cut |-> TRUE]

(* The steps that TotalBudget chooses exist. *)
LEMMA BudgetDefined ==
  ASSUME NEW S, NEW blocks \in Seq(S), NEW max
  PROVE  \E step : /\ step = [i \in 0..Len(blocks) |-> IF i = 0 THEN NoBlock ELSE AfterBlock(step[i - 1], blocks[i], max)]
                   /\ TotalBudget(blocks, max) = step[Len(blocks)].kept
<1>. DEFINE n == Len(blocks)
            Good(m, f) == f = [i \in 0..m |-> IF i = 0 THEN NoBlock ELSE AfterBlock(f[i - 1], blocks[i], max)]
            Counts == {m \in Nat : \E f : Good(m, f)}
            step == CHOOSE f : Good(n, f)
<1>1. n \in Nat
  OBVIOUS
<1>6. TotalBudget(blocks, max) = step[n].kept
  BY Zenon DEF TotalBudget, AfterBlock, NoBlock
<1>7. SUFFICES \E f : Good(n, f) /\ TotalBudget(blocks, max) = f[n].kept
  BY Zenon
<1>. HIDE DEF n
<1>2. 0 \in Counts
  <2>1. Good(0, [i \in 0..0 |-> NoBlock])
    OBVIOUS
  <2>. QED BY <2>1
<1>3. ASSUME NEW m \in Nat, m \in Counts PROVE m + 1 \in Counts
  <2>1. PICK f : Good(m, f)
    BY <1>3
  <2>. DEFINE g == [i \in 0..(m + 1) |-> IF i = m + 1 THEN AfterBlock(f[m], blocks[m + 1], max) ELSE f[i]]
  <2>2. \A i \in 0..m : g[i] = f[i]
    OBVIOUS
  <2>3. ASSUME NEW i \in 0..(m + 1)
        PROVE  g[i] = IF i = 0 THEN NoBlock ELSE AfterBlock(g[i - 1], blocks[i], max)
    <3>1. CASE i = m + 1
      BY <2>2, <3>1
    <3>2. CASE i \in 0..m
      <4>1. g[i] = f[i] /\ (i # 0 => i - 1 \in 0..m)
        BY <2>2, <3>2
      <4>2. f[i] = IF i = 0 THEN NoBlock ELSE AfterBlock(f[i - 1], blocks[i], max)
        BY <2>1, <3>2
      <4>. HIDE DEF g
      <4>. QED BY <2>2, <3>2, <4>1, <4>2
    <3>. QED BY <3>1, <3>2
  <2>4. g = [i \in 0..(m + 1) |-> g[i]]
    OBVIOUS
  <2>. HIDE DEF g
  <2>5. Good(m + 1, g)
    BY <2>3, <2>4
  <2>6. \E h : Good(m + 1, h)
    <3>. HIDE DEF Good
    <3>. QED BY <2>5
  <2>7. m + 1 \in Nat
    OBVIOUS
  <2>. HIDE DEF Good
  <2>. QED BY <2>6, <2>7
<1>4. n \in Counts
  <2>. HIDE DEF Counts
  <2>. QED BY <1>1, <1>2, <1>3, Counting
<1>5. Good(n, step)
  <2>1. \E f : Good(n, f)
    BY <1>4
  <2>. HIDE DEF Good
  <2>. QED BY <2>1
<1>. HIDE DEF step, Good
<1>. QED BY <1>5, <1>6

(* The budget keeps blocks of the same kind, which fit it or are one cut   *)
(* block and its marker (_apply_context_total_token_budget).               *)
LEMMA BudgetIs ==
  ASSUME NEW S, NEW blocks \in Seq(S), NEW revs, \A i \in DOMAIN blocks : IsBlock(blocks[i], revs),
         NEW max \in Nat \cup {NoLimit}
  PROVE  /\ IsSequence(TotalBudget(blocks, max))
         /\ \A r \in DOMAIN TotalBudget(blocks, max) : IsBlock(TotalBudget(blocks, max)[r], revs)
         /\ \/ Within(Cost(TotalBudget(blocks, max)), max)
            \/ /\ Len(TotalBudget(blocks, max)) = 1
               /\ Cost(TotalBudget(blocks, max)) <= max + MarkerTokens
<1>. DEFINE n == Len(blocks)
            short(b) == [b EXCEPT !.tokens = max + MarkerTokens]
            B == {blocks[i] : i \in DOMAIN blocks} \cup {short(blocks[i]) : i \in DOMAIN blocks}
            Fits(s) == /\ s.kept \in Seq(B)
                       /\ s.cut \in BOOLEAN
                       /\ ~s.cut => s.total = Cost(s.kept) /\ Within(Cost(s.kept), max)
                       /\ s.cut => \/ Within(Cost(s.kept), max)
                                   \/ Len(s.kept) = 1 /\ Cost(s.kept) <= max + MarkerTokens
<1>1. n \in Nat /\ DOMAIN blocks = 1..n /\ MarkerTokens \in Nat
  BY EvidenceAssumption
<1>2. PICK step :
        /\ step = [i \in 0..Len(blocks) |-> IF i = 0 THEN NoBlock ELSE AfterBlock(step[i - 1], blocks[i], max)]
        /\ TotalBudget(blocks, max) = step[Len(blocks)].kept
  BY BudgetDefined
<1>3. /\ step[0] = NoBlock
      /\ \A i \in 1..n : step[i] = AfterBlock(step[i - 1], blocks[i], max)
      /\ TotalBudget(blocks, max) = step[n].kept
  BY <1>1, <1>2
<1>. HIDE DEF n
<1>4. \A b \in B : IsBlock(b, revs)
  <2>1. ASSUME NEW i \in DOMAIN blocks PROVE IsBlock(short(blocks[i]), revs)
    BY DEF IsBlock
  <2>. HIDE DEF short
  <2>. QED BY <2>1
<1>5. \A i \in 1..n : blocks[i] \in B /\ short(blocks[i]) \in B
  BY <1>1
<1>6. Fits(step[0])
  <2>1. <<>> \in Seq(B)
    OBVIOUS
  <2>. HIDE DEF B
  <2>2. Cost(<<>>) = 0
    BY <2>1, CostIs
  <2>3. Within(0, max)
    BY DEF Within
  <2>. QED BY <1>3, <2>1, <2>2, <2>3 DEF NoBlock
<1>7. ASSUME NEW i \in 1..n, Fits(step[i - 1]) PROVE Fits(step[i])
  <2>. DEFINE s == step[i - 1]
              b == blocks[i]
              total == s.total + b.tokens
  <2>1. step[i] = IF s.cut THEN s
                  ELSE IF Within(total, max)
                  THEN [kept |-> Append(s.kept, b), total |-> total, cut |-> FALSE]
                  ELSE IF s.kept # <<>> THEN s
                  ELSE [kept |-> IF max > 0 THEN <<short(b)>> ELSE <<>>, total |-> max, cut |-> TRUE]
    BY <1>3, Zenon DEF AfterBlock
  <2>2. b \in B /\ short(b) \in B /\ Fits(s)
    BY <1>5, <1>7
  <2>3. CASE s.cut \/ (~Within(total, max) /\ s.kept # <<>>)
    <3>1. step[i] = s
      BY <2>1, <2>2, <2>3
    <3>. HIDE DEF s, Fits
    <3>. QED BY <2>2, <3>1
  <2>. HIDE DEF s, b, B
  <2>4. CASE ~s.cut /\ Within(total, max)
    <3>1. step[i] = [kept |-> Append(s.kept, b), total |-> total, cut |-> FALSE]
      BY <2>1, <2>4
    <3>2. Append(s.kept, b) \in Seq(B) /\ Cost(Append(s.kept, b)) = Cost(s.kept) + b.tokens
      BY <2>2, CostIs
    <3>3. s.total = Cost(s.kept)
      BY <2>2, <2>4
    <3>. QED BY <2>4, <3>1, <3>2, <3>3
  <2>6. CASE ~s.cut /\ ~Within(total, max) /\ s.kept = <<>> /\ ~(max > 0)
    <3>1. step[i] = [kept |-> <<>>, total |-> max, cut |-> TRUE]
      BY <2>1, <2>6
    <3>2. <<>> \in Seq(B)
      OBVIOUS
    <3>3. Cost(<<>>) = 0
      BY <3>2, CostIs
    <3>4. max \in Nat
      BY <2>6 DEF Within
    <3>5. Within(0, max)
      BY <3>4 DEF Within
    <3>. QED BY <3>1, <3>2, <3>3, <3>5
  <2>5. CASE ~s.cut /\ ~Within(total, max) /\ s.kept = <<>> /\ max > 0
    <3>. DEFINE c == short(b)
    <3>1. step[i] = [kept |-> <<c>>, total |-> max, cut |-> TRUE]
      BY <2>1, <2>5
    <3>2. c.tokens = max + MarkerTokens
      <4>1. "tokens" \in DOMAIN b
        <5>1. \A j \in DOMAIN blocks : "tokens" \in DOMAIN blocks[j]
          BY DEF IsBlock
        <5>. QED BY <1>1, <5>1 DEF b
      <4>. QED BY <4>1
    <3>. HIDE DEF short, c
    <3>3. <<c>> \in Seq(B) /\ Len(<<c>>) = 1 /\ c \in B
      BY <2>2 DEF c
    <3>4. Cost(<<c>>) = 0 + c.tokens
      <4>1. <<>> \in Seq(B) /\ Append(<<>>, c) = <<c>>
        BY <3>3
      <4>2. Cost(<<>>) = 0
        BY <4>1, CostIs
      <4>. QED BY <3>3, <4>1, <4>2, CostIs
    <3>5. Cost(<<c>>) <= max + MarkerTokens
      BY <1>1, <3>2, <3>4
    <3>. QED BY <3>1, <3>3, <3>5
  <2>. QED BY <2>2, <2>3, <2>4, <2>5, <2>6
<1>. HIDE DEF Fits, B
<1>8. Fits(step[n])
  <2>. DEFINE Fit == {m \in Nat : m <= n => Fits(step[m])}
  <2>1. 0 \in Fit
    BY <1>6
  <2>2. ASSUME NEW m \in Nat, m \in Fit PROVE m + 1 \in Fit
    BY <1>1, <1>7, <2>2
  <2>3. n \in Fit
    <3>. HIDE DEF Fit
    <3>. QED BY <1>1, <2>1, <2>2, Counting
  <2>. QED BY <1>1, <2>3
<1>. DEFINE kept == TotalBudget(blocks, max)
<1>9. Fits(step[n]) /\ kept = step[n].kept
  BY <1>3, <1>8
<1>. HIDE DEF kept
<1>10. /\ kept \in Seq(B)
       /\ Within(Cost(kept), max) \/ (Len(kept) = 1 /\ Cost(kept) <= max + MarkerTokens)
  BY <1>9 DEF Fits
<1>11. IsSequence(kept)
  <2>1. Len(kept) \in Nat /\ kept \in [1..Len(kept) -> B]
    BY <1>10
  <2>. QED BY <2>1, SequenceOf
<1>12. \A r \in DOMAIN kept : IsBlock(kept[r], revs)
  BY <1>4, <1>10
<1>. QED BY <1>10, <1>11, <1>12 DEF kept

-----------------------------------------------------------------------------
(* Fair merging. *)

(* A finite set of positive numbers that has all below each of its         *)
(* numbers is 1..n.                                                        *)
LEMMA FirstNumbers ==
  ASSUME NEW T \in SUBSET (Nat \ {0}), IsFiniteSet(T), \A p \in T : \A q \in 1..p : q \in T
  PROVE  Cardinality(T) \in Nat /\ T = 1..Cardinality(T)
<1>1. CASE T = {}
  BY <1>1, FS_EmptySet
<1>2. CASE T # {}
  <2>. DEFINE top == Max(T)
  <2>1. top \in T /\ \A x \in T : top >= x
    <3>1. T \in SUBSET Int
      OBVIOUS
    <3>. QED BY <1>2, <3>1, LargestNumber
  <2>. HIDE DEF top
  <2>2. top \in Nat /\ T = 1..top
    <3>1. \A x \in T : x \in Nat \ {0} /\ top >= x
      BY <2>1
    <3>2. top \in Nat /\ 1..top \subseteq T
      BY <2>1, <3>1
    <3>3. T \subseteq 1..top
      BY <3>1, <3>2
    <3>. QED BY <3>2, <3>3
  <2>3. Cardinality(1..top) = top
    BY <2>2, FS_Interval
  <2>. QED BY <2>2, <2>3
<1>. QED BY <1>1, <1>2

(* The positions that manual a has among the first k of an order, and      *)
(* those of them up to r.                                                  *)
Chosen(order, k, a) == {r \in 1..k : order[r][2] = a}
ChosenUpTo(order, k, a, r) == {q \in Chosen(order, k, a) : q <= r}

(* An order of the places S of lists, by place and then by manual. *)
OrdersByPlace(order, S, n) ==
  /\ S \in SUBSET (Nat \X Nat)
  /\ \A s \in S : s[1] # 0 /\ \A p \in 1..s[1] : <<p, s[2]>> \in S
  /\ order \in [1..n -> S]
  /\ \A s \in S : \E r \in 1..n : order[r] = s
  /\ \A r, q \in 1..n : r < q => <<order[r], order[q]>> \in ByPlace(S)

(* Among the first k of the order, the candidates of manual a are its      *)
(* first ones, each once, as it has them.                                  *)
TakesInTurn(order, k, a) ==
  /\ \A r \in Chosen(order, k, a) :
       order[r][1] = Cardinality(ChosenUpTo(order, k, a, r))
  /\ Cardinality(Chosen(order, k, a)) \in Nat
  /\ \A p \in Nat : (\E r \in Chosen(order, k, a) : order[r][1] = p)
                      <=> p \in 1..Cardinality(Chosen(order, k, a))

(* In the first k of an order by place, a manual's candidates are its      *)
(* first ones, in its own order.                                           *)
LEMMA FairOrder ==
  ASSUME NEW S, NEW n \in Nat, NEW order, OrdersByPlace(order, S, n),
         NEW k \in 0..n, NEW a
  PROVE  TakesInTurn(order, k, a)
<1>. /\ S \in SUBSET (Nat \X Nat)
     /\ \A s \in S : s[1] # 0 /\ \A p \in 1..s[1] : <<p, s[2]>> \in S
     /\ order \in [1..n -> S]
     /\ \A s \in S : \E r \in 1..n : order[r] = s
     /\ \A r, q \in 1..n : r < q => <<order[r], order[q]>> \in ByPlace(S)
  BY Zenon DEF OrdersByPlace
<1>. DEFINE mine == Chosen(order, k, a)
            f == [r \in mine |-> order[r][1]]
            P == Range(f)
<1>1. \A r \in mine : r \in 1..n /\ r <= k /\ order[r] \in S /\ order[r][2] = a
                   /\ order[r][1] \in Nat \ {0} /\ order[r] = <<order[r][1], a>>
  BY DEF Chosen
<1>2. \A r, q \in 1..n : r < q => \/ order[r][1] < order[q][1]
                                  \/ order[r][1] = order[q][1] /\ order[r][2] < order[q][2]
  BY DEF ByPlace
<1>2a. \A r \in 1..n : order[r][1] \in Nat /\ order[r][2] \in Nat
  OBVIOUS
<1>3. \A r, q \in mine : r < q => order[r][1] < order[q][1]
  <2>. SUFFICES ASSUME NEW r \in mine, NEW q \in mine, r < q PROVE order[r][1] < order[q][1]
    OBVIOUS
  <2>1. r \in 1..n /\ q \in 1..n /\ order[r][2] = a /\ order[q][2] = a
    BY <1>1
  <2>2. a \in Nat
    BY <1>2a, <2>1
  <2>. HIDE DEF mine
  <2>3. order[r][1] < order[q][1] \/ order[r][2] < order[q][2]
    BY <1>2, <2>1
  <2>. QED BY <2>1, <2>2, <2>3
<1>4. \A r \in mine : \A p \in 1..order[r][1] : \E q \in mine : q <= r /\ order[q][1] = p
  <2>. SUFFICES ASSUME NEW r \in mine, NEW p \in 1..order[r][1] PROVE \E q \in mine : q <= r /\ order[q][1] = p
    OBVIOUS
  <2>1. <<p, a>> \in S /\ p \in Nat /\ a \in Nat
    BY <1>1
  <2>2. PICK q \in 1..n : order[q] = <<p, a>>
    BY <2>1
  <2>3. order[q][1] = p /\ order[q][2] = a
    BY <2>2
  <2>4. r \in 1..n /\ r <= k /\ order[r][1] \in Nat /\ order[r][2] = a
    BY <1>1
  <2>. HIDE DEF mine
  <2>5. ~(r < q)
    <3>. SUFFICES ASSUME r < q PROVE FALSE
      OBVIOUS
    <3>1. \/ order[r][1] < order[q][1]
          \/ order[r][1] = order[q][1] /\ order[r][2] < order[q][2]
      BY <1>2, <2>4
    <3>2. order[r][1] < p \/ a < a
      BY <2>3, <2>4, <3>1
    <3>3. p <= order[r][1]
      OBVIOUS
    <3>. QED BY <2>1, <2>4, <3>2, <3>3
  <2>6. q <= r
    BY <2>4, <2>5
  <2>7. q \in mine
    BY <2>3, <2>4, <2>6 DEF mine, Chosen
  <2>. QED BY <2>3, <2>6, <2>7
<1>5. IsFiniteSet(mine) /\ mine \subseteq 1..n
  <2>1. mine \in SUBSET (1..n) /\ IsFiniteSet(1..n)
    BY <1>1, FS_Interval
  <2>. HIDE DEF mine
  <2>. QED BY <2>1, FS_Subset
<1>. HIDE DEF mine
<1>6. ASSUME NEW r \in mine PROVE order[r][1] = Cardinality({q \in mine : q <= r})
  <2>. DEFINE D == {q \in mine : q <= r}
              p == order[r][1]
              g == [q \in D |-> order[q][1]]
  <2>1. p \in Nat
    BY <1>1
  <2>2. \A q \in D : g[q] \in 1..p
    <3>. SUFFICES ASSUME NEW q \in D PROVE order[q][1] \in 1..p
      OBVIOUS
    <3>1. q \in mine /\ (q < r \/ q = r) /\ order[q][1] \in Nat \ {0}
      BY <1>1, <1>5
    <3>2. order[q][1] <= p
      BY <1>3, <2>1, <3>1
    <3>. QED BY <2>1, <3>1, <3>2
  <2>3. \A q, s \in D : g[q] = g[s] => q = s
    <3>1. \A q, s \in D : q < s => g[q] # g[s]
      BY <1>1, <1>3
    <3>. HIDE DEF g
    <3>. QED BY <1>5, <3>1
  <2>4. \A i \in 1..p : \E q \in D : g[q] = i
    BY <1>4
  <2>5. g \in Bijection(D, 1..p)
    BY <2>2, <2>3, <2>4 DEF Bijection, Injection, Surjection, IsInjective
  <2>6. IsFiniteSet(1..p) /\ Cardinality(1..p) = p /\ IsFiniteSet(D)
    <3>1. D \in SUBSET mine
      OBVIOUS
    <3>. HIDE DEF D, p
    <3>2. IsFiniteSet(D)
      BY <1>5, <3>1, FS_Subset
    <3>3. IsFiniteSet(1..p) /\ Cardinality(1..p) = p
      BY <2>1, FS_Interval
    <3>. QED BY <3>2, <3>3
  <2>. HIDE DEF D, g, p
  <2>7. Cardinality(D) = Cardinality(1..p)
    BY <2>5, <2>6, FS_Bijection DEF ExistsBijection
  <2>. QED BY <2>6, <2>7 DEF D, p
<1>7. f \in Bijection(mine, P)
  <2>1. \A q, s \in mine : f[q] = f[s] => q = s
    <3>1. \A q, s \in mine : q < s => f[q] # f[s]
      BY <1>1, <1>3
    <3>. HIDE DEF f
    <3>. QED BY <1>5, <3>1
  <2>. QED BY <2>1 DEF Bijection, Injection, Surjection, IsInjective, Range
<1>8. P \in SUBSET (Nat \ {0}) /\ \A p \in P : \A q \in 1..p : q \in P
  BY <1>1, <1>4 DEF Range
<1>9. \A p : (\E r \in mine : order[r][1] = p) <=> p \in P
  BY DEF Range
<1>. HIDE DEF f, P
<1>10. IsFiniteSet(P) /\ Cardinality(P) = Cardinality(mine)
  BY <1>5, <1>7, FS_Bijection DEF ExistsBijection
<1>11. Cardinality(mine) \in Nat /\ P = 1..Cardinality(mine)
  BY <1>8, <1>10, FirstNumbers
<1>. QED BY <1>6, <1>9, <1>11 DEF mine, ChosenUpTo, TakesInTurn

(* ... and while a manual has a candidate left, no other manual has two    *)
(* more in the list than it.                                               *)
LEMMA FairShares ==
  ASSUME NEW S, NEW n \in Nat, NEW order, OrdersByPlace(order, S, n),
         NEW k \in 0..n, NEW a, NEW b,
         <<Cardinality(Chosen(order, k, a)) + 1, a>> \in S
  PROVE  Cardinality(Chosen(order, k, b)) <= Cardinality(Chosen(order, k, a)) + 1
<1>. /\ S \in SUBSET (Nat \X Nat)
     /\ \A s \in S : s[1] # 0 /\ \A p \in 1..s[1] : <<p, s[2]>> \in S
     /\ order \in [1..n -> S]
     /\ \A s \in S : \E r \in 1..n : order[r] = s
     /\ \A r, q \in 1..n : r < q => <<order[r], order[q]>> \in ByPlace(S)
  BY Zenon DEF OrdersByPlace
<1>. DEFINE ca == Cardinality(Chosen(order, k, a))
            cb == Cardinality(Chosen(order, k, b))
<1>1. /\ ca \in Nat
      /\ \A p \in Nat : (\E r \in Chosen(order, k, a) : order[r][1] = p) <=> p \in 1..ca
  BY FairOrder DEF TakesInTurn
<1>2. /\ cb \in Nat
      /\ \A p \in Nat : (\E r \in Chosen(order, k, b) : order[r][1] = p) <=> p \in 1..cb
  BY FairOrder DEF TakesInTurn
<1>. HIDE DEF ca, cb
<1>. SUFFICES ASSUME cb > ca + 1 PROVE FALSE
  BY <1>1, <1>2 DEF ca, cb
<1>3. PICK r \in Chosen(order, k, b) : order[r][1] = ca + 2
  <2>1. ca + 2 \in Nat /\ ca + 2 \in 1..cb
    BY <1>1, <1>2
  <2>. QED BY <1>2, <2>1
<1>4. PICK q \in 1..n : order[q] = <<ca + 1, a>>
  BY DEF ca
<1>5. order[q][1] = ca + 1 /\ order[q][2] = a
  BY <1>4
<1>6. q \notin Chosen(order, k, a)
  <2>1. ca + 1 \in Nat /\ ca + 1 \notin 1..ca
    BY <1>1
  <2>. QED BY <1>1, <1>5, <2>1
<1>7. r \in 1..n /\ r <= k /\ q > k
  BY <1>5, <1>6 DEF Chosen
<1>8. <<order[r], order[q]>> \in ByPlace(S)
  BY <1>7
<1>9. order[r][1] < order[q][1] \/ order[r][1] = order[q][1]
  BY <1>8 DEF ByPlace
<1>. QED BY <1>1, <1>3, <1>5, <1>9

-----------------------------------------------------------------------------
(* The invariant. *)

(* The newest shape, and the newest revision, a manual can have by now. *)
Newest(m, parses) == IF m = 1 THEN parses + 1 ELSE 1

(* Rows of a version and of a search, for types. *)
Versions == [rev : Nat, status : {"index_ready", "parsing", "failed"}, shape : Nat, rows : Nat, path : BOOLEAN]
Searches == [at : {"none", "wait", "run", "done", "dead"}, tries : Nat, shape : Nat]

(* The versions: nothing is numbered beyond the parses there were. *)
ParseInv ==
  /\ version \in [Manuals -> Versions]
  /\ \A m \in Manuals : /\ version[m].rev \in 1..Newest(m, builds) /\ version[m].shape \in 1..Newest(m, builds)
                        /\ version[m].rows \in 0..Newest(m, builds)
  /\ job \in {"idle", "started", "written", "ready", "persisted"}
  /\ builds \in 0..Rebuilds
  /\ job = "started" => version[1].shape <= builds

(* The reuse cache: what it holds was written once. *)
CacheInv ==
  /\ cache \in [open : BOOLEAN, held : [Manuals -> Nat]]
  /\ \A m \in Manuals : cache.held[m] \in 0..Newest(m, builds)

(* The searches: of manuals that are applied; and none at work unless the  *)
(* run retrieves or has failed.                                            *)
TaskInv ==
  /\ task \in [Manuals -> Searches]
  /\ \A m \in Manuals : /\ task[m].shape \in 0..Newest(m, builds)
                        /\ task[m].at = "run" => task[m].shape # NoShape
                        /\ task[m].tries \in 0..(MaxRetries + 1)
                        /\ task[m].at # "dead" => task[m].tries <= MaxRetries
                        /\ task[m].at # "none" => m \in Range(gate.applied)
                        /\ pc \notin {"retrieve", "failed"} => task[m].at \notin {"wait", "run"}

(* The run: its stage and what it was asked. *)
AskInv ==
  /\ pc \in Stages
  /\ option \in Options /\ query \in {Asked, Rewritten} /\ asked \in 1..MaxQuestions
  /\ attempt \in {"initial", "full_retry"}
  /\ tries \in 0..MaxRetries
  /\ pc = "search" => option.mode = "fast"

(* The revisions: resolved for all the manuals asked for, before any is    *)
(* used.                                                                   *)
ResolvedInv ==
  /\ DOMAIN resolved \in {{}, Targets}
  /\ \A m \in DOMAIN resolved : resolved[m].rev \in Nat \ {0}
  /\ pc \notin {"rewrite", "resolve", "failed"} => DOMAIN resolved = Targets
  /\ pc \in {"rewrite", "resolve"} => context = <<>>

(* The gate: what it applies are manuals asked for, none twice. *)
GateInv ==
  /\ DOMAIN gate = {"effective", "decision", "selection", "predicted", "applied", "reason"}
  /\ IsChoice(gate.applied, option.manuals)
  /\ gate.predicted \in Seq(Targets)

(* The candidates of a manual are its own. *)
FoundInv ==
  /\ found = [m \in Manuals |-> found[m]]
  /\ \A m \in Manuals : IsSequence(found[m]) /\ \A i \in DOMAIN found[m] : found[m][i].manual = m

(* What is cited: sections of the manuals asked for; and what is called    *)
(* merged is still what merging the candidates gives.                      *)
PickedInv ==
  /\ IsSequence(picked.list)
  /\ \A r \in DOMAIN picked.list : picked.list[r].manual \in Targets
  /\ (picked.by = "merge" /\ pc \in {"context", "check", "answer"}) => picked = Merged

(* Before an answer, manuals are left out only by a first choice that may still be taken back. *)
FullInv ==
  (option.mode # "fast" /\ pc \in {"retrieve", "rerank", "context", "check", "answer", "done"})
    => \/ Range(gate.applied) = Targets
       \/ /\ attempt = "initial" /\ Pruned(gate, option.manuals)
          /\ pc \in {"answer", "done"} => context # <<>>

(* The answer: parts were sent of the present attempt only. *)
AnswerInv == /\ answer \in [tries : 1..2, heard : SUBSET (1..2)]
             /\ answer.heard \in {{}, {answer.tries}}

(* The inductive invariant. *)
Inv == /\ ParseInv /\ CacheInv /\ TaskInv /\ AskInv /\ ResolvedInv /\ GateInv
       /\ FoundInv /\ PickedInv /\ FullInv /\ AnswerInv /\ OfResolvedRevision /\ WithinBudget

-----------------------------------------------------------------------------
(* Merging, in the state. *)

(* What merging and reranking start from: the lists found for the manuals  *)
(* applied.                                                                *)
LEMMA PerManualIs ==
  ASSUME GateInv, FoundInv, option.manuals \in 1..N, N \in Nat
  PROVE  /\ AreLists(PerManual)
         /\ DOMAIN PerManual = 1..Len(gate.applied) /\ Len(gate.applied) \in Nat
         /\ \A a \in DOMAIN PerManual : /\ gate.applied[a] \in Targets /\ gate.applied[a] \in Manuals
                                        /\ PerManual[a] = found[gate.applied[a]]
                                        /\ \A i \in DOMAIN PerManual[a] : PerManual[a][i].manual = gate.applied[a]
<1>. DEFINE n == Len(gate.applied)
<1>1. n \in Nat /\ DOMAIN gate.applied = 1..n /\ \A a \in 1..n : gate.applied[a] \in 1..option.manuals
  BY DEF GateInv, IsChoice
<1>2. \A a \in 1..n : gate.applied[a] \in Targets /\ gate.applied[a] \in Manuals
  BY <1>1 DEF Targets, Manuals
<1>3. DOMAIN PerManual = 1..n /\ \A a \in 1..n : PerManual[a] = found[gate.applied[a]]
  BY <1>1 DEF PerManual
<1>4. \A m \in Manuals : IsSequence(found[m]) /\ \A i \in DOMAIN found[m] : found[m][i].manual = m
  BY DEF FoundInv
<1>5. PerManual \in [1..n -> Range(PerManual)]
  BY <1>1 DEF PerManual, Range
<1>. HIDE DEF n
<1>6. IsSequence(PerManual)
  BY <1>1, <1>5, SequenceOf
<1>7. AreLists(PerManual)
  BY <1>2, <1>3, <1>4, <1>6 DEF AreLists
<1>. QED BY <1>1, <1>2, <1>3, <1>4, <1>7 DEF n

(* The merged list is fair, for any number of manuals and candidates       *)
(* (merge_candidates_round_robin).                                         *)
LEMMA MergedIsFair ==
  ASSUME GateInv, FoundInv, option.manuals \in 1..N, N \in Nat, option.topK \in Nat, picked = Merged
  PROVE  FairMerge
<1>. DEFINE applied == gate.applied
            L == PerManual
            S == Slots(L)
            order == InOrder(S, ByPlace(S))
            n == Cardinality(S)
            K == Lesser(option.topK, n)
            list == picked.list
            of(m) == {r \in DOMAIN list : list[r].manual = m}
            all == UNION {{m} \X DOMAIN found[m] : m \in Range(gate.applied)}
<1>. SUFFICES /\ Len(list) = Lesser(option.topK, Cardinality(all))
              /\ \A m \in Range(gate.applied) :
                   /\ \A r \in of(m) : list[r] = found[m][Cardinality({q \in of(m) : q <= r})]
                   /\ Cardinality(of(m)) < Len(found[m])
                        => \A other \in Range(gate.applied) : Cardinality(of(other)) <= Cardinality(of(m)) + 1
  BY Zenon DEF FairMerge
<1>. HIDE DEF L
<1>1. /\ AreLists(L)
      /\ DOMAIN L = 1..Len(applied) /\ Len(applied) \in Nat
      /\ \A a \in DOMAIN L : /\ applied[a] \in Manuals /\ L[a] = found[applied[a]]
                             /\ \A i \in DOMAIN L[a] : L[a][i].manual = applied[a]
  BY PerManualIs DEF L
<1>2. \A a, b \in DOMAIN L : applied[a] = applied[b] => a = b
  BY <1>1 DEF GateInv, IsChoice
<1>3. DOMAIN applied = DOMAIN L
  BY <1>1 DEF GateInv, IsChoice
<1>. HIDE DEF applied
<1>4. \A a \in DOMAIN L : Len(L[a]) \in Nat /\ DOMAIN L[a] = 1..Len(L[a])
  BY <1>1, SequenceHas DEF AreLists
<1>5. /\ IsFiniteSet(S) /\ n \in Nat
      /\ \A s : s \in S <=> s \in Nat \X Nat /\ s[2] \in DOMAIN L /\ s[1] \in DOMAIN L[s[2]]
  BY <1>1, SlotsAre
<1>6. /\ order \in [1..n -> S]
      /\ \A s \in S : \E r \in 1..n : order[r] = s
      /\ \A r, q \in 1..n : r < q => <<order[r], order[q]>> \in ByPlace(S)
      /\ IsSequence(RoundRobin(L, option.topK))
      /\ Len(RoundRobin(L, option.topK)) = K
      /\ \A r \in 1..K : RoundRobin(L, option.topK)[r] = L[order[r][2]][order[r][1]]
  BY <1>1, RoundRobinIs, Zenon
<1>7. list = RoundRobin(L, option.topK)
  BY DEF Merged, L
<1>. HIDE DEF S, order, n, list
<1>8. K \in 0..n
  BY <1>5 DEF Lesser
<1>9. DOMAIN list = 1..K /\ Len(list) = K
  BY <1>6, <1>7, SequenceHas
<1>10. \A r \in 1..K : /\ order[r] \in S /\ order[r][2] \in DOMAIN L /\ order[r][1] \in DOMAIN L[order[r][2]]
                       /\ list[r] = L[order[r][2]][order[r][1]]
                       /\ list[r].manual = applied[order[r][2]]
  <2>. SUFFICES ASSUME NEW r \in 1..K
                PROVE  /\ order[r] \in S /\ order[r][2] \in DOMAIN L /\ order[r][1] \in DOMAIN L[order[r][2]]
                       /\ list[r] = L[order[r][2]][order[r][1]]
                       /\ list[r].manual = applied[order[r][2]]
    OBVIOUS
  <2>1. r \in 1..n
    BY <1>5, <1>8
  <2>2. order[r] \in S /\ list[r] = L[order[r][2]][order[r][1]]
    BY <1>6, <1>7, <2>1
  <2>3. order[r][2] \in DOMAIN L /\ order[r][1] \in DOMAIN L[order[r][2]]
    BY <1>5, <2>2
  <2>. QED BY <1>1, <2>2, <2>3
<1>. HIDE DEF K
<1>11. \A a \in DOMAIN L : of(applied[a]) = Chosen(order, K, a)
  <2>. SUFFICES ASSUME NEW a \in DOMAIN L PROVE of(applied[a]) = Chosen(order, K, a)
    OBVIOUS
  <2>1. \A r \in 1..K : list[r].manual = applied[a] <=> order[r][2] = a
    BY <1>2, <1>10
  <2>. QED BY <1>9, <2>1 DEF Chosen
<1>12. S \in SUBSET (Nat \X Nat) /\ \A s \in S : s[1] # 0 /\ \A p \in 1..s[1] : <<p, s[2]>> \in S
  <2>1. S \in SUBSET (Nat \X Nat)
    BY <1>5
  <2>2. ASSUME NEW s \in S PROVE s[1] # 0 /\ \A p \in 1..s[1] : <<p, s[2]>> \in S
    <3>. DEFINE a == s[2]
    <3>1. s[1] \in Nat /\ a \in Nat /\ a \in DOMAIN L /\ s[1] \in 1..Len(L[a]) /\ Len(L[a]) \in Nat
      BY <1>4, <1>5
    <3>. HIDE DEF a
    <3>2. ASSUME NEW p \in 1..s[1] PROVE <<p, a>> \in S
      <4>1. p \in Nat /\ p \in DOMAIN L[a]
        BY <1>4, <3>1
      <4>. QED BY <1>5, <3>1, <4>1
    <3>. QED BY <3>1, <3>2 DEF a
  <2>. QED BY <2>1, <2>2
<1>b. OrdersByPlace(order, S, n)
  BY <1>6, <1>12, Zenon DEF OrdersByPlace
<1>13. Cardinality(all) = n
  <2>. DEFINE h == [s \in S |-> <<applied[s[2]], s[1]>>]
  <2>1. \A s \in S : h[s] \in all
    <3>. SUFFICES ASSUME NEW s \in S PROVE <<applied[s[2]], s[1]>> \in all
      OBVIOUS
    <3>1. s[2] \in DOMAIN L /\ s[1] \in DOMAIN L[s[2]]
      BY <1>5
    <3>2. applied[s[2]] \in Range(gate.applied)
      BY <1>3, <3>1 DEF Range, applied
    <3>3. <<applied[s[2]], s[1]>> \in {applied[s[2]]} \X DOMAIN found[applied[s[2]]]
      BY <1>1, <3>1
    <3>. QED BY <3>2, <3>3
  <2>2. \A s, t \in S : h[s] = h[t] => s = t
    <3>. SUFFICES ASSUME NEW s \in S, NEW t \in S, h[s] = h[t] PROVE s = t
      OBVIOUS
    <3>1. applied[s[2]] = applied[t[2]] /\ s[1] = t[1]
      OBVIOUS
    <3>2. s[2] \in DOMAIN L /\ t[2] \in DOMAIN L /\ s \in Nat \X Nat /\ t \in Nat \X Nat
      BY <1>5
    <3>3. s[2] = t[2]
      BY <1>2, <3>1, <3>2
    <3>. HIDE DEF h
    <3>. QED BY <3>1, <3>2, <3>3
  <2>3. \A x \in all : \E s \in S : h[s] = x
    <3>. SUFFICES ASSUME NEW x \in all PROVE \E s \in S : h[s] = x
      OBVIOUS
    <3>1. PICK m \in Range(gate.applied) : x \in {m} \X DOMAIN found[m]
      OBVIOUS
    <3>2. PICK a \in DOMAIN applied : applied[a] = m
      BY DEF Range, applied
    <3>3. a \in DOMAIN L /\ L[a] = found[m] /\ x[2] \in DOMAIN L[a] /\ x = <<m, x[2]>>
      BY <1>1, <1>3, <3>1, <3>2
    <3>4. a \in Nat /\ x[2] \in Nat
      BY <1>1, <1>4, <3>3
    <3>. DEFINE s == <<x[2], a>>
    <3>5. s \in S
      BY <1>5, <3>3, <3>4
    <3>6. h[s] = x
      BY <3>2, <3>3, <3>5
    <3>. QED BY <3>5, <3>6
  <2>4. h \in Bijection(S, all)
    <3>. HIDE DEF all
    <3>. QED BY <2>1, <2>2, <2>3 DEF Bijection, Injection, Surjection, IsInjective
  <2>. HIDE DEF h, all
  <2>. QED BY <1>5, <2>4, FS_Bijection DEF n, ExistsBijection
<1>. HIDE DEF all, of
<1>14. ASSUME NEW m \in Range(gate.applied)
       PROVE  \E a \in DOMAIN L : applied[a] = m /\ L[a] = found[m]
  BY <1>1, <1>3 DEF Range, applied
<1>a. ASSUME NEW a
      PROVE  /\ Cardinality(Chosen(order, K, a)) \in Nat
             /\ \A r \in Chosen(order, K, a) : order[r][1] = Cardinality(ChosenUpTo(order, K, a, r))
  <2>1. TakesInTurn(order, K, a)
    BY <1>5, <1>8, <1>b, FairOrder
  <2>. QED BY <2>1 DEF TakesInTurn
<1>15. ASSUME NEW m \in Range(gate.applied), NEW r \in of(m)
       PROVE  list[r] = found[m][Cardinality({q \in of(m) : q <= r})]
  <2>1. PICK a \in DOMAIN L : applied[a] = m /\ L[a] = found[m]
    BY <1>14
  <2>2. of(m) = Chosen(order, K, a)
    BY <1>11, <2>1
  <2>3. order[r][1] = Cardinality({q \in of(m) : q <= r})
    BY <1>a, <2>2 DEF ChosenUpTo
  <2>4. r \in 1..K /\ order[r][2] = a
    BY <2>2 DEF Chosen
  <2>. QED BY <1>10, <2>1, <2>3, <2>4
<1>16. ASSUME NEW m \in Range(gate.applied), Cardinality(of(m)) < Len(found[m]),
              NEW other \in Range(gate.applied)
       PROVE  Cardinality(of(other)) <= Cardinality(of(m)) + 1
  <2>1. PICK a \in DOMAIN L : applied[a] = m /\ L[a] = found[m]
    BY <1>14
  <2>2. PICK b \in DOMAIN L : applied[b] = other
    BY <1>14
  <2>3. of(m) = Chosen(order, K, a) /\ of(other) = Chosen(order, K, b)
    BY <1>11, <2>1, <2>2
  <2>4. Cardinality(of(m)) \in Nat
    BY <1>a, <2>3
  <2>5. <<Cardinality(of(m)) + 1, a>> \in S
    <3>1. Cardinality(of(m)) + 1 \in DOMAIN L[a] /\ a \in Nat
      BY <1>1, <1>4, <1>16, <2>1, <2>4
    <3>. QED BY <1>5, <2>4, <3>1
  <2>. QED BY <1>5, <1>8, <1>b, <2>3, <2>5, FairShares
<1>. QED BY <1>9, <1>13, <1>15, <1>16 DEF K

-----------------------------------------------------------------------------
(* The parse, and what is read of it. *)

(* What the assumption says of the constants. *)
LEMMA ConstantsAre ==
  /\ N \in Nat \ {0} /\ Concurrency \in Nat \ {0} /\ MaxQuestions \in Nat \ {0}
  /\ MaxManuals \in Nat /\ MaxRetries \in Nat /\ Rebuilds \in Nat
  /\ 1 \in Manuals /\ Manuals \subseteq Nat
  /\ IsFiniteSet(Asked.tokens) /\ IsFiniteSet(Rewritten.tokens)
  /\ \A o \in Options : o.manuals \in 1..N /\ o.topK \in Nat \ {0} /\ o.tokens \in Nat \cup {NoLimit}
BY RetrievalAssumption DEF Manuals

(* A step of a question, or the worker's next question. *)
Step == [Next \/ Ask]_vars

(* At first every manual has been parsed once. *)
LEMMA ParseInit ==
  ASSUME Init
  PROVE  ParseInv
<1>1. version \in [Manuals -> Versions] /\ builds = 0 /\ job = "idle"
      /\ \A m \in Manuals : version[m].rev = 1 /\ version[m].shape = 1 /\ version[m].rows \in {0, 1}
  BY DEF Init, Versions, NoShape
<1>2. \A m : Newest(m, 0) = 1
  BY DEF Newest
<1>3. Rebuilds \in Nat /\ 1 \in Manuals
  BY ConstantsAre
<1>4. \A m \in Manuals : /\ version[m].rev \in 1..Newest(m, builds) /\ version[m].shape \in 1..Newest(m, builds)
                         /\ version[m].rows \in 0..Newest(m, builds)
  BY <1>1, <1>2
<1>. QED BY <1>1, <1>3, <1>4 DEF ParseInv

(* Only the parse of manual 1 changes a version, and a structure that is   *)
(* not yet written is not yet numbered.                                    *)
LEMMA ParseStep ==
  ASSUME ParseInv, Step
  PROVE  ParseInv'
<1>. USE ConstantsAre
<1>0. /\ version \in [Manuals -> Versions] /\ version[1] \in Versions /\ builds \in Nat
      /\ version[1].rev \in 1..(builds + 1) /\ version[1].shape \in 1..(builds + 1)
      /\ version[1].rows \in 0..(builds + 1)
      /\ \A m \in Manuals \ {1} : version[m].rev \in 1..1 /\ version[m].shape \in 1..1 /\ version[m].rows \in 0..1
  BY DEF ParseInv, Newest
<1>b. version[1] = [rev |-> version[1].rev, status |-> version[1].status, shape |-> version[1].shape,
                    rows |-> version[1].rows, path |-> version[1].path]
      /\ version[1].status \in {"index_ready", "parsing", "failed"} /\ version[1].path \in BOOLEAN
      /\ version[1].rev \in Nat /\ version[1].shape \in Nat /\ version[1].rows \in Nat
  BY <1>0 DEF Versions
<1>. DEFINE Fits(v, top) == v \in Versions /\ v.rev \in 1..top /\ v.shape \in 1..top /\ v.rows \in 0..top
<1>a. ASSUME NEW v, Fits(v, builds' + 1), version' = [version EXCEPT ![1] = v],
             job' \in {"idle", "started", "written", "ready", "persisted"}, builds' \in 0..Rebuilds,
             job' = "started" => v.shape <= builds'
      PROVE  ParseInv'
  <2>1. version'[1] = v /\ \A m \in Manuals \ {1} : version'[m] = version[m]
    BY <1>a, <1>0
  <2>2. version' \in [Manuals -> Versions]
    BY <1>a, <1>0
  <2>3. ASSUME NEW m \in Manuals
        PROVE  /\ version'[m].rev \in 1..Newest(m, builds') /\ version'[m].shape \in 1..Newest(m, builds')
               /\ version'[m].rows \in 0..Newest(m, builds')
    <3>1. CASE m = 1
      BY <1>a, <2>1, <3>1 DEF Newest
    <3>2. CASE m # 1
      BY <1>0, <2>1, <3>2 DEF Newest
    <3>. QED BY <3>1, <3>2
  <2>. QED BY <1>a, <2>1, <2>2, <2>3 DEF ParseInv
<1>1. CASE UNCHANGED parseVars
  BY <1>1 DEF parseVars, ParseInv, Newest
<1>2. CASE StartParse
  <2>. DEFINE v == Restarted(version[1])
  <2>1. version' = [version EXCEPT ![1] = v] /\ job' = "started" /\ builds' = builds + 1 /\ builds < Rebuilds
    BY <1>2 DEF StartParse
  <2>2. v \in Versions /\ v.rev \in 1..(builds + 2) /\ v.shape = version[1].shape /\ v.rows = version[1].rows
    BY <1>0, <1>b DEF Versions, Restarted
  <2>. HIDE DEF v
  <2>3. Fits(v, builds' + 1) /\ builds' \in 0..Rebuilds /\ v.shape <= builds'
    BY <1>0, <2>1, <2>2
  <2>. HIDE DEF Fits
  <2>. QED BY <1>a, <2>1, <2>3
<1>3. CASE WriteStructure
  <2>0. job = "started" /\ builds' = builds /\ builds \in 0..Rebuilds /\ version[1].shape <= builds
    BY <1>3 DEF WriteStructure, ParseInv
  <2>1. CASE version' = [version EXCEPT ![1].shape = @ + 1] /\ job' = "written"
    <3>. DEFINE v == [version[1] EXCEPT !.shape = @ + 1]
    <3>1. version' = [version EXCEPT ![1] = v]
      BY <2>1
    <3>2. v \in Versions /\ v.rev = version[1].rev /\ v.shape = version[1].shape + 1 /\ v.rows = version[1].rows
      BY <1>0, <1>b DEF Versions
    <3>. HIDE DEF v
    <3>3. Fits(v, builds' + 1)
      BY <1>0, <2>0, <3>2
    <3>. HIDE DEF Fits
    <3>. QED BY <1>a, <2>0, <2>1, <3>1, <3>3
  <2>2. CASE version' = [version EXCEPT ![1].status = "failed"] /\ job' = "idle"
    <3>. DEFINE v == [version[1] EXCEPT !.status = "failed"]
    <3>1. version' = [version EXCEPT ![1] = v]
      BY <2>2
    <3>2. v \in Versions /\ v.rev = version[1].rev /\ v.shape = version[1].shape /\ v.rows = version[1].rows
      BY <1>0, <1>b DEF Versions
    <3>. HIDE DEF v
    <3>3. Fits(v, builds' + 1)
      BY <1>0, <2>0, <3>2
    <3>. HIDE DEF Fits
    <3>. QED BY <1>a, <2>0, <2>2, <3>1, <3>3
  <2>. QED BY <1>3, <2>1, <2>2 DEF WriteStructure
<1>4. CASE CommitStructure
  <2>. DEFINE v == [version[1] EXCEPT !.status = "index_ready"]
  <2>1. version' = [version EXCEPT ![1] = v] /\ job' = "ready" /\ builds' = builds /\ builds \in 0..Rebuilds
    BY <1>4 DEF CommitStructure, ParseInv
  <2>2. v \in Versions /\ v.rev = version[1].rev /\ v.shape = version[1].shape /\ v.rows = version[1].rows
    BY <1>0, <1>b DEF Versions
  <2>. HIDE DEF v
  <2>3. Fits(v, builds' + 1)
    BY <1>0, <2>1, <2>2
  <2>. HIDE DEF Fits
  <2>. QED BY <1>a, <2>1, <2>3
<1>5. CASE PersistRouting
  <2>0. builds' = builds /\ builds \in 0..Rebuilds
    BY <1>5 DEF PersistRouting, ParseInv
  <2>1. CASE version' = [version EXCEPT ![1].rows = version[1].shape, ![1].path = TRUE] /\ job' = "persisted"
    <3>. DEFINE v == [version[1] EXCEPT !.rows = version[1].shape, !.path = TRUE]
    <3>1. version' = [version EXCEPT ![1] = v]
      BY <1>0, <2>1
    <3>2. v \in Versions /\ v.rev = version[1].rev /\ v.shape = version[1].shape /\ v.rows = version[1].shape
      BY <1>0, <1>b DEF Versions
    <3>. HIDE DEF v
    <3>3. Fits(v, builds' + 1)
      BY <1>0, <2>0, <3>2
    <3>. HIDE DEF Fits
    <3>. QED BY <1>a, <2>0, <2>1, <3>1, <3>3
  <2>2. CASE job' = "idle" /\ UNCHANGED version
    BY <2>0, <2>2 DEF ParseInv, Newest
  <2>. QED BY <1>5, <2>1, <2>2 DEF PersistRouting
<1>6. CASE SyncTexts
  BY <1>6 DEF SyncTexts, ParseInv, Newest
<1>. QED
  <2>1. CASE Work \/ AnswerPart \/ Ask \/ UNCHANGED vars
    <3>1. UNCHANGED parseVars
      BY <2>1 DEF Work, AnswerPart, Ask, vars, RewriteQuery, ResolveManuals, ManualGateStep, Gather, MergeCandidates,
           RerankCandidates, FastSearch, ContextStep, SearchAgain, Proceed, AnswerEnds, AnswerFails, Begin, Finish, Fail
    <3>. QED BY <1>1, <3>1
  <2>. QED BY <1>2, <1>3, <1>4, <1>5, <1>6, <2>1 DEF Step, Next, Parse

(* Shapes and revisions only grow. *)
LEMMA NewestGrows ==
  ASSUME ParseInv, ParseInv', Step
  PROVE  /\ builds \in Nat /\ builds' \in Nat /\ builds <= builds'
         /\ \A m : Newest(m, builds) \in Nat /\ Newest(m, builds') \in Nat /\ Newest(m, builds) <= Newest(m, builds')
<1>1. builds \in Nat /\ builds' \in Nat
  BY DEF ParseInv
<1>2. builds' = builds \/ builds' = builds + 1
  BY DEF Step, Next, Work, Parse, AnswerPart, Ask, vars, parseVars, RewriteQuery, ResolveManuals, ManualGateStep, Gather,
       MergeCandidates, RerankCandidates, FastSearch, ContextStep, SearchAgain, Proceed, AnswerEnds, AnswerFails, Begin,
       Finish, Fail, StartParse, WriteStructure, CommitStructure, PersistRouting, SyncTexts
<1>3. builds <= builds'
  BY <1>1, <1>2
<1>4. \A a, b \in Nat : a <= b => \A m : Newest(m, a) \in Nat /\ Newest(m, b) \in Nat /\ Newest(m, a) <= Newest(m, b)
  BY DEF Newest
<1>. QED BY <1>1, <1>3, <1>4

(* A shape a manual can have by now has a structure. *)
LEMMA SectionsAre ==
  ASSUME ParseInv, NEW m \in Manuals, NEW shape \in 1..Newest(m, builds)
  PROVE  IsForest(Sections(m, shape))
<1>1. shape \in 1..(Rebuilds + 1) /\ (m = 1 \/ shape = 1)
  BY ConstantsAre DEF ParseInv, Newest
<1>. QED BY <1>1, RetrievalAssumption DEF Sections, IsForest, Manuals

(* A structure read, from the file or the reuse cache, is one that was     *)
(* written.                                                                *)
LEMMA StructureIs ==
  ASSUME ParseInv, CacheInv, NEW m \in Manuals
  PROVE  Structure(m) \in 1..Newest(m, builds)
BY DEF ParseInv, CacheInv, Structure, NoShape, Newest

(* What the gate is told of a manual are lists of nodes. *)
LEMMA RefIs ==
  ASSUME ParseInv, CacheInv, option \in Options, NEW m \in Targets, NEW unreadable
  PROVE  IsRef(Ref(m, unreadable))
<1>1. m \in Manuals
  BY ConstantsAre DEF Targets, Manuals
<1>2. IsForest(Sections(m, Structure(m)))
  BY <1>1, StructureIs, SectionsAre
<1>3. IsNodes(<<>>)
  <2>1. IsSequence(<<>>)
    BY DEF IsSequence, Range
  <2>. QED BY <2>1 DEF IsNodes
<1>4. m \notin Bare => IsNodes(Nodes(m, version[m].rows))
  <2>. SUFFICES ASSUME m \notin Bare PROVE IsNodes(Nodes(m, version[m].rows))
    OBVIOUS
  <2>1. version[m].rows \in 1..Newest(m, builds)
    BY <1>1 DEF Bare, ParseInv, NoShape, Newest
  <2>. QED BY <1>1, <2>1, SectionsAre, ForestNodes DEF Nodes
<1>. QED BY <1>2, <1>3, <1>4 DEF Ref, IsRef

-----------------------------------------------------------------------------
(* The steps, part by part of the invariant. *)

(* At first nothing is kept. *)
LEMMA CacheInit ==
  ASSUME Init
  PROVE  CacheInv
BY DEF Init, CacheInv, NoShape, Newest

(* The reuse cache keeps outlines that were written. *)
LEMMA CacheStep ==
  ASSUME ParseInv, CacheInv, TaskInv, ParseInv', Step
  PROVE  CacheInv'
<1>0. /\ \A m \in Manuals : Structure(m) \in Nat /\ Structure(m) \in 0..Newest(m, builds)
      /\ \A m : Newest(m, builds) \in Nat /\ Newest(m, builds') \in Nat /\ Newest(m, builds) <= Newest(m, builds')
  <2>1. \A m : Newest(m, builds) \in Nat /\ Newest(m, builds') \in Nat /\ Newest(m, builds) <= Newest(m, builds')
    BY NewestGrows
  <2>2. \A m \in Manuals : Structure(m) \in 1..Newest(m, builds)
    BY StructureIs
  <2>. QED BY <2>1, <2>2
<1>1. CASE UNCHANGED cache
  <2>1. ASSUME NEW m \in Manuals PROVE cache.held[m] \in 0..Newest(m, builds')
    <3>1. cache.held[m] \in 0..Newest(m, builds)
      BY DEF CacheInv
    <3>. QED BY <1>0, <3>1
  <2>. QED BY <1>1, <2>1 DEF CacheInv
<1>2. ASSUME NEW read, UNCHANGED parseVars, Remember(read) PROVE CacheInv'
  <2>1. builds' = builds
    BY <1>2 DEF parseVars
  <2>2. cache' = [open |-> cache.open \/ Bare # {},
                  held |-> [m \in Manuals |-> IF m \in read THEN Structure(m) ELSE cache.held[m]]]
    BY <1>2 DEF Remember
  <2>3. cache.open \in BOOLEAN /\ \A m \in Manuals : cache.held[m] \in Nat /\ cache.held[m] \in 0..Newest(m, builds)
    BY DEF CacheInv
  <2>4. cache'.open \in BOOLEAN
    BY <2>2, <2>3
  <2>5. cache'.held \in [Manuals -> Nat] /\ \A m \in Manuals : cache'.held[m] \in 0..Newest(m, builds)
    BY <1>0, <2>2, <2>3
  <2>6. cache' \in [open : BOOLEAN, held : [Manuals -> Nat]]
    <3>. DEFINE o == cache.open \/ Bare # {}
                h == [m \in Manuals |-> IF m \in read THEN Structure(m) ELSE cache.held[m]]
    <3>1. o \in BOOLEAN /\ h \in [Manuals -> Nat] /\ cache' = [open |-> o, held |-> h]
      BY <1>0, <2>2, <2>3
    <3>. HIDE DEF o, h
    <3>. QED BY <3>1
  <2>. QED BY <2>1, <2>5, <2>6 DEF CacheInv
<1>3. ASSUME NEW m \in Manuals, Begin(m) PROVE CacheInv'
  <2>0. task[m].shape \in Nat /\ task[m].shape \in 0..Newest(m, builds) /\ task \in [Manuals -> Searches]
    BY DEF TaskInv, Searches
  <2>1. Started(m).shape \in Nat /\ Started(m).shape \in 0..Newest(m, builds)
    BY <1>0, <2>0 DEF Started, Searches
  <2>. DEFINE s == Started(m).shape
  <2>2. builds' = builds /\ cache' = IF cache.open THEN [cache EXCEPT !.held[m] = s] ELSE cache
    BY <1>3 DEF Begin, parseVars
  <2>. HIDE DEF s
  <2>3. s \in Nat /\ s \in 0..Newest(m, builds)
    BY <2>1 DEF s
  <2>4. CASE cache.open
    <3>. DEFINE h == [cache.held EXCEPT ![m] = s]
    <3>0. cache \in [open : BOOLEAN, held : [Manuals -> Nat]] /\ \A n \in Manuals : cache.held[n] \in 0..Newest(n, builds)
      BY DEF CacheInv
    <3>1. h \in [Manuals -> Nat] /\ \A n \in Manuals : h[n] \in 0..Newest(n, builds)
      BY <2>3, <3>0
    <3>2. cache' = [cache EXCEPT !.held = h]
      BY <2>2, <2>4
    <3>. HIDE DEF h
    <3>3. cache' \in [open : BOOLEAN, held : [Manuals -> Nat]] /\ cache'.held = h
      BY <3>0, <3>1, <3>2
    <3>. QED BY <2>2, <3>1, <3>3 DEF CacheInv
  <2>5. CASE ~cache.open
    BY <2>2, <2>5, <1>1
  <2>. QED BY <2>4, <2>5
<1>4. CASE ContextStep
  BY <1>4 DEF ContextStep, parseVars, CacheInv
<1>. QED
  <2>1. CASE ManualGateStep
    <3>1. UNCHANGED parseVars /\ (UNCHANGED cache \/ \E read : Remember(read))
      BY <2>1, Zenon DEF ManualGateStep
    <3>. QED BY <1>1, <1>2, <3>1, Zenon
  <2>4. CASE FastSearch
    <3>1. UNCHANGED parseVars /\ Remember(Bare)
      BY <2>4, Zenon DEF FastSearch
    <3>. QED BY <1>2, <3>1, Zenon
  <2>2. CASE \E m \in Manuals : Begin(m)
    BY <1>3, <2>2
  <2>3. CASE ~(ManualGateStep \/ FastSearch \/ ContextStep) /\ ~\E m \in Manuals : Begin(m)
    <3>1. UNCHANGED cache
      BY <2>3 DEF Step, Next, Work, Parse, vars, AnswerPart, Ask, RewriteQuery, ResolveManuals, Gather, MergeCandidates,
           RerankCandidates, SearchAgain, Proceed, AnswerEnds, AnswerFails, Finish, Fail,
           StartParse, WriteStructure, CommitStructure, PersistRouting, SyncTexts
    <3>. QED BY <1>1, <3>1
  <2>. QED BY <1>4, <2>1, <2>2, <2>3, <2>4

(* A second attempt at the answer is only made when nothing of the first   *)
(* was sent.                                                               *)
LEMMA AnswerStep ==
  ASSUME AnswerInv, Step
  PROVE  AnswerInv'
<1>1. CASE AnswerPart
  BY <1>1 DEF AnswerPart, AnswerInv
<1>2. CASE AnswerFails
  <2>1. CASE answer.heard # {} \/ answer.tries >= 2
    BY <1>2, <2>1 DEF AnswerFails, AnswerInv
  <2>2. CASE ~(answer.heard # {} \/ answer.tries >= 2)
    BY <1>2, <2>2 DEF AnswerFails, AnswerInv
  <2>. QED BY <2>1, <2>2
<1>3. CASE Ask
  BY <1>3 DEF Ask, AnswerInv
<1>4. CASE UNCHANGED answer
  BY <1>4 DEF AnswerInv
<1>. QED
  BY <1>1, <1>2, <1>3, <1>4 DEF Step, Next, Work, Parse, vars, questionVars, RewriteQuery, ResolveManuals, ManualGateStep, Gather,
    MergeCandidates, RerankCandidates, FastSearch, ContextStep, SearchAgain, Proceed, AnswerEnds, Begin, Finish, Fail,
    StartParse, WriteStructure, CommitStructure, PersistRouting, SyncTexts

(* The run goes from stage to stage, with the options it was asked with. *)
LEMMA AskStep ==
  ASSUME AskInv, Step
  PROVE  AskInv'
<1>. USE ConstantsAre
<1>1. CASE RewriteQuery
  BY <1>1 DEF RewriteQuery, AskInv, End, Stages, Ended
<1>2. CASE ResolveManuals
  BY <1>2 DEF ResolveManuals, AskInv, End, Stages, Ended
<1>3. CASE ManualGateStep \/ SearchAgain
  BY <1>3 DEF ManualGateStep, SearchAgain, StartAttempt, AskInv, Stages, Ended
<1>4. CASE Gather
  BY <1>4 DEF Gather, AskInv, Stages, Ended
<1>5. CASE MergeCandidates
  BY <1>5 DEF MergeCandidates, AskInv, Stages, Ended
<1>6. CASE RerankCandidates
  BY <1>6 DEF RerankCandidates, AskInv, Stages, Ended
<1>7. CASE FastSearch
  <2>1. pc' \in {"failed", "context"}
    BY <1>7 DEF FastSearch, End
  <2>. QED BY <1>7, <2>1 DEF FastSearch, AskInv, Stages, Ended
<1>8. CASE ContextStep
  BY <1>8 DEF ContextStep, AskInv, Stages, Ended
<1>9. CASE Proceed
  BY <1>9 DEF Proceed, AskInv, Stages, Ended
<1>10. CASE AnswerEnds
  BY <1>10 DEF AnswerEnds, AskInv, End, Stages, Ended
<1>11. CASE AnswerFails
  BY <1>11 DEF AnswerFails, AskInv, End, Stages, Ended
<1>12. CASE Ask
  BY <1>12 DEF Ask, AskInv, Stages, Ended
<1>13. CASE UNCHANGED <<pc, option, query, asked, attempt, tries>>
  BY <1>13 DEF AskInv
<1>. QED
  BY <1>1, <1>2, <1>3, <1>4, <1>5, <1>6, <1>7, <1>8, <1>9, <1>10, <1>11, <1>12, <1>13
     DEF Step, Next, Work, Parse, vars, questionVars, AnswerPart, Begin, Finish, Fail,
    StartParse, WriteStructure, CommitStructure, PersistRouting, SyncTexts

(* The revisions resolved for a question stay while it is answered. *)
LEMMA ResolvedStep ==
  ASSUME ParseInv, AskInv, ResolvedInv, Step
  PROVE  ResolvedInv'
<1>1. CASE RewriteQuery
  BY <1>1 DEF RewriteQuery, ResolvedInv, Targets, End
<1>2. CASE ResolveManuals
  <2>1. CASE option.manuals <= MaxManuals /\ \A m \in Targets : Queryable(m)
    <3>1. /\ resolved' = [m \in Targets |-> [rev |-> version[m].rev, shape |-> version[m].shape, path |-> version[m].path]]
          /\ pc = "resolve" /\ option' = option /\ context' = context /\ pc' \in {"search", "gate"}
      BY <1>2, <2>1 DEF ResolveManuals
    <3>2. \A m \in Targets : version[m].rev \in Nat \ {0}
      <4>1. Targets \subseteq Manuals
        BY ConstantsAre DEF Targets, Manuals, AskInv
      <4>. QED BY <4>1 DEF ParseInv, Newest
    <3>3. Targets' = Targets
      BY <3>1 DEF Targets
    <3>4. DOMAIN resolved' = Targets /\ \A m \in Targets : resolved'[m].rev \in Nat \ {0}
      BY <3>1, <3>2
    <3>. HIDE DEF Targets
    <3>. QED BY <3>1, <3>3, <3>4 DEF ResolvedInv
  <2>2. CASE ~(option.manuals <= MaxManuals /\ \A m \in Targets : Queryable(m))
    BY <1>2, <2>2 DEF ResolveManuals, End, ResolvedInv, Targets
  <2>. QED BY <2>1, <2>2
<1>3. CASE Ask
  <2>1. resolved' = [m \in {} |-> Absent] /\ pc' = "rewrite" /\ context' = <<>>
    BY <1>3 DEF Ask
  <2>. QED BY <2>1 DEF ResolvedInv
<1>4. CASE UNCHANGED <<option, resolved>> /\ (pc' \in {"rewrite", "resolve"} => pc' = pc /\ context' = context)
           /\ (pc \in {"rewrite", "resolve", "failed"} => pc' = pc)
  BY <1>4 DEF ResolvedInv, Targets
<1>. QED
  <2>1. CASE ManualGateStep \/ SearchAgain \/ Gather \/ MergeCandidates \/ RerankCandidates \/ ContextStep
    BY <1>4, <2>1 DEF ManualGateStep, SearchAgain, StartAttempt, Gather, MergeCandidates, RerankCandidates, ContextStep
  <2>2. CASE FastSearch
    <3>1. pc' \in {"failed", "context"}
      BY <2>2 DEF FastSearch, End
    <3>. QED BY <1>4, <2>2, <3>1 DEF FastSearch
  <2>3. CASE Proceed \/ AnswerEnds \/ AnswerFails \/ AnswerPart
    BY <1>4, <2>3 DEF Proceed, AnswerEnds, AnswerFails, AnswerPart, End
  <2>4. CASE \/ \E m \in Manuals : Begin(m) \/ Finish(m) \/ Fail(m)
             \/ Parse
             \/ UNCHANGED vars
    <3>1. UNCHANGED <<pc, option, resolved, context>>
      BY <2>4 DEF Begin, Finish, Fail, Parse, vars, questionVars, StartParse, WriteStructure, CommitStructure, PersistRouting, SyncTexts
    <3>. QED BY <1>4, <3>1
  <2>. QED BY <1>1, <1>2, <1>3, <2>1, <2>2, <2>3, <2>4 DEF Step, Next, Work

(* Before the gate nothing is applied. *)
LEMMA NoGateIs ==
  /\ \A n : IsChoice(NoGate.applied, n) /\ NoGate.predicted \in Seq(1..n)
  /\ Range(NoGate.applied) = {}
  /\ DOMAIN NoGate = {"effective", "decision", "selection", "predicted", "applied", "reason"}
<1>1. NoGate.applied = AllManuals(0) /\ NoGate.predicted = AllManuals(0)
      /\ DOMAIN NoGate = {"effective", "decision", "selection", "predicted", "applied", "reason"}
  BY DEF GateError, NoGate
<1>2. AllManuals(0) = <<>>
  BY DEF AllManuals
<1>3. \A n : IsChoice(<<>>, n) /\ <<>> \in Seq(1..n)
  BY DEF IsChoice
<1>4. Range(<<>>) = {}
  BY DEF Range
<1>. QED BY <1>1, <1>2, <1>3, <1>4

(* At first no manual is applied. *)
LEMMA GateInit ==
  ASSUME Init
  PROVE  GateInv
<1>1. gate = NoGate
  BY DEF Init
<1>. QED BY <1>1, NoGateIs DEF GateInv, Targets

(* What the gate applies at the first attempt. *)
LEMMA GateOf ==
  ASSUME ParseInv, CacheInv, AskInv, ManualGateStep
  PROVE  /\ DOMAIN gate' = {"effective", "decision", "selection", "predicted", "applied", "reason"}
         /\ IsChoice(gate'.applied, option.manuals)
         /\ gate'.predicted \in Seq(Targets)
         /\ Range(gate'.applied) = Targets \/ Pruned(gate', option.manuals)
<1>. DEFINE n == option.manuals
<1>1. option \in Options /\ n \in 1..N /\ n \in Nat /\ n > 0 /\ IsFiniteSet(query.tokens)
  BY ConstantsAre DEF AskInv
<1>2. CASE gate' = GateError(n)
  <2>1. gate'.applied = AllManuals(n) /\ gate'.predicted = AllManuals(n)
        /\ DOMAIN gate' = {"effective", "decision", "selection", "predicted", "applied", "reason"}
    BY <1>2 DEF GateError
  <2>2. IsChoice(AllManuals(n), n) /\ Range(AllManuals(n)) = 1..n
    BY <1>1, AllAreChosen
  <2>. QED BY <2>1, <2>2 DEF Targets, IsChoice
<1>3. ASSUME NEW unreadable,
             gate' = RunGate(query, [m \in Targets |-> Ref(m, unreadable)], option.gate, "off", option.live)
      PROVE  /\ DOMAIN gate' = {"effective", "decision", "selection", "predicted", "applied", "reason"}
             /\ IsChoice(gate'.applied, option.manuals)
             /\ gate'.predicted \in Seq(Targets)
             /\ Range(gate'.applied) = Targets \/ Pruned(gate', option.manuals)
  <2>. DEFINE refs == [m \in Targets |-> Ref(m, unreadable)]
              g == RunGate(query, refs, option.gate, "off", option.live)
  <2>1. DOMAIN refs = 1..n /\ \A i \in 1..n : IsRef(refs[i])
    BY <1>1, RefIs DEF Targets
  <2>2. Len(refs) = n
    BY <1>1 DEF Targets
  <2>3. DOMAIN g = {"effective", "decision", "selection", "predicted", "applied", "reason"}
    BY DEF RunGate
  <2>4. gate' = g
    BY <1>3
  <2>. HIDE DEF refs
  <2>5. IsChoice(g.applied, n) /\ g.predicted \in Seq(1..n) /\ (Range(g.applied) = 1..n \/ Pruned(g, n))
    <3>. HIDE DEF n
    <3>. QED BY <1>1, <2>1, <2>2, GateChooses, Zenon
  <2>. HIDE DEF g
  <2>. QED BY <2>3, <2>4, <2>5 DEF Targets
<1>. QED BY <1>2, <1>3 DEF ManualGateStep

(* The second attempt searches all the manuals. *)
LEMMA GateOfRetry ==
  ASSUME GateInv, AskInv, SearchAgain
  PROVE  /\ DOMAIN gate' = {"effective", "decision", "selection", "predicted", "applied", "reason"}
         /\ IsChoice(gate'.applied, option.manuals)
         /\ gate'.predicted \in Seq(Targets)
         /\ Range(gate'.applied) = Targets
<1>1. option.manuals \in Nat
  BY ConstantsAre DEF AskInv
<1>2. gate' = FullRetry(gate, option.manuals, RetryReason)
      /\ DOMAIN gate = {"effective", "decision", "selection", "predicted", "applied", "reason"}
  BY DEF SearchAgain, GateInv
<1>3. gate'.applied = AllManuals(option.manuals)
  BY <1>2 DEF FullRetry
<1>4. gate'.predicted = gate.predicted
  BY <1>2 DEF FullRetry
<1>5. DOMAIN gate' = {"effective", "decision", "selection", "predicted", "applied", "reason"}
  BY <1>2 DEF FullRetry
<1>6. IsChoice(AllManuals(option.manuals), option.manuals) /\ Range(AllManuals(option.manuals)) = 1..option.manuals
  BY <1>1, AllAreChosen
<1>. QED BY <1>3, <1>4, <1>5, <1>6 DEF GateInv, Targets

(* What is applied are manuals asked for, none twice. *)
LEMMA GateStep ==
  ASSUME ParseInv, CacheInv, AskInv, GateInv, Step
  PROVE  GateInv'
<1>1. CASE ManualGateStep \/ SearchAgain
  <2>1. option' = option
    BY <1>1 DEF ManualGateStep, SearchAgain
  <2>2. /\ DOMAIN gate' = {"effective", "decision", "selection", "predicted", "applied", "reason"}
        /\ IsChoice(gate'.applied, option.manuals)
        /\ gate'.predicted \in Seq(Targets)
    BY <1>1, GateOf, GateOfRetry
  <2>. QED BY <2>1, <2>2 DEF GateInv, Targets, IsChoice
<1>2. CASE Ask
  <2>1. gate' = NoGate
    BY <1>2 DEF Ask
  <2>. QED BY <2>1, NoGateIs DEF GateInv, Targets, IsChoice
<1>3. CASE UNCHANGED <<gate, option>>
  BY <1>3 DEF GateInv, Targets, IsChoice
<1>. QED
  BY <1>1, <1>2, <1>3 DEF Step, Next, Work, Parse, vars, questionVars, AnswerPart, RewriteQuery, ResolveManuals, Gather,
    MergeCandidates, RerankCandidates, FastSearch, ContextStep, Proceed, AnswerEnds, AnswerFails, Begin, Finish, Fail,
    StartParse, WriteStructure, CommitStructure, PersistRouting, SyncTexts

(* Only manuals that were applied are searched, and a run that is past     *)
(* its searches without a failure has none at work: gather waits for all.  *)
LEMMA TaskStep ==
  ASSUME ParseInv, CacheInv, TaskInv, AskInv, ParseInv', Step
  PROVE  TaskInv'
<1>. DEFINE Fits(t, m) == /\ t \in Searches
                          /\ t.shape \in 0..Newest(m, builds)
                          /\ t.at = "run" => t.shape # NoShape
                          /\ t.tries \in 0..(MaxRetries + 1)
                          /\ t.at # "dead" => t.tries <= MaxRetries
<1>0. /\ \A m \in Manuals : /\ task[m] = [at |-> task[m].at, tries |-> task[m].tries, shape |-> task[m].shape]
                            /\ Fits(task[m], m)
      /\ task \in [Manuals -> Searches]
      /\ MaxRetries \in Nat
  BY ConstantsAre DEF TaskInv, Searches
<1>n. \A m : Newest(m, builds) \in Nat /\ Newest(m, builds') \in Nat /\ Newest(m, builds) <= Newest(m, builds')
  BY NewestGrows
<1>a. ASSUME task' \in [Manuals -> Searches], \A m \in Manuals : Fits(task'[m], m),
             \A m \in Manuals : task'[m].at # "none" => m \in Range(gate'.applied),
             pc' \notin {"retrieve", "failed"} => \A m \in Manuals : task'[m].at \notin {"wait", "run"}
      PROVE  TaskInv'
  <2>1. \A m \in Manuals : task'[m].shape \in 0..Newest(m, builds')
    BY <1>a, <1>n
  <2>. QED BY <1>a, <2>1 DEF TaskInv
<1>b. Idle = [at |-> "none", tries |-> 0, shape |-> 0] /\ [Idle EXCEPT !.at = "wait"] = [at |-> "wait", tries |-> 0, shape |-> 0]
  BY DEF Idle, NoShape
<1>c. \A m : Fits(Idle, m) /\ Fits([Idle EXCEPT !.at = "wait"], m)
  <2>1. \A m : 0 \in 0..Newest(m, builds) /\ 0 \in 0..(MaxRetries + 1)
    BY <1>n, <1>0
  <2>. QED BY <1>0, <1>b, <2>1 DEF Searches
<1>1. ASSUME NEW which, NEW manuals, StartAttempt(which, manuals), gate'.applied = manuals PROVE TaskInv'
  <2>1. /\ task' = [m \in Manuals |-> IF m \in Range(manuals) THEN [Idle EXCEPT !.at = "wait"] ELSE Idle]
        /\ pc' = "retrieve"
    BY <1>1 DEF StartAttempt
  <2>2. \A m \in Manuals : Fits(task'[m], m)
    <3>. HIDE DEF Fits
    <3>. QED BY <1>c, <2>1
  <2>3. task' \in [Manuals -> Searches]
    BY <2>1, <2>2
  <2>4. \A m \in Manuals : task'[m].at # "none" => m \in Range(gate'.applied)
    BY <1>1, <1>b, <2>1
  <2>. HIDE DEF Fits
  <2>. QED BY <1>a, <2>1, <2>2, <2>3, <2>4
<1>2. ASSUME NEW m \in Manuals, NEW t, task' = [task EXCEPT ![m] = t], Fits(t, m), task[m].at # "none", pc' = pc, gate' = gate,
             task[m].at \in {"wait", "run"}
      PROVE  TaskInv'
  <2>0. pc \in {"retrieve", "failed"}
    BY <1>2 DEF TaskInv
  <2>1. task'[m] = t /\ \A n \in Manuals \ {m} : task'[n] = task[n]
    BY <1>0, <1>2
  <2>2. \A n \in Manuals : Fits(task'[n], n)
    <3>. HIDE DEF Fits
    <3>. QED BY <1>0, <1>2, <2>1
  <2>3. task' \in [Manuals -> Searches]
    BY <1>0, <1>2
  <2>4. \A n \in Manuals : task'[n].at # "none" => n \in Range(gate'.applied)
    BY <1>2, <2>1 DEF TaskInv
  <2>. HIDE DEF Fits
  <2>. QED BY <1>a, <1>2, <2>0, <2>2, <2>3, <2>4
<1>3. ASSUME NEW m \in Manuals, Begin(m) PROVE TaskInv'
  <2>. DEFINE shape == IF task[m].shape # NoShape THEN task[m].shape ELSE Structure(m)
  <2>1. task' = [task EXCEPT ![m] = Started(m)] /\ task[m].at = "wait" /\ pc' = pc /\ gate' = gate
    BY <1>3 DEF Begin, Ready
  <2>2. Structure(m) \in 1..Newest(m, builds)
    BY StructureIs
  <2>3. shape \in 1..Newest(m, builds)
    BY <1>0, <1>n, <2>2 DEF NoShape
  <2>4. Started(m) = [at |-> "run", tries |-> task[m].tries, shape |-> shape]
    <3>1. Started(m) = [task[m] EXCEPT !.at = "run", !.shape = shape]
      BY DEF Started
    <3>. HIDE DEF shape
    <3>. QED BY <1>0, <3>1
  <2>. HIDE DEF shape
  <2>5. Fits(Started(m), m)
    BY <1>0, <1>n, <2>1, <2>3, <2>4 DEF Searches, NoShape
  <2>. HIDE DEF Fits
  <2>. QED BY <1>2, <2>1, <2>5
<1>4. ASSUME NEW m \in Manuals, Finish(m) PROVE TaskInv'
  <2>1. task' = [task EXCEPT ![m].at = "done"] /\ task[m].at = "run" /\ pc' = pc /\ gate' = gate
    BY <1>4 DEF Finish
  <2>. DEFINE t == [task[m] EXCEPT !.at = "done"]
  <2>2. Fits(t, m)
    BY <1>0, <2>1 DEF Searches
  <2>3. task' = [task EXCEPT ![m] = t]
    BY <2>1
  <2>. HIDE DEF Fits, t
  <2>. QED BY <1>2, <2>1, <2>2, <2>3
<1>5. ASSUME NEW m \in Manuals, Fail(m) PROVE TaskInv'
  <2>1. task' = [task EXCEPT ![m] = Again(task[m])] /\ task[m].at = "run" /\ pc' = pc /\ gate' = gate
    BY <1>5 DEF Fail
  <2>2. Again(task[m]) = [at |-> IF task[m].tries >= MaxRetries THEN "dead" ELSE "wait",
                          tries |-> task[m].tries + 1, shape |-> task[m].shape]
    <3>. DEFINE t == task[m]
                at == IF t.tries >= MaxRetries THEN "dead" ELSE "wait"
                count == t.tries + 1
    <3>1. t = [at |-> t.at, tries |-> t.tries, shape |-> t.shape]
      BY <1>0
    <3>2. Again(t) = [t EXCEPT !.at = at, !.tries = count]
      BY DEF Again, Exhausted
    <3>. HIDE DEF t, at, count
    <3>3. Again(t) = [at |-> at, tries |-> count, shape |-> t.shape]
      BY <3>1, <3>2
    <3>. QED BY <3>3 DEF t, at, count
  <2>3. task[m].tries \in 0..MaxRetries
    BY <1>0, <2>1
  <2>4. Fits(Again(task[m]), m)
    BY <1>0, <2>1, <2>2, <2>3 DEF Searches, NoShape
  <2>. HIDE DEF Fits
  <2>. QED BY <1>2, <2>1, <2>4
<1>6. CASE Gather
  <2>1. /\ UNCHANGED <<task, gate>>
        /\ pc' = IF GaveUp # {} THEN "failed" ELSE "rerank"
        /\ GaveUp # {} \/ \A m \in Range(gate.applied) : task[m].at = "done"
    BY <1>6 DEF Gather, Gathered
  <2>2. pc' \notin {"retrieve", "failed"} => \A m \in Manuals : task[m].at \notin {"wait", "run"}
    <3>. SUFFICES ASSUME GaveUp = {}, NEW m \in Manuals PROVE task[m].at \notin {"wait", "run"}
      BY <2>1
    <3>1. task[m].at # "none" => m \in Range(gate.applied)
      BY DEF TaskInv
    <3>. QED BY <2>1, <3>1
  <2>3. \A m \in Manuals : task'[m].at # "none" => m \in Range(gate'.applied)
    BY <2>1 DEF TaskInv
  <2>4. task' \in [Manuals -> Searches] /\ \A m \in Manuals : Fits(task'[m], m)
    <3>. HIDE DEF Fits
    <3>. QED BY <1>0, <2>1
  <2>. HIDE DEF Fits
  <2>. QED BY <1>a, <2>1, <2>2, <2>3, <2>4
<1>7. CASE Ask
  <2>1. task' = [m \in Manuals |-> Idle]
    BY <1>7 DEF Ask
  <2>2. \A m \in Manuals : Fits(task'[m], m) /\ task'[m].at = "none"
    <3>1. \A m \in Manuals : Fits(task'[m], m)
      <4>. HIDE DEF Fits
      <4>. QED BY <1>c, <2>1
    <3>. QED BY <3>1, <2>1, <1>b
  <2>3. task' \in [Manuals -> Searches]
    BY <2>1, <2>2
  <2>. HIDE DEF Fits
  <2>. QED BY <1>a, <2>2, <2>3
<1>8. CASE UNCHANGED <<task, gate>> /\ (pc' # pc => pc \notin {"retrieve", "failed"} \/ pc' = "failed")
  <2>1. \A m \in Manuals : task'[m].at # "none" => m \in Range(gate'.applied)
    BY <1>8 DEF TaskInv
  <2>2. task' \in [Manuals -> Searches] /\ \A m \in Manuals : Fits(task'[m], m)
    <3>. HIDE DEF Fits
    <3>. QED BY <1>0, <1>8
  <2>3. pc' \notin {"retrieve", "failed"} => \A m \in Manuals : task'[m].at \notin {"wait", "run"}
    BY <1>8 DEF TaskInv
  <2>. HIDE DEF Fits
  <2>. QED BY <1>a, <2>1, <2>2, <2>3
<1>. HIDE DEF Fits
<1>. QED
  <2>1. CASE ManualGateStep \/ SearchAgain
    BY <1>1, <2>1 DEF ManualGateStep, SearchAgain
  <2>2. CASE \E m \in Manuals : Begin(m) \/ Finish(m) \/ Fail(m)
    BY <1>3, <1>4, <1>5, <2>2
  <2>3. CASE RewriteQuery \/ ResolveManuals \/ MergeCandidates \/ RerankCandidates \/ FastSearch \/ ContextStep
             \/ Proceed \/ AnswerEnds \/ AnswerFails \/ AnswerPart
    BY <1>8, <2>3 DEF RewriteQuery, ResolveManuals, MergeCandidates, RerankCandidates, FastSearch, ContextStep,
             Proceed, AnswerEnds, AnswerFails, AnswerPart, End
  <2>4. CASE Parse \/ UNCHANGED vars
    BY <1>8, <2>4 DEF Parse, vars, questionVars, StartParse, WriteStructure, CommitStructure, PersistRouting, SyncTexts
  <2>. QED BY <1>6, <1>7, <2>1, <2>2, <2>3, <2>4 DEF Step, Next, Work

(* A pruned choice survives only with evidence: every way out of it leads  *)
(* to the search of all the manuals, or past a context with a block.       *)
LEMMA FullStep ==
  ASSUME ParseInv, CacheInv, AskInv, GateInv, FullInv, Step
  PROVE  FullInv'
<1>1. CASE ManualGateStep
  <2>1. pc' = "retrieve" /\ attempt' = "initial" /\ option' = option
    BY <1>1 DEF ManualGateStep, StartAttempt
  <2>2. Range(gate'.applied) = Targets \/ Pruned(gate', option.manuals)
    BY <1>1, GateOf
  <2>. QED BY <2>1, <2>2 DEF FullInv, Targets, Pruned
<1>2. CASE SearchAgain
  <2>1. option' = option
    BY <1>2 DEF SearchAgain
  <2>2. Range(gate'.applied) = Targets
    BY <1>2, GateOfRetry
  <2>. QED BY <2>1, <2>2 DEF FullInv, Targets
<1>3. CASE Proceed
  <2>1. ~(option.mode # "fast" /\ attempt = "initial" /\ RetryReason # "") /\ UNCHANGED <<option, gate, attempt, context>>
        /\ pc = "check"
    BY <1>3 DEF Proceed, SearchesAgain
  <2>2. context = <<>> => Len(context) = 0
    OBVIOUS
  <2>3. (option.mode # "fast" /\ attempt = "initial" /\ Pruned(gate, option.manuals)) => context # <<>>
    BY <2>1, <2>2 DEF RetryReason, FullRetryReason
  <2>4. Pruned(gate', option'.manuals) <=> Pruned(gate, option.manuals)
    BY <2>1 DEF Pruned
  <2>. QED BY <2>1, <2>3, <2>4 DEF FullInv, Targets
<1>4. CASE UNCHANGED <<option, gate, attempt>>
           /\ \/ pc' \in {"rerank", "context", "check"} /\ (pc \in {"retrieve", "rerank", "context"} \/ option.mode = "fast")
              \/ pc' \notin {"retrieve", "rerank", "context", "check", "answer", "done"}
              \/ pc' = pc /\ context' = context
              \/ pc = "answer" /\ pc' = "done" /\ context' = context
  <2>1. Pruned(gate', option'.manuals) <=> Pruned(gate, option.manuals)
    BY <1>4 DEF Pruned
  <2>. QED BY <1>4, <2>1 DEF FullInv, Targets
<1>5. CASE Ask
  BY <1>5 DEF Ask, FullInv
<1>. QED
  <2>1. CASE RewriteQuery \/ ResolveManuals \/ Gather \/ MergeCandidates
    BY <1>4, <2>1 DEF RewriteQuery, ResolveManuals, Gather, MergeCandidates, End
  <2>2. CASE RerankCandidates \/ FastSearch \/ ContextStep
    BY <1>4, <2>2 DEF RerankCandidates, FastSearch, ContextStep, End, AskInv
  <2>3. CASE AnswerEnds \/ AnswerFails \/ AnswerPart
    BY <1>4, <2>3 DEF AnswerEnds, AnswerFails, AnswerPart, End
  <2>4. CASE (\E m \in Manuals : Begin(m) \/ Finish(m) \/ Fail(m)) \/ Parse \/ UNCHANGED vars
    BY <1>4, <2>4 DEF Begin, Finish, Fail, Parse, vars, questionVars, StartParse, WriteStructure, CommitStructure,
      PersistRouting, SyncTexts
  <2>. QED BY <1>1, <1>2, <1>3, <1>5, <2>1, <2>2, <2>3, <2>4 DEF Step, Next, Work

(* The empty list. *)
LEMMA NoListIs ==
  IsSequence(<<>>) /\ DOMAIN <<>> = {}
<1>1. <<>> \in Seq({}) /\ Range(<<>>) = {}
  BY DEF Range
<1>. QED BY <1>1 DEF IsSequence

(* The sections of an outline, as the choice by title reads them. *)
LEMMA ListedIs ==
  ASSUME ParseInv, AskInv, NEW m \in Manuals, NEW shape \in 1..Newest(m, builds)
  PROVE  IsSequence(Listed(m, shape)) /\ \A i \in DOMAIN Listed(m, shape) : Listed(m, shape)[i].hits \in Int
<1>. DEFINE sections == Sections(m, shape)
            entry(i) == [id |-> sections[i].id, hits |-> Cardinality(sections[i].title \cap query.tokens)]
<1>1. IsSequence(sections)
  BY SectionsAre DEF IsForest
<1>2. Len(sections) \in Nat /\ DOMAIN sections = 1..Len(sections)
  BY <1>1, SequenceHas
<1>3. Listed(m, shape) = [i \in DOMAIN sections |-> entry(i)]
  BY DEF Listed
<1>4. \A i : entry(i).hits \in Int
  <2>1. IsFiniteSet(query.tokens)
    BY ConstantsAre DEF AskInv
  <2>2. \A i : IsFiniteSet(sections[i].title \cap query.tokens)
    BY <2>1, FS_Intersection
  <2>3. \A i : Cardinality(sections[i].title \cap query.tokens) \in Nat
    BY <2>2, FS_CardinalityType
  <2>. QED BY <2>3
<1>. DEFINE E == {entry(i) : i \in DOMAIN sections}
<1>. HIDE DEF sections, entry
<1>5. Listed(m, shape) \in [1..Len(sections) -> E]
  BY <1>2, <1>3
<1>. HIDE DEF E
<1>6. IsSequence(Listed(m, shape))
  BY <1>2, <1>5, SequenceOf
<1>. QED BY <1>3, <1>4, <1>6

(* A search finds sections of its own manual only. *)
LEMMA FoundStep ==
  ASSUME ParseInv, TaskInv, AskInv, FoundInv, Step
  PROVE  FoundInv'
<1>1. ASSUME NEW m \in Manuals, Finish(m) PROVE FoundInv'
  <2>. DEFINE shape == task[m].shape
  <2>1. shape \in 1..Newest(m, builds)
    BY <1>1 DEF Finish, TaskInv, NoShape, ParseInv, Newest
  <2>2. PICK reply \in IF option.selection = "lexical_fallback" THEN {Named(<<>>)} ELSE Repairs(Replies) :
          LET ids == Outline(Listed(m, task[m].shape), reply, CandidateTopK(option.topK))
          IN found' = [found EXCEPT ![m] =
                         [i \in DOMAIN ids |-> [manual |-> m, id |-> ids[i], shape |-> task[m].shape]]]
    BY <1>1 DEF Finish
  <2>3. IsSequence(reply.ids)
    <3>1. CASE reply = Named(<<>>)
      BY <3>1, NoListIs DEF Named
    <3>2. CASE reply \in Repairs(Replies)
      <4>1. \A r \in Replies : IsSequence(r.ids)
        BY RetrievalAssumption
      <4>. QED BY <3>2, <4>1, RepairsAre
    <3>. QED BY <2>2, <3>1, <3>2
  <2>4. CandidateTopK(option.topK) \in Nat
    <3>1. option.topK \in Nat
      BY ConstantsAre DEF AskInv
    <3>. QED BY <3>1, CandidateTopKIs
  <2>. DEFINE ids == Outline(Listed(m, shape), reply, CandidateTopK(option.topK))
              candidate(i) == [manual |-> m, id |-> ids[i], shape |-> shape]
              list == [i \in DOMAIN ids |-> candidate(i)]
  <2>5. IsSequence(ids)
    <3>1. IsSequence(Listed(m, shape)) /\ \A i \in DOMAIN Listed(m, shape) : Listed(m, shape)[i].hits \in Int
      BY <2>1, ListedIs
    <3>. HIDE DEF shape
    <3>. QED BY <2>3, <2>4, <3>1, OutlineIs
  <2>6. found' = [found EXCEPT ![m] = list]
    BY <2>2, Zenon
  <2>. HIDE DEF ids
  <2>7. IsSequence(list) /\ \A i \in DOMAIN list : list[i].manual = m
    <3>1. Len(ids) \in Nat /\ DOMAIN ids = 1..Len(ids)
      BY <2>5, SequenceHas
    <3>2. list \in [1..Len(ids) -> {candidate(i) : i \in DOMAIN ids}]
      BY <3>1
    <3>3. \A i \in DOMAIN list : list[i].manual = m
      OBVIOUS
    <3>. HIDE DEF list, candidate
    <3>4. IsSequence(list)
      BY <3>1, <3>2, SequenceOf
    <3>. QED BY <3>3, <3>4
  <2>. HIDE DEF list
  <2>8. found = [n \in Manuals |-> found[n]]
    BY DEF FoundInv
  <2>9. found' = [n \in Manuals |-> IF n = m THEN list ELSE found[n]]
    BY <2>6, <2>8
  <2>. QED BY <2>7, <2>9 DEF FoundInv
<1>2. CASE found' = [m \in Manuals |-> <<>>]
  BY <1>2, NoListIs DEF FoundInv
<1>3. CASE UNCHANGED found
  BY <1>3 DEF FoundInv
<1>. QED
  <2>1. CASE ManualGateStep \/ SearchAgain \/ Ask
    BY <1>2, <2>1 DEF ManualGateStep, SearchAgain, StartAttempt, Ask
  <2>2. CASE \E m \in Manuals : Finish(m)
    BY <1>1, <2>2
  <2>3. CASE ~(ManualGateStep \/ SearchAgain \/ Ask) /\ ~\E m \in Manuals : Finish(m)
    <3>1. UNCHANGED found
      BY <2>3 DEF Step, Next, Work, Parse, vars, questionVars, AnswerPart, RewriteQuery, ResolveManuals, Gather,
        MergeCandidates, RerankCandidates, FastSearch, ContextStep, Proceed, AnswerEnds, AnswerFails, Begin, Fail,
        StartParse, WriteStructure, CommitStructure, PersistRouting, SyncTexts
    <3>. QED BY <1>3, <3>1
  <2>. QED BY <2>1, <2>2, <2>3

(* What a fast search ranks are the sections of the manuals asked for. *)
LEMMA FastCorporaAre ==
  ASSUME ParseInv, CacheInv, AskInv, NEW reachable
  PROVE  IsCorpora(FastCorpora(reachable), option.manuals)
<1>. DEFINE n == option.manuals
            corpora == FastCorpora(reachable)
<1>1. \A m \in Targets : IsRef(Ref(m, {}))
  BY RefIs DEF AskInv
<1>2. ASSUME NEW m \in Targets
      PROVE  IsNodes(corpora[m].nodes) /\ corpora[m].source \in DOMAIN SourceRank
  <2>. DEFINE shape == FastShape(m)
              sections == Sections(m, shape)
              corpus == Corpus(Ref(m, {}))
              record(i) == SectionText(docs, m, sections[i].id, resolved[m].rev, m \in reachable)
              text(i) == SafeSectionText(Absent, record(i), Missing, FALSE).text
              doc(i) == RouteDoc(<<m, sections[i].id>>, Ref(m, {}), corpus.nodes[i], text(i), sections[i].words)
  <2>1. corpora[m] = [source |-> corpus.source, nodes |-> [i \in DOMAIN corpus.nodes |-> doc(i)]]
    BY Zenon DEF FastCorpora
  <2>2. IsNodes(corpus.nodes) /\ corpus.source \in DOMAIN SourceRank
    <3>1. corpus.nodes = Inventory(Ref(m, {})).nodes /\ corpus.source = Inventory(Ref(m, {})).source
      BY DEF Corpus
    <3>2. IsNodes(Inventory(Ref(m, {})).nodes)
      BY <1>1, InventoryFits
    <3>3. Inventory(Ref(m, {})).source \in {"document_routing_nodes", "routing_index_json", "structure_json", "metadata_only"}
      BY DEF Inventory
    <3>. QED BY <3>1, <3>2, <3>3 DEF SourceRank
  <2>3. Len(corpus.nodes) \in Nat /\ DOMAIN corpus.nodes = 1..Len(corpus.nodes)
    BY <2>2, SequenceHas DEF IsNodes
  <2>4. \A i : doc(i).depth = corpus.nodes[i].depth
    BY DEF RouteDoc
  <2>5. \A i \in DOMAIN corpus.nodes : doc(i).depth \in Nat
    BY <2>2, <2>4 DEF IsNodes
  <2>. DEFINE list == [i \in DOMAIN corpus.nodes |-> doc(i)]
  <2>. HIDE DEF doc, corpus
  <2>6. list \in [1..Len(corpus.nodes) -> {doc(i) : i \in DOMAIN corpus.nodes}]
    BY <2>3
  <2>7. \A i \in DOMAIN list : list[i].depth \in Nat
    BY <2>5
  <2>8. corpora[m].source = corpus.source /\ corpora[m].nodes = list
    BY <2>1
  <2>. HIDE DEF list, corpora
  <2>9. IsSequence(list)
    BY <2>3, <2>6, SequenceOf
  <2>. QED BY <2>2, <2>7, <2>8, <2>9 DEF IsNodes
<1>3. corpora = [m \in Targets |-> corpora[m]]
  BY DEF FastCorpora
<1>. HIDE DEF corpora
<1>4. IsCorpora(corpora, n)
  BY <1>2, <1>3 DEF IsCorpora, Targets
<1>. QED BY <1>4 DEF corpora

(* A fast search cites sections of the manuals asked for. *)
LEMMA SearchPicks ==
  ASSUME ParseInv, CacheInv, AskInv, FastSearch
  PROVE  \/ picked' = picked /\ pc' = "failed"
         \/ /\ picked'.by = "search" /\ IsSequence(picked'.list)
            /\ \A r \in DOMAIN picked'.list : picked'.list[r].manual \in Targets
<1>1. PICK reachable \in SUBSET Targets, scores \in Dense :
       LET corpora == FastCorpora(reachable)
           dense == DenseState("auto", "enabled", TRUE, scores)
           ranked == RankSections(query, corpora, dense, scores)
           short == Shortlist(ranked, option.topK)
           cited(p) == [manual |-> p[1], id |-> Sections(p[1], FastShape(p[1]))[p[2]].id, shape |-> FastShape(p[1])]
       IN IF ContentBacked(corpora) = 0
          THEN End("failed") /\ UNCHANGED picked
          ELSE /\ picked' = [by |-> "search", list |-> [r \in DOMAIN short |-> cited(short[r])]]
               /\ pc' = "context"
  BY DEF FastSearch
<1>. DEFINE corpora == FastCorpora(reachable)
            dense == DenseState("auto", "enabled", TRUE, scores)
            ranked == RankSections(query, corpora, dense, scores)
            short == Shortlist(ranked, option.topK)
            cited(p) == [manual |-> p[1], id |-> Sections(p[1], FastShape(p[1]))[p[2]].id, shape |-> FastShape(p[1])]
<1>2. \/ picked' = picked /\ pc' = "failed"
      \/ picked' = [by |-> "search", list |-> [r \in DOMAIN short |-> cited(short[r])]]
  <2>1. CASE ContentBacked(corpora) = 0
    BY <1>1, <2>1, Zenon DEF End
  <2>2. CASE ContentBacked(corpora) # 0
    BY <1>1, <2>2, Zenon
  <2>. QED BY <2>1, <2>2
<1>3. IsCorpora(corpora, option.manuals) /\ option.manuals \in Nat /\ option.topK \in Nat /\ IsFiniteSet(query.tokens)
      /\ \A key \in DOMAIN scores : scores[key] \in Int
  BY FastCorporaAre, ConstantsAre, RetrievalAssumption DEF AskInv
<1>. HIDE DEF corpora, dense
<1>4. IsSequence(ranked) /\ \A r \in DOMAIN ranked : ranked[r] \in Places(corpora)
  BY <1>3, SectionsRanked
<1>5. \A p \in Places(corpora) : p[1] \in 1..option.manuals
  BY <1>3, PlacesAre
<1>. HIDE DEF ranked
<1>6. IsSequence(short) /\ \A r \in DOMAIN short : r \in DOMAIN ranked /\ short[r] = ranked[r]
  <2>1. ranked \in Seq(Range(ranked)) /\ option.topK \in Int
    BY <1>3, <1>4 DEF IsSequence
  <2>. QED BY <2>1, TakeIs DEF Shortlist
<1>. HIDE DEF short
<1>7. Len(short) \in Nat /\ DOMAIN short = 1..Len(short)
  BY <1>6, SequenceHas
<1>. DEFINE list == [r \in DOMAIN short |-> cited(short[r])]
<1>8. \A r \in DOMAIN list : list[r].manual = short[r][1]
  OBVIOUS
<1>9. list \in [1..Len(short) -> {cited(short[r]) : r \in DOMAIN short}] /\ DOMAIN list = DOMAIN short
  <2>. HIDE DEF cited
  <2>. QED BY <1>7
<1>10. (picked' = picked /\ pc' = "failed") \/ (picked'.by = "search" /\ picked'.list = list)
  <2>. HIDE DEF cited
  <2>. QED BY <1>2
<1>. HIDE DEF list, cited
<1>11. IsSequence(list)
  BY <1>7, <1>9, SequenceOf
<1>12. \A r \in DOMAIN list : list[r].manual \in Targets
  BY <1>4, <1>5, <1>6, <1>8, <1>9 DEF Targets
<1>. QED BY <1>10, <1>11, <1>12

(* Merging and reranking cite what was found in the manuals asked for;     *)
(* what is called merged is merged.                                        *)
LEMMA OrderPicks ==
  ASSUME AskInv, GateInv, FoundInv, MergeCandidates \/ RerankCandidates
  PROVE  \/ picked' = picked /\ pc' = pc
         \/ /\ IsSequence(picked'.list)
            /\ \A r \in DOMAIN picked'.list : picked'.list[r].manual \in Targets
            /\ picked'.by = "merge" => picked' = Merged
<1>1. option.manuals \in 1..N /\ N \in Nat /\ option.topK \in Nat
  BY ConstantsAre DEF AskInv
<1>2. /\ AreLists(PerManual)
      /\ \A a \in DOMAIN PerManual : /\ gate.applied[a] \in Targets
                                     /\ \A i \in DOMAIN PerManual[a] : PerManual[a][i].manual = gate.applied[a]
  BY <1>1, PerManualIs
<1>3. \A s \in Slots(PerManual) : PerManual[s[2]][s[1]].manual \in Targets
  BY <1>2, SlotsAre
<1>4. CASE picked' = Merged
  <2>. DEFINE S == Slots(PerManual)
              order == InOrder(S, ByPlace(S))
              n == Cardinality(S)
              k == option.topK
  <2>1. /\ n \in Nat
        /\ order \in [1..n -> S]
        /\ IsSequence(RoundRobin(PerManual, k))
        /\ Len(RoundRobin(PerManual, k)) = Lesser(k, n)
        /\ \A r \in 1..Lesser(k, n) : RoundRobin(PerManual, k)[r] = PerManual[order[r][2]][order[r][1]]
    BY <1>1, <1>2, RoundRobinIs, Zenon
  <2>2. picked'.list = RoundRobin(PerManual, k)
    BY <1>4 DEF Merged
  <2>. HIDE DEF S, order, n, k
  <2>3. DOMAIN RoundRobin(PerManual, k) = 1..Lesser(k, n)
    BY <2>1, SequenceHas
  <2>4. k \in Nat
    BY <1>1 DEF k
  <2>5. \A r \in 1..Lesser(k, n) : r \in 1..n /\ order[r] \in S
    BY <2>1, <2>4 DEF Lesser
  <2>6. \A r \in 1..Lesser(k, n) : RoundRobin(PerManual, k)[r].manual \in Targets
    BY <1>3, <2>1, <2>5 DEF S
  <2>. QED BY <1>4, <2>1, <2>2, <2>3, <2>6
<1>5. ASSUME NEW places \in Rankings, picked' = [by |-> "rerank", list |-> Rerank(Candidates, places, option.topK).list]
      PROVE  /\ IsSequence(picked'.list)
             /\ \A r \in DOMAIN picked'.list : picked'.list[r].manual \in Targets
             /\ picked'.by = "rerank"
  <2>1. IsSequence(Candidates) /\ \A r \in DOMAIN Candidates : \E s \in Slots(PerManual) : Candidates[r] = PerManual[s[2]][s[1]]
    BY <1>2, InARowIs DEF Candidates
  <2>2. IsSequence(places)
    BY RetrievalAssumption
  <2>. DEFINE list == Rerank(Candidates, places, option.topK).list
  <2>3. IsSequence(list) /\ \A r \in DOMAIN list : \E i \in DOMAIN Candidates : list[r] = Candidates[i]
    <3>. DEFINE row == Candidates
                k == option.topK
    <3>1. IsSequence(row) /\ k \in Nat
      BY <1>1, <2>1
    <3>. HIDE DEF row, k
    <3>2. IsSequence(Rerank(row, places, k).list)
      BY <2>2, <3>1, RerankIs
    <3>3. \A r \in DOMAIN Rerank(row, places, k).list : \E i \in DOMAIN row : Rerank(row, places, k).list[r] = row[i]
      BY <2>2, <3>1, RerankIs
    <3>. QED BY <3>2, <3>3 DEF row, k
  <2>4. picked'.list = list /\ picked'.by = "rerank"
    BY <1>5
  <2>. HIDE DEF list
  <2>5. \A r \in DOMAIN list : list[r].manual \in Targets
    BY <1>3, <2>1, <2>3
  <2>. QED BY <2>3, <2>4, <2>5
<1>. QED
  <2>1. CASE picked' = Merged
    BY <1>4, <2>1
  <2>2. CASE picked' # Merged /\ ~(picked' = picked /\ pc' = pc)
    <3>1. PICK places \in Rankings : picked' = [by |-> "rerank", list |-> Rerank(Candidates, places, option.topK).list]
      BY <2>2 DEF MergeCandidates, RerankCandidates
    <3>. QED BY <1>5, <3>1
  <2>. QED BY <2>1, <2>2

(* What was merged stays what merging gave: no search is at work any more  *)
(* that could change the candidates.                                       *)
LEMMA PickedStep ==
  ASSUME ParseInv, CacheInv, TaskInv, AskInv, GateInv, FoundInv, PickedInv, Step
  PROVE  PickedInv'
<1>1. CASE MergeCandidates \/ RerankCandidates
  <2>1. UNCHANGED <<option, gate, found>> /\ pc = "rerank"
    BY <1>1 DEF MergeCandidates, RerankCandidates
  <2>2. Merged' = Merged
    BY <2>1 DEF Merged, PerManual
  <2>3. CASE picked' = picked /\ pc' = pc
    BY <2>1, <2>2, <2>3 DEF PickedInv, Targets
  <2>4. CASE ~(picked' = picked /\ pc' = pc)
    <3>1. /\ IsSequence(picked'.list)
          /\ \A r \in DOMAIN picked'.list : picked'.list[r].manual \in Targets
          /\ picked'.by = "merge" => picked' = Merged
      BY <1>1, <2>4, OrderPicks
    <3>. QED BY <2>1, <2>2, <3>1 DEF PickedInv, Targets
  <2>. QED BY <2>3, <2>4
<1>2. CASE FastSearch
  <2>1. UNCHANGED <<option, gate, found>> /\ pc = "search"
    BY <1>2 DEF FastSearch
  <2>2. CASE picked' = picked /\ pc' = "failed"
    BY <2>1, <2>2 DEF PickedInv, Targets
  <2>3. CASE ~(picked' = picked /\ pc' = "failed")
    BY <1>2, <2>1, <2>3, SearchPicks DEF PickedInv, Targets
  <2>. QED BY <2>2, <2>3
<1>3. CASE Ask
  <2>1. picked' = [by |-> "none", list |-> <<>>]
    BY <1>3 DEF Ask
  <2>. QED BY <2>1, NoListIs DEF PickedInv
<1>4. CASE /\ UNCHANGED <<option, picked>>
           /\ pc' \in {"context", "check", "answer"} => pc \in {"context", "check", "answer"} /\ UNCHANGED <<gate, found>>
  <2>1. UNCHANGED <<gate, found>> => Merged' = Merged
    BY <1>4 DEF Merged, PerManual
  <2>. QED BY <1>4, <2>1 DEF PickedInv, Targets
<1>5. ASSUME NEW m \in Manuals, Finish(m) PROVE PickedInv'
  <2>1. task[m].at = "run" /\ UNCHANGED <<pc, option, picked>>
    BY <1>5 DEF Finish
  <2>2. pc \in {"retrieve", "failed"}
    BY <2>1 DEF TaskInv
  <2>. QED BY <1>4, <2>1, <2>2
<1>. QED
  <2>1. CASE RewriteQuery \/ ResolveManuals \/ ManualGateStep \/ Gather
    BY <1>4, <2>1 DEF RewriteQuery, ResolveManuals, ManualGateStep, StartAttempt, Gather, End
  <2>2. CASE ContextStep \/ SearchAgain \/ Proceed
    BY <1>4, <2>2 DEF ContextStep, SearchAgain, StartAttempt, Proceed
  <2>3. CASE AnswerEnds \/ AnswerFails \/ AnswerPart
    BY <1>4, <2>3 DEF AnswerEnds, AnswerFails, AnswerPart, End
  <2>4. CASE (\E m \in Manuals : Begin(m) \/ Fail(m)) \/ Parse \/ UNCHANGED vars
    <3>1. UNCHANGED <<pc, option, picked, gate, found>>
      BY <2>4 DEF Begin, Fail, Parse, vars, questionVars, StartParse, WriteStructure, CommitStructure, PersistRouting, SyncTexts
    <3>. QED BY <1>4, <3>1
  <2>. QED BY <1>1, <1>2, <1>3, <1>5, <2>1, <2>2, <2>3, <2>4 DEF Step, Next, Work

(* An excerpt of the section index is of the revision it was asked for: a  *)
(* text of another is stale.                                               *)
LEMMA BlockIs ==
  ASSUME NEW c, NEW reachable, resolved[c.manual].rev # Absent
  PROVE  IsBlock(Block(c, reachable), resolved)
<1>. DEFINE rev == resolved[c.manual].rev
            section == Section(c.manual, c.shape, c.id)
            record == SectionText(docs, c.manual, c.id, rev, reachable)
            indexed == SectionBlock(record.status = "ready", record.text, Pages(section), option.pages, option.tokens)
            pdf == [range |-> <<section.first, section.last>>, pages |-> Pages(section), tokens |-> section.tokens]
            rest == IF option.pdf THEN PdfBlock(pdf, option.pages, option.tokens) ELSE 0
<1>1. Block(c, reachable) = IF indexed > 0
                            THEN [from |-> "index", manual |-> c.manual, rev |-> record.routing, tokens |-> indexed]
                            ELSE [from |-> "pdf", manual |-> c.manual, rev |-> Absent, tokens |-> rest]
  BY Zenon DEF Block
<1>2. indexed > 0 => record.status = "ready"
  BY DEF SectionBlock
<1>3. record.status = "ready" => record.routing = rev
  <2>1. CASE record = Missing
    BY <2>1 DEF Missing
  <2>2. ASSUME NEW doc, record = TextOf(doc, rev, Absent) PROVE record.status = "ready" => record.routing = rev
    <3>1. record.routing = doc.version /\ (record.status = "ready" => Staleness(doc, rev, Absent) = "")
      <4>. HIDE DEF record, rev
      <4>. QED BY <2>2 DEF TextOf
    <3>2. rev # Absent
      OBVIOUS
    <3>. HIDE DEF rev, record
    <3>3. CASE doc.version = Absent
      <4>1. Staleness(doc, rev, Absent) = "routing_index_version_missing"
        BY <3>3 DEF Staleness
      <4>. QED BY <3>1, <4>1
    <3>4. CASE doc.version # Absent /\ doc.version # rev
      <4>1. Staleness(doc, rev, Absent) = "routing_index_version_mismatch"
        BY <3>2, <3>4 DEF Staleness
      <4>. QED BY <3>1, <4>1
    <3>. QED BY <3>1, <3>3, <3>4
  <2>3. record = Missing \/ \E doc : record = TextOf(doc, rev, Absent)
    BY DEF SectionText
  <2>. HIDE DEF record, rev
  <2>. QED BY <2>1, <2>2, <2>3
<1>. HIDE DEF indexed, record, rest, section, pdf
<1>4. CASE indexed > 0
  <2>1. Block(c, reachable) = [from |-> "index", manual |-> c.manual, rev |-> rev, tokens |-> indexed]
    BY <1>1, <1>2, <1>3, <1>4
  <2>. QED BY <2>1 DEF IsBlock
<1>5. CASE ~(indexed > 0)
  <2>1. Block(c, reachable) = [from |-> "pdf", manual |-> c.manual, rev |-> Absent, tokens |-> rest]
    BY <1>1, <1>5
  <2>. QED BY <2>1 DEF IsBlock
<1>. QED BY <1>4, <1>5

(* Without blocks there is nothing to exceed a budget or to be of a wrong  *)
(* revision.                                                               *)
LEMMA EmptyContext ==
  ASSUME AskInv', context' = <<>>
  PROVE  OfResolvedRevision' /\ WithinBudget'
<1>1. OfResolvedRevision'
  BY NoListIs DEF OfResolvedRevision
<1>2. Cost(<<>>) = 0
  <2>1. <<>> \in Seq({})
    OBVIOUS
  <2>. QED BY <2>1, CostIs
<1>3. option'.tokens \in Nat \cup {NoLimit}
  BY ConstantsAre DEF AskInv
<1>4. Within(0, option'.tokens)
  BY <1>3 DEF Within
<1>5. WithinBudget'
  BY <1>2, <1>4 DEF WithinBudget
<1>. QED BY <1>1, <1>5

(* The context that is built fits, and is of the resolved revisions. *)
LEMMA ContextIs ==
  ASSUME AskInv, ResolvedInv, PickedInv, ContextStep
  PROVE  OfResolvedRevision' /\ WithinBudget'
<1>1. PICK reachable \in SUBSET DOMAIN picked.list :
        context' = BuildContext([i \in DOMAIN picked.list |-> Block(picked.list[i], i \in reachable)], option.tokens)
  BY DEF ContextStep
<1>. DEFINE block(i) == Block(picked.list[i], i \in reachable)
            blocks == [i \in DOMAIN picked.list |-> block(i)]
            kept == NonEmpty(blocks)
            max == option.tokens
<1>2. UNCHANGED <<option, resolved>> /\ max \in Nat \cup {NoLimit}
  BY ConstantsAre DEF ContextStep, AskInv
<1>3. \A i \in DOMAIN picked.list : IsBlock(block(i), resolved)
  <2>1. \A i \in DOMAIN picked.list : resolved[picked.list[i].manual].rev # Absent
    BY DEF ContextStep, ResolvedInv, PickedInv, Absent
  <2>. QED BY <2>1, BlockIs
<1>. HIDE DEF block
<1>4. Len(picked.list) \in Nat /\ DOMAIN picked.list = 1..Len(picked.list)
  BY SequenceHas DEF PickedInv
<1>. DEFINE S == {block(i) : i \in DOMAIN picked.list}
<1>5. blocks \in [1..Len(picked.list) -> S] /\ \A i \in DOMAIN blocks : IsBlock(blocks[i], resolved)
  BY <1>3, <1>4
<1>6. context' = BuildContext(blocks, max)
  BY <1>1 DEF block
<1>. HIDE DEF blocks, S
<1>7. blocks \in Seq(S)
  BY <1>4, <1>5, SequenceOf
<1>8. kept \in Seq(S) /\ \A r \in DOMAIN kept : IsBlock(kept[r], resolved)
  <2>1. kept \in Seq(S) /\ \A r \in DOMAIN kept : \E i \in DOMAIN blocks : kept[r] = blocks[i]
    BY <1>7, NonEmptyIs
  <2>. QED BY <1>5, <2>1
<1>9. context' = TotalBudget(kept, max)
  BY <1>6 DEF BuildContext
<1>. HIDE DEF kept, max
<1>10. /\ \A r \in DOMAIN TotalBudget(kept, max) : IsBlock(TotalBudget(kept, max)[r], resolved)
       /\ \/ Within(Cost(TotalBudget(kept, max)), max)
          \/ /\ Len(TotalBudget(kept, max)) = 1
             /\ Cost(TotalBudget(kept, max)) <= max + MarkerTokens
  BY <1>2, <1>8, BudgetIs
<1>11. OfResolvedRevision'
  <2>1. \A r \in DOMAIN context' : IsBlock(context'[r], resolved')
    BY <1>2, <1>9, <1>10
  <2>. QED BY <2>1 DEF OfResolvedRevision, IsBlock
<1>12. WithinBudget'
  <2>1. \/ Within(Cost(context'), max)
        \/ Len(context') = 1 /\ Cost(context') <= max + MarkerTokens
    BY <1>9, <1>10
  <2>2. option'.tokens = max
    BY <1>2 DEF max
  <2>. QED BY <2>1, <2>2 DEF WithinBudget
<1>. QED BY <1>11, <1>12

(* Only building the context changes it, or the next question, which       *)
(* begins without one.                                                     *)
LEMMA EvidenceStep ==
  ASSUME AskInv, AskInv', ResolvedInv, ResolvedInv', PickedInv, OfResolvedRevision, WithinBudget, Step
  PROVE  OfResolvedRevision' /\ WithinBudget'
<1>1. CASE ContextStep
  BY <1>1, ContextIs
<1>2. CASE context' = <<>>
  BY <1>2, EmptyContext
<1>3. CASE UNCHANGED <<option, resolved, context>>
  BY <1>3 DEF OfResolvedRevision, WithinBudget
<1>. QED
  <2>1. CASE Ask \/ ResolveManuals
    BY <1>2, <2>1 DEF Ask, ResolveManuals, ResolvedInv
  <2>2. CASE RewriteQuery \/ ManualGateStep \/ Gather \/ MergeCandidates \/ RerankCandidates \/ FastSearch \/ SearchAgain
             \/ Proceed \/ AnswerEnds \/ AnswerFails \/ AnswerPart
    BY <1>3, <2>2 DEF RewriteQuery, ManualGateStep, Gather, MergeCandidates, RerankCandidates, FastSearch, SearchAgain,
             Proceed, AnswerEnds, AnswerFails, AnswerPart
  <2>3. CASE (\E m \in Manuals : Begin(m) \/ Finish(m) \/ Fail(m)) \/ Parse \/ UNCHANGED vars
    BY <1>3, <2>3 DEF Begin, Finish, Fail, Parse, vars, questionVars, StartParse, WriteStructure, CommitStructure,
      PersistRouting, SyncTexts
  <2>. QED BY <1>1, <2>1, <2>2, <2>3 DEF Step, Next, Work

-----------------------------------------------------------------------------
(* The theorems. *)

(* The invariant holds at first. *)
LEMMA InvInit ==
  ASSUME Init
  PROVE  Inv
<1>. USE ConstantsAre
<1>1. ParseInv /\ CacheInv /\ GateInv
  BY ParseInit, CacheInit, GateInit
<1>2. TaskInv
  BY DEF Init, TaskInv, Searches, Idle, NoShape, Newest
<1>3. AskInv
  BY DEF Init, AskInv, Stages, Ended
<1>4. ResolvedInv
  BY DEF Init, ResolvedInv
<1>5. FoundInv
  BY NoListIs DEF Init, FoundInv
<1>6. PickedInv
  BY NoListIs DEF Init, PickedInv
<1>7. FullInv
  BY DEF Init, FullInv
<1>8. AnswerInv
  BY DEF Init, AnswerInv
<1>9. context = <<>>
  BY DEF Init
<1>10. OfResolvedRevision
  BY <1>9, NoListIs DEF OfResolvedRevision
<1>11. WithinBudget
  <2>1. Cost(<<>>) = 0
    <3>1. <<>> \in Seq({})
      OBVIOUS
    <3>. QED BY <3>1, CostIs
  <2>2. Within(0, option.tokens)
    BY <1>3 DEF AskInv, Within
  <2>. QED BY <1>9, <2>1, <2>2 DEF WithinBudget
<1>. QED BY <1>1, <1>2, <1>3, <1>4, <1>5, <1>6, <1>7, <1>8, <1>10, <1>11 DEF Inv

(* Every step of the run, of its searches, of the parse and of the worker  *)
(* keeps the invariant.                                                    *)
LEMMA InvStep ==
  ASSUME Inv, Step
  PROVE  Inv'
<1>1. ParseInv' /\ AskInv' /\ AnswerInv'
  BY ParseStep, AskStep, AnswerStep DEF Inv
<1>2. CacheInv' /\ TaskInv'
  BY <1>1, CacheStep, TaskStep DEF Inv
<1>3. ResolvedInv' /\ GateInv' /\ FoundInv' /\ PickedInv' /\ FullInv'
  BY ResolvedStep, GateStep, FoundStep, PickedStep, FullStep DEF Inv
<1>4. OfResolvedRevision' /\ WithinBudget'
  BY <1>1, <1>3, EvidenceStep DEF Inv
<1>. QED BY <1>1, <1>2, <1>3, <1>4 DEF Inv

(* The invariant holds always, for one question and for a worker that      *)
(* goes on to others.                                                      *)
LEMMA InvHolds == Spec \/ WorkerSpec => []Inv
<1>1. Init => Inv
  BY InvInit
<1>2. Inv /\ [Next \/ Ask]_vars => Inv'
  BY InvStep DEF Step
<1>3. [Next]_vars => [Next \/ Ask]_vars
  OBVIOUS
<1>. QED BY <1>1, <1>2, <1>3, PTL DEF Spec, WorkerSpec

(* Types, and the bounds of counters and shapes. *)
THEOREM SearchesAreTyped == Spec \/ WorkerSpec => []TypeOK
<1>1. Inv => TypeOK
  <2>. SUFFICES ASSUME Inv PROVE TypeOK
    OBVIOUS
  <2>1. pc \in Stages /\ option \in Options /\ query \in {Asked, Rewritten} /\ asked \in 1..MaxQuestions
        /\ attempt \in {"initial", "full_retry"} /\ tries \in 0..MaxRetries
    BY DEF Inv, AskInv
  <2>2. Targets \subseteq Manuals
    BY <2>1, ConstantsAre DEF Targets, Manuals
  <2>3. DOMAIN resolved \subseteq Manuals
    BY <2>2 DEF Inv, ResolvedInv
  <2>4. Range(gate.applied) \cup Range(gate.predicted) \subseteq Manuals
    <3>1. gate.applied \in Seq(Targets) /\ gate.predicted \in Seq(Targets)
      BY DEF Inv, GateInv, IsChoice, Targets
    <3>2. Range(gate.applied) \subseteq Targets /\ Range(gate.predicted) \subseteq Targets
      BY <3>1 DEF Range
    <3>. QED BY <2>2, <3>2
  <2>5. ASSUME NEW m \in Manuals
        PROVE  /\ task[m].at \in {"none", "wait", "run", "done", "dead"}
               /\ task[m].tries \in 0..(MaxRetries + 1)
               /\ {task[m].shape, cache.held[m], version[m].rows} \subseteq 0..(Rebuilds + 1)
               /\ version[m].shape \in 1..(Rebuilds + 1) /\ version[m].rev \in 1..(Rebuilds + 1)
    <3>1. Newest(m, builds) \in 1..(Rebuilds + 1)
      BY ConstantsAre DEF Inv, ParseInv, Newest
    <3>2. /\ task[m].shape \in 0..Newest(m, builds) /\ cache.held[m] \in 0..Newest(m, builds)
          /\ version[m].rows \in 0..Newest(m, builds) /\ version[m].shape \in 1..Newest(m, builds)
          /\ version[m].rev \in 1..Newest(m, builds)
      BY DEF Inv, TaskInv, CacheInv, ParseInv
    <3>3. task[m].at \in {"none", "wait", "run", "done", "dead"} /\ task[m].tries \in 0..(MaxRetries + 1)
      BY DEF Inv, TaskInv, Searches
    <3>4. Rebuilds \in Nat
      BY ConstantsAre
    <3>. QED BY <3>1, <3>2, <3>3, <3>4
  <2>6. \A r \in DOMAIN picked.list : picked.list[r].manual \in Manuals
    BY <2>2 DEF Inv, PickedInv
  <2>7. answer.tries \in 1..2 /\ answer.heard \subseteq 1..2
    BY DEF Inv, AnswerInv
  <2>8. job \in {"idle", "started", "written", "ready", "persisted"} /\ builds \in 0..Rebuilds
    BY DEF Inv, ParseInv
  <2>. QED BY <2>1, <2>3, <2>4, <2>5, <2>6, <2>7, <2>8 DEF TypeOK
<1>. QED BY <1>1, InvHolds, PTL

(* A deep search that is answered without any evidence has searched every  *)
(* manual it was asked for, whatever the gate left out                     *)
(* (_manual_gate_full_retry_reason).                                       *)
THEOREM EmptyAnswersSearchedAll == Spec \/ WorkerSpec => []EmptyOnlyAfterFull
<1>1. Inv => EmptyOnlyAfterFull
  BY DEF Inv, FullInv, EmptyOnlyAfterFull
<1>. QED BY <1>1, InvHolds, PTL

(* Merged candidates are as many as allowed, the best of each manual, and  *)
(* no manual gives way to another before its own are used up, for any      *)
(* number of manuals and any lists (merge_candidates_round_robin).         *)
THEOREM MergingIsFair == Spec \/ WorkerSpec => []FairMerge
<1>1. Inv => FairMerge
  <2>. SUFFICES ASSUME Inv PROVE FairMerge
    OBVIOUS
  <2>1. GateInv /\ FoundInv /\ PickedInv /\ AskInv
    BY DEF Inv
  <2>2. option.manuals \in 1..N /\ N \in Nat /\ option.topK \in Nat
    BY <2>1, ConstantsAre DEF AskInv
  <2>3. CASE picked = Merged
    BY <2>1, <2>2, <2>3, MergedIsFair
  <2>4. CASE picked # Merged
    <3>1. ~(picked.by = "merge" /\ pc \in {"context", "check", "answer"})
      BY <2>1, <2>4 DEF PickedInv
    <3>. QED BY <3>1, Zenon DEF FairMerge
  <2>. QED BY <2>3, <2>4
<1>. QED BY <1>1, InvHolds, PTL

(* The context is within the token budget, or one cut excerpt and the      *)
(* line that says so (_apply_context_total_token_budget).                  *)
THEOREM ContextsFit == Spec \/ WorkerSpec => []WithinBudget
<1>1. Inv => WithinBudget
  BY DEF Inv
<1>. QED BY <1>1, InvHolds, PTL

(* An excerpt of the section index is of the revision the question         *)
(* resolved, although the manual may be parsed anew and its texts          *)
(* synchronised again meanwhile (ElasticsearchSectionTextProvider).        *)
THEOREM EvidenceIsOfTheRevision == Spec \/ WorkerSpec => []OfResolvedRevision
<1>1. Inv => OfResolvedRevision
  BY DEF Inv
<1>. QED BY <1>1, InvHolds, PTL

(* The client is never sent parts of two attempts at the answer. *)
THEOREM AnswersHaveOneVoice == Spec \/ WorkerSpec => []OneVoice
<1>1. Inv => OneVoice
  <2>. SUFFICES ASSUME Inv PROVE OneVoice
    OBVIOUS
  <2>1. answer.heard = {} \/ answer.heard = {answer.tries}
    BY DEF Inv, AnswerInv
  <2>2. Cardinality({}) = 0 /\ Cardinality({answer.tries}) = 1
    BY FS_EmptySet, FS_Singleton
  <2>. QED BY <2>1, <2>2 DEF OneVoice
<1>. QED BY <1>1, InvHolds, PTL
================================================================================
