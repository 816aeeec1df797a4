------------------------- MODULE ParserMemoryProofs -------------------------
(***************************************************************************)
(* Proofs about the memory of the parser: every block has one owner, for   *)
(* all files, any grammar whose actions use each pointer once, and         *)
(* whatever allocation fails.                                              *)
(***************************************************************************)
EXTENDS ParserProofs

(***************************************************************************)
(* Blocks                                                                  *)
(***************************************************************************)

IsBlock(b) ==
  /\ b = [kind |-> b.kind, tag |-> b.tag, kids |-> b.kids, next |-> b.next, tail |-> b.tail]
  /\ b.kids \in Seq(Nat)
IsHeap(H) == IsSequence(H) /\ \A a \in 1 .. Len(H) : IsBlock(H[a])

\* The pointers in a block: slot 0 is "next"
Slots(H, a) == 0 .. Len(H[a].kids)
Slot(H, a, k) == IF k = 0 THEN H[a].next ELSE H[a].kids[k]

LEMMA HeapLength ==
  ASSUME NEW H, IsHeap(H)
  PROVE  Len(H) \in Nat /\ DOMAIN H = 1 .. Len(H)
  <1> DEFINE S == Range(H)
  <1>1. H \in Seq(S)
    BY DEF IsHeap, IsSequence
  <1> HIDE DEF S
  <1> QED BY <1>1, LenProperties

LEMMA SlotsTyped ==
  ASSUME NEW H, IsHeap(H), NEW L, L \subseteq 1 .. Len(H)
  PROVE  \A a \in L : /\ a \in Nat \ {0} /\ a \in 1 .. Len(H)
                      /\ H[a].kids \in Seq(Nat) /\ Len(H[a].kids) \in Nat
                      /\ 0 \in Slots(H, a) /\ Slots(H, a) \subseteq Nat
  <1> SUFFICES ASSUME NEW a \in L
               PROVE  /\ a \in Nat \ {0} /\ a \in 1 .. Len(H)
                      /\ H[a].kids \in Seq(Nat) /\ Len(H[a].kids) \in Nat
                      /\ 0 \in Slots(H, a) /\ Slots(H, a) \subseteq Nat
    OBVIOUS
  <1>1. a \in 1 .. Len(H) /\ Len(H) \in Nat
    BY HeapLength
  <1>2. H[a].kids \in Seq(Nat)
    BY <1>1 DEF IsHeap, IsBlock
  <1>3. Len(H[a].kids) \in Nat
    BY <1>2
  <1> QED BY <1>1, <1>2, <1>3 DEF Slots

LEMMA NewBlock ==
  ASSUME NEW H, IsHeap(H), NEW kind, NEW tag, NEW kids \in Seq(Nat), NEW G, G = New(H, kind, tag, kids)
  PROVE  /\ IsHeap(G) /\ Len(G) = Len(H) + 1 /\ Fresh(H) = Len(H) + 1
         /\ \A a \in 1 .. Len(H) : G[a] = H[a]
         /\ G[Fresh(H)].kids = kids /\ G[Fresh(H)].next = NIL
         /\ kind \in Listed => G[Fresh(H)].tail = Fresh(H)
  <1> DEFINE b == Block(kind, tag, kids, IF kind \in Listed THEN Fresh(H) ELSE NIL)
  <1>1. /\ b.kids = kids /\ b.next = NIL /\ IsBlock(b)
        /\ kind \in Listed => b.tail = Fresh(H)
    BY DEF Block, IsBlock
  <1>2. G = Append(H, b)
    BY DEF New
  <1> HIDE DEF b
  <1>3. /\ IsSequence(G) /\ Len(G) = Len(H) + 1 /\ Len(H) \in Nat
        /\ (\A i \in 1 .. Len(H) : G[i] = H[i]) /\ G[Len(H) + 1] = b
    BY <1>2, AppendSequence DEF IsHeap
  <1>4. ASSUME NEW a \in 1 .. Len(G) PROVE IsBlock(G[a])
    BY <1>1, <1>3 DEF IsHeap
  <1> QED BY <1>1, <1>3, <1>4 DEF IsHeap, Fresh

LEMMA AppendedBlock ==
  ASSUME NEW H, IsHeap(H), NEW h \in 1 .. Len(H), NEW n \in 1 .. Len(H), n # NIL, h # NIL,
         NEW t, t = H[h].tail, t \in 1 .. Len(H), NEW G, G = Appended(H, h, n)
  PROVE  /\ IsHeap(G) /\ Len(G) = Len(H)
         /\ \A a \in 1 .. Len(H) :
              /\ G[a].kids = H[a].kids
              /\ G[a].next = IF a = t THEN n ELSE H[a].next
              /\ G[a].tail = IF a = h THEN H[n].tail ELSE H[a].tail
  <1>1. DOMAIN H = 1 .. Len(H) /\ Len(H) \in Nat
    BY HeapLength
  <1> DEFINE u == H[n].tail
             F == [H EXCEPT ![t] = [H[t] EXCEPT !.next = n]]
             E == [F EXCEPT ![h] = [F[h] EXCEPT !.tail = u]]
  <1>2. G = E
    BY DEF Appended
  <1>3. \A a \in 1 .. Len(H) : IsBlock(H[a])
    BY DEF IsHeap
  <1>4. ASSUME NEW a \in 1 .. Len(H)
        PROVE  /\ IsBlock(F[a]) /\ F[a].kids = H[a].kids /\ F[a].tail = H[a].tail
               /\ F[a].next = IF a = t THEN n ELSE H[a].next
    <2>1. CASE a = t
      <3>1. F[a] = [H[a] EXCEPT !.next = n]
        BY <1>1, <2>1
      <3>2. H[a] = [kind |-> H[a].kind, tag |-> H[a].tag, kids |-> H[a].kids, next |-> H[a].next, tail |-> H[a].tail]
        BY <1>3 DEF IsBlock
      <3>3. F[a] = [kind |-> H[a].kind, tag |-> H[a].tag, kids |-> H[a].kids, next |-> n, tail |-> H[a].tail]
        BY <3>1, <3>2
      <3>4. H[a].kids \in Seq(Nat)
        BY <1>3 DEF IsBlock
      <3> HIDE DEF F
      <3> QED BY <2>1, <3>3, <3>4 DEF IsBlock
    <2>2. CASE a # t
      <3>1. F[a] = H[a]
        BY <1>1, <2>2
      <3> QED BY <1>3, <2>2, <3>1
    <2> QED BY <2>1, <2>2
  <1>5. IsSequence(F) /\ IsSequence(E)
    BY ExceptSequence DEF IsHeap
  <1>6. DOMAIN F = 1 .. Len(H) /\ DOMAIN E = 1 .. Len(H)
    BY <1>1
  <1>7. ASSUME NEW a \in 1 .. Len(H)
        PROVE  /\ IsBlock(E[a]) /\ E[a].kids = F[a].kids /\ E[a].next = F[a].next
               /\ E[a].tail = IF a = h THEN u ELSE F[a].tail
    <2>1. IsBlock(F[a])
      BY <1>4
    <2> HIDE DEF F, u
    <2>2. CASE a = h
      <3>1. E[a] = [F[a] EXCEPT !.tail = u]
        BY <1>6, <2>2
      <3>2. F[a] = [kind |-> F[a].kind, tag |-> F[a].tag, kids |-> F[a].kids, next |-> F[a].next, tail |-> F[a].tail]
        BY <2>1 DEF IsBlock
      <3>3. E[a] = [kind |-> F[a].kind, tag |-> F[a].tag, kids |-> F[a].kids, next |-> F[a].next, tail |-> u]
        BY <3>1, <3>2
      <3> QED BY <2>1, <2>2, <3>3 DEF IsBlock
    <2>3. CASE a # h
      <3>1. E[a] = F[a]
        BY <1>6, <2>3
      <3> QED BY <2>1, <2>3, <3>1
    <2> QED BY <2>2, <2>3
  <1>8. Len(E) = Len(H)
    <2>1. DOMAIN E = 1 .. Len(E) /\ Len(E) \in Nat
      <3> DEFINE S == Range(E)
      <3> HIDE DEF E
      <3>1. E \in Seq(S)
        BY <1>5 DEF IsSequence
      <3> HIDE DEF S
      <3> QED BY <3>1, LenProperties
    <2> HIDE DEF E
    <2> QED BY <1>1, <1>6, <2>1
  <1> HIDE DEF E, F
  <1> QED BY <1>2, <1>4, <1>5, <1>7, <1>8 DEF IsHeap, u

(***************************************************************************)
(* Trees.  H is a heap, L are its live blocks, and R[i] is the pointer at  *)
(* the outside place i, of which there may be any number.                  *)
(*                                                                         *)
(* What witnesses that the blocks are trees: the block that has the only   *)
(* pointer to x (0 if that is outside) and the slot or the place it is in, *)
(* the tree that x is in, and a rank that grows from the root to the       *)
(* leaves.                                                                 *)
(***************************************************************************)

Owners(H, L, R, block, slot) ==
  /\ \A i \in Int : R[i] # NIL => R[i] \in L /\ block[R[i]] = 0 /\ slot[R[i]] = i
  /\ \A a \in L : \A k \in Slots(H, a) :
       Slot(H, a, k) # NIL => Slot(H, a, k) \in L /\ block[Slot(H, a, k)] = a /\ slot[Slot(H, a, k)] = k
  /\ \A x \in L :
       IF block[x] = 0 THEN R[slot[x]] = x
       ELSE block[x] \in L /\ slot[x] \in Slots(H, block[x]) /\ Slot(H, block[x], slot[x]) = x

Ordered(L, block, tree, rank) ==
  \A x \in L : block[x] # 0 => tree[x] = tree[block[x]] /\ rank[block[x]] < rank[x]

Typed(H, L, R) == IsHeap(H) /\ L \subseteq 1 .. Len(H) /\ R \in [Int -> Nat]
Witness(block, slot, tree, rank) ==
  block \in [Nat -> Nat] /\ slot \in [Nat -> Int] /\ tree \in [Nat -> Nat] /\ rank \in [Nat -> Nat]

\* The trees are those of the outside pointers; and those at the places T are lists, with
\* the tail among their blocks, and nothing behind it.
Apart(R, tree) == \A i \in Int : R[i] # NIL => tree[R[i]] = R[i]
IsList(H, L, tree, h) == H[h].tail \in L /\ tree[H[h].tail] = h /\ H[H[h].tail].next = NIL
AreLists(H, L, R, tree, T) == \A i \in T : R[i] # NIL => IsList(H, L, tree, R[i])

TreesBy(H, L, R, T, block, slot, tree, rank) ==
  /\ Witness(block, slot, tree, rank)
  /\ Owners(H, L, R, block, slot) /\ Ordered(L, block, tree, rank)
  /\ Apart(R, tree) /\ AreLists(H, L, R, tree, T)
Trees(H, L, R, T) ==
  /\ Typed(H, L, R) /\ T \subseteq Int
  /\ \E block, slot, tree, rank : TreesBy(H, L, R, T, block, slot, tree, rank)

\* Pointers that move: from the place i to to[i], to the place j from from[j]
Moves(R, S, to, from) ==
  /\ to \in [Int -> Int] /\ from \in [Int -> Int]
  /\ \A i \in Int : R[i] # NIL => S[to[i]] = R[i]
  /\ \A j \in Int : S[j] # NIL => R[from[j]] = S[j] /\ to[from[j]] = j

LEMMA MoveOwners ==
  ASSUME NEW H, NEW L, NEW R, Typed(H, L, R), NEW block \in [Nat -> Nat], NEW slot \in [Nat -> Int],
         Owners(H, L, R, block, slot), NEW S \in [Int -> Nat], NEW to, NEW from, Moves(R, S, to, from)
  PROVE  \E new \in [Nat -> Int] : Owners(H, L, S, block, new)
  <1> DEFINE new == [x \in Nat |-> IF block[x] = 0 THEN to[slot[x]] ELSE slot[x]]
  <1>1. new \in [Nat -> Int] /\ \A x \in Nat : new[x] = IF block[x] = 0 THEN to[slot[x]] ELSE slot[x]
    BY DEF Moves
  <1> HIDE DEF new
  <1>2. /\ \A x \in L : x \in Nat \ {0}
        /\ \A a \in L : \A k \in Slots(H, a) : k \in Int
    <2>1. IsHeap(H) /\ L \subseteq 1 .. Len(H)
      BY DEF Typed
    <2>2. \A a \in L : a \in Nat \ {0} /\ Slots(H, a) \subseteq Nat
      BY <2>1, SlotsTyped
    <2> QED BY <2>2
  <1>3. ASSUME NEW j \in Int, S[j] # NIL
        PROVE  S[j] \in L /\ block[S[j]] = 0 /\ new[S[j]] = j
    <2>1. R[from[j]] = S[j] /\ to[from[j]] = j /\ from[j] \in Int
      BY <1>3 DEF Moves
    <2>2. S[j] \in L /\ block[S[j]] = 0 /\ slot[S[j]] = from[j]
      BY <1>3, <2>1 DEF Owners
    <2> QED BY <1>1, <1>2, <2>1, <2>2
  <1>4. ASSUME NEW a \in L, NEW k \in Slots(H, a), Slot(H, a, k) # NIL
        PROVE  Slot(H, a, k) \in L /\ block[Slot(H, a, k)] = a /\ new[Slot(H, a, k)] = k
    <2>1. Slot(H, a, k) \in L /\ block[Slot(H, a, k)] = a /\ slot[Slot(H, a, k)] = k
      BY <1>4 DEF Owners
    <2> QED BY <1>1, <1>2, <2>1
  <1>5. ASSUME NEW x \in L
        PROVE  IF block[x] = 0 THEN S[new[x]] = x
               ELSE block[x] \in L /\ new[x] \in Slots(H, block[x]) /\ Slot(H, block[x], new[x]) = x
    <2>1. x \in Nat \ {0} /\ slot[x] \in Int
      BY <1>2
    <2>2. CASE block[x] = 0
      <3>1. R[slot[x]] = x
        BY <2>2 DEF Owners
      <3>2. S[to[slot[x]]] = x
        BY <2>1, <3>1 DEF Moves, NIL
      <3> QED BY <1>1, <2>1, <2>2, <3>2
    <2>3. CASE block[x] # 0
      <3>1. new[x] = slot[x]
        BY <1>1, <2>1, <2>3
      <3> QED BY <2>3, <3>1 DEF Owners
    <2> QED BY <2>2, <2>3
  <1>6. Owners(H, L, S, block, new)
    BY <1>3, <1>4, <1>5 DEF Owners
  <1> QED BY <1>1, <1>6

\* Trees do not change when the pointers to them move.
LEMMA MoveTrees ==
  ASSUME NEW H, NEW L, NEW R, NEW T, Trees(H, L, R, T), NEW S \in [Int -> Nat], NEW to, NEW from,
         Moves(R, S, to, from), NEW U \in SUBSET Int, \A j \in U : S[j] # NIL => from[j] \in T
  PROVE  Trees(H, L, S, U)
  <1>1. PICK block, slot, tree, rank : TreesBy(H, L, R, T, block, slot, tree, rank)
    BY DEF Trees
  <1>2. Typed(H, L, R) /\ Typed(H, L, S)
    BY DEF Trees, Typed
  <1>3. PICK new \in [Nat -> Int] : Owners(H, L, S, block, new)
    BY <1>1, <1>2, MoveOwners DEF TreesBy, Witness
  <1>4. \A j \in Int : S[j] # NIL => from[j] \in Int /\ R[from[j]] = S[j]
    BY DEF Moves
  <1>5. Apart(S, tree)
    BY <1>1, <1>4 DEF TreesBy, Apart
  <1>6. AreLists(H, L, S, tree, U)
    <2>1. ASSUME NEW j \in U, S[j] # NIL PROVE IsList(H, L, tree, S[j])
      <3>1. from[j] \in T /\ R[from[j]] = S[j]
        BY <1>4, <2>1
      <3>2. AreLists(H, L, R, tree, T)
        BY <1>1 DEF TreesBy
      <3> QED BY <2>1, <3>1, <3>2 DEF AreLists
    <2> QED BY <2>1 DEF AreLists
  <1>7. TreesBy(H, L, S, U, block, new, tree, rank)
    BY <1>1, <1>3, <1>5, <1>6 DEF TreesBy, Witness
  <1> QED BY <1>2, <1>7 DEF Trees

\* The pointers that a new block f takes from places outside, each from one of its own; f is
\* then at z
Takes(R, S, kids, place, z, f) ==
  /\ place \in [DOMAIN kids -> Int]
  /\ \A k \in DOMAIN kids : kids[k] = R[place[k]]
  /\ \A k, l \in DOMAIN kids : place[k] = place[l] => k = l
  /\ S = [i \in Int |-> IF i = z THEN f ELSE IF \E k \in DOMAIN kids : place[k] = i THEN NIL ELSE R[i]]

LEMMA MakeTrees ==
  ASSUME NEW H, NEW L, NEW R, NEW T, Trees(H, L, R, T),
         NEW kids \in Seq(Nat), NEW z \in Int, R[z] = NIL, NEW kind, NEW tag,
         NEW place, NEW S, Takes(R, S, kids, place, z, Fresh(H)),
         NEW U, U \subseteq T \cup {z}, z \in U => kind \in Listed
  PROVE  Trees(New(H, kind, tag, kids), L \cup {Fresh(H)}, S, U)
  <1> DEFINE G == New(H, kind, tag, kids)
             f == Fresh(H)
             M == L \cup {f}
             size == Len(H)
             taken(i) == \E k \in DOMAIN kids : place[k] = i
             in == [i \in Int |-> IF taken(i) THEN CHOOSE k \in DOMAIN kids : place[k] = i ELSE 0]
  <1>1. IsHeap(H) /\ R \in [Int -> Nat] /\ T \subseteq Int
    BY DEF Trees, Typed
  <1>2. size \in Nat /\ L \subseteq 1 .. size
    BY HeapLength DEF Trees, Typed
  <1>3. /\ IsHeap(G) /\ Len(G) = size + 1 /\ f = size + 1
        /\ \A a \in 1 .. size : G[a] = H[a]
        /\ G[f].kids = kids /\ G[f].next = NIL
        /\ kind \in Listed => G[f].tail = f
    <2>1. IsHeap(H)
      BY <1>1
    <2>2. G = New(H, kind, tag, kids)
      OBVIOUS
    <2> HIDE DEF G, f, M, taken, in
    <2>3. /\ IsHeap(G) /\ Len(G) = Len(H) + 1 /\ Fresh(H) = Len(H) + 1
          /\ \A a \in 1 .. Len(H) : G[a] = H[a]
          /\ G[Fresh(H)].kids = kids /\ G[Fresh(H)].next = NIL
          /\ kind \in Listed => G[Fresh(H)].tail = Fresh(H)
      BY <2>1, <2>2, NewBlock
    <2> QED BY <2>3 DEF f
  <1> HIDE DEF size
  <1>4. f = size + 1 /\ Len(G) = size + 1
    BY <1>3
  <1>5. \A a \in L : a \in 1 .. Len(H) /\ G[a] = H[a] /\ Slots(H, a) \subseteq Nat
    <2>1. \A a \in 1 .. size : G[a] = H[a]
      BY <1>3
    <2>2. \A a \in L : a \in 1 .. Len(H) /\ Slots(H, a) \subseteq Nat
      BY <1>1, <1>2, SlotsTyped DEF size
    <2> QED BY <1>2, <2>1, <2>2
  <1>6. G[f].kids = kids /\ G[f].next = NIL
    BY <1>3
  <1>7. PICK block, slot, tree, rank : TreesBy(H, L, R, T, block, slot, tree, rank)
    BY DEF Trees
  <1>8. DOMAIN kids = 1 .. Len(kids) /\ Len(kids) \in Nat
    BY LenProperties
  <1>9. /\ place \in [DOMAIN kids -> Int]
        /\ \A k \in DOMAIN kids : kids[k] = R[place[k]]
        /\ \A k, l \in DOMAIN kids : place[k] = place[l] => k = l
    BY DEF Takes
  <1>10. /\ in \in [Int -> Nat]
         /\ \A i \in Int : taken(i) => in[i] \in DOMAIN kids /\ place[in[i]] = i
         /\ \A k \in DOMAIN kids : in[place[k]] = k /\ taken(place[k])
    <2>1. \A i \in Int : taken(i) => in[i] \in DOMAIN kids /\ place[in[i]] = i
      BY <1>9
    <2>2. in \in [Int -> Nat]
      <3>1. ASSUME NEW i \in Int PROVE in[i] \in Nat
        BY <1>8, <2>1
      <3> HIDE DEF taken
      <3> QED BY <3>1
    <2>3. ASSUME NEW k \in DOMAIN kids PROVE in[place[k]] = k /\ taken(place[k])
      <3>1. place[k] \in Int /\ taken(place[k])
        BY <1>9
      <3>2. in[place[k]] \in DOMAIN kids /\ place[in[place[k]]] = place[k]
        BY <2>1, <3>1
      <3> HIDE DEF in
      <3> QED BY <1>9, <3>1, <3>2
    <2> QED BY <2>1, <2>2, <2>3
  <1>11. S \in [Int -> Nat] /\ \A i \in Int : S[i] = IF i = z THEN f ELSE IF taken(i) THEN NIL ELSE R[i]
    <2>1. \A i \in Int : S[i] = IF i = z THEN f ELSE IF taken(i) THEN NIL ELSE R[i]
      BY DEF Takes
    <2>2. S = [i \in Int |-> S[i]]
      BY DEF Takes
    <2>3. \A i \in Int : S[i] \in Nat
      <3> HIDE DEF taken, f
      <3>1. f \in Nat
        BY <1>2, <1>4
      <3> QED BY <1>1, <2>1, <3>1 DEF NIL
    <2> HIDE DEF taken, f
    <2>4. S \in [Int -> Nat]
      BY <2>2, <2>3, Zenon
    <2> QED BY <2>1, <2>4
  <1> HIDE DEF f, G
  <1>12. f \in Nat \ {0} /\ f \notin L /\ \A x \in L : x \in Nat \ {0}
    BY <1>2, <1>4
  <1>13. Typed(G, M, S) /\ U \subseteq Int
    <2>1. M \subseteq 1 .. Len(G)
      BY <1>2, <1>4
    <2> QED BY <1>1, <1>3, <1>11, <2>1 DEF Typed
  <1>14. \A x \in M : /\ Slots(G, x) = IF x = f THEN 0 .. Len(kids) ELSE Slots(H, x)
                      /\ Slots(G, x) \subseteq Nat
                      /\ \A k : Slot(G, x, k) = IF x = f THEN (IF k = 0 THEN NIL ELSE kids[k]) ELSE Slot(H, x, k)
    <2>1. ASSUME NEW x \in L
          PROVE  /\ Slots(G, x) = Slots(H, x) /\ Slots(H, x) \subseteq Nat
                 /\ \A k : Slot(G, x, k) = Slot(H, x, k)
      BY <1>5 DEF Slots, Slot
    <2>2. /\ Slots(G, f) = 0 .. Len(kids) /\ Slots(G, f) \subseteq Nat
          /\ \A k : Slot(G, f, k) = IF k = 0 THEN NIL ELSE kids[k]
      BY <1>8, <1>6 DEF Slots, Slot
    <2> QED BY <1>12, <2>1, <2>2
  <1> DEFINE moved(x) == block[x] = 0 /\ taken(slot[x])
             block2 == [x \in Nat |-> IF x = f THEN 0 ELSE IF moved(x) THEN f ELSE block[x]]
             slot2  == [x \in Nat |-> IF x = f THEN z ELSE IF moved(x) THEN in[slot[x]] ELSE slot[x]]
             joined(x) == \E k \in DOMAIN kids : kids[k] # NIL /\ tree[x] = kids[k]
             tree2  == [x \in Nat |-> IF x = f THEN f ELSE IF joined(x) THEN f ELSE tree[x]]
             rank2  == [x \in Nat |-> IF x = f THEN 0 ELSE rank[x] + 1]
  <1>15. Witness(block2, slot2, tree2, rank2)
    <2>1. block \in [Nat -> Nat] /\ slot \in [Nat -> Int] /\ tree \in [Nat -> Nat] /\ rank \in [Nat -> Nat]
      BY <1>7 DEF TreesBy, Witness
    <2> HIDE DEF in
    <2>2. \A x \in Nat : block2[x] \in Nat /\ tree2[x] \in Nat /\ rank2[x] \in Nat /\ slot2[x] \in Int
      <3> HIDE DEF taken, joined
      <3> SUFFICES ASSUME NEW x \in Nat
                   PROVE  block2[x] \in Nat /\ tree2[x] \in Nat /\ rank2[x] \in Nat /\ slot2[x] \in Int
        OBVIOUS
      <3>1. slot[x] \in Int /\ in[slot[x]] \in Nat /\ rank[x] \in Nat /\ tree[x] \in Nat /\ block[x] \in Nat
        BY <1>10, <2>1
      <3> QED BY <1>12, <3>1
    <2>3. /\ block2 = [x \in Nat |-> block2[x]] /\ slot2 = [x \in Nat |-> slot2[x]]
          /\ tree2 = [x \in Nat |-> tree2[x]] /\ rank2 = [x \in Nat |-> rank2[x]]
      OBVIOUS
    <2> HIDE DEF block2, slot2, tree2, rank2
    <2> QED BY <2>2, <2>3 DEF Witness
  <1>16. /\ \A x \in L : block2[x] = (IF moved(x) THEN f ELSE block[x])
         /\ \A x \in L : slot2[x] = (IF moved(x) THEN in[slot[x]] ELSE slot[x])
         /\ \A x \in L : tree2[x] = (IF joined(x) THEN f ELSE tree[x])
         /\ \A x \in L : rank2[x] = rank[x] + 1 /\ rank[x] \in Nat /\ slot[x] \in Int
         /\ block2[f] = 0 /\ slot2[f] = z /\ tree2[f] = f /\ rank2[f] = 0
    <2>1. slot \in [Nat -> Int] /\ rank \in [Nat -> Nat]
      BY <1>7 DEF TreesBy, Witness
    <2> HIDE DEF taken, joined, in
    <2> QED BY <1>12, <2>1
  <1> HIDE DEF block2, slot2, tree2, rank2, in, taken
  <1>17. Owners(H, L, R, block, slot) /\ Ordered(L, block, tree, rank) /\ Apart(R, tree) /\ AreLists(H, L, R, tree, T)
    BY <1>7 DEF TreesBy
  <1>18. Owners(G, M, S, block2, slot2)
    <2>1. ASSUME NEW i \in Int, S[i] # NIL
          PROVE  S[i] \in M /\ block2[S[i]] = 0 /\ slot2[S[i]] = i
      <3>1. CASE i = z
        BY <1>11, <1>16, <3>1
      <3>2. CASE i # z
        <4>1. S[i] = R[i] /\ ~taken(i)
          BY <1>11, <2>1, <3>2
        <4>2. R[i] \in L /\ block[R[i]] = 0 /\ slot[R[i]] = i
          BY <1>17, <2>1, <4>1 DEF Owners
        <4> QED BY <1>16, <4>1, <4>2
      <3> QED BY <3>1, <3>2
    <2>2. ASSUME NEW a \in M, NEW k \in Slots(G, a), Slot(G, a, k) # NIL
          PROVE  Slot(G, a, k) \in M /\ block2[Slot(G, a, k)] = a /\ slot2[Slot(G, a, k)] = k
      <3>1. CASE a = f
        <4>1. k \in DOMAIN kids /\ Slot(G, a, k) = kids[k] /\ kids[k] = R[place[k]] /\ place[k] \in Int
          BY <1>8, <1>14, <1>9, <2>2, <3>1
        <4>2. R[place[k]] \in L /\ block[R[place[k]]] = 0 /\ slot[R[place[k]]] = place[k]
          BY <1>17, <2>2, <4>1 DEF Owners
        <4>3. in[place[k]] = k /\ taken(place[k])
          BY <1>10, <4>1
        <4>4. moved(Slot(G, a, k)) /\ slot[Slot(G, a, k)] = place[k]
          BY <4>1, <4>2, <4>3
        <4>5. Slot(G, a, k) \in L
          BY <4>1, <4>2
        <4> HIDE DEF moved
        <4> QED BY <1>16, <3>1, <4>3, <4>4, <4>5
      <3>2. CASE a # f
        <4>1. a \in L /\ k \in Slots(H, a) /\ Slot(G, a, k) = Slot(H, a, k)
          BY <1>14, <2>2, <3>2
        <4>2. Slot(H, a, k) \in L /\ block[Slot(H, a, k)] = a /\ slot[Slot(H, a, k)] = k
          BY <1>17, <2>2, <4>1 DEF Owners
        <4>3. a # 0
          BY <1>12, <4>1
        <4> QED BY <1>16, <4>1, <4>2, <4>3
      <3> QED BY <3>1, <3>2
    <2>3. ASSUME NEW x \in M
          PROVE  IF block2[x] = 0 THEN S[slot2[x]] = x
                 ELSE block2[x] \in M /\ slot2[x] \in Slots(G, block2[x]) /\ Slot(G, block2[x], slot2[x]) = x
      <3>1. CASE x = f
        BY <1>11, <1>16, <3>1
      <3>2. CASE x \in L /\ moved(x)
        <4>1. block2[x] = f /\ slot2[x] = in[slot[x]] /\ f # 0 /\ slot[x] \in Int
          BY <1>12, <1>16, <3>2
        <4>2. in[slot[x]] \in DOMAIN kids /\ place[in[slot[x]]] = slot[x]
          BY <1>10, <3>2, <4>1
        <4>3. R[slot[x]] = x
          BY <1>17, <3>2 DEF Owners
        <4>4. Slot(G, f, in[slot[x]]) = kids[in[slot[x]]] /\ in[slot[x]] \in Slots(G, f)
          <5> DEFINE k == in[slot[x]]
          <5>1. k \in 1 .. Len(kids) /\ k # 0 /\ k \in 0 .. Len(kids) /\ f \in M
            BY <1>8, <4>2
          <5> HIDE DEF k
          <5>2. Slot(G, f, k) = kids[k] /\ k \in Slots(G, f)
            BY <1>14, <5>1
          <5> QED BY <5>2 DEF k
        <4>5. kids[in[slot[x]]] = x
          BY <1>9, <4>2, <4>3
        <4> QED BY <4>1, <4>4, <4>5
      <3>3. CASE x \in L /\ ~moved(x)
        <4>1. block2[x] = block[x] /\ slot2[x] = slot[x] /\ slot[x] \in Int /\ x # NIL
          BY <1>12, <1>16, <3>3 DEF NIL
        <4>2. CASE block[x] = 0
          <5>1. R[slot[x]] = x /\ ~taken(slot[x])
            BY <1>17, <3>3, <4>2 DEF Owners
          <5>2. slot[x] # z
            BY <4>1, <5>1
          <5> QED BY <1>11, <4>1, <4>2, <5>1, <5>2
        <4>3. CASE block[x] # 0
          <5>1. block[x] \in L /\ slot[x] \in Slots(H, block[x]) /\ Slot(H, block[x], slot[x]) = x
            BY <1>17, <3>3, <4>3 DEF Owners
          <5>2. block[x] # f
            BY <1>12, <5>1
          <5> QED BY <1>14, <4>1, <4>3, <5>1, <5>2
        <4> QED BY <4>2, <4>3
      <3> QED BY <3>1, <3>2, <3>3
    <2> HIDE DEF M
    <2> QED BY <2>1, <2>2, <2>3 DEF Owners
  <1>19. Ordered(M, block2, tree2, rank2)
    <2>1. ASSUME NEW x \in M, block2[x] # 0
          PROVE  tree2[x] = tree2[block2[x]] /\ rank2[block2[x]] < rank2[x]
      <3>1. x \in L
        BY <1>16, <2>1
      <3>2. CASE moved(x)
        <4>1. R[slot[x]] = x /\ slot[x] \in Int /\ x # NIL
          BY <1>12, <1>16, <1>17, <3>1, <3>2 DEF Owners, NIL
        <4>2. tree[x] = x
          BY <1>17, <4>1 DEF Apart
        <4>3. in[slot[x]] \in DOMAIN kids /\ kids[in[slot[x]]] = x
          <5>1. in[slot[x]] \in DOMAIN kids /\ place[in[slot[x]]] = slot[x]
            BY <1>10, <3>2, <4>1
          <5> QED BY <1>9, <4>1, <5>1
        <4>4. joined(x)
          BY <4>1, <4>2, <4>3
        <4>5. tree2[x] = f /\ block2[x] = f
          BY <1>16, <3>1, <3>2, <4>4
        <4> QED BY <1>16, <3>1, <4>5
      <3>3. CASE ~moved(x)
        <4>1. block2[x] = block[x] /\ block[x] # 0
          BY <1>16, <2>1, <3>1, <3>3
        <4>2. block[x] \in L
          BY <1>17, <3>1, <4>1 DEF Owners
        <4>3. tree[x] = tree[block[x]] /\ rank[block[x]] < rank[x]
          BY <1>17, <3>1, <4>1 DEF Ordered
        <4>4. joined(x) <=> joined(block[x])
          BY <4>3
        <4>5. tree2[x] = tree2[block[x]]
          BY <1>16, <3>1, <4>2, <4>3, <4>4
        <4> QED BY <1>16, <3>1, <4>1, <4>2, <4>3, <4>5
      <3> QED BY <3>2, <3>3
    <2> QED BY <2>1 DEF Ordered
  <1>20. ASSUME NEW i \in Int, S[i] # NIL, i # z
         PROVE  /\ S[i] = R[i] /\ S[i] \in L
                /\ \A x : tree[x] = S[i] => ~joined(x)
    <2>1. S[i] = R[i] /\ ~taken(i)
      BY <1>11, <1>20
    <2>2. R[i] \in L /\ slot[R[i]] = i
      BY <1>17, <1>20, <2>1 DEF Owners
    <2>3. ASSUME NEW k \in DOMAIN kids, kids[k] = S[i] PROVE FALSE
      <3>1. R[place[k]] = R[i] /\ place[k] \in Int /\ R[place[k]] # NIL
        BY <1>20, <1>9, <2>1, <2>3
      <3>2. slot[R[place[k]]] = place[k]
        BY <1>17, <3>1 DEF Owners
      <3>3. taken(place[k])
        BY <1>10
      <3> QED BY <2>1, <2>2, <3>1, <3>2, <3>3
    <2> QED BY <2>1, <2>2, <2>3
  <1>21. Apart(S, tree2)
    <2>1. ASSUME NEW i \in Int, S[i] # NIL PROVE tree2[S[i]] = S[i]
      <3>1. CASE i = z
        BY <1>11, <1>16, <3>1
      <3>2. CASE i # z
        <4>1. S[i] = R[i] /\ S[i] \in L /\ \A x : tree[x] = S[i] => ~joined(x)
          BY <1>20, <2>1, <3>2
        <4>2. tree[S[i]] = S[i]
          BY <1>17, <2>1, <4>1 DEF Apart
        <4> HIDE DEF joined
        <4> QED BY <1>16, <4>1, <4>2
      <3> QED BY <3>1, <3>2
    <2> QED BY <2>1 DEF Apart
  <1>22. AreLists(G, M, S, tree2, U)
    <2>1. ASSUME NEW j \in U, S[j] # NIL PROVE IsList(G, M, tree2, S[j])
      <3>1. CASE j = z
        <4>1. S[j] = f /\ G[f].tail = f /\ G[f].next = NIL
          BY <1>3, <1>11, <2>1, <3>1 DEF G, f
        <4> QED BY <1>16, <4>1 DEF IsList
      <3>2. CASE j # z
        <4>1. j \in T /\ j \in Int
          BY <1>1, <3>2
        <4>2. S[j] = R[j] /\ S[j] \in L /\ \A x : tree[x] = S[j] => ~joined(x)
          BY <1>20, <2>1, <3>2, <4>1
        <4>3. IsList(H, L, tree, S[j])
          BY <1>17, <2>1, <4>1, <4>2 DEF AreLists
        <4>4. \A x \in L : G[x] = H[x]
          BY <1>5
        <4> HIDE DEF joined
        <4>5. tree2[H[S[j]].tail] = S[j]
          BY <1>16, <4>2, <4>3 DEF IsList
        <4> QED BY <4>2, <4>3, <4>4, <4>5 DEF IsList
      <3> QED BY <3>1, <3>2
    <2> QED BY <2>1 DEF AreLists
  <1>23. TreesBy(G, M, S, U, block2, slot2, tree2, rank2)
    BY <1>15, <1>18, <1>19, <1>21, <1>22 DEF TreesBy
  <1> QED BY <1>13, <1>23 DEF Trees, G, f

\* The list at the place j goes behind the one at the place i.
LEMMA AppendTrees ==
  ASSUME NEW H, NEW L, NEW R, NEW T, Trees(H, L, R, T), NEW i \in T, NEW j \in T, i # j,
         R[i] # NIL, R[j] # NIL, NEW S, S = [R EXCEPT ![j] = NIL]
  PROVE  Trees(Appended(H, R[i], R[j]), L, S, T)
  <1> DEFINE h == R[i]
             n == R[j]
             t == H[h].tail
             u == H[n].tail
             size == Len(H)
             G == Appended(H, h, n)
  <1>1. IsHeap(H) /\ R \in [Int -> Nat] /\ T \subseteq Int
    BY DEF Trees, Typed
  <1>2. size \in Nat /\ L \subseteq 1 .. size
    BY HeapLength DEF Trees, Typed
  <1>3. PICK block, slot, tree, rank : TreesBy(H, L, R, T, block, slot, tree, rank)
    BY DEF Trees
  <1>4. Owners(H, L, R, block, slot) /\ Ordered(L, block, tree, rank) /\ Apart(R, tree) /\ AreLists(H, L, R, tree, T)
    BY <1>3 DEF TreesBy
  <1>5. block \in [Nat -> Nat] /\ slot \in [Nat -> Int] /\ tree \in [Nat -> Nat] /\ rank \in [Nat -> Nat]
    BY <1>3 DEF TreesBy, Witness
  <1>6. i \in Int /\ j \in Int
    BY <1>1
  <1>7. /\ h \in L /\ block[h] = 0 /\ slot[h] = i /\ tree[h] = h
        /\ n \in L /\ block[n] = 0 /\ slot[n] = j /\ tree[n] = n /\ n # h
    BY <1>4, <1>6 DEF Owners, Apart
  <1>8. t \in L /\ tree[t] = h /\ H[t].next = NIL /\ u \in L /\ tree[u] = n /\ H[u].next = NIL
    BY <1>4 DEF AreLists, IsList
  <1>9. \A x \in L : x \in Nat \ {0} /\ x \in 1 .. size /\ 0 \in Slots(H, x) /\ Slots(H, x) \subseteq Nat
    BY <1>1, <1>2, SlotsTyped
  <1>10. S \in [Int -> Nat] /\ \A l \in Int : S[l] = IF l = j THEN NIL ELSE R[l]
    <2>1. NIL \in Nat
      BY DEF NIL
    <2> QED BY <1>1, <1>6, <2>1
  <1>11. /\ IsHeap(G) /\ Len(G) = size
         /\ \A a \in 1 .. size :
              /\ G[a].kids = H[a].kids
              /\ G[a].next = IF a = t THEN n ELSE H[a].next
              /\ G[a].tail = IF a = h THEN u ELSE H[a].tail
    <2>1. h \in 1 .. Len(H) /\ n \in 1 .. Len(H) /\ h # NIL /\ n # NIL /\ t \in 1 .. Len(H)
      BY <1>7, <1>8, <1>9 DEF NIL
    <2>2. G = Appended(H, h, n) /\ t = H[h].tail /\ u = H[n].tail /\ size = Len(H)
      OBVIOUS
    <2>3. IsHeap(H)
      BY <1>1
    <2> HIDE DEF G, h, n, t, u, size
    <2>4. /\ IsHeap(G) /\ Len(G) = Len(H)
          /\ \A a \in 1 .. Len(H) :
               /\ G[a].kids = H[a].kids
               /\ G[a].next = IF a = t THEN n ELSE H[a].next
               /\ G[a].tail = IF a = h THEN H[n].tail ELSE H[a].tail
      BY <2>3, <2>1, <2>2, AppendedBlock
    <2> QED BY <2>2, <2>4
  <1> HIDE DEF h, n, t, u, size, G
  <1>12. Typed(G, L, S)
    BY <1>2, <1>10, <1>11 DEF Typed
  <1>13. ASSUME NEW a \in L
         PROVE  /\ Slots(G, a) = Slots(H, a)
                /\ \A k : Slot(G, a, k) = IF a = t /\ k = 0 THEN n ELSE Slot(H, a, k)
                /\ G[a].next = IF a = t THEN n ELSE H[a].next
                /\ G[a].tail = IF a = h THEN u ELSE H[a].tail
    BY <1>9, <1>11 DEF Slots, Slot
  <1> DEFINE block2 == [block EXCEPT ![n] = t]
             slot2  == [slot EXCEPT ![n] = 0]
             tree2  == [x \in Nat |-> IF tree[x] = n THEN h ELSE tree[x]]
             rank2  == [x \in Nat |-> IF tree[x] = n THEN rank[x] + rank[t] + 1 ELSE rank[x]]
  <1>14. t \in Nat /\ h \in Nat /\ n \in Nat /\ n # 0 /\ t # 0 /\ n # NIL
    BY <1>7, <1>8, <1>9 DEF NIL
  <1>15. Witness(block2, slot2, tree2, rank2)
    <2>1. tree2 \in [Nat -> Nat] /\ block2 \in [Nat -> Nat] /\ slot2 \in [Nat -> Int]
      BY <1>5, <1>14
    <2>2. rank2 \in [Nat -> Nat]
      BY <1>5, <1>14
    <2> QED BY <2>1, <2>2 DEF Witness
  <1>16. \A x \in L : /\ block2[x] = (IF x = n THEN t ELSE block[x])
                      /\ slot2[x] = (IF x = n THEN 0 ELSE slot[x])
                      /\ tree2[x] = (IF tree[x] = n THEN h ELSE tree[x])
                      /\ rank2[x] = (IF tree[x] = n THEN rank[x] + rank[t] + 1 ELSE rank[x])
                      /\ rank[x] \in Nat /\ slot[x] \in Int
    BY <1>5, <1>9
  <1> HIDE DEF block2, slot2, tree2, rank2
  <1>17. Owners(G, L, S, block2, slot2)
    <2>1. ASSUME NEW l \in Int, S[l] # NIL
          PROVE  S[l] \in L /\ block2[S[l]] = 0 /\ slot2[S[l]] = l
      <3>1. S[l] = R[l] /\ l # j
        BY <1>10, <2>1
      <3>2. R[l] \in L /\ block[R[l]] = 0 /\ slot[R[l]] = l
        BY <1>4, <2>1, <3>1 DEF Owners
      <3>3. R[l] # n
        BY <1>7, <3>1, <3>2
      <3> QED BY <1>16, <3>1, <3>2, <3>3
    <2>2. ASSUME NEW a \in L, NEW k \in Slots(G, a), Slot(G, a, k) # NIL
          PROVE  Slot(G, a, k) \in L /\ block2[Slot(G, a, k)] = a /\ slot2[Slot(G, a, k)] = k
      <3>1. CASE a = t /\ k = 0
        BY <1>7, <1>13, <1>16, <3>1
      <3>2. CASE ~(a = t /\ k = 0)
        <4>1. k \in Slots(H, a) /\ Slot(G, a, k) = Slot(H, a, k)
          BY <1>13, <3>2
        <4>2. Slot(H, a, k) \in L /\ block[Slot(H, a, k)] = a /\ slot[Slot(H, a, k)] = k
          BY <1>4, <2>2, <4>1 DEF Owners
        <4>3. Slot(H, a, k) # n
          BY <1>7, <1>9, <4>2
        <4> QED BY <1>16, <4>1, <4>2, <4>3
      <3> QED BY <3>1, <3>2
    <2>3. ASSUME NEW x \in L
          PROVE  IF block2[x] = 0 THEN S[slot2[x]] = x
                 ELSE block2[x] \in L /\ slot2[x] \in Slots(G, block2[x]) /\ Slot(G, block2[x], slot2[x]) = x
      <3>1. CASE x = n
        <4>1. block2[x] = t /\ slot2[x] = 0
          BY <1>16, <3>1
        <4>2. 0 \in Slots(G, t) /\ Slot(G, t, 0) = n
          BY <1>8, <1>9, <1>13
        <4> QED BY <1>8, <1>14, <3>1, <4>1, <4>2
      <3>2. CASE x # n
        <4>1. block2[x] = block[x] /\ slot2[x] = slot[x] /\ slot[x] \in Int
          BY <1>16, <3>2
        <4>2. CASE block[x] = 0
          <5>1. R[slot[x]] = x
            BY <1>4, <4>2 DEF Owners
          <5>2. slot[x] # j
            BY <3>2, <5>1 DEF n
          <5> QED BY <1>10, <4>1, <4>2, <5>1, <5>2
        <4>3. CASE block[x] # 0
          <5>1. block[x] \in L /\ slot[x] \in Slots(H, block[x]) /\ Slot(H, block[x], slot[x]) = x
            BY <1>4, <4>3 DEF Owners
          <5>2. x # NIL
            BY <1>9 DEF NIL
          <5>3. ~(block[x] = t /\ slot[x] = 0)
            BY <1>8, <5>1, <5>2 DEF Slot
          <5> QED BY <1>13, <4>1, <4>3, <5>1, <5>3
        <4> QED BY <4>2, <4>3
      <3> QED BY <3>1, <3>2
    <2> QED BY <2>1, <2>2, <2>3 DEF Owners
  <1>18. Ordered(L, block2, tree2, rank2)
    <2>1. ASSUME NEW x \in L, block2[x] # 0
          PROVE  tree2[x] = tree2[block2[x]] /\ rank2[block2[x]] < rank2[x]
      <3>1. CASE x = n
        <4>1. tree2[x] = h /\ tree2[t] = h /\ block2[x] = t
          BY <1>7, <1>8, <1>16, <3>1
        <4>2. rank2[x] = rank[x] + rank[t] + 1 /\ rank2[t] = rank[t] /\ rank[x] \in Nat /\ rank[t] \in Nat
          BY <1>7, <1>8, <1>16, <3>1
        <4> QED BY <4>1, <4>2
      <3>2. CASE x # n
        <4>1. block2[x] = block[x] /\ block[x] # 0
          BY <1>16, <2>1, <3>2
        <4>2. block[x] \in L
          BY <1>4, <4>1 DEF Owners
        <4>3. tree[x] = tree[block[x]] /\ rank[block[x]] < rank[x]
          BY <1>4, <4>1 DEF Ordered
        <4>4. tree2[x] = tree2[block[x]]
          BY <1>16, <4>2, <4>3
        <4>5. rank[t] \in Nat /\ rank[x] \in Nat /\ rank[block[x]] \in Nat
          BY <1>8, <1>16, <4>2
        <4>6. rank2[block[x]] < rank2[x]
          BY <1>16, <4>2, <4>3, <4>5
        <4> QED BY <4>1, <4>4, <4>6
      <3> QED BY <3>1, <3>2
    <2> QED BY <2>1 DEF Ordered
  <1>19. ASSUME NEW l \in Int, S[l] # NIL
         PROVE  l # j /\ S[l] = R[l] /\ S[l] \in L /\ S[l] # n /\ tree[S[l]] = S[l] /\ (S[l] = h => l = i)
    <2>1. S[l] = R[l] /\ l # j
      BY <1>10, <1>19
    <2>2. R[l] \in L /\ slot[R[l]] = l /\ tree[R[l]] = R[l]
      BY <1>4, <1>19, <2>1 DEF Owners, Apart
    <2> QED BY <1>7, <2>1, <2>2
  <1>20. Apart(S, tree2)
    <2>1. ASSUME NEW l \in Int, S[l] # NIL PROVE tree2[S[l]] = S[l]
      <3>1. S[l] \in L /\ S[l] # n /\ tree[S[l]] = S[l]
        BY <1>19, <2>1
      <3> QED BY <1>16, <3>1
    <2> QED BY <2>1 DEF Apart
  <1>21. AreLists(G, L, S, tree2, T)
    <2>1. ASSUME NEW l \in T, S[l] # NIL PROVE IsList(G, L, tree2, S[l])
      <3>1. l \in Int
        BY <1>1
      <3>2. /\ l # j /\ S[l] = R[l] /\ S[l] \in L /\ S[l] # n /\ tree[S[l]] = S[l]
            /\ S[l] = h => l = i
        BY <1>19, <2>1, <3>1
      <3>3. CASE S[l] = h
        <4>1. G[h].tail = u
          BY <1>7, <1>13
        <4>2. u # t
          BY <1>7, <1>8
        <4>3. G[u].next = NIL
          BY <1>8, <1>13, <4>2
        <4>4. tree2[u] = h
          BY <1>8, <1>16
        <4> QED BY <1>8, <3>3, <4>1, <4>3, <4>4 DEF IsList
      <3>4. CASE S[l] # h
        <4> DEFINE r == S[l]
                   v == H[r].tail
        <4>1. v \in L /\ tree[v] = r /\ H[v].next = NIL
          <5>1. R[l] = r /\ R[l] # NIL
            BY <2>1, <3>2
          <5> QED BY <1>4, <2>1, <5>1 DEF AreLists, IsList
        <4>2. G[r].tail = v
          BY <1>13, <3>2, <3>4
        <4>3. v # t
          BY <1>8, <3>4, <4>1
        <4>4. G[v].next = NIL
          BY <1>13, <4>1, <4>3
        <4>5. tree2[v] = r
          BY <1>16, <3>2, <4>1
        <4> QED BY <4>1, <4>2, <4>4, <4>5 DEF IsList
      <3> QED BY <3>3, <3>4
    <2> QED BY <2>1 DEF AreLists
  <1>22. TreesBy(G, L, S, T, block2, slot2, tree2, rank2)
    BY <1>15, <1>17, <1>18, <1>20, <1>21 DEF TreesBy
  <1> QED BY <1>1, <1>12, <1>22 DEF Trees, G, h, n

\* The blocks have owners and an order, apart from what their trees are
HaveOwners(H, L, R, tree, rank) ==
  \E block, slot : Witness(block, slot, tree, rank) /\ Owners(H, L, R, block, slot) /\ Ordered(L, block, tree, rank)

\* The block x at the place r is freed.  What it points to, slot by slot, is then at places
\* outside: slot k at place[k], and inside[place[k]] = k.
Replaces(R, Q, r, H, x, place, inside) ==
  /\ \A k \in Slots(H, x) : place[k] \in Int /\ Q[place[k]] = Slot(H, x, k) /\ inside[place[k]] = k
  /\ \A i \in Int : Q[i] # NIL =>
       \/ inside[i] \in Slots(H, x) /\ place[inside[i]] = i
       \/ i # r /\ Q[i] = R[i]
  /\ \A i \in Int : i # r /\ R[i] # NIL => Q[i] = R[i]

SameTree(H, x, tree) == \A k \in Slots(H, x) : Slot(H, x, k) # NIL => tree[Slot(H, x, k)] = tree[x]

LEMMA FreeOwners ==
  ASSUME NEW H, NEW L, NEW R, Typed(H, L, R), NEW tree, NEW rank, HaveOwners(H, L, R, tree, rank),
         NEW r \in Int, NEW x, x = R[r], x # NIL,
         NEW Q, NEW place, NEW inside,
         Replaces(R, Q, r, H, x, place, inside)
  PROVE  x \in L /\ HaveOwners(H, L \ {x}, Q, tree, rank) /\ SameTree(H, x, tree)
  <1>1. IsHeap(H) /\ L \subseteq 1 .. Len(H)
    BY DEF Typed
  <1>2. PICK block, slot : /\ Witness(block, slot, tree, rank)
                           /\ Owners(H, L, R, block, slot) /\ Ordered(L, block, tree, rank)
    BY DEF HaveOwners
  <1>3. /\ \A k \in Slots(H, x) : place[k] \in Int /\ Q[place[k]] = Slot(H, x, k) /\ inside[place[k]] = k
        /\ \A i \in Int : Q[i] # NIL =>
             \/ inside[i] \in Slots(H, x) /\ place[inside[i]] = i
             \/ i # r /\ Q[i] = R[i]
        /\ \A i \in Int : i # r /\ R[i] # NIL => Q[i] = R[i]
    BY DEF Replaces
  <1>4. x \in L /\ block[x] = 0 /\ slot[x] = r
    BY <1>2 DEF Owners
  <1>5. \A y \in L : y \in Nat \ {0} /\ Slots(H, y) \subseteq Nat
    BY <1>1, SlotsTyped
  <1>6. block \in [Nat -> Nat] /\ slot \in [Nat -> Int] /\ tree \in [Nat -> Nat] /\ rank \in [Nat -> Nat]
    BY <1>2 DEF Witness
  <1> DEFINE inner(y) == block[y] = x /\ slot[y] \in Slots(H, x)
             block2 == [y \in Nat |-> IF inner(y) THEN 0 ELSE block[y]]
             slot2  == [y \in Nat |-> IF inner(y) THEN place[slot[y]] ELSE slot[y]]
  <1>7. Witness(block2, slot2, tree, rank)
    <2>1. \A y \in Nat : inner(y) => place[slot[y]] \in Int
      BY <1>3
    <2> HIDE DEF inner
    <2>2. block2 \in [Nat -> Nat] /\ slot2 \in [Nat -> Int]
      BY <1>6, <2>1
    <2> QED BY <1>6, <2>2 DEF Witness
  <1>8. \A y \in L : /\ block2[y] = (IF inner(y) THEN 0 ELSE block[y])
                     /\ slot2[y] = (IF inner(y) THEN place[slot[y]] ELSE slot[y])
                     /\ slot[y] \in Int
    BY <1>5, <1>6
  <1> HIDE DEF block2, slot2
  <1>9. ASSUME NEW k \in Slots(H, x), NEW v, v = Slot(H, x, k), v # NIL
        PROVE  v \in L \ {x} /\ block[v] = x /\ slot[v] = k /\ inner(v) /\ tree[v] = tree[x]
    <2>1. v \in L /\ block[v] = x /\ slot[v] = k
      BY <1>4, <1>9, <1>2 DEF Owners
    <2>2. x # 0
      BY <1>4, <1>5
    <2>3. tree[v] = tree[block[v]]
      BY <1>2, <2>1, <2>2 DEF Ordered
    <2> QED BY <1>4, <2>1, <2>2, <2>3
  <1>10. Owners(H, L \ {x}, Q, block2, slot2)
    <2>1. ASSUME NEW i \in Int, Q[i] # NIL
          PROVE  Q[i] \in L \ {x} /\ block2[Q[i]] = 0 /\ slot2[Q[i]] = i
      <3>1. CASE inside[i] \in Slots(H, x) /\ place[inside[i]] = i
        <4>1. Q[i] = Slot(H, x, inside[i])
          BY <1>3, <3>1
        <4>2. Q[i] \in L \ {x} /\ slot[Q[i]] = inside[i] /\ inner(Q[i])
          BY <1>9, <2>1, <3>1, <4>1
        <4> HIDE DEF inner
        <4> QED BY <1>8, <3>1, <4>2
      <3>2. CASE i # r /\ Q[i] = R[i]
        <4>1. R[i] \in L /\ block[R[i]] = 0 /\ slot[R[i]] = i
          BY <1>2, <2>1, <3>2 DEF Owners
        <4>2. R[i] # x /\ ~inner(R[i])
          BY <1>4, <1>5, <3>2, <4>1
        <4> QED BY <1>8, <3>2, <4>1, <4>2
      <3> QED BY <1>3, <2>1, <3>1, <3>2
    <2>2. ASSUME NEW a \in L \ {x}, NEW k \in Slots(H, a), Slot(H, a, k) # NIL
          PROVE  Slot(H, a, k) \in L \ {x} /\ block2[Slot(H, a, k)] = a /\ slot2[Slot(H, a, k)] = k
      <3>1. Slot(H, a, k) \in L /\ block[Slot(H, a, k)] = a /\ slot[Slot(H, a, k)] = k
        BY <1>2, <2>2 DEF Owners
      <3>2. a # 0
        BY <1>5
      <3> QED BY <1>4, <1>8, <3>1, <3>2
    <2>3. ASSUME NEW y \in L \ {x}
          PROVE  IF block2[y] = 0 THEN Q[slot2[y]] = y
                 ELSE block2[y] \in L \ {x} /\ slot2[y] \in Slots(H, block2[y]) /\ Slot(H, block2[y], slot2[y]) = y
      <3>1. y # NIL /\ slot[y] \in Int
        BY <1>5, <1>8 DEF NIL
      <3>2. CASE block[y] = x
        <4>1. x # 0
          BY <1>4, <1>5
        <4>2. slot[y] \in Slots(H, x) /\ Slot(H, x, slot[y]) = y
          BY <1>2, <3>2, <4>1 DEF Owners
        <4>3. block2[y] = 0 /\ slot2[y] = place[slot[y]]
          BY <1>8, <3>2, <4>2
        <4> QED BY <1>3, <4>2, <4>3
      <3>3. CASE block[y] # x
        <4>1. block2[y] = block[y] /\ slot2[y] = slot[y]
          BY <1>8, <3>3
        <4>2. CASE block[y] = 0
          <5>1. R[slot[y]] = y
            BY <1>2, <4>2 DEF Owners
          <5>2. slot[y] # r
            BY <5>1
          <5> QED BY <1>3, <3>1, <4>1, <4>2, <5>1, <5>2
        <4>3. CASE block[y] # 0
          BY <1>2, <3>3, <4>1, <4>3 DEF Owners
        <4> QED BY <4>2, <4>3
      <3> QED BY <3>2, <3>3
    <2> QED BY <2>1, <2>2, <2>3 DEF Owners
  <1>11. Ordered(L \ {x}, block2, tree, rank)
    <2>1. ASSUME NEW y \in L \ {x}, block2[y] # 0
          PROVE  tree[y] = tree[block2[y]] /\ rank[block2[y]] < rank[y]
      <3>1. block2[y] = block[y]
        BY <1>8, <2>1
      <3> QED BY <1>2, <2>1, <3>1 DEF Ordered
    <2> QED BY <2>1 DEF Ordered
  <1>12. HaveOwners(H, L \ {x}, Q, tree, rank)
    BY <1>7, <1>10, <1>11 DEF HaveOwners
  <1>13. SameTree(H, x, tree)
    BY <1>9 DEF SameTree
  <1> QED BY <1>4, <1>12, <1>13

\* Owned frees one block after the other.
LEMMA OwnedSteps ==
  ASSUME NEW H, IsHeap(H), NEW list
  PROVE  \E work : /\ work[0] = [todo |-> list, done |-> <<>>]
                   /\ \A n \in 1 .. Len(H) : work[n] = FreeBlock(H, work[n - 1])
                   /\ Owned(H, list) = work[Len(H)].done
  <1> DEFINE size == Len(H)
             begin == [todo |-> list, done |-> <<>>]
             F(w) == CHOOSE next \in {FreeBlock(H, v) : v \in {w}} : TRUE
             Computes(f, m) == f = [n \in 0 .. m |-> IF n = 0 THEN begin ELSE F(f[n - 1])]
  <1>1. size \in Nat
    BY HeapLength
  <1>2. ASSUME NEW w PROVE F(w) = FreeBlock(H, w)
    OBVIOUS
  <1>3. Owned(H, list) = (CHOOSE f : Computes(f, size))[size].done
    BY DEF Owned
  <1> HIDE DEF size, begin, F
  <1>4. \E f : Computes(f, size)
    <2> DEFINE Bad == {m \in Nat : ~\E f : Computes(f, m)}
    <2>1. Bad = {}
      <3> SUFFICES ASSUME Bad # {} PROVE FALSE
        OBVIOUS
      <3>1. PICK m \in Bad : \A x \in Bad : m <= x
        <4>1. Bad \in SUBSET Nat
          OBVIOUS
        <4> HIDE DEF Bad
        <4> QED BY <4>1, LeastElement
      <3>2. CASE m = 0
        <4> DEFINE f == [n \in 0 .. 0 |-> begin]
        <4>1. Computes(f, 0)
          OBVIOUS
        <4> HIDE DEF Computes
        <4> QED BY <3>2, <4>1
      <3>3. CASE m # 0
        <4>1. m - 1 \in Nat /\ m - 1 \notin Bad
          <5>1. m \in Nat
            OBVIOUS
          <5> HIDE DEF Bad
          <5> QED BY <3>1, <3>3, <5>1
        <4>2. PICK f : Computes(f, m - 1)
          <5> HIDE DEF Computes
          <5> QED BY <4>1
        <4> DEFINE g == [n \in 0 .. m |-> IF n = m THEN F(f[m - 1]) ELSE f[n]]
        <4>3. \A n \in 0 .. m - 1 : f[n] = IF n = 0 THEN begin ELSE F(f[n - 1])
          BY <4>2, Zenon
        <4>4. m \in Nat
          OBVIOUS
        <4>5. \A n \in 0 .. m : g[n] = IF n = 0 THEN begin ELSE F(g[n - 1])
          <5> SUFFICES ASSUME NEW n \in 0 .. m PROVE g[n] = IF n = 0 THEN begin ELSE F(g[n - 1])
            OBVIOUS
          <5>1. CASE n = m
            <6>1. g[n] = F(f[m - 1]) /\ n # 0 /\ n - 1 \in 0 .. m /\ n - 1 # m
              BY <3>3, <4>4, <5>1
            <6>2. g[n - 1] = f[m - 1]
              BY <5>1, <6>1
            <6> QED BY <6>1, <6>2
          <5>2. CASE n # m
            <6>1. g[n] = f[n] /\ n \in 0 .. m - 1
              BY <4>4, <5>2
            <6>2. f[n] = IF n = 0 THEN begin ELSE F(f[n - 1])
              BY <4>3, <6>1
            <6>3. CASE n = 0
              BY <6>1, <6>2, <6>3
            <6>4. CASE n # 0
              <7>1. n - 1 \in 0 .. m /\ n - 1 # m
                BY <4>4, <5>2, <6>4
              <7>2. g[n - 1] = f[n - 1]
                BY <7>1
              <7> QED BY <6>1, <6>2, <6>4, <7>2
            <6> QED BY <6>3, <6>4
          <5> QED BY <5>1, <5>2
        <4>6. g = [n \in 0 .. m |-> g[n]]
          OBVIOUS
        <4> HIDE DEF g
        <4>7. Computes(g, m)
          BY <4>5, <4>6
        <4> HIDE DEF Computes
        <4> QED BY <4>7
      <3> QED BY <3>2, <3>3
    <2> HIDE DEF Computes
    <2> QED BY <1>1, <2>1
  <1> DEFINE work == CHOOSE f : Computes(f, size)
  <1>5. Computes(work, size)
    <2> HIDE DEF Computes
    <2> QED BY <1>4
  <1> HIDE DEF work
  <1>6. \A n \in 0 .. size : work[n] = IF n = 0 THEN begin ELSE F(work[n - 1])
    BY <1>5, Zenon
  <1>7. work[0] = begin
    BY <1>1, <1>6
  <1>8. \A n \in 1 .. size : work[n] = FreeBlock(H, work[n - 1])
    BY <1>1, <1>2, <1>6
  <1>9. Owned(H, list) = work[size].done
    BY <1>3 DEF work
  <1> QED BY <1>7, <1>8, <1>9 DEF begin, size

\* The pointer i of s is exchanged for the pointers c[k], of which c[0] is the last.
Exchange(s, t, c, n, m, i) ==
  /\ \A k \in 1 .. n : t[k] = IF k = i THEN NIL ELSE s[k]
  /\ \A k \in 1 .. m : t[n + k] = c[k]
  /\ t[n + m + 1] = c[0]
\* The pointers of s are at the places below -3.
Placed(R, s, S, n) == \A j \in Int : R[j] = IF -3 - j \in 1 .. n THEN s[-3 - j] ELSE S[j]
Nothing(S) == \A j \in Int : j < -3 => S[j] = NIL

LEMMA ExchangedTyped ==
  ASSUME NEW s \in Seq(Nat), NEW i \in DOMAIN s, NEW kids \in Seq(Nat), NEW next \in Nat
  PROVE  [s EXCEPT ![i] = NIL] \o Append(kids, next) \in Seq(Nat)
  BY DEF NIL

LEMMA Exchanged ==
  ASSUME NEW s \in Seq(Nat), NEW i \in DOMAIN s, NEW kids \in Seq(Nat), NEW next \in Nat,
         NEW t, t = [s EXCEPT ![i] = NIL] \o Append(kids, next), NEW n, n = Len(s), NEW m, m = Len(kids),
         NEW c, \A k \in 0 .. m : c[k] = IF k = 0 THEN next ELSE kids[k]
  PROVE  DOMAIN t = 1 .. n + m + 1 /\ Exchange(s, t, c, n, m, i)
  <1> DEFINE r == [s EXCEPT ![i] = NIL]
             e == Append(kids, next)
  <1>1. n \in Nat /\ m \in Nat
    OBVIOUS
  <1>2. r \in Seq(Nat) /\ Len(r) = n
    BY DEF NIL
  <1>3. \A k \in 1 .. n : r[k] = IF k = i THEN NIL ELSE s[k]
    <2>1. s \in [1 .. n -> Nat]
      BY LenProperties
    <2> QED BY <2>1
  <1>4. e \in Seq(Nat) /\ Len(e) = m + 1
    BY AppendProperties
  <1>5. (\A k \in 1 .. m : e[k] = kids[k]) /\ e[m + 1] = next
    BY AppendProperties
  <1>6. t = r \o e
    OBVIOUS
  <1> HIDE DEF r, e
  <1>7. t \in Seq(Nat) /\ Len(t) = Len(r) + Len(e)
    <2>1. r \in Seq(Nat) /\ e \in Seq(Nat)
      BY <1>2, <1>4
    <2> QED BY ONLY <1>6, <2>1, ConcatProperties
  <1>8. \A k \in 1 .. Len(r) + Len(e) : t[k] = IF k <= Len(r) THEN r[k] ELSE e[k - Len(r)]
    <2>1. r \in Seq(Nat) /\ e \in Seq(Nat)
      BY <1>2, <1>4
    <2>2. \A k \in 1 .. Len(r) + Len(e) : (r \o e)[k] = IF k <= Len(r) THEN r[k] ELSE e[k - Len(r)]
      BY <2>1, ConcatProperties
    <2> QED BY <1>6, <2>2
  <1>9. Len(t) = n + m + 1
    BY <1>1, <1>2, <1>4, <1>7
  <1>10. ASSUME NEW k \in 1 .. n + m + 1 PROVE t[k] = IF k <= n THEN r[k] ELSE e[k - n]
    <2>1. Len(r) = n /\ k \in 1 .. Len(r) + Len(e)
      BY <1>1, <1>2, <1>4
    <2> QED BY <1>8, <2>1
  <1>11. ASSUME NEW k \in 1 .. n PROVE t[k] = IF k = i THEN NIL ELSE s[k]
    <2>1. k \in 1 .. n + m + 1 /\ k <= n
      BY <1>1
    <2> QED BY <1>3, <1>10, <2>1
  <1>12. ASSUME NEW k \in 1 .. m + 1 PROVE t[n + k] = e[k]
    <2>1. n + k \in 1 .. n + m + 1
      BY <1>1
    <2> DEFINE q == n + k
    <2>2. ~(q <= n) /\ q - n = k
      BY <1>1
    <2> HIDE DEF q
    <2>3. t[q] = IF q <= n THEN r[q] ELSE e[q - n]
      BY <1>10, <2>1 DEF q
    <2> QED BY <2>2, <2>3 DEF q
  <1>13. ASSUME NEW k \in 1 .. m PROVE t[n + k] = c[k]
    <2>1. k \in 1 .. m + 1 /\ k \in 0 .. m /\ k # 0
      BY <1>1
    <2> QED BY <1>5, <1>12, <2>1
  <1>14. t[n + m + 1] = c[0]
    <2>1. m + 1 \in 1 .. m + 1 /\ n + (m + 1) = n + m + 1
      BY <1>1
    <2>2. t[n + (m + 1)] = next
      BY <1>5, <1>12, <2>1
    <2>3. c[0] = next
      BY <1>1
    <2> QED BY <2>1, <2>2, <2>3
  <1>15. DOMAIN t = 1 .. n + m + 1
    BY <1>7, <1>9, LenProperties
  <1> QED BY <1>7, <1>11, <1>13, <1>14, <1>15 DEF Exchange

LEMMA ExchangedPlaces ==
  ASSUME NEW n \in Nat, NEW m \in Nat, NEW i \in 1 .. n, NEW s, NEW t, NEW c, NEW S, NEW R, NEW Q,
         Exchange(s, t, c, n, m, i), Placed(R, s, S, n), NEW l, l = n + m + 1, Placed(Q, t, S, l), Nothing(S),
         NEW H, NEW x, Slots(H, x) = 0 .. m, \A k \in 0 .. m : c[k] = Slot(H, x, k),
         NEW r, r = -3 - i
  PROVE  \E place, inside : Replaces(R, Q, r, H, x, place, inside)
  <1> DEFINE place == [k \in 0 .. m |-> IF k = 0 THEN -3 - l ELSE -3 - n - k]
             inside == [j \in Int |-> IF j = -3 - l THEN 0 ELSE -3 - n - j]
  <1>1. \A k \in 0 .. m : place[k] = IF k = 0 THEN -3 - l ELSE -3 - n - k
    OBVIOUS
  <1>2. \A j \in Int : inside[j] = IF j = -3 - l THEN 0 ELSE -3 - n - j
    OBVIOUS
  <1>3. \A j \in Int : Q[j] = IF -3 - j \in 1 .. l THEN t[-3 - j] ELSE S[j]
    BY DEF Placed
  <1>4. \A j \in Int : R[j] = IF -3 - j \in 1 .. n THEN s[-3 - j] ELSE S[j]
    BY DEF Placed
  <1> HIDE DEF place, inside
  <1>5. ASSUME NEW k \in 0 .. m
        PROVE  place[k] \in Int /\ Q[place[k]] = c[k] /\ inside[place[k]] = k
    <2>1. CASE k = 0
      <3>1. place[k] = -3 - l
        BY <1>1, <2>1
      <3>2. -3 - l \in Int /\ -3 - (-3 - l) = l /\ l \in 1 .. l
        OBVIOUS
      <3>3. Q[-3 - l] = t[l]
        BY <1>3, <3>2
      <3>4. t[l] = c[0]
        BY DEF Exchange
      <3>5. inside[-3 - l] = 0
        BY <1>2, <3>2
      <3> QED BY <2>1, <3>1, <3>2, <3>3, <3>4, <3>5
    <2>2. CASE k # 0
      <3>1. place[k] = -3 - n - k
        BY <1>1, <2>2
      <3>2. /\ -3 - n - k \in Int /\ -3 - (-3 - n - k) = n + k /\ n + k \in 1 .. l /\ k \in 1 .. m
            /\ -3 - n - k # -3 - l /\ -3 - n - (-3 - n - k) = k
        BY <2>2
      <3>3. Q[-3 - n - k] = t[n + k]
        BY <1>3, <3>2
      <3>4. t[n + k] = c[k]
        BY <3>2 DEF Exchange
      <3>5. inside[-3 - n - k] = k
        BY <1>2, <3>2
      <3> QED BY <3>1, <3>2, <3>3, <3>4, <3>5
    <2> QED BY <2>1, <2>2
  <1>6. ASSUME NEW j \in Int, -3 - j \in 1 .. n
        PROVE  Q[j] = (IF j = -3 - i THEN NIL ELSE s[-3 - j]) /\ R[j] = s[-3 - j]
    <2>1. -3 - j \in 1 .. l
      BY <1>6
    <2>2. Q[j] = t[-3 - j]
      BY <1>3, <2>1
    <2>3. t[-3 - j] = IF -3 - j = i THEN NIL ELSE s[-3 - j]
      BY <1>6 DEF Exchange
    <2>4. -3 - j = i <=> j = -3 - i
      OBVIOUS
    <2> QED BY <1>4, <1>6, <2>2, <2>3, <2>4
  <1>7. ASSUME NEW j \in Int, ~(-3 - j \in 1 .. n)
        PROVE  R[j] = S[j] /\ j # -3 - i
    <2>1. j # -3 - i
      BY <1>7
    <2> QED BY <1>4, <1>7, <2>1
  <1>8. ASSUME NEW j \in Int, Q[j] # NIL
        PROVE  \/ inside[j] \in 0 .. m /\ place[inside[j]] = j
               \/ j # -3 - i /\ Q[j] = R[j]
    <2>1. CASE -3 - j \in 1 .. n
      BY <1>6, <1>8, <2>1
    <2>2. CASE ~(-3 - j \in 1 .. n) /\ -3 - j \in 1 .. l /\ j # -3 - l
      <3>1. -3 - n - j \in 0 .. m /\ -3 - n - j # 0 /\ -3 - n - (-3 - n - j) = j
        BY <2>2
      <3>2. inside[j] = -3 - n - j
        BY <1>2, <2>2
      <3>3. place[-3 - n - j] = -3 - n - (-3 - n - j)
        BY <1>1, <3>1
      <3> QED BY <3>1, <3>2, <3>3
    <2>3. CASE j = -3 - l
      <3>1. inside[j] = 0 /\ 0 \in 0 .. m
        BY <1>2, <2>3
      <3>2. place[0] = -3 - l
        BY <1>1, <3>1
      <3> QED BY <2>3, <3>1, <3>2
    <2>4. CASE ~(-3 - j \in 1 .. n) /\ ~(-3 - j \in 1 .. l)
      BY <1>3, <1>7, <2>4
    <2> QED BY <2>1, <2>2, <2>3, <2>4
  <1>9. ASSUME NEW j \in Int, j # -3 - i, R[j] # NIL PROVE Q[j] = R[j]
    <2>1. CASE -3 - j \in 1 .. n
      BY <1>6, <1>9, <2>1
    <2>2. CASE ~(-3 - j \in 1 .. n)
      <3>1. R[j] = S[j]
        BY <1>7, <2>2
      <3>2. ~(j < -3)
        BY <1>9, <3>1 DEF Nothing
      <3>3. ~(-3 - j \in 1 .. l)
        BY <3>2
      <3> QED BY <1>3, <3>1, <3>3
    <2> QED BY <2>1, <2>2
  <1>10. Replaces(R, Q, r, H, x, place, inside)
    BY <1>5, <1>8, <1>9 DEF Replaces
  <1> QED BY <1>10

\* While trees are freed, what is still to be freed is at places of its own.
Outside(todo, S) == [i \in Int |-> IF -3 - i \in DOMAIN todo THEN todo[-3 - i] ELSE S[i]]
Freeing(H, L, S, tree, rank, group, work) ==
  /\ work.todo \in Seq(Nat) /\ work.done \in Seq(Nat)
  /\ Range(work.done) \subseteq L /\ IsFiniteSet(Range(work.done))
  /\ Cardinality(Range(work.done)) = Len(work.done)
  /\ HaveOwners(H, L \ Range(work.done), Outside(work.todo, S), tree, rank)
  /\ \A k \in DOMAIN work.todo : work.todo[k] # NIL => tree[work.todo[k]] \in group
  /\ \A x \in Range(work.done) : tree[x] \in group

Finished(work) == \A k \in DOMAIN work.todo : work.todo[k] = NIL

LEMMA AppendRange ==
  ASSUME NEW s \in Seq(Nat), NEW x \in Nat
  PROVE  Range(Append(s, x)) = Range(s) \cup {x}
  <1> DEFINE t == Append(s, x)
             n == Len(s)
  <1>1. n \in Nat
    OBVIOUS
  <1>2. (\A k \in 1 .. n : t[k] = s[k]) /\ t[n + 1] = x
    BY AppendProperties
  <1>3. DOMAIN s = 1 .. n /\ DOMAIN t = 1 .. n + 1
    BY AppendProperties, LenProperties
  <1> HIDE DEF t, n
  <1>4. \A k \in 1 .. n + 1 : k \in 1 .. n \/ k = n + 1
    BY <1>1
  <1>5. \A k \in 1 .. n : k \in 1 .. n + 1
    BY <1>1
  <1>6. n + 1 \in 1 .. n + 1
    BY <1>1
  <1>7. Range(t) \subseteq Range(s) \cup {x}
    BY <1>2, <1>3, <1>4 DEF Range
  <1>8. Range(s) \cup {x} \subseteq Range(t)
    BY <1>2, <1>3, <1>5, <1>6 DEF Range
  <1> QED BY <1>7, <1>8 DEF t

LEMMA FreeStep ==
  ASSUME NEW H, IsHeap(H), NEW L, L \subseteq 1 .. Len(H),
         NEW S \in [Int -> Nat], Nothing(S),
         NEW tree, NEW rank, NEW group, NEW w, Freeing(H, L, S, tree, rank, group, w),
         NEW v, v = FreeBlock(H, w)
  PROVE  /\ Freeing(H, L, S, tree, rank, group, v)
         /\ \/ Len(v.done) = Len(w.done) + 1 /\ ~Finished(w)
            \/ v = w /\ Finished(w)
  <1> DEFINE left == {i \in DOMAIN w.todo : w.todo[i] # NIL}
             i == CHOOSE k \in left : TRUE
             x == w.todo[i]
             b == H[x]
  <1>1. CASE left = {}
    <2>1. v = w
      BY <1>1 DEF FreeBlock
    <2>2. Finished(w)
      BY <1>1 DEF Finished
    <2> QED BY <2>1, <2>2
  <1>2. CASE left # {}
    <2>1. i \in DOMAIN w.todo /\ x # NIL
      <3>1. i \in left
        BY <1>2
      <3> HIDE DEF i
      <3> QED BY <3>1
    <2>2. /\ v.todo = [w.todo EXCEPT ![i] = NIL] \o Append(b.kids, b.next)
          /\ v.done = Append(w.done, x)
      BY <1>2 DEF FreeBlock
    <2> HIDE DEF i, left
    <2> DEFINE n == Len(w.todo)
               m == Len(b.kids)
               M == L \ Range(w.done)
               R == Outside(w.todo, S)
               Q == Outside(v.todo, S)
    <2>3. w.todo \in Seq(Nat) /\ w.done \in Seq(Nat)
      BY DEF Freeing
    <2>4. DOMAIN w.todo = 1 .. n /\ n \in Nat /\ x \in Nat
      BY <2>1, <2>3, LenProperties
    <2>5. i \in 1 .. n
      BY <2>1, <2>4
    <2>6. Placed(R, w.todo, S, n)
      BY <2>4 DEF Outside, Placed
    <2>7. R[-3 - i] = x /\ -3 - i \in Int
      <3>1. -3 - i \in Int /\ -3 - (-3 - i) = i
        BY <2>5
      <3> HIDE DEF R, n, x
      <3>2. R[-3 - i] = w.todo[-3 - (-3 - i)]
        BY <2>5, <2>6, <3>1 DEF Placed
      <3> QED BY <3>1, <3>2 DEF x
    <2>8. HaveOwners(H, M, R, tree, rank)
      BY DEF Freeing
    <2> HIDE DEF R
    <2>9. x \in M /\ \A k \in Slots(H, x) : Slot(H, x, k) # NIL => Slot(H, x, k) \in M
      BY <2>1, <2>7, <2>8 DEF Owners, HaveOwners
    <2>10. Typed(H, M, R)
      <3>1. R \in [Int -> Nat]
        <4>1. \A j \in Int : R[j] \in Nat
          <5> SUFFICES ASSUME NEW j \in Int PROVE R[j] \in Nat
            OBVIOUS
          <5>1. R[j] \in {w.todo[-3 - j], S[j]} /\ (-3 - j \notin DOMAIN w.todo => R[j] = S[j])
            BY DEF R, Outside
          <5>2. \A q \in DOMAIN w.todo : w.todo[q] \in Nat
            <6> DEFINE s == w.todo
            <6>1. s \in Seq(Nat)
              BY <2>3
            <6> HIDE DEF s
            <6>2. \A q \in DOMAIN s : s[q] \in Nat
              BY <6>1, ElementOfSeq, LenProperties
            <6> QED BY <6>2 DEF s
          <5> QED BY <5>1, <5>2
        <4>2. R = [j \in Int |-> R[j]]
          BY DEF R, Outside
        <4> QED BY <4>1, <4>2, Zenon
      <3> QED BY <3>1 DEF Typed
    <2>11. b.kids \in Seq(Nat) /\ m \in Nat /\ Slots(H, x) = 0 .. m
      <3>1. M \subseteq 1 .. Len(H)
        OBVIOUS
      <3> HIDE DEF M
      <3>2. b.kids \in Seq(Nat) /\ Len(b.kids) \in Nat
        <4>1. x \in 1 .. Len(H)
          BY ONLY <2>9, <3>1
        <4>2. b.kids \in Seq(Nat)
          <5> HIDE DEF x
          <5> QED BY ONLY <4>1, IsHeap(H) DEF IsHeap, IsBlock
        <4> HIDE DEF b
        <4> QED BY ONLY <4>2
      <3> QED BY <3>2 DEF Slots
    <2>12. b.next \in Nat
      <3>1. 0 \in Slots(H, x) /\ Slot(H, x, 0) = b.next
        BY <2>11 DEF Slot
      <3>2. Slot(H, x, 0) # NIL => Slot(H, x, 0) \in M
        BY <2>9, <3>1
      <3>3. \A y \in L : y \in Nat
        BY SlotsTyped
      <3>4. NIL \in Nat
        BY DEF NIL
      <3> QED BY <3>1, <3>2, <3>3, <3>4
    <2> DEFINE c == [k \in 0 .. m |-> Slot(H, x, k)]
               l == n + m + 1
               r == -3 - i
    <2>13. \A k \in 0 .. m : c[k] = (IF k = 0 THEN b.next ELSE b.kids[k]) /\ c[k] = Slot(H, x, k)
      BY DEF Slot
    <2> HIDE DEF c
    <2>14. v.todo \in Seq(Nat) /\ DOMAIN v.todo = 1 .. l /\ Exchange(w.todo, v.todo, c, n, m, i)
      <3> DEFINE s == w.todo
                 t == v.todo
                 kids == b.kids
                 next == b.next
      <3>1. s \in Seq(Nat) /\ i \in DOMAIN s /\ kids \in Seq(Nat) /\ next \in Nat
        BY <2>1, <2>3, <2>11, <2>12
      <3>2. t = [s EXCEPT ![i] = NIL] \o Append(kids, next)
        BY <2>2
      <3>3. n = Len(s) /\ m = Len(kids)
        OBVIOUS
      <3>4. \A k \in 0 .. m : c[k] = IF k = 0 THEN next ELSE kids[k]
        BY <2>13
      <3> HIDE DEF s, t, kids, next, n, m, x
      <3>5. Exchange(s, t, c, n, m, i)
        BY <3>1, <3>2, <3>3, <3>4, Exchanged
      <3>6. t \in Seq(Nat)
        <4>1. [s EXCEPT ![i] = NIL] \o Append(kids, next) \in Seq(Nat)
          BY <3>1, ExchangedTyped
        <4> QED BY <3>2, <4>1, Zenon
      <3>7. DOMAIN t = 1 .. n + m + 1
        BY <3>1, <3>2, <3>3, <3>4, Exchanged
      <3> QED BY <3>5, <3>6, <3>7 DEF s, t
    <2> HIDE DEF n, m, b, x, l
    <2>15. Placed(Q, v.todo, S, l)
      BY <2>14 DEF Outside, Placed
    <2> HIDE DEF Q, M
    <2>16. PICK place, inside : Replaces(R, Q, r, H, x, place, inside)
      <3> DEFINE s == w.todo
                 t == v.todo
      <3>1. n \in Nat /\ m \in Nat /\ l = n + m + 1 /\ Slots(H, x) = 0 .. m
        BY <2>4, <2>11 DEF l
      <3>2. \A k \in 0 .. m : c[k] = Slot(H, x, k)
        BY <2>13
      <3>3. Exchange(s, t, c, n, m, i) /\ Placed(R, s, S, n) /\ Placed(Q, t, S, l)
        BY <2>6, <2>14, <2>15
      <3>4. r = -3 - i
        OBVIOUS
      <3> HIDE DEF s, t, r
      <3> QED BY <2>5, <3>1, <3>2, <3>3, <3>4, ExchangedPlaces
    <2>17. r \in Int /\ x = R[r]
      BY <2>7
    <2> HIDE DEF r
    <2>18. /\ HaveOwners(H, M \ {x}, Q, tree, rank)
           /\ SameTree(H, x, tree)
      <3>1. x # NIL
        BY <2>1
      <3>2. HaveOwners(H, M \ {x}, Q, tree, rank)
        BY <2>8, <2>10, <2>16, <2>17, <3>1, FreeOwners
      <3>3. SameTree(H, x, tree)
        BY <2>8, <2>10, <2>16, <2>17, <3>1, FreeOwners
      <3> QED BY <3>2, <3>3
    <2>19. \A k \in 0 .. m : c[k] # NIL => tree[c[k]] = tree[x]
      BY <2>11, <2>13, <2>18 DEF SameTree
    <2>20. x \notin Range(w.done) /\ x \in L
      BY <2>9 DEF M
    <2>21. v.done \in Seq(Nat) /\ Len(v.done) = Len(w.done) + 1 /\ Range(v.done) = Range(w.done) \cup {x}
      <3> DEFINE s == w.done
                 t == v.done
      <3>1. s \in Seq(Nat) /\ t = Append(s, x) /\ x \in Nat
        BY <2>2, <2>3, <2>4 DEF x
      <3> HIDE DEF s, t
      <3>2. t \in Seq(Nat) /\ Len(t) = Len(s) + 1
        BY <3>1, AppendProperties
      <3>3. Range(t) = Range(s) \cup {x}
        BY <3>1, AppendRange
      <3> QED BY <3>2, <3>3 DEF s, t
    <2>22. /\ Range(v.done) \subseteq L /\ IsFiniteSet(Range(v.done))
           /\ Cardinality(Range(v.done)) = Len(v.done)
      <3>1. /\ IsFiniteSet(Range(w.done)) /\ Cardinality(Range(w.done)) = Len(w.done)
            /\ Range(w.done) \subseteq L
        BY DEF Freeing
      <3>2. IsFiniteSet(Range(w.done) \cup {x}) /\ Cardinality(Range(w.done) \cup {x}) = Cardinality(Range(w.done)) + 1
        BY <2>20, <3>1, FS_AddElement
      <3> QED BY <2>20, <2>21, <3>1, <3>2
    <2>23. M \ {x} = L \ Range(v.done)
      BY <2>21 DEF M
    <2>24. /\ \A k \in DOMAIN v.todo : v.todo[k] # NIL => tree[v.todo[k]] \in group
           /\ \A y \in Range(v.done) : tree[y] \in group
      <3>1. /\ \A k \in DOMAIN w.todo : w.todo[k] # NIL => tree[w.todo[k]] \in group
            /\ \A y \in Range(w.done) : tree[y] \in group
        BY DEF Freeing
      <3>2. tree[x] \in group
        BY <2>1, <3>1 DEF x
      <3>3. \A k \in 0 .. m : c[k] # NIL => tree[c[k]] \in group
        BY <2>19, <3>2
      <3>4. ASSUME NEW k \in 1 .. l, v.todo[k] # NIL PROVE tree[v.todo[k]] \in group
        <4>1. CASE k \in 1 .. n
          <5>1. v.todo[k] = w.todo[k]
            BY <2>14, <3>4, <4>1 DEF Exchange
          <5> QED BY <2>4, <3>1, <3>4, <4>1, <5>1
        <4>2. CASE ~(k \in 1 .. n) /\ k # n + m + 1
          <5>1. k - n \in 1 .. m /\ k - n \in 0 .. m /\ n + (k - n) = k
            BY <2>4, <2>11, <4>2 DEF l
          <5>2. v.todo[n + (k - n)] = c[k - n]
            BY <2>14, <5>1 DEF Exchange
          <5> QED BY <3>3, <3>4, <5>1, <5>2
        <4>3. CASE k = n + m + 1
          <5>1. v.todo[k] = c[0] /\ 0 \in 0 .. m
            BY <2>11, <2>14, <4>3 DEF Exchange, l
          <5> QED BY <3>3, <3>4, <5>1
        <4> QED BY <4>1, <4>2, <4>3
      <3> QED BY <2>14, <2>21, <3>1, <3>2, <3>4
    <2>25. Freeing(H, L, S, tree, rank, group, v)
      BY <2>14, <2>18, <2>21, <2>22, <2>23, <2>24 DEF Freeing, Q
    <2>26. ~Finished(w)
      BY <2>1 DEF x, Finished
    <2> QED BY <2>21, <2>25, <2>26
  <1> QED BY <1>1, <1>2

\* The pointers in list are those of some places outside, each from one of its own; without
\* them S is left.
Gives(R, S, list, place) ==
  /\ place \in [DOMAIN list -> Int]
  /\ \A k \in DOMAIN list : list[k] = R[place[k]]
  /\ \A k, l \in DOMAIN list : place[k] = place[l] => k = l
  /\ S = [i \in Int |-> IF \E k \in DOMAIN list : place[k] = i THEN NIL ELSE R[i]]

LEMMA GivesMoves ==
  ASSUME NEW R \in [Int -> Nat], Nothing(R), NEW list \in Seq(Nat), NEW place, NEW S, Gives(R, S, list, place),
         NEW Q, Q = Outside(list, S)
  PROVE  S \in [Int -> Nat] /\ Nothing(S) /\ Q \in [Int -> Nat] /\ \E to, from : Moves(R, Q, to, from)
  <1> DEFINE D == DOMAIN list
             taken(i) == \E k \in D : place[k] = i
             in == [i \in Int |-> CHOOSE k \in D : place[k] = i]
             to == [i \in Int |-> IF taken(i) THEN -3 - in[i] ELSE i]
             from == [j \in Int |-> IF -3 - j \in D THEN place[-3 - j] ELSE j]
  <1>1. /\ place \in [D -> Int]
        /\ \A k \in D : list[k] = R[place[k]] /\ list[k] \in Nat
        /\ \A k, l \in D : place[k] = place[l] => k = l
    BY DEF Gives
  <1>2. \A i \in Int : S[i] = IF taken(i) THEN NIL ELSE R[i]
    BY DEF Gives
  <1>3. S \in [Int -> Nat]
    <2>1. \A i \in Int : S[i] \in Nat
      <3>1. NIL \in Nat /\ \A i \in Int : R[i] \in Nat
        BY DEF NIL
      <3> HIDE DEF taken
      <3> QED BY <1>2, <3>1, Zenon
    <2>2. S = [i \in Int |-> S[i]]
      BY DEF Gives
    <2> QED BY <2>1, <2>2, Zenon
  <1>4. D \subseteq Nat \ {0}
    <2> DEFINE n == Len(list)
    <2>1. D = 1 .. n /\ n \in Nat
      BY LenProperties
    <2> HIDE DEF n, D
    <2> QED BY <2>1
  <1>5. \A i \in Int : taken(i) => in[i] \in D /\ place[in[i]] = i
    OBVIOUS
  <1> HIDE DEF D, in
  <1>6. \A k \in D : place[k] \in Int /\ taken(place[k]) /\ in[place[k]] = k
    <2> SUFFICES ASSUME NEW k \in D PROVE place[k] \in Int /\ taken(place[k]) /\ in[place[k]] = k
      OBVIOUS
    <2>1. place[k] \in Int /\ taken(place[k])
      BY <1>1
    <2>2. in[place[k]] \in D /\ place[in[place[k]]] = place[k]
      BY <1>5, <2>1
    <2> QED BY <1>1, <2>1, <2>2
  <1>7. \A j \in Int : Q[j] = IF -3 - j \in D THEN list[-3 - j] ELSE S[j]
    BY DEF Outside, D
  <1>8. Q \in [Int -> Nat]
    <2>1. \A j \in Int : Q[j] \in Nat
      <3> HIDE DEF taken
      <3> SUFFICES ASSUME NEW j \in Int PROVE Q[j] \in Nat
        OBVIOUS
      <3>1. S[j] \in Nat
        BY <1>3
      <3>2. -3 - j \in D => list[-3 - j] \in Nat
        BY <1>1
      <3> QED BY <1>7, <3>1, <3>2
    <2>2. Q = [j \in Int |-> Q[j]]
      BY DEF Outside
    <2> QED BY <2>1, <2>2, Zenon
  <1>9. Nothing(S)
    BY <1>2 DEF Nothing
  <1>10. \A i \in Int : to[i] = IF taken(i) THEN -3 - in[i] ELSE i
    OBVIOUS
  <1>11. \A j \in Int : from[j] = IF -3 - j \in D THEN place[-3 - j] ELSE j
    OBVIOUS
  <1>12. to \in [Int -> Int] /\ from \in [Int -> Int]
    <2>1. \A i \in Int : taken(i) => in[i] \in Int
      <3>1. \A k \in D : k \in Int
        BY <1>4
      <3> HIDE DEF taken
      <3> QED BY <1>5, <3>1
    <2>2. \A j \in Int : -3 - j \in D => place[-3 - j] \in Int
      BY <1>6
    <2>3. ASSUME NEW i \in Int PROVE (IF taken(i) THEN -3 - in[i] ELSE i) \in Int
      <3>1. CASE taken(i)
        <4>1. in[i] \in Int
          BY <2>1, <3>1
        <4> HIDE DEF taken
        <4>2. -3 - in[i] \in Int
          BY <4>1, SMTT(30)
        <4> QED BY <3>1, <4>2, Zenon
      <3>2. CASE ~taken(i)
        BY <3>2
      <3> QED BY <3>1, <3>2
    <2>4. \A j \in Int : (IF -3 - j \in D THEN place[-3 - j] ELSE j) \in Int
      BY <2>2
    <2> HIDE DEF taken
    <2> QED BY <2>3, <2>4
  <1> HIDE DEF to, from
  <1>13. ASSUME NEW i \in Int, R[i] # NIL PROVE Q[to[i]] = R[i]
    <2>1. CASE taken(i)
      <3> DEFINE k == in[i]
      <3>1. k \in D /\ place[k] = i /\ k \in Nat
        BY <1>4, <1>5, <2>1
      <3>2. to[i] = -3 - k
        BY <1>10, <2>1
      <3> HIDE DEF k, taken
      <3>3. -3 - k \in Int /\ -3 - (-3 - k) = k
        BY <3>1
      <3>4. Q[-3 - k] = list[k]
        BY <1>7, <3>1, <3>3
      <3> QED BY <1>1, <3>1, <3>2, <3>4
    <2>2. CASE ~taken(i)
      <3>1. to[i] = i /\ S[i] = R[i]
        BY <1>2, <1>10, <2>2
      <3>2. ~(i < -3)
        BY <1>13 DEF Nothing
      <3>3. -3 - i \notin D
        BY <1>4, <3>2
      <3> QED BY <1>7, <3>1, <3>3
    <2> QED BY <2>1, <2>2
  <1>14. ASSUME NEW j \in Int, Q[j] # NIL PROVE R[from[j]] = Q[j] /\ to[from[j]] = j
    <2>1. CASE -3 - j \in D
      <3> DEFINE k == -3 - j
      <3>1. k \in D /\ -3 - k = j
        BY <2>1
      <3>2. Q[j] = list[k] /\ from[j] = place[k]
        BY <1>7, <1>11, <2>1
      <3> HIDE DEF k
      <3>3. to[place[k]] = -3 - in[place[k]] /\ in[place[k]] = k
        BY <1>6, <1>10, <3>1
      <3> QED BY <1>1, <3>1, <3>2, <3>3
    <2>2. CASE -3 - j \notin D
      <3>1. Q[j] = S[j] /\ from[j] = j
        BY <1>7, <1>11, <2>2
      <3>2. ~taken(j) /\ S[j] = R[j]
        BY <1>2, <1>14, <3>1
      <3> QED BY <1>10, <3>1, <3>2
    <2> QED BY <2>1, <2>2
  <1>15. Moves(R, Q, to, from)
    BY <1>12, <1>13, <1>14 DEF Moves
  <1> QED BY <1>3, <1>8, <1>9, <1>15

\* free_ast_... frees whole trees, each of their blocks once, and nothing else.
LEMMA FreeTrees ==
  ASSUME NEW H, NEW L, NEW R, NEW T, Trees(H, L, R, T), Nothing(R),
         NEW list \in Seq(Nat), NEW place, NEW S, Gives(R, S, list, place),
         NEW done, done = Owned(H, list)
  PROVE  /\ done \in Seq(Nat) /\ Range(done) \subseteq L
         /\ IsFiniteSet(Range(done)) /\ Cardinality(Range(done)) = Len(done)
         /\ Trees(H, L \ Range(done), S, T)
  <1>1. /\ Typed(H, L, R) /\ IsHeap(H) /\ L \subseteq 1 .. Len(H) /\ R \in [Int -> Nat] /\ T \subseteq Int
        /\ Len(H) \in Nat
    BY HeapLength DEF Trees, Typed
  <1>2. PICK block, slot, tree, rank : TreesBy(H, L, R, T, block, slot, tree, rank)
    BY DEF Trees
  <1> DEFINE Q == Outside(list, S)
             size == Len(H)
             group == Range(list)
             begin == [todo |-> list, done |-> <<>>]
  <1>3. PICK to, from : Moves(R, Q, to, from)
    BY <1>1, GivesMoves
  <1>4. S \in [Int -> Nat] /\ Nothing(S) /\ Q \in [Int -> Nat]
    BY <1>1, GivesMoves
  <1> HIDE DEF size
  <1>5. PICK work : /\ work[0] = begin
                    /\ \A n \in 1 .. size : work[n] = FreeBlock(H, work[n - 1])
                    /\ Owned(H, list) = work[size].done
    BY <1>1, OwnedSteps DEF size
  <1>6. Witness(block, slot, tree, rank) /\ Owners(H, L, R, block, slot) /\ Ordered(L, block, tree, rank)
        /\ Apart(R, tree) /\ AreLists(H, L, R, tree, T)
    BY <1>2 DEF TreesBy
  <1>7. \A k \in DOMAIN list : place[k] \in Int /\ list[k] = R[place[k]]
    BY DEF Gives
  <1>8. Freeing(H, L, S, tree, rank, group, begin)
    <2>1. HaveOwners(H, L, Q, tree, rank)
      <3>1. PICK new \in [Nat -> Int] : Owners(H, L, Q, block, new)
        <4>1. block \in [Nat -> Nat] /\ slot \in [Nat -> Int]
          BY <1>6 DEF Witness
        <4> HIDE DEF Q
        <4> QED BY <1>1, <1>3, <1>4, <1>6, <4>1, MoveOwners
      <3>2. Witness(block, new, tree, rank)
        BY <1>6, <3>1 DEF Witness
      <3> QED BY <1>6, <3>1, <3>2 DEF HaveOwners
    <2>2. \A k \in DOMAIN list : list[k] # NIL => tree[list[k]] \in group
      BY <1>6, <1>7 DEF Apart, Range
    <2>3. begin.todo = list /\ begin.done = <<>>
      OBVIOUS
    <2>4. /\ begin.done \in Seq(Nat) /\ Range(begin.done) = {} /\ IsFiniteSet(Range(begin.done))
          /\ Cardinality(Range(begin.done)) = Len(begin.done)
      <3> HIDE DEF begin
      <3>1. <<>> \in Seq(Nat) /\ Len(<<>>) = 0 /\ DOMAIN <<>> = {}
        OBVIOUS
      <3>2. Range(<<>>) = {}
        BY <3>1 DEF Range
      <3> QED BY <2>3, <3>1, <3>2, FS_EmptySet
    <2>5. L \ Range(begin.done) = L
      BY <2>4
    <2> HIDE DEF begin
    <2> QED BY <2>1, <2>2, <2>3, <2>4, <2>5 DEF Freeing
  <1> HIDE DEF begin, group, Q
  <1> DEFINE Good(n) == /\ Freeing(H, L, S, tree, rank, group, work[n])
                        /\ Len(work[n].done) = n \/ Finished(work[n])
  <1>9. \A n \in 0 .. size : Good(n)
    <2> DEFINE Bad == {n \in 0 .. size : ~Good(n)}
    <2> SUFFICES ASSUME Bad # {} PROVE FALSE
      OBVIOUS
    <2>1. PICK n \in Bad : \A l \in Bad : n <= l
      <3>1. Bad \in SUBSET Nat
        BY <1>1 DEF size
      <3> HIDE DEF Bad
      <3> QED BY <3>1, LeastElement
    <2>2. n \in 0 .. size /\ ~Good(n)
      OBVIOUS
    <2>3. CASE n = 0
      <3>1. Good(0)
        <4>1. Len(begin.done) = 0
          BY DEF begin
        <4> QED BY <1>5, <1>8, <4>1
      <3> QED BY <2>2, <2>3, <3>1
    <2>4. CASE n # 0
      <3>1. n - 1 \in 0 .. size /\ n \in 1 .. size /\ n - 1 < n /\ n \in Nat /\ n - 1 \in Nat
        BY <1>1, <2>2, <2>4 DEF size
      <3>2. Good(n - 1)
        <4>1. n - 1 \notin Bad
          BY <2>1, <3>1
        <4> HIDE DEF Good
        <4> QED BY <3>1, <4>1
      <3> DEFINE w == work[n - 1]
                 v == work[n]
      <3>3. v = FreeBlock(H, w) /\ Freeing(H, L, S, tree, rank, group, w)
        BY <1>5, <3>1, <3>2
      <3> HIDE DEF w, v
      <3>4. /\ Freeing(H, L, S, tree, rank, group, v)
            /\ \/ Len(v.done) = Len(w.done) + 1 /\ ~Finished(w)
               \/ v = w /\ Finished(w)
        <4>1. IsHeap(H) /\ L \subseteq 1 .. Len(H) /\ S \in [Int -> Nat] /\ Nothing(S)
          BY <1>1, <1>4
        <4> QED BY ONLY <3>3, <4>1, FreeStep
      <3>5. \/ Len(v.done) = Len(w.done) + 1 /\ ~Finished(w)
            \/ v = w /\ Finished(w)
        BY <3>4
      <3>6. Len(w.done) = n - 1 \/ Finished(w)
        BY <3>2 DEF w
      <3>7. Len(v.done) = n \/ Finished(v)
        BY <3>1, <3>5, <3>6
      <3>8. Good(n)
        BY <3>4, <3>7 DEF v
      <3> QED BY <2>2, <3>8
    <2> QED BY <2>3, <2>4
  <1> DEFINE w == work[size]
             F == Range(w.done)
  <1>10. Good(size)
    <2>1. size \in 0 .. size
      BY <1>1 DEF size
    <2> HIDE DEF Good
    <2> QED BY <1>9, <2>1
  <1> HIDE DEF w
  <1>11. Freeing(H, L, S, tree, rank, group, w) /\ (Len(w.done) = size \/ Finished(w)) /\ done = w.done
    BY <1>5, <1>10 DEF w
  <1> HIDE DEF Good
  <1>12. /\ w.todo \in Seq(Nat) /\ w.done \in Seq(Nat)
         /\ F \subseteq L /\ IsFiniteSet(F) /\ Cardinality(F) = Len(w.done)
         /\ HaveOwners(H, L \ F, Outside(w.todo, S), tree, rank)
         /\ \A x \in F : tree[x] \in group
    BY <1>11 DEF Freeing
  <1>13. Finished(w)
    <2> SUFFICES ASSUME Len(w.done) = size, NEW k \in DOMAIN w.todo, w.todo[k] # NIL PROVE FALSE
      BY <1>11 DEF Finished
    <2>1. F = L
      <3>1. L \subseteq 1 .. size
        BY <1>1 DEF size
      <3>2. IsFiniteSet(1 .. size) /\ Cardinality(1 .. size) = size
        <4>1. size \in Nat
          BY <1>1 DEF size
        <4>2. CASE size = 0
          <5>1. 1 .. size = {}
            BY <4>2
          <5> QED BY <4>2, <5>1, FS_EmptySet
        <4>3. CASE size # 0
          <5>1. 1 <= size /\ size - 1 + 1 = size /\ ~(1 > size)
            BY <4>1, <4>3
          <5> QED BY <4>1, <5>1, FS_Interval
        <4> QED BY <4>2, <4>3
      <3>3. F = 1 .. size
        <4>1. F \subseteq 1 .. size /\ Cardinality(F) = size
          BY <1>12, <3>1
        <4> HIDE DEF F
        <4> QED BY <3>2, <4>1, FS_Subset
      <3> QED BY <1>12, <3>1, <3>3
    <2>2. Outside(w.todo, S)[-3 - k] = w.todo[k] /\ -3 - k \in Int
      <3>1. k \in Int
        BY <1>12, LenProperties
      <3>2. -3 - k \in Int /\ -3 - (-3 - k) = k
        BY <3>1
      <3> DEFINE j == -3 - k
      <3>3. j \in Int /\ -3 - j = k
        BY <3>2
      <3> HIDE DEF j
      <3>4. Outside(w.todo, S)[j] = w.todo[-3 - j]
        BY <3>3 DEF Outside
      <3> QED BY <3>2, <3>3, <3>4 DEF j
    <2>3. w.todo[k] \in L \ F
      BY <1>12, <2>2 DEF HaveOwners, Owners
    <2> QED BY <2>1, <2>3
  <1>14. Outside(w.todo, S) = S
    <2>1. \A j \in Int : (IF -3 - j \in DOMAIN w.todo THEN w.todo[-3 - j] ELSE S[j]) = S[j]
      <3> SUFFICES ASSUME NEW j \in Int, -3 - j \in DOMAIN w.todo PROVE w.todo[-3 - j] = S[j]
        OBVIOUS
      <3>1. w.todo[-3 - j] = NIL
        BY <1>13 DEF Finished
      <3>2. -3 - j \in Nat \ {0}
        BY <1>12, LenProperties
      <3>3. j < -3
        BY <3>2
      <3> QED BY <1>4, <3>1, <3>3 DEF Nothing
    <2>2. S = [j \in Int |-> S[j]]
      BY <1>4
    <2> QED BY <2>1, <2>2 DEF Outside
  <1>15. PICK block2, slot2 : /\ Witness(block2, slot2, tree, rank)
                              /\ Owners(H, L \ F, S, block2, slot2) /\ Ordered(L \ F, block2, tree, rank)
    BY <1>12, <1>14 DEF HaveOwners
  <1>16. \A i \in Int : S[i] # NIL => S[i] = R[i] /\ ~\E k \in DOMAIN list : place[k] = i
    BY DEF Gives
  <1>17. Apart(S, tree)
    BY <1>6, <1>16 DEF Apart
  <1>18. AreLists(H, L \ F, S, tree, T)
    <2>1. ASSUME NEW i \in T, S[i] # NIL PROVE IsList(H, L \ F, tree, S[i])
      <3>1. i \in Int /\ S[i] = R[i] /\ ~\E k \in DOMAIN list : place[k] = i
        BY <1>1, <1>16, <2>1
      <3>2. IsList(H, L, tree, R[i])
        BY <1>6, <2>1, <3>1 DEF AreLists
      <3>3. ASSUME R[i] \in group PROVE FALSE
        <4>1. PICK k \in DOMAIN list : list[k] = R[i]
          BY <3>3 DEF group, Range
        <4>2. R[place[k]] = R[i] /\ place[k] \in Int
          BY <1>7, <4>1
        <4>3. slot[R[i]] = i /\ slot[R[i]] = place[k]
          BY <1>6, <2>1, <3>1, <4>2 DEF Owners
        <4> QED BY <3>1, <4>3
      <3>4. H[R[i]].tail \notin F
        BY <1>12, <3>2, <3>3 DEF IsList
      <3> QED BY <3>1, <3>2, <3>4 DEF IsList
    <2> QED BY <2>1 DEF AreLists
  <1>19. TreesBy(H, L \ F, S, T, block2, slot2, tree, rank)
    BY <1>15, <1>17, <1>18 DEF TreesBy
  <1>20. Trees(H, L \ F, S, T)
    <2>1. Typed(H, L \ F, S)
      BY <1>1, <1>4 DEF Typed
    <2> QED BY <1>1, <1>19, <2>1 DEF Trees
  <1> QED BY <1>11, <1>12, <1>20

(***************************************************************************)
(* The parser's own pointers: those in its stack, and four besides, v0 to  *)
(* v3, for the token, parsed_program, out_program and "lost".              *)
(***************************************************************************)

Pointed(s, v0, v1, v2, v3) ==
  [i \in Int |-> IF i \in 1 .. Len(s) THEN Destructed(s[i])
                 ELSE IF i = 0 THEN v0 ELSE IF i = -1 THEN v1 ELSE IF i = -2 THEN v2
                 ELSE IF i = -3 THEN v3 ELSE NIL]
ListsOf(s) == {i \in 1 .. Len(s) : s[i].symbol \in Tables.listed}

\* One pointer moves from the place a to b; or none does, and a = b.
Shifted(R, S, a, b) ==
  /\ S = [i \in Int |-> S[i]] /\ S[b] = R[a] /\ (a # b => R[b] = NIL /\ S[a] = NIL)
  /\ \A i \in Int : i \notin {a, b} => S[i] = R[i]

LEMMA ShiftTrees ==
  ASSUME NEW H, NEW L, NEW R, NEW T, Trees(H, L, R, T), NEW S, NEW a \in Int, NEW b \in Int, Shifted(R, S, a, b),
         NEW U \in SUBSET Int, \A j \in U : S[j] # NIL => (j = b => a \in T) /\ (j # b => j \in T)
  PROVE  Trees(H, L, S, U)
  <1> DEFINE to == [i \in Int |-> IF i = a THEN b ELSE i]
             from == [j \in Int |-> IF j = b THEN a ELSE j]
  <1>1. R \in [Int -> Nat]
    BY DEF Trees, Typed
  <1>2. /\ S[b] = R[a] /\ (a # b => R[b] = NIL /\ S[a] = NIL)
        /\ \A i \in Int : i \notin {a, b} => S[i] = R[i]
    BY DEF Shifted
  <1>3. S \in [Int -> Nat]
    <2>1. \A i \in Int : S[i] \in Nat
      BY <1>1, <1>2 DEF NIL
    <2>2. S = [i \in Int |-> S[i]]
      BY DEF Shifted
    <2> QED BY <2>1, <2>2, Zenon
  <1>4. to \in [Int -> Int] /\ from \in [Int -> Int]
    OBVIOUS
  <1>5. \A i \in Int : R[i] # NIL => S[to[i]] = R[i]
    BY <1>2
  <1>6. \A j \in Int : S[j] # NIL => R[from[j]] = S[j] /\ to[from[j]] = j
    BY <1>2
  <1>7. Moves(R, S, to, from)
    BY <1>4, <1>5, <1>6 DEF Moves
  <1>8. \A j \in U : S[j] # NIL => from[j] \in T
    OBVIOUS
  <1> HIDE DEF to, from
  <1> QED BY <1>3, <1>7, <1>8, MoveTrees

LEMMA PointedAt ==
  ASSUME NEW s, Len(s) \in Nat, NEW v0, NEW v1, NEW v2, NEW v3, NEW R, R = Pointed(s, v0, v1, v2, v3)
  PROVE  /\ R = [i \in Int |-> R[i]] /\ R[0] = v0 /\ R[-1] = v1 /\ R[-2] = v2 /\ R[-3] = v3
         /\ \A i \in 1 .. Len(s) : R[i] = Destructed(s[i])
         /\ \A i \in Int : i < -3 \/ i > Len(s) => R[i] = NIL
         /\ Nothing(R)
  <1> DEFINE n == Len(s)
  <1>1. n \in Nat
    OBVIOUS
  <1>2. R = [i \in Int |-> IF i \in 1 .. n THEN Destructed(s[i])
                           ELSE IF i = 0 THEN v0 ELSE IF i = -1 THEN v1 ELSE IF i = -2 THEN v2
                           ELSE IF i = -3 THEN v3 ELSE NIL]
    BY DEF Pointed
  <1> HIDE DEF n
  <1>3. R = [i \in Int |-> R[i]]
    BY <1>2
  <1>4. \A i \in Int : R[i] = IF i \in 1 .. n THEN Destructed(s[i])
                              ELSE IF i = 0 THEN v0 ELSE IF i = -1 THEN v1 ELSE IF i = -2 THEN v2
                              ELSE IF i = -3 THEN v3 ELSE NIL
    BY <1>2
  <1>5. R[0] = v0 /\ R[-1] = v1 /\ R[-2] = v2 /\ R[-3] = v3
    BY <1>1, <1>4
  <1>6. \A i \in 1 .. n : R[i] = Destructed(s[i])
    BY <1>1, <1>4
  <1>7. \A i \in Int : i < -3 \/ i > n => R[i] = NIL
    BY <1>1, <1>4
  <1> QED BY <1>3, <1>5, <1>6, <1>7 DEF n, Nothing

LEMMA PointedAtLength ==
  ASSUME NEW s, NEW n \in Nat, Len(s) = n, NEW v0, NEW v1, NEW v2, NEW v3, NEW R, R = Pointed(s, v0, v1, v2, v3)
  PROVE  /\ R = [i \in Int |-> R[i]] /\ R[0] = v0 /\ R[-1] = v1 /\ R[-2] = v2 /\ R[-3] = v3
         /\ \A i \in 1 .. n : R[i] = Destructed(s[i])
         /\ \A i \in Int : i < -3 \/ i > n => R[i] = NIL
  BY PointedAt

\* An element on the lower part of the stack
PushedOn(s, n, e, t) == IsSequence(t) /\ Len(t) = n + 1 /\ t[n + 1] = e /\ \A i \in 1 .. n : t[i] = s[i]

LEMMA PushSequence ==
  ASSUME NEW s, IsSequence(s), NEW n \in 0 .. Len(s), NEW e, NEW t, t = Append(SubSeq(s, 1, n), e)
  PROVE  PushedOn(s, n, e, t)
  <1> DEFINE u == SubSeq(s, 1, n)
  <1>1. IsSequence(u) /\ Len(u) = n /\ \A i \in 1 .. n : u[i] = s[i]
    BY PrefixSequence
  <1> HIDE DEF u
  <1>2. t = Append(u, e)
    BY DEF u
  <1>3. /\ IsSequence(Append(u, e)) /\ Len(Append(u, e)) = Len(u) + 1
        /\ (\A i \in 1 .. Len(u) : Append(u, e)[i] = u[i]) /\ Append(u, e)[Len(u) + 1] = e
    BY <1>1, AppendSequence
  <1> QED BY <1>1, <1>2, <1>3 DEF PushedOn

\* The lower part of P, and a pointer at a
Above(Q, P, n, a) ==
  /\ a \in -3 .. n => P[a] = NIL
  /\ \A i \in Int : i # a => Q[i] = IF i \in -3 .. n THEN P[i] ELSE NIL

\* The stack keeps its lower part, and the pointer at the place a goes into a new element; the
\* rest of Q is the pointers w0 to w3 and those of the lower part.
LEMMA PushTrees ==
  ASSUME NEW s, IsSequence(s), NEW n \in 0 .. Len(s), NEW e,
         NEW t, PushedOn(s, n, e, t), NEW w0, NEW w1, NEW w2, NEW w3, NEW P, P = Pointed(s, w0, w1, w2, w3),
         NEW Q, NEW a \in Int, Destructed(e) = Q[a], Above(Q, P, n, a),
         NEW H, NEW L, NEW T, Trees(H, L, Q, T), e.symbol \in Tables.listed /\ Q[a] # NIL => a \in T,
         ListsOf(s) \subseteq T
  PROVE  Trees(H, L, Pointed(t, w0, w1, w2, w3), ListsOf(t))
  <1> DEFINE S == Pointed(t, w0, w1, w2, w3)
             U == ListsOf(t)
  <1> USE DEF PushedOn, Above
  <1>1. Len(s) \in Nat /\ n \in Nat /\ n <= Len(s)
    <2>1. Len(s) \in Nat
      BY AppendSequence
    <2> QED BY <2>1
  <1>2. /\ P[0] = w0 /\ P[-1] = w1 /\ P[-2] = w2 /\ P[-3] = w3
        /\ \A i \in 1 .. n : P[i] = Destructed(s[i])
    <2>1. /\ P[0] = w0 /\ P[-1] = w1 /\ P[-2] = w2 /\ P[-3] = w3
          /\ \A i \in 1 .. Len(s) : P[i] = Destructed(s[i])
      BY <1>1, PointedAt
    <2>2. \A i \in 1 .. n : i \in 1 .. Len(s)
      BY <1>1
    <2> QED BY <2>1, <2>2
  <1> HIDE DEF S
  <1>3. /\ S = [i \in Int |-> S[i]] /\ S[0] = w0 /\ S[-1] = w1 /\ S[-2] = w2 /\ S[-3] = w3
        /\ S[n + 1] = Destructed(e)
        /\ \A i \in 1 .. n : S[i] = Destructed(s[i])
        /\ \A i \in Int : i < -3 \/ i > n + 1 => S[i] = NIL
    <2>1. /\ S = [i \in Int |-> S[i]] /\ S[0] = w0 /\ S[-1] = w1 /\ S[-2] = w2 /\ S[-3] = w3
          /\ \A i \in 1 .. n + 1 : S[i] = Destructed(t[i])
          /\ \A i \in Int : i < -3 \/ i > n + 1 => S[i] = NIL
      <3>1. n + 1 \in Nat /\ S = Pointed(t, w0, w1, w2, w3)
        BY <1>1 DEF S
      <3> QED BY <3>1, PointedAtLength
    <2>2. n + 1 \in 1 .. n + 1 /\ \A i \in 1 .. n : i \in 1 .. n + 1
      BY <1>1
    <2> QED BY <2>1, <2>2
  <1>4. \A i \in Int : i \in -3 .. n => S[i] = P[i]
    <2> SUFFICES ASSUME NEW i \in Int, i \in -3 .. n PROVE S[i] = P[i]
      OBVIOUS
    <2>1. i \in 1 .. n \/ i \in {0, -1, -2, -3}
      BY <1>1
    <2> QED BY <1>2, <1>3, <2>1
  <1>5. Shifted(Q, S, a, n + 1)
    <2>1. S[n + 1] = Q[a]
      BY <1>3
    <2>2. a # n + 1 => Q[n + 1] = NIL /\ S[a] = NIL
      <3> SUFFICES ASSUME a # n + 1 PROVE Q[n + 1] = NIL /\ S[a] = NIL
        OBVIOUS
      <3>1. n + 1 \in Int /\ ~(n + 1 \in -3 .. n)
        BY <1>1
      <3>2. CASE a \in -3 .. n
        BY <1>4, <3>1, <3>2
      <3>3. CASE ~(a \in -3 .. n)
        <4>1. a < -3 \/ a > n + 1
          BY <1>1, <3>3
        <4> QED BY <1>3, <3>1, <4>1
      <3> QED BY <3>2, <3>3
    <2>3. ASSUME NEW i \in Int, i \notin {a, n + 1} PROVE S[i] = Q[i]
      <3>1. CASE i \in -3 .. n
        BY <1>4, <2>3, <3>1
      <3>2. CASE ~(i \in -3 .. n)
        <4>1. i < -3 \/ i > n + 1
          BY <1>1, <2>3, <3>2
        <4> QED BY <1>3, <2>3, <3>2, <4>1
      <3> QED BY <3>1, <3>2
    <2>4. S = [i \in Int |-> S[i]]
      BY <1>3
    <2> QED BY <2>1, <2>2, <2>3, <2>4 DEF Shifted
  <1>6. U \in SUBSET Int /\ \A j \in U : S[j] # NIL => (j = n + 1 => a \in T) /\ (j # n + 1 => j \in T)
    <2>1. U = {i \in 1 .. n + 1 : t[i].symbol \in Tables.listed}
      BY DEF ListsOf
    <2> HIDE DEF U
    <2>2. U \in SUBSET Int
      BY <1>1, <2>1
    <2>3. ASSUME NEW j \in U, S[j] # NIL PROVE (j = n + 1 => a \in T) /\ (j # n + 1 => j \in T)
      <3>1. CASE j = n + 1
        <4>1. e.symbol \in Tables.listed /\ Q[a] # NIL
          BY <1>3, <2>1, <2>3, <3>1
        <4> QED BY <3>1, <4>1
      <3>2. CASE j # n + 1
        <4>1. j \in 1 .. n /\ j \in 1 .. Len(s) /\ j \in -3 .. n
          BY <1>1, <2>1, <3>2
        <4>2. j \in ListsOf(s)
          BY <2>1, <4>1 DEF ListsOf
        <4>3. j # a
          <5> SUFFICES ASSUME j = a PROVE FALSE
            OBVIOUS
          <5>1. P[j] = NIL /\ S[j] = P[j]
            BY <1>4, <4>1
          <5> QED BY <2>3, <5>1
        <4> QED BY <3>2, <4>1, <4>2, <4>3
      <3> QED BY <3>1, <3>2
    <2> QED BY <2>2, <2>3
  <1> HIDE DEF U
  <1>7. Trees(H, L, S, U)
    <2>1. n + 1 \in Int
      BY <1>1
    <2> QED BY <1>5, <1>6, <2>1, ShiftTrees
  <1> QED BY <1>7 DEF S, U

(***************************************************************************)
(* What is allocated and not freed                                         *)
(***************************************************************************)

FreedOnce(H, F) ==
  /\ F \in Seq(Nat) /\ Range(F) \subseteq 1 .. Len(H)
  /\ IsFiniteSet(Range(F)) /\ Cardinality(Range(F)) = Len(F)
Blocks(H, F) == (1 .. Len(H)) \ Range(F)

\* All of it is in trees that the parser points to.
Owns(H, F, s, v0, v1, v2, v3) ==
  /\ IsSequence(s) /\ FreedOnce(H, F)
  /\ Trees(H, Blocks(H, F), Pointed(s, v0, v1, v2, v3), ListsOf(s))

LEMMA ConcatRange ==
  ASSUME NEW s \in Seq(Nat), NEW t \in Seq(Nat)
  PROVE  s \o t \in Seq(Nat) /\ Len(s \o t) = Len(s) + Len(t) /\ Range(s \o t) = Range(s) \cup Range(t)
  <1> DEFINE r == s \o t
             n == Len(s)
             m == Len(t)
  <1>1. n \in Nat /\ m \in Nat /\ DOMAIN s = 1 .. n /\ DOMAIN t = 1 .. m
    BY LenProperties
  <1>2. r \in Seq(Nat) /\ Len(r) = n + m
    BY ConcatProperties
  <1>3. \A k \in 1 .. n + m : r[k] = IF k <= n THEN s[k] ELSE t[k - n]
    BY ConcatProperties
  <1>4. DOMAIN r = 1 .. n + m
    BY <1>2, LenProperties
  <1> HIDE DEF r, n, m
  <1>5. \A k \in 1 .. n + m : (k \in 1 .. n /\ k <= n) \/ (k - n \in 1 .. m /\ ~(k <= n))
    BY <1>1
  <1>6. \A k \in 1 .. n : k \in 1 .. n + m /\ k <= n
    BY <1>1
  <1>7. \A k \in 1 .. m : n + k \in 1 .. n + m /\ ~(n + k <= n) /\ n + k - n = k
    BY <1>1
  <1>8. Range(r) \subseteq Range(s) \cup Range(t)
    BY <1>1, <1>3, <1>4, <1>5 DEF Range
  <1>9. Range(s) \subseteq Range(r)
    BY <1>1, <1>3, <1>4, <1>6 DEF Range
  <1>10. Range(t) \subseteq Range(r)
    <2>1. \A k \in 1 .. m : r[n + k] = t[k]
      <3> SUFFICES ASSUME NEW k \in 1 .. m PROVE r[n + k] = t[k]
        OBVIOUS
      <3> DEFINE q == n + k
      <3>1. q \in 1 .. n + m /\ ~(q <= n) /\ q - n = k
        BY <1>1
      <3> HIDE DEF q
      <3>2. r[q] = t[q - n]
        BY <1>3, <3>1
      <3> QED BY <3>1, <3>2 DEF q
    <2> QED BY <1>1, <1>4, <1>7, <2>1 DEF Range
  <1> QED BY <1>2, <1>8, <1>9, <1>10 DEF r, n, m

LEMMA MakeBlocks ==
  ASSUME NEW H, IsHeap(H), NEW F, FreedOnce(H, F), NEW kind, NEW tag, NEW kids \in Seq(Nat),
         NEW G, G = New(H, kind, tag, kids)
  PROVE  FreedOnce(G, F) /\ Blocks(G, F) = Blocks(H, F) \cup {Fresh(H)}
  <1>1. Len(G) = Len(H) + 1 /\ Fresh(H) = Len(H) + 1
    BY NewBlock
  <1>2. Len(H) \in Nat
    BY HeapLength
  <1> DEFINE n == Len(H)
             f == Fresh(H)
             l == Len(G)
  <1>3. l = n + 1 /\ f = n + 1 /\ n \in Nat
    BY <1>1, <1>2
  <1> HIDE DEF n, f, l
  <1>4. 1 .. l = (1 .. n) \cup {f} /\ f \notin 1 .. n
    BY <1>3
  <1>5. Range(F) \subseteq 1 .. n
    BY DEF FreedOnce, n
  <1>6. Range(F) \subseteq 1 .. l /\ (1 .. l) \ Range(F) = ((1 .. n) \ Range(F)) \cup {f}
    BY <1>4, <1>5
  <1> QED BY <1>6 DEF FreedOnce, Blocks, n, f, l

LEMMA FreeBlocks ==
  ASSUME NEW H, NEW F, FreedOnce(H, F), NEW R, NEW T, Trees(H, Blocks(H, F), R, T), Nothing(R),
         NEW list \in Seq(Nat), NEW place, NEW S, Gives(R, S, list, place),
         NEW G, G = F \o Owned(H, list)
  PROVE  FreedOnce(H, G) /\ Trees(H, Blocks(H, G), S, T)
  <1> DEFINE D == Owned(H, list)
             L == Blocks(H, F)
  <1>1. D \in Seq(Nat) /\ Range(D) \subseteq L /\ IsFiniteSet(Range(D)) /\ Cardinality(Range(D)) = Len(D)
    BY FreeTrees
  <1>2. Trees(H, L \ Range(D), S, T)
    BY FreeTrees
  <1> HIDE DEF D
  <1>3. /\ F \in Seq(Nat) /\ Range(F) \subseteq 1 .. Len(H)
        /\ IsFiniteSet(Range(F)) /\ Cardinality(Range(F)) = Len(F)
    BY DEF FreedOnce
  <1>4. G = F \o D
    BY DEF D
  <1>5. G \in Seq(Nat) /\ Len(G) = Len(F) + Len(D) /\ Range(G) = Range(F) \cup Range(D)
    BY <1>1, <1>3, <1>4, ConcatRange
  <1>6. Range(F) \cap Range(D) = {} /\ Range(D) \subseteq 1 .. Len(H)
    BY <1>1 DEF Blocks
  <1>7. IsFiniteSet(Range(G)) /\ Cardinality(Range(G)) = Len(G)
    <2>1. /\ IsFiniteSet(Range(F) \cup Range(D))
          /\ Cardinality(Range(F) \cup Range(D))
               = Cardinality(Range(F)) + Cardinality(Range(D)) - Cardinality(Range(F) \cap Range(D))
      BY <1>1, <1>3, FS_Union
    <2>2. Cardinality(Range(F) \cap Range(D)) = 0
      BY <1>6, FS_EmptySet
    <2> DEFINE n == Len(F)
               m == Len(D)
    <2>3. n \in Nat /\ m \in Nat
      BY <1>1, <1>3, LenProperties
    <2>4. Cardinality(Range(F) \cup Range(D)) = n + m - 0
      BY <1>1, <1>3, <2>1, <2>2
    <2>5. Len(G) = n + m
      BY <1>5
    <2> HIDE DEF n, m
    <2>6. n + m - 0 = n + m
      BY <2>3
    <2> QED BY <1>5, <2>1, <2>4, <2>5, <2>6
  <1>8. Blocks(H, G) = L \ Range(D)
    BY <1>5 DEF Blocks
  <1> QED BY <1>2, <1>3, <1>5, <1>6, <1>7, <1>8 DEF FreedOnce

(***************************************************************************)
(* A reduction.  The elements above n stand for the right side of p.       *)
(***************************************************************************)

OnTop(s, n, p) ==
  /\ IsSequence(s) /\ n \in 1 .. Len(s) /\ Len(p.rhs) \in Nat /\ Len(s) = n + Len(p.rhs)
  /\ p.rhs \in Seq(STRING) /\ \A k \in 1 .. Len(p.rhs) : s[n + k].symbol = p.rhs[k]
  /\ UsesEachOnce(p)
\* The pointers that the action is about, and where they are
Values(s, n, p) == [k \in DOMAIN p.act.kids |-> s[n + p.act.kids[k]].value]
Places(n, p) == [k \in DOMAIN p.act.kids |-> n + p.act.kids[k]]
\* What is left without them
Stays(n, p, i) == i <= n \/ (p.act.do = "grow" /\ i = n + 1)
Remain(R, n, p) == [i \in Int |-> IF Stays(n, p, i) THEN R[i] ELSE NIL]

LEMMA HandleLength ==
  ASSUME NEW s, NEW n, NEW p, OnTop(s, n, p)
  PROVE  /\ Len(s) \in Nat /\ n \in Nat /\ n >= 1 /\ n \in 1 .. Len(s) /\ Len(p.rhs) \in Nat
         /\ Len(s) = n + Len(p.rhs) /\ DOMAIN p.rhs = 1 .. Len(p.rhs)
  <1>1. IsSequence(s) /\ n \in 1 .. Len(s) /\ Len(p.rhs) \in Nat /\ Len(s) = n + Len(p.rhs) /\ p.rhs \in Seq(STRING)
    BY DEF OnTop
  <1>2. Len(s) \in Nat
    BY <1>1, AppendSequence
  <1>3. \A r \in Seq(STRING) : DOMAIN r = 1 .. Len(r)
    BY LenProperties
  <1>4. DOMAIN p.rhs = 1 .. Len(p.rhs)
    BY <1>1, <1>3
  <1> DEFINE m == Len(s)
  <1>5. n \in 1 .. m /\ m \in Nat
    BY <1>1, <1>2
  <1> HIDE DEF m
  <1>6. n \in Nat /\ n >= 1
    BY <1>5
  <1> QED BY <1>1, <1>2, <1>4, <1>6

\* Element q of s stands for the k-th symbol of the right side.
IsElement(R, s, p, k, q) ==
  /\ q \in 1 .. Len(s) /\ s[q].symbol = p.rhs[k]
  /\ R[q] = IF p.rhs[k] \in Tables.pointer THEN s[q].value ELSE NIL

LEMMA HandleElements ==
  ASSUME NEW s, NEW n, NEW p, OnTop(s, n, p), NEW v0, NEW v1, NEW v2, NEW v3, NEW R, R = Pointed(s, v0, v1, v2, v3),
         NEW k \in 1 .. Len(p.rhs)
  PROVE  IsElement(R, s, p, k, n + k)
  <1>1. Len(s) \in Nat /\ n \in Nat /\ Len(p.rhs) \in Nat /\ Len(s) = n + Len(p.rhs)
    BY HandleLength
  <1> DEFINE q == n + k
             m == Len(s)
             l == Len(p.rhs)
  <1>2. q \in 1 .. m /\ q > n
    <2>1. n \in Nat /\ l \in Nat /\ m = n + l /\ k \in 1 .. l
      BY <1>1
    <2> HIDE DEF m, l
    <2> QED BY <2>1
  <1>3. s[q].symbol = p.rhs[k]
    BY DEF OnTop
  <1>4. R[q] = Destructed(s[q])
    <2> HIDE DEF q
    <2> QED BY <1>1, <1>2, PointedAt
  <1> HIDE DEF q, m
  <1> QED BY <1>2, <1>3, <1>4 DEF q, m, Destructed, IsElement

\* All pointers that do not stay are in the list, each once.
Handles(R, n, p, list, place) ==
  /\ list \in Seq(Nat) /\ DOMAIN list = DOMAIN p.act.kids /\ place \in [DOMAIN list -> Int]
  /\ \A k \in DOMAIN list : list[k] = R[place[k]] /\ place[k] > n /\ place[k] = n + p.act.kids[k]
  /\ \A k, l \in DOMAIN list : place[k] = place[l] => k = l
  /\ \A i \in Int : (\E k \in DOMAIN list : place[k] = i) => ~Stays(n, p, i)
  /\ \A i \in Int : ~Stays(n, p, i) /\ R[i] # NIL => \E k \in DOMAIN list : place[k] = i

LEMMA HandleValues ==
  ASSUME NEW s, NEW n, NEW p, OnTop(s, n, p), NEW v0, NEW v1, NEW v2, NEW v3, NEW R, R = Pointed(s, v0, v1, v2, v3),
         R \in [Int -> Nat], NEW list, list = Values(s, n, p), NEW place, place = Places(n, p)
  PROVE  Handles(R, n, p, list, place)
  <1> DEFINE kids == p.act.kids
             D == DOMAIN kids
             N == 1 .. Len(p.rhs)
             Grows == p.act.do = "grow"
  <1>1. /\ Len(s) \in Nat /\ n \in Nat /\ n >= 1 /\ n \in 1 .. Len(s) /\ Len(p.rhs) \in Nat
        /\ Len(s) = n + Len(p.rhs) /\ DOMAIN p.rhs = N
    BY HandleLength
  <1>2. /\ IsInjective(kids) /\ kids \in Seq(N)
        /\ {k \in N : p.rhs[k] \in Tables.pointer} = IF Grows THEN {1} \cup Range(kids) ELSE Range(kids)
        /\ Grows => 1 \notin Range(kids)
    <2>1. UsesEachOnce(p)
      BY DEF OnTop
    <2> QED BY <1>1, <2>1 DEF UsesEachOnce
  <1>3. ASSUME NEW k \in N PROVE R[n + k] = IF p.rhs[k] \in Tables.pointer THEN s[n + k].value ELSE NIL
    <2>1. k \in 1 .. Len(p.rhs)
      OBVIOUS
    <2> HIDE DEF N
    <2>2. IsElement(R, s, p, k, n + k)
      BY <2>1, HandleElements
    <2> QED BY <2>2 DEF IsElement
  <1> HIDE DEF Grows
  <1>4. /\ D = 1 .. Len(kids) /\ Len(kids) \in Nat /\ \A k \in D : kids[k] \in N /\ kids[k] \in Range(kids)
    <2> HIDE DEF kids, N
    <2>1. D = 1 .. Len(kids) /\ Len(kids) \in Nat
      BY <1>2, LenProperties
    <2>2. \A k \in D : kids[k] \in N
      BY <1>2, <2>1, ElementOfSeq
    <2>3. \A k \in D : kids[k] \in Range(kids)
      BY DEF Range
    <2> QED BY <2>1, <2>2, <2>3
  <1>5. \A k \in D : list[k] = s[n + kids[k]].value /\ place[k] = n + kids[k]
    BY DEF Values, Places
  <1>6. DOMAIN list = D /\ DOMAIN place = D /\ list = [k \in D |-> list[k]] /\ place = [k \in D |-> place[k]]
    BY DEF Values, Places
  <1> HIDE DEF N
  <1>7. \A k \in D : p.rhs[kids[k]] \in Tables.pointer
    <2> HIDE DEF kids
    <2>1. \A k \in D : kids[k] \in {j \in N : p.rhs[j] \in Tables.pointer}
      BY <1>2, <1>4
    <2> QED BY <2>1
  <1>8. \A k \in D : list[k] = R[place[k]]
    <2> HIDE DEF kids
    <2> QED BY <1>3, <1>4, <1>5, <1>7
  <1>9. \A k \in N : k \in Nat /\ k >= 1
    BY <1>1 DEF N
  <1> HIDE DEF kids
  <1>10. ASSUME NEW k \in D PROVE place[k] \in Int /\ place[k] > n
    <2>1. PICK j \in Nat : j = kids[k] /\ j >= 1
      BY <1>4, <1>9
    <2>2. PICK m \in Nat : m = n
      BY <1>1
    <2>3. place[k] = m + j
      BY <1>5, <2>1, <2>2
    <2>4. m + j \in Int /\ m + j > m
      BY <2>1
    <2> QED BY <2>2, <2>3, <2>4
  <1>11. list \in Seq(Nat)
    <2>1. \A k \in D : list[k] \in Nat
      BY <1>8, <1>10
    <2>2. list \in [D -> Nat]
      BY <1>6, <2>1, Zenon
    <2>3. \E m \in Nat : list \in [1 .. m -> Nat]
      BY <1>4, <2>2, Zenon
    <2> QED BY <2>3
  <1>12. place \in [D -> Int]
    BY <1>6, <1>10, Zenon
  <1>13. ASSUME NEW k \in D, NEW l \in D, place[k] = place[l] PROVE k = l
    <2>1. kids[k] = kids[l]
      <3>1. n + kids[k] = n + kids[l]
        BY <1>5, <1>13
      <3>2. kids[k] \in Nat /\ kids[l] \in Nat
        BY <1>4, <1>9
      <3> QED BY <1>1, <3>1, <3>2
    <2> QED BY <1>2, <2>1 DEF IsInjective
  <1>14. ASSUME NEW k \in D PROVE ~Stays(n, p, place[k])
    <2>1. ~(place[k] <= n)
      <3>1. place[k] \in Int /\ place[k] > n
        BY <1>10
      <3> QED BY <1>1, <3>1
    <2>2. Grows => place[k] # n + 1
      <3> SUFFICES ASSUME Grows, place[k] = n + 1 PROVE FALSE
        OBVIOUS
      <3>1. kids[k] \in Nat /\ n + kids[k] = n + 1
        BY <1>4, <1>5, <1>9
      <3>2. kids[k] = 1
        BY <1>1, <3>1
      <3>3. kids[k] \in Range(kids)
        BY DEF Range
      <3> QED BY <1>2, <3>2, <3>3
    <2> QED BY <2>1, <2>2 DEF Stays, Grows
  <1>15. ASSUME NEW i \in Int, ~Stays(n, p, i), R[i] # NIL PROVE \E k \in D : place[k] = i
    <2>1. i > n /\ ~(Grows /\ i = n + 1)
      BY <1>1, <1>15 DEF Stays, Grows
    <2>2. i <= Len(s)
      <3>1. PICK m \in Nat : Len(s) = m
        BY <1>1
      <3>2. \A j \in Int : j < -3 \/ j > m => R[j] = NIL
        BY <3>1, PointedAtLength
      <3>3. ~(i > m)
        BY <1>15, <3>2, Zenon
      <3> QED BY <3>1, <3>3
    <2> DEFINE k == i - n
    <2>3. k \in N /\ n + k = i /\ (Grows => k # 1)
      BY <1>1, <2>1, <2>2 DEF N
    <2> HIDE DEF k
    <2>4. p.rhs[k] \in Tables.pointer
      BY <1>3, <1>15, <2>3
    <2>5. k \in Range(kids)
      BY <1>2, <2>3, <2>4
    <2>6. PICK j \in D : kids[j] = k
      BY <2>5 DEF Range
    <2> QED BY <1>5, <2>3, <2>6
  <1> QED BY <1>5, <1>6, <1>8, <1>10, <1>11, <1>12, <1>13, <1>14, <1>15 DEF kids, Handles

LEMMA OwnsParts ==
  ASSUME NEW H, NEW F, NEW s, NEW v0, NEW v1, NEW v2, NEW v3, Owns(H, F, s, v0, v1, v2, v3),
         NEW R, R = Pointed(s, v0, v1, v2, v3)
  PROVE  /\ IsHeap(H) /\ FreedOnce(H, F) /\ R \in [Int -> Nat] /\ Nothing(R) /\ IsSequence(s) /\ Len(s) \in Nat
         /\ Trees(H, Blocks(H, F), R, ListsOf(s)) /\ ListsOf(s) \in SUBSET Int
  <1>1. Trees(H, Blocks(H, F), R, ListsOf(s)) /\ FreedOnce(H, F) /\ IsSequence(s)
    BY DEF Owns
  <1>2. IsHeap(H) /\ R \in [Int -> Nat] /\ ListsOf(s) \in SUBSET Int
    BY <1>1 DEF Trees, Typed
  <1>3. Len(s) \in Nat
    BY <1>1, AppendSequence
  <1>4. Nothing(R)
    BY <1>3, PointedAt
  <1> QED BY <1>1, <1>2, <1>3, <1>4

LEMMA HandleGives ==
  ASSUME NEW s, NEW n, NEW p, OnTop(s, n, p), NEW v0, NEW v1, NEW v2, NEW v3, NEW R, R = Pointed(s, v0, v1, v2, v3),
         R \in [Int -> Nat]
  PROVE  Values(s, n, p) \in Seq(Nat) /\ Gives(R, Remain(R, n, p), Values(s, n, p), Places(n, p))
  <1> DEFINE list == Values(s, n, p)
             place == Places(n, p)
             taken(i) == \E k \in DOMAIN list : place[k] = i
  <1>1. Handles(R, n, p, list, place)
    BY HandleValues
  <1> HIDE DEF list, place
  <1>2. /\ list \in Seq(Nat) /\ place \in [DOMAIN list -> Int]
        /\ \A k \in DOMAIN list : list[k] = R[place[k]]
        /\ \A k, l \in DOMAIN list : place[k] = place[l] => k = l
        /\ \A i \in Int : taken(i) => ~Stays(n, p, i)
        /\ \A i \in Int : ~Stays(n, p, i) /\ R[i] # NIL => taken(i)
    BY <1>1 DEF Handles
  <1>3. \A i \in Int : (IF Stays(n, p, i) THEN R[i] ELSE NIL) = (IF taken(i) THEN NIL ELSE R[i])
    BY <1>2
  <1>4. Remain(R, n, p) = [i \in Int |-> IF taken(i) THEN NIL ELSE R[i]]
    BY <1>3 DEF Remain
  <1>5. Gives(R, Remain(R, n, p), list, place)
    BY <1>2, <1>4 DEF Gives
  <1> QED BY <1>2, <1>5 DEF list, place

\* The same with f in a new place
Besides(S, z, f) == [i \in Int |-> IF i = z THEN f ELSE S[i]]
LEMMA GivesTakes ==
  ASSUME NEW R, NEW S, NEW list, NEW place, Gives(R, S, list, place), NEW z, NEW f
  PROVE  Takes(R, Besides(S, z, f), list, place, z, f)
  BY DEF Gives, Takes, Besides

\* The pointer at a of Q fits the new element, and the rest of Q those of P that are left.
Fits(s, n, e, t, P, Q, T, a) ==
  /\ IsSequence(s) /\ n \in 0 .. Len(s) /\ PushedOn(s, n, e, t)
  /\ a \in Int /\ Above(Q, P, n, a) /\ Destructed(e) = Q[a]
  /\ ListsOf(s) \subseteq T /\ (e.symbol \in Tables.listed /\ Q[a] # NIL => a \in T)

LEMMA PushOwns ==
  ASSUME NEW s, NEW n, NEW e, NEW t, NEW w0, NEW w1, NEW w2, NEW w3, NEW P, P = Pointed(s, w0, w1, w2, w3),
         NEW Q, NEW T, NEW a, Fits(s, n, e, t, P, Q, T, a),
         NEW H, NEW F, FreedOnce(H, F), Trees(H, Blocks(H, F), Q, T)
  PROVE  Owns(H, F, t, w0, w1, w2, w3)
  <1> DEFINE L == Blocks(H, F)
  <1>1. /\ IsSequence(s) /\ n \in 0 .. Len(s) /\ PushedOn(s, n, e, t)
        /\ a \in Int /\ Above(Q, P, n, a) /\ Destructed(e) = Q[a]
        /\ ListsOf(s) \subseteq T /\ (e.symbol \in Tables.listed /\ Q[a] # NIL => a \in T)
    BY DEF Fits
  <1>2. IsSequence(t)
    BY <1>1 DEF PushedOn
  <1> HIDE DEF L
  <1>3. Trees(H, L, Q, T)
    BY DEF L
  <1>4. Trees(H, L, Pointed(t, w0, w1, w2, w3), ListsOf(t))
    BY <1>1, <1>3, PushTrees
  <1> QED BY <1>2, <1>4 DEF Owns, L

\* Without another pointer above, what stays is the lower part; f may be put in front.
LEMMA RemainAbove ==
  ASSUME NEW s, NEW n, NEW p, OnTop(s, n, p), p.act.do # "grow", NEW v0, NEW v1, NEW v2, NEW v3,
         NEW R, R = Pointed(s, v0, v1, v2, v3), NEW Q, Q = Remain(R, n, p), NEW f
  PROVE  /\ Above(Q, R, n, -4) /\ Q[-4] = NIL
         /\ Above(Besides(Q, -4, f), R, n, -4) /\ Besides(Q, -4, f)[-4] = f
         /\ Above(Besides(Q, -1, f), Pointed(s, v0, f, v2, v3), n, -4) /\ Besides(Q, -1, f)[-4] = NIL
  <1> DEFINE P == Pointed(s, v0, f, v2, v3)
  <1>1. n \in Nat /\ Len(s) \in Nat
    BY HandleLength
  <1>2. \A i \in Int : Q[i] = IF i <= n THEN R[i] ELSE NIL
    BY DEF Remain, Stays
  <1>3. Nothing(R)
    BY <1>1, PointedAt
  <1>4. \A i \in Int : i < -3 => R[i] = NIL
    <2> SUFFICES ASSUME NEW i \in Int, i < -3 PROVE R[i] = NIL
      OBVIOUS
    <2> QED BY <1>3 DEF Nothing
  <1>5. \A i \in Int : P[i] = IF i = -1 THEN f ELSE R[i]
    BY DEF Pointed
  <1> HIDE DEF P
  <1>6. -4 \notin -3 .. n /\ \A i \in Int : i \in -3 .. n => i <= n
    BY <1>1
  <1>7. \A i \in Int : Q[i] = IF i \in -3 .. n THEN R[i] ELSE NIL
    <2> SUFFICES ASSUME NEW i \in Int PROVE Q[i] = IF i \in -3 .. n THEN R[i] ELSE NIL
      OBVIOUS
    <2>1. CASE i \in -3 .. n
      BY <1>2, <1>6, <2>1
    <2>2. CASE ~(i \in -3 .. n)
      <3>1. i < -3 \/ ~(i <= n)
        BY <1>1, <2>2
      <3> QED BY <1>2, <1>4, <2>2, <3>1
    <2> QED BY <2>1, <2>2
  <1>8. Above(Q, R, n, -4) /\ Q[-4] = NIL
    BY <1>6, <1>7 DEF Above
  <1>9. Above(Besides(Q, -4, f), R, n, -4) /\ Besides(Q, -4, f)[-4] = f
    BY <1>6, <1>7 DEF Above, Besides
  <1>10. Above(Besides(Q, -1, f), P, n, -4) /\ Besides(Q, -1, f)[-4] = NIL
    <2>1. -1 \in -3 .. n
      BY <1>1
    <2> QED BY <1>5, <1>6, <1>7, <2>1 DEF Above, Besides
  <1> QED BY <1>8, <1>9, <1>10 DEF P

LEMMA NothingAbove ==
  ASSUME NEW s, NEW n, NEW p, OnTop(s, n, p), p.act.do \in {"null", "stand", "recover_block"},
         NEW v0, NEW v1, NEW v2, NEW v3, NEW R, R = Pointed(s, v0, v1, v2, v3), R \in [Int -> Nat]
  PROVE  Remain(R, n, p) = R
  <1>1. DOMAIN p.act.kids = {} /\ p.act.do # "grow"
    <2>1. p.act.kids = <<>>
      BY DEF OnTop, UsesEachOnce
    <2> QED BY <2>1
  <1>2. Handles(R, n, p, Values(s, n, p), Places(n, p))
    BY HandleValues
  <1>3. DOMAIN Values(s, n, p) = {}
    BY <1>1 DEF Values
  <1>4. \A i \in Int : ~Stays(n, p, i) => R[i] = NIL
    BY <1>2, <1>3 DEF Handles
  <1>5. R = [i \in Int |-> R[i]]
    OBVIOUS
  <1> QED BY <1>4, <1>5 DEF Remain

\* An action that takes no pointer
LEMMA StandOwns ==
  ASSUME NEW H, NEW F, NEW s, NEW v0, NEW v1, NEW v2, NEW v3, Owns(H, F, s, v0, v1, v2, v3),
         NEW n, NEW p, OnTop(s, n, p), p.act.do \in {"null", "stand"}, NEW e, e.symbol = p.lhs,
         p.act.do = "null" => e.value = NIL, NEW t, PushedOn(s, n, e, t)
  PROVE  Owns(H, F, t, v0, v1, v2, v3)
  <1> DEFINE R == Pointed(s, v0, v1, v2, v3)
             Q == Remain(R, n, p)
             T == ListsOf(s)
             L == Blocks(H, F)
  <1>1. FreedOnce(H, F) /\ R \in [Int -> Nat] /\ IsSequence(s) /\ Trees(H, L, R, T)
    BY OwnsParts
  <1>2. n \in 0 .. Len(s)
    <2>1. n \in 1 .. Len(s)
      BY HandleLength
    <2> QED BY <2>1
  <1>3. Above(Q, R, n, -4) /\ Q[-4] = NIL
    BY RemainAbove
  <1>4. Destructed(e) = NIL
    <2>1. p.act.do = "stand" => p.lhs \notin Tables.pointer
      BY DEF OnTop, UsesEachOnce
    <2> QED BY <2>1 DEF Destructed
  <1>5. Q = R
    BY <1>1, NothingAbove
  <1>6. Trees(H, L, Q, T)
    BY <1>1, <1>5
  <1> HIDE DEF Q
  <1>7. PICK a \in Int : a = -4
    OBVIOUS
  <1>8. Above(Q, R, n, a) /\ Destructed(e) = Q[a] /\ Q[a] = NIL
    BY <1>3, <1>4, <1>7
  <1>9. Fits(s, n, e, t, R, Q, T, a)
    BY <1>1, <1>2, <1>8 DEF Fits
  <1> QED BY <1>1, <1>6, <1>9, PushOwns

LEMMA HandleBelow ==
  ASSUME NEW s, NEW n, NEW p, OnTop(s, n, p)
  PROVE  IsSequence(s) /\ n \in Nat /\ n \in 0 .. Len(s) /\ UsesEachOnce(p)
  <1>1. n \in 1 .. Len(s)
    BY HandleLength
  <1> QED BY <1>1, HandleLength DEF OnTop

\* A new node takes them, and is at z.
LEMMA MakeHandle ==
  ASSUME NEW H, NEW F, NEW s, NEW v0, NEW v1, NEW v2, NEW v3, Owns(H, F, s, v0, v1, v2, v3),
         NEW n, NEW p, OnTop(s, n, p), NEW R, R = Pointed(s, v0, v1, v2, v3),
         NEW kind, NEW tag, NEW G, G = New(H, kind, tag, Values(s, n, p)), NEW z \in Int, R[z] = NIL,
         NEW U, U \subseteq ListsOf(s) \cup {z}, z \in U => kind \in Listed
  PROVE  FreedOnce(G, F) /\ Trees(G, Blocks(G, F), Besides(Remain(R, n, p), z, Fresh(H)), U)
  <1> DEFINE list == Values(s, n, p)
             L == Blocks(H, F)
             T == ListsOf(s)
             Q == Besides(Remain(R, n, p), z, Fresh(H))
  <1>1. IsHeap(H) /\ FreedOnce(H, F) /\ R \in [Int -> Nat] /\ Trees(H, L, R, T)
    BY OwnsParts
  <1>2. list \in Seq(Nat) /\ Gives(R, Remain(R, n, p), list, Places(n, p))
    BY <1>1, HandleGives
  <1>3. Takes(R, Q, list, Places(n, p), z, Fresh(H))
    BY <1>2, GivesTakes
  <1>4. FreedOnce(G, F) /\ Blocks(G, F) = L \cup {Fresh(H)}
    BY <1>1, <1>2, MakeBlocks
  <1>5. Trees(G, L \cup {Fresh(H)}, Q, U)
    <2> HIDE DEF list, L, Q
    <2> QED BY <1>1, <1>2, <1>3, MakeTrees DEF list
  <1> QED BY <1>4, <1>5

LEMMA MakeOwns ==
  ASSUME NEW H, NEW F, NEW s, NEW v0, NEW v1, NEW v2, NEW v3, Owns(H, F, s, v0, v1, v2, v3),
         NEW n, NEW p, OnTop(s, n, p), p.act.do = "make",
         NEW tag, NEW G, G = New(H, p.act.kind, tag, Values(s, n, p)),
         NEW e, e.symbol = p.lhs, e.value = Fresh(H), NEW t, PushedOn(s, n, e, t)
  PROVE  Owns(G, F, t, v0, v1, v2, v3)
  <1> DEFINE R == Pointed(s, v0, v1, v2, v3)
             Q == Besides(Remain(R, n, p), -4, Fresh(H))
             U == IF p.act.kind \in Listed THEN ListsOf(s) \cup {-4} ELSE ListsOf(s)
  <1>1. R \in [Int -> Nat] /\ Nothing(R)
    BY OwnsParts
  <1>2. IsSequence(s) /\ n \in 0 .. Len(s) /\ UsesEachOnce(p)
    BY HandleBelow
  <1>3. Above(Q, R, n, -4) /\ Q[-4] = Fresh(H)
    BY RemainAbove
  <1>4. Destructed(e) = Fresh(H) /\ (e.symbol \in Tables.listed => p.act.kind \in Listed)
    BY <1>2 DEF UsesEachOnce, Destructed
  <1>5. PICK a \in Int : a = -4
    OBVIOUS
  <1>6. R[a] = NIL
    BY <1>1, <1>5 DEF Nothing
  <1>7. FreedOnce(G, F) /\ Trees(G, Blocks(G, F), Q, U)
    <2>1. U \subseteq ListsOf(s) \cup {a} /\ (a \in U => p.act.kind \in Listed)
      <3>1. -4 \notin ListsOf(s)
        <4>1. \A i \in ListsOf(s) : i >= 1
          BY DEF ListsOf
        <4> QED BY <4>1
      <3> QED BY <1>5, <3>1
    <2>2. Q = Besides(Remain(R, n, p), a, Fresh(H))
      BY <1>5
    <2> HIDE DEF U
    <2> QED BY <1>6, <2>1, <2>2, MakeHandle
  <1>8. Above(Q, R, n, a) /\ Destructed(e) = Q[a]
    BY <1>3, <1>4, <1>5
  <1>9. ListsOf(s) \subseteq U /\ (e.symbol \in Tables.listed => a \in U)
    BY <1>4, <1>5
  <1> HIDE DEF Q, U
  <1>10. Fits(s, n, e, t, R, Q, U, a)
    BY <1>2, <1>8, <1>9 DEF Fits
  <1> QED BY <1>7, <1>10, PushOwns

LEMMA ProgramOwns ==
  ASSUME NEW H, NEW F, NEW s, NEW v0, NEW v2, NEW v3, Owns(H, F, s, v0, NIL, v2, v3),
         NEW n, NEW p, OnTop(s, n, p), p.act.do = "program",
         NEW kind, NEW tag, NEW G, G = New(H, kind, tag, Values(s, n, p)),
         NEW e, e.symbol = p.lhs, NEW t, PushedOn(s, n, e, t)
  PROVE  Owns(G, F, t, v0, Fresh(H), v2, v3)
  <1> DEFINE R == Pointed(s, v0, NIL, v2, v3)
             Q == Besides(Remain(R, n, p), -1, Fresh(H))
             U == ListsOf(s)
  <1>1. R \in [Int -> Nat] /\ Nothing(R) /\ Len(s) \in Nat
    BY OwnsParts
  <1>2. IsSequence(s) /\ n \in 0 .. Len(s) /\ UsesEachOnce(p)
    BY HandleBelow
  <1>3. Above(Q, Pointed(s, v0, Fresh(H), v2, v3), n, -4) /\ Q[-4] = NIL
    BY RemainAbove
  <1>4. Destructed(e) = NIL
    BY <1>2 DEF UsesEachOnce, Destructed
  <1>5. PICK a \in Int : a = -4
    OBVIOUS
  <1>6. PICK z \in Int : z = -1
    OBVIOUS
  <1>7. R[z] = NIL
    BY <1>1, <1>6, PointedAt
  <1>8. FreedOnce(G, F) /\ Trees(G, Blocks(G, F), Q, U)
    <2>1. U \subseteq ListsOf(s) \cup {z} /\ z \notin U
      <3>1. \A i \in ListsOf(s) : i >= 1
        BY DEF ListsOf
      <3> QED BY <1>6, <3>1
    <2>2. Q = Besides(Remain(R, n, p), z, Fresh(H))
      BY <1>6
    <2> HIDE DEF U
    <2> QED BY <1>7, <2>1, <2>2, MakeHandle
  <1>9. Above(Q, Pointed(s, v0, Fresh(H), v2, v3), n, a) /\ Destructed(e) = Q[a] /\ Q[a] = NIL
    BY <1>3, <1>4, <1>5
  <1> HIDE DEF Q
  <1>10. Fits(s, n, e, t, Pointed(s, v0, Fresh(H), v2, v3), Q, U, a)
    BY <1>2, <1>9 DEF Fits
  <1> QED BY <1>8, <1>10, PushOwns

\* The list of one pointer to nothing
NilKid(kids) == kids \in Seq(Nat) /\ DOMAIN kids = {1} /\ kids[1] = NIL

LEMMA RecoverBlockOwns ==
  ASSUME NEW H, NEW F, NEW s, NEW v0, NEW v1, NEW v2, NEW v3, Owns(H, F, s, v0, v1, v2, v3),
         NEW n, NEW p, OnTop(s, n, p), p.act.do = "recover_block",
         NEW kids, NilKid(kids), NEW tag, NEW G, G = New(H, p.act.kind, tag, kids),
         NEW e, e.symbol = p.lhs, e.value = Fresh(H), NEW t, PushedOn(s, n, e, t)
  PROVE  Owns(G, F, t, v0, v1, v2, v3)
  <1> DEFINE R == Pointed(s, v0, v1, v2, v3)
             Q == Besides(R, -4, Fresh(H))
             T == ListsOf(s)
             L == Blocks(H, F)
             U == IF p.act.kind \in Listed THEN T \cup {-4} ELSE T
             place == [k \in {1} |-> -5]
  <1>1. IsHeap(H) /\ FreedOnce(H, F) /\ R \in [Int -> Nat] /\ Nothing(R) /\ Trees(H, L, R, T)
    BY OwnsParts
  <1>2. IsSequence(s) /\ n \in 0 .. Len(s) /\ UsesEachOnce(p)
    BY HandleBelow
  <1>3. Remain(R, n, p) = R
    BY <1>1, NothingAbove
  <1>4. Above(Q, R, n, -4) /\ Q[-4] = Fresh(H)
    <2>1. Above(Besides(Remain(R, n, p), -4, Fresh(H)), R, n, -4) /\ Besides(Remain(R, n, p), -4, Fresh(H))[-4] = Fresh(H)
      BY RemainAbove
    <2> QED BY <1>3, <2>1
  <1>5. Destructed(e) = Fresh(H) /\ (e.symbol \in Tables.listed => p.act.kind \in Listed)
    BY <1>2 DEF UsesEachOnce, Destructed
  <1>6. PICK a \in Int : a = -4
    OBVIOUS
  <1>7. R[a] = NIL /\ R[-5] = NIL
    <2> HIDE DEF R
    <2> QED BY <1>1, <1>6 DEF Nothing
  <1>8. kids \in Seq(Nat) /\ DOMAIN kids = {1} /\ kids[1] = NIL
    BY DEF NilKid
  <1>9. Takes(R, Q, kids, place, a, Fresh(H))
    <2>1. place \in [DOMAIN kids -> Int] /\ \A k, l \in DOMAIN kids : place[k] = place[l] => k = l
      BY <1>8
    <2>2. \A k \in DOMAIN kids : kids[k] = R[place[k]]
      BY <1>7, <1>8
    <2>3. \A i \in Int : R[i] = IF \E k \in DOMAIN kids : place[k] = i THEN NIL ELSE R[i]
      BY <1>7, <1>8
    <2> HIDE DEF R, place
    <2>4. Q = [i \in Int |-> IF i = a THEN Fresh(H) ELSE IF \E k \in DOMAIN kids : place[k] = i THEN NIL ELSE R[i]]
      BY <1>6, <2>3 DEF Besides
    <2> QED BY <2>1, <2>2, <2>4 DEF Takes
  <1>10. /\ U \subseteq T \cup {a} /\ (a \in U => p.act.kind \in Listed) /\ T \subseteq U
         /\ e.symbol \in Tables.listed => a \in U
    <2>1. a \notin T
      <3>1. \A i \in T : i >= 1
        BY DEF ListsOf
      <3> QED BY <1>6, <3>1
    <2> QED BY <1>5, <1>6, <2>1
  <1>11. FreedOnce(G, F) /\ Blocks(G, F) = L \cup {Fresh(H)}
    BY <1>1, <1>8, MakeBlocks
  <1>12. Trees(G, L \cup {Fresh(H)}, Q, U)
    <2> HIDE DEF L, Q, R, T, U, place
    <2> QED BY <1>1, <1>7, <1>8, <1>9, <1>10, MakeTrees
  <1>13. Above(Q, R, n, a) /\ Destructed(e) = Q[a]
    BY <1>4, <1>5, <1>6
  <1>14. Trees(G, Blocks(G, F), Q, U)
    BY <1>11, <1>12
  <1> HIDE DEF Q, U, L
  <1>15. Fits(s, n, e, t, R, Q, U, a)
    BY <1>2, <1>10, <1>13 DEF Fits
  <1> QED BY <1>11, <1>14, <1>15, PushOwns

\* The lower part of the stack, and one pointer above it
LEMMA AboveRest ==
  ASSUME NEW s, NEW n \in Nat, NEW v0, NEW v1, NEW v2, NEW v3, NEW R, R = Pointed(s, v0, v1, v2, v3),
         NEW Q, NEW a \in Int, a > n, Nothing(R),
         \A i \in Int : (i <= n => Q[i] = R[i]) /\ (i > n /\ i # a => Q[i] = NIL)
  PROVE  Above(Q, R, n, a)
  <1>1. a \notin -3 .. n
    OBVIOUS
  <1>2. ASSUME NEW i \in Int, i # a PROVE Q[i] = IF i \in -3 .. n THEN R[i] ELSE NIL
    <2>1. CASE i \in -3 .. n
      BY <2>1
    <2>2. CASE i < -3
      <3>1. R[i] = NIL
        BY <2>2 DEF Nothing
      <3>2. i <= n /\ i \notin -3 .. n
        BY <2>2
      <3> QED BY <3>1, <3>2
    <2>3. CASE i > n
      BY <1>2, <2>3
    <2> QED BY <2>1, <2>2, <2>3
  <1> QED BY <1>1, <1>2 DEF Above

\* The places that an action is about: those above the lower part that are not NIL
OnlyThese(R, s, n, p) ==
  /\ \A k \in DOMAIN p.act.kids : R[n + p.act.kids[k]] = s[n + p.act.kids[k]].value
  /\ \A i \in Int : i > n /\ R[i] # NIL => \E k \in DOMAIN p.act.kids : i = n + p.act.kids[k]

LEMMA RestIsNil ==
  ASSUME NEW s, NEW n, NEW p, OnTop(s, n, p), p.act.do # "grow", NEW v0, NEW v1, NEW v2, NEW v3,
         NEW R, R = Pointed(s, v0, v1, v2, v3), R \in [Int -> Nat]
  PROVE  OnlyThese(R, s, n, p)
  <1> DEFINE list == Values(s, n, p)
             place == Places(n, p)
             D == DOMAIN p.act.kids
  <1>1. Handles(R, n, p, list, place)
    BY HandleValues
  <1>2. \A k \in D : list[k] = s[n + p.act.kids[k]].value /\ place[k] = n + p.act.kids[k]
    BY DEF Values, Places
  <1> HIDE DEF list, place
  <1>3. /\ DOMAIN list = D /\ \A k \in D : list[k] = R[place[k]]
        /\ \A i \in Int : ~Stays(n, p, i) /\ R[i] # NIL => \E k \in D : place[k] = i
    BY <1>1 DEF Handles
  <1>4. n \in Nat
    BY HandleBelow
  <1>5. \A i \in Int : i > n => ~Stays(n, p, i)
    BY <1>4 DEF Stays
  <1> QED BY <1>2, <1>3, <1>5 DEF OnlyThese

LEMMA PassOwns ==
  ASSUME NEW H, NEW F, NEW s, NEW v0, NEW v1, NEW v2, NEW v3, Owns(H, F, s, v0, v1, v2, v3),
         NEW n, NEW p, OnTop(s, n, p), p.act.do = "pass",
         NEW e, e.symbol = p.lhs, e.value = s[n + p.act.kids[1]].value, NEW t, PushedOn(s, n, e, t)
  PROVE  Owns(H, F, t, v0, v1, v2, v3)
  <1> DEFINE R == Pointed(s, v0, v1, v2, v3)
             T == ListsOf(s)
  <1>1. FreedOnce(H, F) /\ R \in [Int -> Nat] /\ Nothing(R) /\ Trees(H, Blocks(H, F), R, T)
    BY OwnsParts
  <1>2. IsSequence(s) /\ n \in 0 .. Len(s) /\ n \in Nat /\ UsesEachOnce(p)
    BY HandleBelow
  <1>3. PICK k \in 1 .. Len(p.rhs) : k = p.act.kids[1]
    <2>1. p.act.kids \in Seq(DOMAIN p.rhs) /\ Len(p.act.kids) = 1
      BY <1>2 DEF UsesEachOnce
    <2>2. p.act.kids[1] \in DOMAIN p.rhs
      BY <2>1, ElementOfSeq
    <2> QED BY <2>2, HandleLength
  <1>4. DOMAIN p.act.kids = {1} /\ Range(p.act.kids) = {k}
    <2>1. p.act.kids \in Seq(DOMAIN p.rhs) /\ Len(p.act.kids) = 1
      BY <1>2 DEF UsesEachOnce
    <2>2. DOMAIN p.act.kids = {1}
      BY <2>1
    <2> QED BY <1>3, <2>2 DEF Range
  <1>5. PICK a \in Int : a = n + k /\ a > n
    BY <1>2
  <1>6. /\ R[a] = s[a].value
        /\ \A i \in Int : i > n /\ R[i] # NIL => i = a
    <2>1. OnlyThese(R, s, n, p)
      BY <1>1, RestIsNil
    <2>2. /\ \A j \in DOMAIN p.act.kids : R[n + p.act.kids[j]] = s[n + p.act.kids[j]].value
          /\ \A i \in Int : i > n /\ R[i] # NIL => \E j \in DOMAIN p.act.kids : i = n + p.act.kids[j]
      BY <2>1 DEF OnlyThese
    <2> HIDE DEF R
    <2> QED BY <1>3, <1>4, <1>5, <2>2
  <1>7. Above(R, R, n, a)
    <2>1. \A i \in Int : (i <= n => R[i] = R[i]) /\ (i > n /\ i # a => R[i] = NIL)
      BY <1>6
    <2> QED BY <1>1, <1>2, <1>5, <2>1, AboveRest
  <1>8. Destructed(e) = R[a]
    BY <1>2, <1>3, <1>5, <1>6 DEF UsesEachOnce, Destructed
  <1>9. e.symbol \in Tables.listed => a \in T
    <2> SUFFICES ASSUME p.lhs \in Tables.listed PROVE a \in T
      OBVIOUS
    <2>1. p.rhs[k] \in Tables.listed
      BY <1>2, <1>4 DEF UsesEachOnce
    <2>2. a \in 1 .. Len(s) /\ s[a].symbol = p.rhs[k]
      <3>1. IsElement(R, s, p, k, n + k)
        BY <1>5, HandleElements DEF R
      <3> QED BY <1>5, <3>1 DEF IsElement
    <2> QED BY <2>1, <2>2 DEF ListsOf
  <1>10. Fits(s, n, e, t, R, R, T, a)
    BY <1>1, <1>2, <1>7, <1>8, <1>9 DEF Fits
  <1> QED BY <1>1, <1>10, PushOwns

LEMMA AppendBlocks ==
  ASSUME NEW H, IsHeap(H), NEW F, FreedOnce(H, F), NEW h, NEW m, NEW G, G = Appended(H, h, m), IsHeap(G)
  PROVE  FreedOnce(G, F) /\ Blocks(G, F) = Blocks(H, F)
  <1>1. DOMAIN G = DOMAIN H
    BY DEF Appended
  <1>2. Len(G) = Len(H)
    <2>1. Len(G) \in Nat /\ DOMAIN G = 1 .. Len(G) /\ Len(H) \in Nat /\ DOMAIN H = 1 .. Len(H)
      BY HeapLength
    <2>2. PICK k \in Nat, l \in Nat : k = Len(G) /\ l = Len(H)
      BY <2>1
    <2>3. 1 .. k = 1 .. l
      BY <1>1, <2>1, <2>2
    <2>4. k = l
      BY <2>3
    <2> QED BY <2>2, <2>4
  <1> QED BY <1>2 DEF FreedOnce, Blocks

LEMMA AppendOwns ==
  ASSUME NEW H, NEW F, NEW s, NEW v0, NEW v1, NEW v2, NEW v3, Owns(H, F, s, v0, v1, v2, v3),
         NEW n, NEW p, OnTop(s, n, p), p.act.do = "append",
         NEW h, h = s[n + 1].value, NEW m, m = s[n + 2].value, NEW G, G = Appended(H, h, m),
         NEW e, e.symbol = p.lhs, e.value = AppendedList(h, m), NEW t, PushedOn(s, n, e, t)
  PROVE  Owns(G, F, t, v0, v1, v2, v3)
  <1> DEFINE R == Pointed(s, v0, v1, v2, v3)
             T == ListsOf(s)
             L == Blocks(H, F)
  <1>1. IsHeap(H) /\ FreedOnce(H, F) /\ R \in [Int -> Nat] /\ Nothing(R) /\ Trees(H, L, R, T)
    BY OwnsParts
  <1>2. IsSequence(s) /\ n \in 0 .. Len(s) /\ n \in Nat /\ UsesEachOnce(p)
    BY HandleBelow
  <1>3. p.act.kids = <<1, 2>> /\ p.lhs \in Tables.listed /\ p.lhs \in Tables.pointer
    BY <1>2 DEF UsesEachOnce
  <1>4. PICK a \in Int, b \in Int : a = n + 1 /\ b = n + 2 /\ a > n /\ b > n /\ a # b
    BY <1>2
  <1>5. /\ R[a] = h /\ R[b] = m
        /\ \A i \in Int : i > n /\ R[i] # NIL => i \in {a, b}
    <2>1. OnlyThese(R, s, n, p)
      BY <1>1, RestIsNil
    <2>2. /\ \A j \in DOMAIN p.act.kids : R[n + p.act.kids[j]] = s[n + p.act.kids[j]].value
          /\ \A i \in Int : i > n /\ R[i] # NIL => \E j \in DOMAIN p.act.kids : i = n + p.act.kids[j]
      BY <2>1 DEF OnlyThese
    <2>3. DOMAIN p.act.kids = {1, 2} /\ p.act.kids[1] = 1 /\ p.act.kids[2] = 2
      BY <1>3
    <2> HIDE DEF R
    <2> QED BY <1>4, <2>2, <2>3
  <1>6. a \in T /\ b \in T
    <2>1. DOMAIN p.act.kids = {1, 2} /\ p.act.kids[1] = 1 /\ p.act.kids[2] = 2
      BY <1>3
    <2>2. Range(p.act.kids) = {1, 2}
      BY <2>1 DEF Range
    <2>3. p.rhs[1] \in Tables.listed /\ p.rhs[2] \in Tables.listed
      BY <1>2, <1>3, <2>2 DEF UsesEachOnce
    <2>4. 1 \in 1 .. Len(p.rhs) /\ 2 \in 1 .. Len(p.rhs)
      <3>1. Range(p.act.kids) = {k \in DOMAIN p.rhs : p.rhs[k] \in Tables.pointer}
        BY <1>2 DEF UsesEachOnce
      <3> QED BY <2>2, <3>1, HandleLength
    <2>5. IsElement(R, s, p, 1, n + 1) /\ IsElement(R, s, p, 2, n + 2)
      <3> HIDE DEF R
      <3>1. R = Pointed(s, v0, v1, v2, v3)
        BY DEF R
      <3> QED BY <2>4, <3>1, HandleElements
    <2>6. a \in 1 .. Len(s) /\ s[a].symbol = p.rhs[1] /\ b \in 1 .. Len(s) /\ s[b].symbol = p.rhs[2]
      BY <1>4, <2>5 DEF IsElement
    <2> QED BY <2>3, <2>6 DEF ListsOf
  <1>7. ListsOf(s) \subseteq T /\ R = Pointed(s, v0, v1, v2, v3)
    OBVIOUS
  <1>8. Destructed(e) = AppendedList(h, m)
    BY <1>3 DEF Destructed
  <1> HIDE DEF T, L, R
  <1>9. CASE h = NIL \/ m = NIL
    <2>1. PICK c \in {a, b} : Destructed(e) = R[c] /\ \A i \in Int : i > n /\ i # c => R[i] = NIL
      <3>1. CASE h = NIL
        BY <1>5, <1>8, <3>1 DEF AppendedList
      <3>2. CASE h # NIL
        BY <1>5, <1>8, <1>9, <3>2 DEF AppendedList
      <3> QED BY <3>1, <3>2
    <2>2. c \in Int /\ c > n /\ c \in T
      BY <1>4, <1>6
    <2>3. Above(R, R, n, c)
      <3>1. \A i \in Int : (i <= n => R[i] = R[i]) /\ (i > n /\ i # c => R[i] = NIL)
        BY <2>1
      <3> QED BY <1>1, <1>2, <1>7, <2>2, <3>1, AboveRest
    <2>4. G = H
      BY <1>9 DEF Appended
    <2>5. Fits(s, n, e, t, R, R, T, c)
      BY <1>2, <1>7, <2>1, <2>2, <2>3 DEF Fits
    <2>6. Owns(H, F, t, v0, v1, v2, v3)
      BY <1>1, <1>7, <2>5, PushOwns DEF L
    <2> QED BY <2>4, <2>6
  <1>10. CASE h # NIL /\ m # NIL
    <2> DEFINE S == [R EXCEPT ![b] = NIL]
    <2>1. Trees(G, L, S, T)
      <3>1. Trees(Appended(H, R[a], R[b]), L, S, T)
        BY <1>1, <1>4, <1>5, <1>6, <1>10, AppendTrees
      <3> QED BY <1>5, <3>1
    <2>2. \A i \in Int : S[i] = IF i = b THEN NIL ELSE R[i]
      BY <1>1
    <2> HIDE DEF S
    <2>3. Above(S, R, n, a)
      <3>1. \A i \in Int : (i <= n => S[i] = R[i]) /\ (i > n /\ i # a => S[i] = NIL)
        BY <1>2, <1>4, <1>5, <2>2
      <3> QED BY <1>1, <1>2, <1>4, <1>7, <3>1, AboveRest
    <2>4. Destructed(e) = S[a]
      BY <1>4, <1>5, <1>8, <1>10, <2>2 DEF AppendedList
    <2>5. IsHeap(G)
      BY <2>1 DEF Trees, Typed
    <2>6. FreedOnce(G, F) /\ Blocks(G, F) = L
      BY <1>1, <2>5, AppendBlocks DEF L
    <2>7. Trees(G, Blocks(G, F), S, T)
      BY <2>1, <2>6
    <2>8. Fits(s, n, e, t, R, S, T, a)
      BY <1>2, <1>4, <1>6, <1>7, <2>3, <2>4 DEF Fits
    <2> QED BY <1>7, <2>6, <2>7, <2>8, PushOwns
  <1> QED BY <1>9, <1>10

\* The new node goes behind the list $1, or is the list when there is none.
LEMMA GrowOwns ==
  ASSUME NEW H, NEW F, NEW s, NEW v0, NEW v1, NEW v2, NEW v3, Owns(H, F, s, v0, v1, v2, v3),
         NEW n, NEW p, OnTop(s, n, p), p.act.do = "grow",
         NEW tag, NEW M, M = New(H, p.act.kind, tag, Values(s, n, p)),
         NEW h, h = s[n + 1].value, NEW G, G = Appended(M, h, Fresh(H)),
         NEW e, e.symbol = p.lhs, e.value = AppendedList(h, Fresh(H)), NEW t, PushedOn(s, n, e, t)
  PROVE  Owns(G, F, t, v0, v1, v2, v3)
  <1> DEFINE R == Pointed(s, v0, v1, v2, v3)
             f == Fresh(H)
             Q == Besides(Remain(R, n, p), -4, f)
             U == ListsOf(s) \cup {-4}
  <1>1. IsHeap(H) /\ FreedOnce(H, F) /\ R \in [Int -> Nat] /\ Nothing(R)
    BY OwnsParts
  <1>2. IsSequence(s) /\ n \in 0 .. Len(s) /\ n \in Nat /\ UsesEachOnce(p)
    BY HandleBelow
  <1>3. /\ 1 \in DOMAIN p.rhs /\ p.rhs[1] \in Tables.pointer /\ p.rhs[1] \in Tables.listed
        /\ p.act.kind \in Listed /\ p.lhs \in Tables.listed /\ p.lhs \in Tables.pointer
    BY <1>2 DEF UsesEachOnce
  <1>4. PICK a \in Int, b \in Int : a = n + 1 /\ a > n /\ b = -4 /\ a # b /\ b < n
    BY <1>2
  <1>5. R[a] = h /\ a \in ListsOf(s)
    <2>1. 1 \in 1 .. Len(p.rhs)
      BY <1>3, HandleLength
    <2>2. a \in 1 .. Len(s) /\ s[a].symbol = p.rhs[1]
      BY <1>4, <2>1, HandleElements DEF IsElement
    <2>3. R[a] = s[a].value
      BY <1>3, <1>4, <2>1, HandleElements DEF IsElement
    <2> QED BY <1>3, <1>4, <2>2, <2>3 DEF ListsOf
  <1>6. R[b] = NIL
    <2> HIDE DEF R
    <2> QED BY <1>1, <1>4 DEF Nothing
  <1>7. \A i \in Int : Q[i] = IF i = b THEN f ELSE IF i <= n \/ i = a THEN R[i] ELSE NIL
    BY <1>4 DEF Besides, Remain, Stays
  <1>8. FreedOnce(M, F) /\ Trees(M, Blocks(M, F), Q, U)
    <2>1. U \subseteq ListsOf(s) \cup {b} /\ (b \in U => p.act.kind \in Listed)
      BY <1>3, <1>4
    <2>2. Q = Besides(Remain(R, n, p), b, Fresh(H))
      BY <1>4
    <2> HIDE DEF U
    <2> QED BY <1>6, <2>1, <2>2, MakeHandle
  <1>9. IsHeap(M) /\ Q \in [Int -> Nat]
    BY <1>8 DEF Trees, Typed
  <1>10. ListsOf(s) \subseteq U /\ a \in U /\ b \in U
    BY <1>4, <1>5
  <1>11. Destructed(e) = AppendedList(h, f)
    BY <1>3 DEF Destructed
  <1>12. f \in Nat /\ f # NIL
    <2>1. Len(H) \in Nat
      BY <1>1, HeapLength
    <2> QED BY <2>1 DEF Fresh, NIL
  <1>13. R = Pointed(s, v0, v1, v2, v3) /\ G = Appended(M, h, f)
    OBVIOUS
  <1> HIDE DEF Q, U, R, f
  <1>14. CASE h = NIL
    <2>1. Above(Q, R, n, b)
      <3>1. b \notin -3 .. n
        BY <1>4
      <3>2. ASSUME NEW i \in Int, i # b PROVE Q[i] = IF i \in -3 .. n THEN R[i] ELSE NIL
        <4>1. CASE i \in -3 .. n
          <5>1. i <= n
            BY <4>1
          <5> QED BY <1>7, <3>2, <4>1, <5>1
        <4>2. CASE i < -3
          <5>1. R[i] = NIL /\ i \notin -3 .. n
            BY <1>1, <4>2 DEF Nothing
          <5> QED BY <1>7, <3>2, <5>1
        <4>3. CASE i > n
          <5>1. ~(i <= n) /\ i \notin -3 .. n
            BY <1>2, <4>3
          <5> QED BY <1>5, <1>7, <1>14, <3>2, <5>1
        <4> QED BY <1>2, <4>1, <4>2, <4>3
      <3> QED BY <3>1, <3>2 DEF Above
    <2>2. G = M /\ AppendedList(h, f) = f
      BY <1>13, <1>14 DEF Appended, AppendedList
    <2>3. Destructed(e) = Q[b]
      BY <1>7, <1>11, <2>2
    <2>4. Fits(s, n, e, t, R, Q, U, b)
      BY <1>2, <1>10, <2>1, <2>3 DEF Fits
    <2> QED BY <1>8, <1>13, <2>2, <2>4, PushOwns
  <1>15. CASE h # NIL
    <2> DEFINE S == [Q EXCEPT ![b] = NIL]
    <2>1. Q[a] = h /\ Q[b] = f
      BY <1>4, <1>5, <1>7
    <2>2. Trees(G, Blocks(M, F), S, U)
      <3>1. Trees(Appended(M, Q[a], Q[b]), Blocks(M, F), S, U)
        BY <1>4, <1>8, <1>10, <1>12, <1>15, <2>1, AppendTrees
      <3> QED BY <1>13, <2>1, <3>1
    <2>3. \A i \in Int : S[i] = IF i = b THEN NIL ELSE IF i <= n \/ i = a THEN R[i] ELSE NIL
      BY <1>7, <1>9
    <2> HIDE DEF S
    <2>4. Above(S, R, n, a)
      <3>1. \A i \in Int : (i <= n => S[i] = R[i]) /\ (i > n /\ i # a => S[i] = NIL)
        BY <1>2, <1>4, <1>6, <2>3
      <3> QED BY <1>1, <1>2, <1>4, <1>13, <3>1, AboveRest
    <2>5. Destructed(e) = S[a]
      BY <1>4, <1>5, <1>11, <1>15, <2>3 DEF AppendedList
    <2>6. IsHeap(G)
      BY <2>2 DEF Trees, Typed
    <2>7. FreedOnce(G, F) /\ Blocks(G, F) = Blocks(M, F)
      BY <1>8, <1>9, <1>13, <2>6, AppendBlocks
    <2>8. Trees(G, Blocks(G, F), S, U)
      BY <2>2, <2>7
    <2>9. Fits(s, n, e, t, R, S, U, a)
      BY <1>2, <1>4, <1>10, <2>4, <2>5 DEF Fits
    <2> QED BY <1>13, <2>7, <2>8, <2>9, PushOwns
  <1> QED BY <1>14, <1>15

LEMMA FreeHandle ==
  ASSUME NEW H, NEW F, NEW s, NEW v0, NEW v1, NEW v2, NEW v3, Owns(H, F, s, v0, v1, v2, v3),
         NEW n, NEW p, OnTop(s, n, p), NEW R, R = Pointed(s, v0, v1, v2, v3), NEW G, G = F \o Owned(H, Values(s, n, p))
  PROVE  FreedOnce(H, G) /\ Trees(H, Blocks(H, G), Remain(R, n, p), ListsOf(s))
  <1> DEFINE list == Values(s, n, p)
             T == ListsOf(s)
  <1>1. FreedOnce(H, F) /\ R \in [Int -> Nat] /\ Nothing(R) /\ Trees(H, Blocks(H, F), R, T)
    BY OwnsParts
  <1>2. list \in Seq(Nat) /\ Gives(R, Remain(R, n, p), list, Places(n, p))
    BY <1>1, HandleGives
  <1> HIDE DEF list, T
  <1>3. FreedOnce(H, G) /\ Trees(H, Blocks(H, G), Remain(R, n, p), T)
    BY <1>1, <1>2, FreeBlocks DEF list
  <1> QED BY <1>3 DEF T

LEMMA RecoverOwns ==
  ASSUME NEW H, NEW F, NEW s, NEW v0, NEW v1, NEW v2, NEW v3, Owns(H, F, s, v0, v1, v2, v3),
         NEW n, NEW p, OnTop(s, n, p), p.act.do = "recover", NEW G, G = F \o Owned(H, Values(s, n, p)),
         NEW e, e.value = NIL, NEW t, PushedOn(s, n, e, t)
  PROVE  Owns(H, G, t, v0, v1, v2, v3)
  <1> DEFINE R == Pointed(s, v0, v1, v2, v3)
             Q == Remain(R, n, p)
             T == ListsOf(s)
  <1>1. FreedOnce(H, G) /\ Trees(H, Blocks(H, G), Q, T)
    BY FreeHandle
  <1>2. IsSequence(s) /\ n \in 0 .. Len(s)
    BY HandleBelow
  <1>3. Above(Q, R, n, -4) /\ Q[-4] = NIL
    BY RemainAbove, SMTT(30)
  <1>4. Destructed(e) = NIL
    BY DEF Destructed
  <1> HIDE DEF Q
  <1>5. PICK a \in Int : a = -4
    OBVIOUS
  <1>6. Fits(s, n, e, t, R, Q, T, a)
    BY <1>2, <1>3, <1>4, <1>5 DEF Fits
  <1> QED BY <1>1, <1>6, PushOwns

(***************************************************************************)
(* The stack gets shorter, or the pointers besides it change.              *)
(***************************************************************************)

Cut(s, n, t) == IsSequence(t) /\ Len(t) = n /\ \A i \in 1 .. n : t[i] = s[i]

LEMMA FewerLists ==
  ASSUME NEW H, NEW L, NEW R, NEW T, Trees(H, L, R, T), NEW U, U \subseteq T
  PROVE  Trees(H, L, R, U)
  <1>1. PICK block, slot, tree, rank : TreesBy(H, L, R, T, block, slot, tree, rank)
    BY DEF Trees
  <1>2. AreLists(H, L, R, tree, U)
    BY <1>1 DEF TreesBy, AreLists
  <1>3. TreesBy(H, L, R, U, block, slot, tree, rank)
    BY <1>1, <1>2 DEF TreesBy
  <1> QED BY <1>3 DEF Trees

LowerPart(R, S, n, w3) ==
  /\ S = [i \in Int |-> S[i]] /\ S[-3] = w3
  /\ \A i \in Int : i # -3 => S[i] = IF i <= n THEN R[i] ELSE NIL

LEMMA CutPointed ==
  ASSUME NEW s, IsSequence(s), NEW n \in 0 .. Len(s), NEW t, Cut(s, n, t),
         NEW v0, NEW v1, NEW v2, NEW v3, NEW w3,
         NEW R, R = Pointed(s, v0, v1, v2, v3), NEW S, S = Pointed(t, v0, v1, v2, w3)
  PROVE  LowerPart(R, S, n, w3) /\ ListsOf(t) \subseteq ListsOf(s)
  <1>1. PICK m \in Nat : Len(s) = m
    <2>1. Len(s) \in Nat
      BY AppendSequence
    <2> QED BY <2>1
  <1>2. n \in Nat /\ n <= m /\ Len(t) = n /\ \A i \in 1 .. n : t[i] = s[i]
    BY <1>1 DEF Cut
  <1>3. /\ R[0] = v0 /\ R[-1] = v1 /\ R[-2] = v2 /\ R[-3] = v3
        /\ \A i \in 1 .. m : R[i] = Destructed(s[i])
        /\ \A i \in Int : i < -3 \/ i > m => R[i] = NIL
    BY <1>1, PointedAtLength
  <1>4. /\ S = [i \in Int |-> S[i]] /\ S[0] = v0 /\ S[-1] = v1 /\ S[-2] = v2 /\ S[-3] = w3
        /\ \A i \in 1 .. n : S[i] = Destructed(t[i])
        /\ \A i \in Int : i < -3 \/ i > n => S[i] = NIL
    BY <1>2, PointedAtLength
  <1>5. ASSUME NEW i \in Int, i # -3 PROVE S[i] = IF i <= n THEN R[i] ELSE NIL
    <2>1. CASE i \in 1 .. n
      <3>1. i <= n /\ i \in 1 .. m
        BY <1>1, <1>2, <2>1
      <3>2. R[i] = Destructed(s[i]) /\ S[i] = Destructed(t[i]) /\ t[i] = s[i]
        BY <1>2, <1>3, <1>4, <2>1, <3>1
      <3> QED BY <3>1, <3>2
    <2>2. CASE i \in {0, -1, -2}
      <3>1. i <= n
        BY <1>2, <2>2
      <3> QED BY <1>3, <1>4, <2>2, <3>1
    <2>3. CASE i < -3
      <3>1. i <= n
        BY <1>2, <2>3
      <3> QED BY <1>3, <1>4, <2>3, <3>1
    <2>4. CASE i > n
      <3>1. ~(i <= n)
        BY <1>2, <2>4
      <3> QED BY <1>4, <2>4, <3>1
    <2>5. i \in 1 .. n \/ i \in {0, -1, -2} \/ i < -3 \/ i > n
      BY <1>2, <1>5
    <2> QED BY <2>1, <2>2, <2>3, <2>4, <2>5
  <1>6. ListsOf(t) \subseteq ListsOf(s)
    <2>1. \A i \in 1 .. n : i \in 1 .. m
      BY <1>1, <1>2
    <2>2. /\ ListsOf(t) = {i \in 1 .. n : t[i].symbol \in Tables.listed}
          /\ ListsOf(s) = {i \in 1 .. m : s[i].symbol \in Tables.listed}
      BY <1>1, <1>2 DEF ListsOf
    <2> QED BY <1>2, <2>1, <2>2
  <1> QED BY <1>4, <1>5, <1>6 DEF LowerPart

\* What an action that fails frees and pops
LEMMA FailsOwns ==
  ASSUME NEW H, NEW F, NEW s, NEW v0, NEW v1, NEW v2, Owns(H, F, s, v0, v1, v2, NIL),
         NEW n, NEW p, OnTop(s, n, p), NEW G, G = F \o Owned(H, Values(s, n, p)), NEW t, Cut(s, n, t),
         NEW w3, w3 = IF p.act.do = "grow" THEN s[n + 1].value ELSE NIL
  PROVE  Owns(H, G, t, v0, v1, v2, w3)
  <1> DEFINE R == Pointed(s, v0, v1, v2, NIL)
             S == Pointed(t, v0, v1, v2, w3)
             Q == Remain(R, n, p)
             T == ListsOf(s)
             U == ListsOf(t)
  <1>1. FreedOnce(H, G) /\ Trees(H, Blocks(H, G), Q, T)
    BY FreeHandle
  <1>2. IsSequence(s) /\ n \in 0 .. Len(s) /\ n \in Nat /\ UsesEachOnce(p) /\ n >= 1
    BY HandleBelow, HandleLength
  <1>3. LowerPart(R, S, n, w3) /\ U \subseteq T
    BY <1>2, CutPointed
  <1>4. IsSequence(t) /\ R[-3] = NIL
    <2>1. Len(s) \in Nat
      BY HandleLength
    <2> QED BY <2>1, PointedAt DEF Cut
  <1>5. \A i \in U : i >= 1 /\ i <= n /\ i \in Int
    <2>1. \A i \in 1 .. n : i >= 1 /\ i <= n /\ i \in Int
      BY <1>2
    <2>2. U \subseteq 1 .. n
      BY DEF ListsOf, Cut
    <2> QED BY <2>1, <2>2
  <1>6. CASE p.act.do # "grow"
    <2>1. \A i \in Int : Q[i] = IF i <= n THEN R[i] ELSE NIL
      BY <1>6 DEF Remain, Stays
    <2>2. Q = [i \in Int |-> Q[i]]
      BY DEF Remain
    <2> HIDE DEF Q, S
    <2>3. \A i \in Int : S[i] = Q[i]
      <3>1. S[-3] = Q[-3]
        BY <1>2, <1>3, <1>4, <1>6, <2>1 DEF LowerPart
      <3> QED BY <1>3, <2>1, <3>1 DEF LowerPart
    <2>4. S = [i \in Int |-> S[i]]
      BY <1>3 DEF LowerPart
    <2>5. S = Q
      BY <2>2, <2>3, <2>4
    <2>6. Trees(H, Blocks(H, G), S, U)
      BY <1>1, <1>3, <2>5, FewerLists
    <2> QED BY <1>1, <1>4, <2>6 DEF Owns, S
  <1>7. CASE p.act.do = "grow"
    <2>1. PICK a \in Int, b \in Int : a = n + 1 /\ b = -3 /\ a # b /\ a > n
      BY <1>2
    <2>2. R[a] = w3
      <3>1. 1 \in DOMAIN p.rhs /\ p.rhs[1] \in Tables.pointer
        BY <1>2, <1>7 DEF UsesEachOnce
      <3>2. 1 \in 1 .. Len(p.rhs)
        BY <3>1, HandleLength
      <3>3. R[a] = s[a].value
        BY <2>1, <3>1, <3>2, HandleElements DEF IsElement
      <3> QED BY <1>7, <2>1, <3>3
    <2>3. \A i \in Int : Q[i] = IF i <= n \/ i = a THEN R[i] ELSE NIL
      BY <1>7, <2>1 DEF Remain, Stays
    <2> HIDE DEF Q, S, R
    <2>4. \A i \in Int : i # b => S[i] = IF i <= n THEN R[i] ELSE NIL
      BY <1>3, <2>1 DEF LowerPart
    <2>5. Shifted(Q, S, a, b)
      <3>1. S = [i \in Int |-> S[i]] /\ S[b] = w3
        BY <1>3, <2>1 DEF LowerPart
      <3>2. S[b] = Q[a] /\ Q[b] = NIL /\ S[a] = NIL
        <4>1. Q[a] = w3
          BY <2>2, <2>3
        <4>2. b <= n /\ ~(a <= n)
          BY <1>2, <2>1
        <4>3. Q[b] = NIL
          BY <1>4, <2>1, <2>3, <4>2
        <4>4. S[a] = NIL
          BY <2>1, <2>4, <4>2
        <4> QED BY <3>1, <4>1, <4>3, <4>4
      <3>3. \A i \in Int : i \notin {a, b} => S[i] = Q[i]
        BY <2>3, <2>4
      <3> QED BY <3>1, <3>2, <3>3 DEF Shifted
    <2>6. U \in SUBSET Int /\ \A j \in U : j # b /\ j \in T
      BY <1>3, <1>5, <2>1
    <2>7. Trees(H, Blocks(H, G), S, U)
      BY <1>1, <2>5, <2>6, ShiftTrees
    <2> QED BY <1>1, <1>4, <2>7 DEF Owns, S
  <1> QED BY <1>6, <1>7

\* One pointer is freed.
LEMMA FreeAt ==
  ASSUME NEW H, NEW F, NEW s, NEW v0, NEW v1, NEW v2, NEW v3, Owns(H, F, s, v0, v1, v2, v3),
         NEW R, R = Pointed(s, v0, v1, v2, v3), NEW r \in Int, NEW x, x = R[r], NEW list, list = <<x>>,
         NEW G, G = F \o Owned(H, list)
  PROVE  FreedOnce(H, G) /\ Trees(H, Blocks(H, G), [R EXCEPT ![r] = NIL], ListsOf(s))
  <1> DEFINE place == [k \in {1} |-> r]
             S == [R EXCEPT ![r] = NIL]
  <1>1. FreedOnce(H, F) /\ R \in [Int -> Nat] /\ Nothing(R) /\ Trees(H, Blocks(H, F), R, ListsOf(s))
    BY OwnsParts
  <1>2. x \in Nat
    BY <1>1
  <1>3. list \in Seq(Nat) /\ DOMAIN list = {1} /\ list[1] = x
    BY <1>2
  <1>4. Gives(R, S, list, place)
    <2>1. place \in [DOMAIN list -> Int] /\ \A k, l \in DOMAIN list : place[k] = place[l] => k = l
      BY <1>3
    <2>2. \A k \in DOMAIN list : list[k] = R[place[k]]
      BY <1>3
    <2>3. S = [i \in Int |-> IF \E k \in DOMAIN list : place[k] = i THEN NIL ELSE R[i]]
      BY <1>1, <1>3
    <2> HIDE DEF place, S
    <2> QED BY <2>1, <2>2, <2>3 DEF Gives
  <1> HIDE DEF place, S
  <1>5. FreedOnce(H, G) /\ Trees(H, Blocks(H, G), S, ListsOf(s))
    BY <1>1, <1>3, <1>4, FreeBlocks
  <1> QED BY <1>5 DEF S

LEMMA DiscardOwns ==
  ASSUME NEW H, NEW F, NEW s, NEW v0, NEW v1, NEW v2, NEW v3, Owns(H, F, s, v0, v1, v2, v3),
         NEW list, list = <<v0>>, NEW G, G = F \o Owned(H, list)
  PROVE  Owns(H, G, s, NIL, v1, v2, v3)
  <1> DEFINE R == Pointed(s, v0, v1, v2, v3)
  <1>1. PICK r \in Int : r = 0
    OBVIOUS
  <1>2. IsSequence(s) /\ Len(s) \in Nat
    BY OwnsParts
  <1>3. v0 = R[r]
    BY <1>1, <1>2, PointedAt
  <1>4. FreedOnce(H, G) /\ Trees(H, Blocks(H, G), [R EXCEPT ![r] = NIL], ListsOf(s))
    BY <1>3, FreeAt
  <1>5. [R EXCEPT ![r] = NIL] = Pointed(s, NIL, v1, v2, v3)
    <2>1. \A i \in Int : Pointed(s, NIL, v1, v2, v3)[i] = IF i = r THEN NIL ELSE R[i]
      BY <1>1, <1>2 DEF Pointed
    <2>2. Pointed(s, NIL, v1, v2, v3) = [i \in Int |-> Pointed(s, NIL, v1, v2, v3)[i]]
      BY <1>2, PointedAt
    <2>3. R \in [Int -> Nat]
      BY OwnsParts
    <2> HIDE DEF R
    <2> QED BY <2>1, <2>2, <2>3
  <1> QED BY <1>2, <1>4, <1>5 DEF Owns

LEMMA ReturnFreesOwns ==
  ASSUME NEW H, NEW F, NEW s, NEW v0, NEW v1, NEW v2, NEW v3, Owns(H, F, s, v0, v1, v2, v3),
         NEW list, list = <<v1>>, NEW G, G = F \o Owned(H, list)
  PROVE  Owns(H, G, s, v0, NIL, v2, v3)
  <1> DEFINE R == Pointed(s, v0, v1, v2, v3)
  <1>1. PICK r \in Int : r = -1
    OBVIOUS
  <1>2. IsSequence(s) /\ Len(s) \in Nat
    BY OwnsParts
  <1>3. v1 = R[r]
    BY <1>1, <1>2, PointedAt
  <1>4. FreedOnce(H, G) /\ Trees(H, Blocks(H, G), [R EXCEPT ![r] = NIL], ListsOf(s))
    BY <1>3, FreeAt
  <1>5. [R EXCEPT ![r] = NIL] = Pointed(s, v0, NIL, v2, v3)
    <2>1. \A i \in Int : Pointed(s, v0, NIL, v2, v3)[i] = IF i = r THEN NIL ELSE R[i]
      BY <1>1, <1>2 DEF Pointed
    <2>2. Pointed(s, v0, NIL, v2, v3) = [i \in Int |-> Pointed(s, v0, NIL, v2, v3)[i]]
      BY <1>2, PointedAt
    <2>3. R \in [Int -> Nat]
      BY OwnsParts
    <2> HIDE DEF R
    <2> QED BY <2>1, <2>2, <2>3
  <1> QED BY <1>2, <1>4, <1>5 DEF Owns

LEMMA ReturnHandsOwns ==
  ASSUME NEW H, NEW F, NEW s, NEW v0, NEW v1, NEW v3, Owns(H, F, s, v0, v1, NIL, v3)
  PROVE  Owns(H, F, s, v0, NIL, v1, v3)
  <1> DEFINE R == Pointed(s, v0, v1, NIL, v3)
             S == Pointed(s, v0, NIL, v1, v3)
             T == ListsOf(s)
  <1>1. IsSequence(s) /\ Len(s) \in Nat /\ FreedOnce(H, F) /\ Trees(H, Blocks(H, F), R, T)
    BY OwnsParts
  <1>2. PICK a \in Int, b \in Int : a = -1 /\ b = -2
    OBVIOUS
  <1>3. Shifted(R, S, a, b)
    <2>1. \A i \in Int : i \notin {a, b} => S[i] = R[i]
      BY <1>2 DEF Pointed
    <2>2. R[a] = v1 /\ R[b] = NIL
      BY <1>1, <1>2, PointedAt
    <2>3. S[a] = NIL /\ S[b] = v1 /\ S = [i \in Int |-> S[i]]
      BY <1>1, <1>2, PointedAt
    <2> HIDE DEF R, S
    <2> QED BY <2>1, <2>2, <2>3 DEF Shifted
  <1>4. T \in SUBSET Int /\ \A j \in T : j # b
    <2>1. \A i \in 1 .. Len(s) : i \in Int /\ i >= 1
      BY <1>1
    <2> QED BY <1>2, <2>1 DEF ListsOf
  <1> HIDE DEF R, S, T
  <1>5. Trees(H, Blocks(H, F), S, T)
    BY <1>1, <1>3, <1>4, ShiftTrees
  <1> QED BY <1>1, <1>5 DEF Owns, S, T

LEMMA PopOwns ==
  ASSUME NEW H, NEW F, NEW s, NEW v0, NEW v1, NEW v2, NEW v3, Owns(H, F, s, v0, v1, v2, v3),
         NEW n \in Nat, Len(s) = n + 1, NEW t, Cut(s, n, t),
         NEW x, x = Destructed(s[n + 1]), NEW list, list = <<x>>, NEW G, G = F \o Owned(H, list)
  PROVE  Owns(H, G, t, v0, v1, v2, v3)
  <1> DEFINE R == Pointed(s, v0, v1, v2, v3)
             S == Pointed(t, v0, v1, v2, v3)
  <1>1. IsSequence(s) /\ Len(s) \in Nat /\ R \in [Int -> Nat]
    BY OwnsParts
  <1>2. PICK r \in Int : r = n + 1
    OBVIOUS
  <1>3. x = R[r]
    <2>1. n + 1 \in Nat /\ r \in 1 .. n + 1
      BY <1>2
    <2>2. \A i \in 1 .. n + 1 : R[i] = Destructed(s[i])
      BY <2>1, PointedAtLength, SMTT(30)
    <2> HIDE DEF R
    <2> QED BY <1>2, <2>1, <2>2
  <1>4. FreedOnce(H, G) /\ Trees(H, Blocks(H, G), [R EXCEPT ![r] = NIL], ListsOf(s))
    BY <1>3, FreeAt
  <1>5. n \in 0 .. Len(s)
    OBVIOUS
  <1>6. LowerPart(R, S, n, v3) /\ ListsOf(t) \subseteq ListsOf(s)
    BY <1>1, <1>5, CutPointed
  <1>7. R[-3] = v3 /\ \A i \in Int : i > r => R[i] = NIL
    <2>1. n + 1 \in Nat
      OBVIOUS
    <2>2. R[-3] = v3
      BY <2>1, PointedAtLength
    <2>3. \A i \in Int : i < -3 \/ i > n + 1 => R[i] = NIL
      BY <2>1, PointedAtLength
    <2> HIDE DEF R
    <2> QED BY <1>2, <2>2, <2>3
  <1> HIDE DEF R, S
  <1>8. [R EXCEPT ![r] = NIL] = S
    <2>1. ASSUME NEW i \in Int PROVE S[i] = IF i = r THEN NIL ELSE R[i]
      <3>1. CASE i = -3
        BY <1>2, <1>6, <1>7, <3>1 DEF LowerPart
      <3>2. CASE i # -3 /\ i <= n
        BY <1>2, <1>6, <3>2 DEF LowerPart
      <3>3. CASE i = r
        BY <1>2, <1>6, <3>3 DEF LowerPart
      <3>4. CASE i > r
        BY <1>2, <1>6, <1>7, <3>4 DEF LowerPart
      <3> QED BY <1>2, <3>1, <3>2, <3>3, <3>4
    <2>2. S = [i \in Int |-> S[i]]
      BY <1>6 DEF LowerPart
    <2> QED BY <1>1, <2>1, <2>2
  <1>9. Trees(H, Blocks(H, G), S, ListsOf(t))
    BY <1>4, <1>6, <1>8, FewerLists
  <1>10. IsSequence(t)
    BY DEF Cut
  <1> QED BY <1>4, <1>9, <1>10 DEF Owns, S

\* The token goes onto the stack.
LEMMA ShiftOwns ==
  ASSUME NEW H, NEW F, NEW s, NEW v0, NEW v1, NEW v2, NEW v3, Owns(H, F, s, v0, v1, v2, v3),
         NEW e, Destructed(e) = v0, e.symbol \notin Tables.listed, NEW t, PushedOn(s, Len(s), e, t)
  PROVE  Owns(H, F, t, NIL, v1, v2, v3)
  <1> DEFINE R == Pointed(s, v0, v1, v2, v3)
             P == Pointed(s, NIL, v1, v2, v3)
             T == ListsOf(s)
  <1>1. IsSequence(s) /\ Len(s) \in Nat /\ FreedOnce(H, F) /\ Trees(H, Blocks(H, F), R, T) /\ Nothing(R)
    BY OwnsParts
  <1>2. PICK n \in Nat, a \in Int : n = Len(s) /\ a = 0
    BY <1>1
  <1>3. P[a] = NIL /\ R[a] = v0
    BY <1>1, <1>2, PointedAt
  <1>4. \A i \in Int : i # a => P[i] = R[i]
    BY <1>2 DEF Pointed
  <1>5. \A i \in Int : i < -3 \/ i > n => R[i] = NIL
    BY <1>2, PointedAtLength
  <1>6. n \in 0 .. Len(s) /\ PushedOn(s, n, e, t)
    BY <1>2
  <1> HIDE DEF R, P
  <1>7. Above(R, P, n, a)
    <2>1. ASSUME NEW i \in Int, i # a PROVE R[i] = IF i \in -3 .. n THEN P[i] ELSE NIL
      <3>1. CASE i \in -3 .. n
        BY <1>4, <2>1, <3>1
      <3>2. CASE i \notin -3 .. n
        <4>1. i < -3 \/ i > n
          BY <1>2, <3>2
        <4> QED BY <1>5, <3>2, <4>1
      <3> QED BY <3>1, <3>2
    <2> QED BY <1>3, <2>1 DEF Above
  <1>8. Fits(s, n, e, t, P, R, T, a)
    BY <1>1, <1>3, <1>6, <1>7 DEF Fits
  <1> QED BY <1>1, <1>8, PushOwns DEF P

\* Something that is no pointer does.
LEMMA ShiftErrorOwns ==
  ASSUME NEW H, NEW F, NEW s, NEW v0, NEW v1, NEW v2, NEW v3, Owns(H, F, s, v0, v1, v2, v3),
         NEW e, Destructed(e) = NIL, NEW t, PushedOn(s, Len(s), e, t)
  PROVE  Owns(H, F, t, v0, v1, v2, v3)
  <1> DEFINE R == Pointed(s, v0, v1, v2, v3)
             T == ListsOf(s)
  <1>1. IsSequence(s) /\ Len(s) \in Nat /\ FreedOnce(H, F) /\ Trees(H, Blocks(H, F), R, T) /\ Nothing(R)
    BY OwnsParts
  <1>2. PICK n \in Nat, a \in Int : n = Len(s) /\ a = -4
    BY <1>1
  <1>3. R[a] = NIL /\ \A i \in Int : i < -3 \/ i > n => R[i] = NIL
    <2>1. \A i \in Int : i < -3 \/ i > n => R[i] = NIL
      BY <1>2, PointedAtLength
    <2> HIDE DEF R
    <2> QED BY <1>2, <2>1
  <1>4. n \in 0 .. Len(s) /\ PushedOn(s, n, e, t)
    BY <1>2
  <1> HIDE DEF R
  <1>5. Above(R, R, n, a)
    <2>1. ASSUME NEW i \in Int, i # a PROVE R[i] = IF i \in -3 .. n THEN R[i] ELSE NIL
      <3>1. i \in -3 .. n \/ i < -3 \/ i > n
        BY <1>2
      <3> QED BY <1>3, <3>1
    <2> QED BY <1>3, <2>1 DEF Above
  <1>6. Fits(s, n, e, t, R, R, T, a)
    BY <1>1, <1>3, <1>4, <1>5 DEF Fits
  <1> QED BY <1>1, <1>6, PushOwns DEF R

\* A new text is that of the token.
LEMMA ScanOwns ==
  ASSUME NEW H, NEW F, NEW s, NEW v1, NEW v2, NEW v3, Owns(H, F, s, NIL, v1, v2, v3),
         NEW kind, NEW tag, NEW kids \in Seq(Nat), DOMAIN kids = {}, NEW G, G = New(H, kind, tag, kids)
  PROVE  Owns(G, F, s, Fresh(H), v1, v2, v3)
  <1> DEFINE R == Pointed(s, NIL, v1, v2, v3)
             Q == Pointed(s, Fresh(H), v1, v2, v3)
             T == ListsOf(s)
             L == Blocks(H, F)
             place == [k \in DOMAIN kids |-> 0]
  <1>1. /\ IsSequence(s) /\ Len(s) \in Nat /\ IsHeap(H) /\ FreedOnce(H, F) /\ Trees(H, L, R, T)
    BY OwnsParts
  <1>2. PICK z \in Int : z = 0
    OBVIOUS
  <1>3. R[z] = NIL /\ Q[z] = Fresh(H) /\ Q = [i \in Int |-> Q[i]]
    BY <1>1, <1>2, PointedAt
  <1>4. \A i \in Int : i # z => Q[i] = R[i]
    BY <1>2 DEF Pointed
  <1>5. z \notin T
    <2>1. \A i \in 1 .. Len(s) : i # z
      BY <1>2
    <2> QED BY <2>1 DEF ListsOf
  <1> HIDE DEF R, Q, T, L
  <1>6. Takes(R, Q, kids, place, z, Fresh(H))
    <2>1. place \in [DOMAIN kids -> Int]
      OBVIOUS
    <2> HIDE DEF place
    <2>2. \A i \in Int : Q[i] = IF i = z THEN Fresh(H) ELSE IF \E k \in DOMAIN kids : place[k] = i THEN NIL ELSE R[i]
      BY <1>3, <1>4
    <2>3. Q = [i \in Int |-> IF i = z THEN Fresh(H) ELSE IF \E k \in DOMAIN kids : place[k] = i THEN NIL ELSE R[i]]
      BY <1>3, <2>2
    <2> QED BY <2>1, <2>3 DEF Takes
  <1> HIDE DEF place
  <1>7. Trees(G, L \cup {Fresh(H)}, Q, T)
    BY <1>1, <1>3, <1>5, <1>6, MakeTrees
  <1>8. FreedOnce(G, F) /\ Blocks(G, F) = Blocks(H, F) \cup {Fresh(H)}
    <2>1. IsHeap(H) /\ FreedOnce(H, F) /\ kids \in Seq(Nat) /\ G = New(H, kind, tag, kids)
      BY <1>1
    <2> QED BY ONLY <2>1, MakeBlocks
  <1> QED BY <1>1, <1>7, <1>8 DEF Owns, Q, T, L

\* Everything that is on the stack, and the token, is freed.
Everything(list, s, v0) ==
  /\ list \in Seq(Nat) /\ Len(list) = Len(s) + 1 /\ list[1] = v0
  /\ \A k \in 2 .. Len(s) + 1 : list[k] = Destructed(s[Len(s) + 2 - k])

LEMMA CleanOwns ==
  ASSUME NEW H, NEW F, NEW s, NEW v0, NEW v1, NEW v2, NEW v3, Owns(H, F, s, v0, v1, v2, v3),
         NEW list, Everything(list, s, v0), NEW G, G = F \o Owned(H, list), NEW t, Cut(s, 0, t)
  PROVE  Owns(H, G, t, NIL, v1, v2, v3)
  <1> DEFINE R == Pointed(s, v0, v1, v2, v3)
             S == Pointed(t, NIL, v1, v2, v3)
  <1>1. /\ IsSequence(s) /\ Len(s) \in Nat /\ FreedOnce(H, F) /\ Trees(H, Blocks(H, F), R, ListsOf(s))
        /\ Nothing(R) /\ R \in [Int -> Nat]
    BY OwnsParts
  <1>2. PICK n \in Nat : n = Len(s)
    BY <1>1
  <1> DEFINE place == [k \in 1 .. n + 1 |-> IF k = 1 THEN 0 ELSE n + 2 - k]
  <1>3. /\ list \in Seq(Nat) /\ list[1] = v0 /\ \A k \in 2 .. n + 1 : list[k] = Destructed(s[n + 2 - k])
    BY <1>2 DEF Everything
  <1>4. DOMAIN list = 1 .. n + 1
    BY <1>2, LenProperties DEF Everything
  <1>5. /\ R[0] = v0 /\ R[-1] = v1 /\ R[-2] = v2 /\ R[-3] = v3
        /\ \A i \in 1 .. n : R[i] = Destructed(s[i])
        /\ \A i \in Int : i < -3 \/ i > n => R[i] = NIL
    BY <1>2, PointedAtLength
  <1>6. /\ S = [i \in Int |-> S[i]] /\ S[0] = NIL /\ S[-1] = v1 /\ S[-2] = v2 /\ S[-3] = v3
        /\ \A i \in Int : i < -3 \/ i > 0 => S[i] = NIL
    <2>1. PICK m \in Nat : m = 0
      OBVIOUS
    <2>2. Len(t) = m
      BY <2>1 DEF Cut
    <2>3. /\ S = [i \in Int |-> S[i]] /\ S[0] = NIL /\ S[-1] = v1 /\ S[-2] = v2 /\ S[-3] = v3
          /\ \A i \in Int : i < -3 \/ i > m => S[i] = NIL
      BY <2>2, PointedAtLength
    <2> HIDE DEF S
    <2> QED BY <2>1, <2>3
  <1> HIDE DEF R, S
  <1>7. /\ place \in [DOMAIN list -> Int]
        /\ \A k, l \in DOMAIN list : place[k] = place[l] => k = l
        /\ \A i \in 0 .. n : \E k \in DOMAIN list : place[k] = i
        /\ \A k \in DOMAIN list : place[k] \in 0 .. n
    <2> USE <1>4
    <2>1. place \in [DOMAIN list -> Int] /\ \A k \in DOMAIN list : place[k] \in 0 .. n
      OBVIOUS
    <2>2. \A k, l \in DOMAIN list : place[k] = place[l] => k = l
      OBVIOUS
    <2>3. ASSUME NEW i \in 0 .. n PROVE \E k \in DOMAIN list : place[k] = i
      <3>1. CASE i = 0
        <4>1. 1 \in DOMAIN list /\ place[1] = i
          BY <3>1
        <4> QED BY <4>1
      <3>2. CASE i # 0
        <4>1. n + 2 - i \in DOMAIN list /\ place[n + 2 - i] = i
          BY <3>2
        <4> QED BY <4>1
      <3> QED BY <3>1, <3>2
    <2> QED BY <2>1, <2>2, <2>3
  <1>8. \A k \in DOMAIN list : list[k] = R[place[k]]
    <2> SUFFICES ASSUME NEW k \in DOMAIN list PROVE list[k] = R[place[k]]
      OBVIOUS
    <2>1. CASE k = 1
      <3>1. place[1] = 0
        BY <1>4, <2>1
      <3> QED BY <1>3, <1>5, <2>1, <3>1
    <2>2. CASE k # 1
      <3>1. k \in 2 .. n + 1 /\ place[k] = n + 2 - k /\ n + 2 - k \in 1 .. n
        BY <1>4, <2>2
      <3> HIDE DEF place
      <3> QED BY <1>3, <1>5, <3>1
    <2> QED BY <2>1, <2>2
  <1> HIDE DEF place
  <1>9. Gives(R, S, list, place)
    <2>1. ASSUME NEW i \in Int PROVE S[i] = IF \E k \in DOMAIN list : place[k] = i THEN NIL ELSE R[i]
      <3>1. CASE i \in 0 .. n
        <4>1. S[i] = NIL
          BY <1>6, <3>1
        <4> QED BY <1>7, <3>1, <4>1
      <3>2. CASE i \notin 0 .. n
        <4>1. ~\E k \in DOMAIN list : place[k] = i
          BY <1>7, <3>2
        <4>2. i \in {-1, -2, -3} \/ i < -3 \/ i > n
          BY <3>2
        <4>3. S[i] = R[i]
          BY <1>5, <1>6, <4>2
        <4> QED BY <4>1, <4>3
      <3> QED BY <3>1, <3>2
    <2>2. S = [i \in Int |-> IF \E k \in DOMAIN list : place[k] = i THEN NIL ELSE R[i]]
      BY <1>6, <2>1
    <2> QED BY <1>7, <1>8, <2>2 DEF Gives
  <1>10. FreedOnce(H, G) /\ Trees(H, Blocks(H, G), S, ListsOf(s))
    BY <1>1, <1>3, <1>9, FreeBlocks
  <1>11. IsSequence(t) /\ ListsOf(t) \subseteq ListsOf(s)
    BY DEF Cut, ListsOf
  <1>12. Trees(H, Blocks(H, G), S, ListsOf(t))
    BY <1>10, <1>11, FewerLists
  <1> QED BY <1>10, <1>11, <1>12 DEF Owns, S

(***************************************************************************)
(* The invariant of the memory                                             *)
(***************************************************************************)

\* The text of the token that was read and not shifted
TokenValue == IF yychar \in Tables.pointer THEN yylval ELSE NIL

\* What the places of the code have in common: before parser_parse returns it hands on nothing;
\* then parsed_program is no longer used; yyreturn has emptied the stack; and a list is only left
\* behind on the way to yyabortlab.
Phases ==
  /\ pc # RETURNED => out_program = NIL
  /\ pc = RETURNED => parsed_program = NIL
  /\ pc \in {FAILED, PARSED, RETURNED} => stack = <<>> /\ yychar = EMPTY
  /\ lost # NIL => pc \in {ABORT, FAILED, RETURNED}

\* The program is set once: its symbol is then all that the stack holds, until it is popped, and
\* from neither state does another action follow.
ProgramOnce ==
  pc \in {PARSING, POPPING} /\ parsed_program # NIL =>
    \/ depth = 2 /\ stack[2].symbol = Goal
    \/ depth = 1 /\ pc = POPPING

MemoryInv ==
  /\ Owns(heap, freed, stack, TokenValue, parsed_program, out_program, lost)
  /\ yychar \notin Tables.listed
  /\ Phases /\ ProgramOnce

LEMMA LookaheadValue == Destructed(Lookahead) = TokenValue
  BY DEF Destructed, Lookahead, TokenValue

\* The symbols of the parser itself have no destructors.
LEMMA NoPointers ==
  /\ Tables.listed \subseteq Tables.pointer
  /\ EMPTY \notin Tables.pointer /\ END \notin Tables.pointer
  /\ "" \notin Tables.pointer /\ "error" \notin Tables.pointer
  <1>1. Tables.listed \subseteq Tables.pointer /\ {EMPTY, END, "", "error"} \cap Tables.pointer = {}
    BY ActionAssumption
  <1> QED BY <1>1

LEMMA NoText ==
  ASSUME yychar \in {EMPTY, END}
  PROVE  TokenValue = NIL /\ yychar \notin Tables.listed
  BY NoPointers DEF TokenValue

\* At first there is nothing to own.
LEMMA OwnsNothing ==
  ASSUME NEW s, IsSequence(s), Len(s) = 1, Destructed(s[1]) = NIL, NEW H, H \in Seq(Nat), Len(H) = 0
  PROVE  Owns(H, H, s, NIL, NIL, NIL, NIL)
  <1> DEFINE R == Pointed(s, NIL, NIL, NIL, NIL)
             any == [x \in Nat |-> 0]
  <1>1. PICK n \in Nat : n = 1 /\ Len(s) = n
    OBVIOUS
  <1>2. \A i \in 1 .. n : i = 1
    BY <1>1
  <1>3. IsSequence(H)
    BY SequenceOf
  <1>4. IsHeap(H) /\ Range(H) = {}
    <2>1. 1 .. Len(H) = {}
      OBVIOUS
    <2>2. DOMAIN H = {}
      BY <2>1, LenProperties
    <2> QED BY <1>3, <2>1, <2>2 DEF IsHeap, Range
  <1>5. FreedOnce(H, H) /\ Blocks(H, H) = {}
    <2>1. Cardinality({}) = 0 /\ IsFiniteSet({})
      BY FS_EmptySet
    <2>2. 1 .. Len(H) = {}
      OBVIOUS
    <2> QED BY <1>3, <1>4, <2>1, <2>2 DEF FreedOnce, Blocks
  <1>6. R = [i \in Int |-> R[i]]
    BY DEF Pointed
  <1>7. \A i \in Int : R[i] = NIL
    BY <1>1, <1>2 DEF Pointed
  <1>8. ListsOf(s) \subseteq Int
    BY <1>1 DEF ListsOf
  <1> HIDE DEF R
  <1>9. R \in [Int -> Nat]
    <2>1. \A i \in Int : R[i] \in Nat
      BY <1>7 DEF NIL
    <2> QED BY <1>6, <2>1
  <1>10. any \in [Nat -> Nat] /\ any \in [Nat -> Int]
    OBVIOUS
  <1> HIDE DEF any
  <1>11. TreesBy(H, {}, R, ListsOf(s), any, any, any, any)
    BY <1>7, <1>8, <1>10 DEF TreesBy, Witness, Owners, Ordered, Apart, AreLists
  <1>12. Trees(H, {}, R, ListsOf(s))
    BY <1>4, <1>8, <1>9, <1>11 DEF Trees, Typed
  <1> QED BY <1>5, <1>12 DEF Owns, R

LEMMA InitMemory == Init => MemoryInv
  <1> SUFFICES ASSUME Init PROVE MemoryInv
    OBVIOUS
  <1> DEFINE e == [state |-> Tables.start, symbol |-> "", value |-> NIL]
  <1>1. /\ heap = <<>> /\ freed = heap /\ pc = PARSING /\ parsed_program = NIL /\ out_program = NIL /\ lost = NIL
        /\ stack = <<e>> /\ yychar = EMPTY
    BY DEF Init, LexerInit
  <1>2. TokenValue = NIL /\ yychar \notin Tables.listed
    BY <1>1, NoText
  <1>3. e.symbol = ""
    OBVIOUS
  <1> HIDE DEF e
  <1>4. IsSequence(stack) /\ Len(stack) = 1 /\ Destructed(stack[1]) = NIL
    <2>1. stack \in Seq({e})
      BY <1>1
    <2>2. Destructed(e) = NIL
      BY <1>3, NoPointers, Zenon DEF Destructed
    <2> QED BY <1>1, <2>1, <2>2, SequenceOf
  <1>5. heap \in Seq(Nat) /\ Len(heap) = 0
    BY <1>1
  <1>6. Owns(heap, heap, stack, NIL, NIL, NIL, NIL)
    BY <1>4, <1>5, OwnsNothing
  <1>7. Owns(heap, freed, stack, TokenValue, parsed_program, out_program, lost)
    BY <1>1, <1>2, <1>6
  <1>8. Phases /\ ProgramOnce
    BY <1>1 DEF Phases, ProgramOnce, PARSING, POPPING, ABORT, FAILED, PARSED, RETURNED
  <1> QED BY <1>2, <1>7, <1>8 DEF MemoryInv

(***************************************************************************)
(* The steps of the scanner                                                *)
(***************************************************************************)

LEMMA PieceToken ==
  ASSUME ParserInv, ~AtEof
  PROVE  piece.token \notin Tables.listed /\ (piece.is = "TEXT" <=> piece.token \in Tables.pointer)
  <1>1. at \in DOMAIN file
    BY PlaceTyped DEF ParserInv, Scanned, Place
  <1>2. file \in File
    BY DEF ParserInv
  <1> QED BY <1>1, <1>2, TokenAssumption DEF piece

LEMMA ScanPhases ==
  ASSUME Phases, ProgramOnce, pc = PARSING, UNCHANGED <<stack, pc, parsed_program, out_program, lost>>
  PROVE  Phases' /\ ProgramOnce'
  <1> USE DEF PARSING, POPPING, ABORT, ACCEPT, FAILED, PARSED, RETURNED
  <1>1. Phases'
    BY DEF Phases
  <1>2. ProgramOnce'
    BY DEF ProgramOnce, depth
  <1> QED BY <1>1, <1>2

LEMMA NoKids == \E kids \in Seq(Nat) : kids = <<>> /\ DOMAIN kids = {}
  <1>1. <<>> \in Seq(Nat) /\ DOMAIN <<>> = {}
    OBVIOUS
  <1> QED BY <1>1

\* Without a text the token has no value.
LEMMA ScanOtherToken ==
  ASSUME ParserInv, yychar = EMPTY, Scan \/ TextFails
  PROVE  yychar' \notin Tables.listed /\ yychar' \notin Tables.pointer
  <1>1. EMPTY \notin Tables.pointer /\ END \notin Tables.pointer /\ Tables.listed \subseteq Tables.pointer
    BY NoPointers
  <1>2. CASE Word
    <2>1. ~AtEof /\ piece.is = "WORD" /\ yychar' = piece.token
      BY <1>2 DEF Word, Matches
    <2> QED BY <1>1, <2>1, PieceToken
  <1>3. CASE ~Word
    <2>1. yychar' \in {EMPTY, END}
      BY <1>3 DEF Scan, Blank, BadChar, OpenComment, CommentText, CloseComment, Newline, Eof, EofInComment,
                  TextFails
    <2> QED BY <1>1, <2>1
  <1> QED BY <1>2, <1>3

LEMMA ScanMemory ==
  ASSUME ParserInv, MemoryInv, ScanText \/ ScanTextFails \/ ScanOther
  PROVE  MemoryInv'
  <1>1. yychar = EMPTY /\ pc = PARSING /\ UNCHANGED <<freed, stack, pc, parsed_program, out_program, lost>>
    BY DEF ScanText, ScanTextFails, ScanOther, Asks, Text, TextFails, Matches, Scan, Word, Blank, BadChar, OpenComment,
           CommentText, CloseComment, Newline, Eof, EofInComment, memory, outcome, parserVars
  <1>2. TokenValue = NIL
    BY <1>1, NoText
  <1>3. Owns(heap, freed, stack, NIL, parsed_program, out_program, lost)
    BY <1>2 DEF MemoryInv
  <1>4. Phases' /\ ProgramOnce'
    BY <1>1, ScanPhases DEF MemoryInv
  <1>5. CASE ScanText
    <2>1. ~AtEof /\ piece.is = "TEXT" /\ yychar' = piece.token
      BY <1>5 DEF ScanText, Text, Matches
    <2>2. piece.token \notin Tables.listed /\ piece.token \in Tables.pointer
      BY <2>1, PieceToken
    <2>3. heap' = New(heap, "TEXT", piece.text, <<>>) /\ yylval' = Fresh(heap)
      BY <1>5 DEF ScanText
    <2>4. TokenValue' = Fresh(heap) /\ (yychar \notin Tables.listed)'
      BY <2>1, <2>2, <2>3 DEF TokenValue
    <2>5. Owns(heap', freed, stack, Fresh(heap), parsed_program, out_program, lost)
      <3>1. PICK kids \in Seq(Nat) : kids = <<>> /\ DOMAIN kids = {}
        BY NoKids
      <3>2. heap' = New(heap, "TEXT", piece.text, kids)
        BY <2>3, <3>1
      <3> QED BY <1>3, <3>1, <3>2, ScanOwns
    <2> QED BY <1>1, <1>4, <2>4, <2>5 DEF MemoryInv
  <1>6. CASE ScanTextFails \/ ScanOther
    <2>1. heap' = heap
      BY <1>6 DEF ScanTextFails, ScanOther, parserVars, memory
    <2>2. yychar' \notin Tables.listed /\ yychar' \notin Tables.pointer
      BY <1>1, <1>6, ScanOtherToken DEF ScanTextFails, ScanOther
    <2>3. TokenValue' = NIL
      BY <2>2 DEF TokenValue
    <2> QED BY <1>1, <1>3, <1>4, <2>1, <2>2, <2>3 DEF MemoryInv
  <1> QED BY <1>5, <1>6

(***************************************************************************)
(* What is reduced, and when                                               *)
(***************************************************************************)

LEMMA StackLength ==
  ASSUME Working
  PROVE  /\ Path(stack) /\ stack # <<>> /\ IsSequence(stack) /\ Len(stack) = depth /\ depth \in Nat /\ depth >= 1
         /\ state = stack[depth].state
  BY PathLength DEF Working, depth, state, Path

LEMMA ReadyHandle ==
  ASSUME Working, NEW dos, NEW p \in Ready(dos), NEW n, n = depth - Len(p.rhs)
  PROVE  /\ OnTop(stack, n, p) /\ p.act.do \in dos /\ Reduces(state) /\ pc = PARSING
         /\ p.lhs \in DOMAIN Tables.goto[stack[n].state]
  <1> DEFINE r == Tables.default[state]
  <1>1. Reduces(state) /\ p = Tables.production[r] /\ p.act.do \in dos /\ pc = PARSING
    BY DEF Ready
  <1>2. /\ Path(stack) /\ stack # <<>> /\ IsSequence(stack) /\ Len(stack) = depth /\ depth \in Nat /\ depth >= 1
        /\ state = stack[depth].state
    BY StackLength
  <1>3. state \in DOMAIN Tables.goto
    BY <1>2 DEF Path
  <1>4. r \in DOMAIN Tables.production /\ Tables.production[r].rhs \in Seq(STRING)
    BY <1>1, <1>3, TablesAssumption
  <1>5. Reduces(stack[Len(stack)].state) /\ p = Tables.production[Tables.default[stack[Len(stack)].state]]
    BY <1>1, <1>2
  <1>6. /\ Len(p.rhs) \in 0 .. Len(stack) - 1
        /\ p.lhs \in DOMAIN Tables.goto[stack[Len(stack) - Len(p.rhs)].state] \ {END}
    BY <1>2, <1>5, HandleOnStack
  <1>7. \A k \in 1 .. Len(p.rhs) : stack[n + k].symbol = p.rhs[k]
    <2>1. SymbolsAbove(stack, n, p)
      BY <1>2, <1>5, HandleSymbols
    <2> QED BY <2>1 DEF SymbolsAbove
  <1>8. UsesEachOnce(p)
    BY <1>1, <1>4, ActionAssumption
  <1> HIDE DEF r
  <1>9. n \in 1 .. Len(stack) /\ Len(p.rhs) \in Nat /\ Len(stack) = n + Len(p.rhs)
    BY <1>2, <1>6
  <1>10. OnTop(stack, n, p)
    BY <1>1, <1>2, <1>4, <1>7, <1>8, <1>9 DEF OnTop
  <1> QED BY <1>1, <1>2, <1>6, <1>10

LEMMA ReducedPushed ==
  ASSUME Working, NEW dos, NEW p \in Ready(dos), NEW n, n = depth - Len(p.rhs), NEW value, Reduced(p, value)
  PROVE  \E e : e.symbol = p.lhs /\ e.value = value /\ PushedOn(stack, n, e, stack')
  <1> DEFINE e == [state |-> Tables.goto[stack[depth - Len(p.rhs)].state][p.lhs], symbol |-> p.lhs, value |-> value]
  <1>1. IsSequence(stack) /\ n \in 0 .. Len(stack)
    <2>1. OnTop(stack, n, p)
      BY ReadyHandle
    <2> QED BY <2>1 DEF OnTop
  <1>2. e.symbol = p.lhs /\ e.value = value
    OBVIOUS
  <1>3. stack' = Append(SubSeq(stack, 1, n), e)
    BY DEF Reduced, Rest
  <1> HIDE DEF e
  <1>4. PushedOn(stack, n, e, stack')
    BY <1>1, <1>3, PushSequence
  <1> QED BY <1>2, <1>4

LEMMA DollarsValues ==
  ASSUME NEW p, NEW n, n = depth - Len(p.rhs)
  PROVE  Dollars(p) = Values(stack, n, p) /\ \A k : Dollar(p, k) = stack[n + k].value
  BY DEF Dollars, Dollar, Values

\* The goal is behind the start only, and the start below everything else.
LEMMA GoalBehindStart ==
  ASSUME Working, NEW n \in 1 .. depth, Goal \in DOMAIN Tables.goto[stack[n].state]
  PROVE  n = 1
  <1>1. Path(stack) /\ Len(stack) = depth /\ depth \in Nat
    BY StackLength
  <1>2. stack[n].state \in DOMAIN Tables.goto
    BY <1>1 DEF Path
  <1>3. stack[n].state = Tables.start
    BY <1>2, ActionAssumption
  <1>4. CASE n # 1
    <2>1. n \in 2 .. Len(stack) /\ n - 1 \in 1 .. Len(stack)
      BY <1>1, <1>4
    <2> DEFINE K == stack[n - 1].state
               X == stack[n].symbol
    <2>2. K \in DOMAIN Tables.goto /\ X \in DOMAIN Tables.goto[K] /\ stack[n].state = Tables.goto[K][X]
      BY <1>1, <2>1 DEF Path
    <2> HIDE DEF K, X
    <2>3. Tables.goto[K][X] # Tables.start
      BY <2>2, ActionAssumption
    <2> QED BY <1>3, <2>2, <2>3
  <1> QED BY <1>4

\* Behind the goal nothing is reduced, and only the end can follow.
LEMMA GoalState ==
  ASSUME Working, depth = 2, stack[2].symbol = Goal
  PROVE  DOMAIN Tables.goto[state] = {END} /\ ~Reduces(state)
  <1>1. Path(stack) /\ Len(stack) = depth /\ depth \in Nat /\ state = stack[depth].state /\ stack # <<>>
    BY StackLength
  <1>2. 1 \in 1 .. Len(stack) /\ 2 \in 2 .. Len(stack) /\ 2 - 1 = 1
    BY <1>1
  <1>3. /\ stack[1].state = Tables.start /\ stack[1].state \in DOMAIN Tables.goto
        /\ stack[2].symbol \in DOMAIN Tables.goto[stack[1].state]
        /\ stack[2].state = Tables.goto[stack[1].state][stack[2].symbol]
    BY <1>1, <1>2 DEF Path
  <1>4. Tables.start \in DOMAIN Tables.goto /\ Goal \in DOMAIN Tables.goto[Tables.start]
    BY <1>3
  <1>5. state = Tables.goto[Tables.start][Goal]
    BY <1>1, <1>3
  <1> QED BY <1>4, <1>5, ActionAssumption

LEMMA StartState ==
  ASSUME Working, depth = 1
  PROVE  state = Tables.start /\ ~Shifts(state, "error")
  <1>1. Path(stack) /\ state = stack[depth].state /\ stack # <<>>
    BY StackLength
  <1>2. state = Tables.start
    BY <1>1 DEF Path
  <1> QED BY <1>2, ActionAssumption DEF Shifts

\* While something is reduced or an error is caught, no program has been parsed.
LEMMA NoProgramYet ==
  ASSUME Working, ProgramOnce, \/ pc = PARSING /\ Reduces(state)
                               \/ pc = POPPING /\ Shifts(state, "error")
                               \/ pc = PARSING /\ \E X : Shifts(state, X) /\ X # END
  PROVE  parsed_program = NIL
  <1> SUFFICES ASSUME parsed_program # NIL PROVE FALSE
    OBVIOUS
  <1>1. "error" # END /\ PARSING # POPPING
    BY DEF END, PARSING, POPPING
  <1>2. \/ depth = 2 /\ stack[2].symbol = Goal
        \/ depth = 1 /\ pc = POPPING
    BY DEF ProgramOnce
  <1>3. CASE depth = 2 /\ stack[2].symbol = Goal
    BY <1>1, <1>3, GoalState DEF Shifts
  <1>4. CASE depth = 1 /\ pc = POPPING
    BY <1>1, <1>4, StartState
  <1> QED BY <1>2, <1>3, <1>4

(***************************************************************************)
(* The steps that shift and reduce                                         *)
(***************************************************************************)

LEMMA ReducedPhases ==
  ASSUME Working, Phases, ProgramOnce, NEW dos, NEW p \in Ready(dos), NEW value, Reduced(p, value),
         UNCHANGED <<pc, yychar, out_program, lost>>, p.act.do # "program" => parsed_program' = parsed_program
  PROVE  Phases' /\ ProgramOnce'
  <1> DEFINE n == depth - Len(p.rhs)
  <1>1. /\ OnTop(stack, n, p) /\ p.act.do \in dos /\ Reduces(state) /\ pc = PARSING
        /\ p.lhs \in DOMAIN Tables.goto[stack[n].state]
    BY ReadyHandle
  <1>2. parsed_program = NIL
    BY <1>1, NoProgramYet
  <1>3. Phases'
    BY <1>1 DEF Phases, PARSING, ABORT, FAILED, PARSED, RETURNED
  <1>4. CASE p.act.do # "program"
    BY <1>2, <1>3, <1>4 DEF ProgramOnce
  <1>5. CASE p.act.do = "program"
    <2>1. p.lhs = Goal /\ n \in 1 .. depth
      BY <1>1, <1>5 DEF OnTop, UsesEachOnce, depth
    <2> HIDE DEF n
    <2>2. n = 1
      BY <1>1, <2>1, GoalBehindStart
    <2>3. PICK e : e.symbol = p.lhs /\ PushedOn(stack, n, e, stack')
      BY ReducedPushed DEF n
    <2>4. Len(stack') = 2 /\ stack'[2] = e
      BY <2>2, <2>3 DEF PushedOn
    <2>5. ProgramOnce'
      BY <2>1, <2>3, <2>4 DEF ProgramOnce, depth
    <2> QED BY <1>3, <2>5
  <1> QED BY <1>4, <1>5

\* What the reductions have in common
LEMMA ReducedMemory ==
  ASSUME ParserInv, MemoryInv, NEW dos, NEW p \in Ready(dos), NEW value, Reduced(p, value),
         UNCHANGED <<pc, yychar, yylval, out_program, lost>>, p.act.do # "program" => parsed_program' = parsed_program,
         Owns(heap', freed', stack', TokenValue, parsed_program', out_program, lost)
  PROVE  MemoryInv'
  <1>1. Working
    <2>1. pc = PARSING
      BY DEF Ready
    <2> QED BY <2>1 DEF ParserInv
  <1>2. Phases' /\ ProgramOnce'
    BY <1>1, ReducedPhases DEF MemoryInv
  <1>3. TokenValue' = TokenValue
    BY DEF TokenValue
  <1> QED BY <1>2, <1>3 DEF MemoryInv

LEMMA ReadyMemory ==
  ASSUME ParserInv, MemoryInv, NEW dos, NEW p \in Ready(dos), NEW n, n = depth - Len(p.rhs)
  PROVE  /\ Working /\ OnTop(stack, n, p) /\ p.act.do \in dos /\ parsed_program = NIL /\ lost = NIL /\ pc = PARSING
         /\ Owns(heap, freed, stack, TokenValue, parsed_program, out_program, lost)
         /\ Dollars(p) = Values(stack, n, p) /\ \A k : Dollar(p, k) = stack[n + k].value
  <1>1. Working
    <2>1. pc = PARSING
      BY DEF Ready
    <2> QED BY <2>1 DEF ParserInv
  <1>2. OnTop(stack, n, p) /\ p.act.do \in dos /\ Reduces(state) /\ pc = PARSING
    BY <1>1, ReadyHandle
  <1>3. parsed_program = NIL
    BY <1>1, <1>2, NoProgramYet DEF MemoryInv
  <1>4. lost = NIL
    BY <1>2 DEF MemoryInv, Phases, PARSING, ABORT, FAILED, RETURNED
  <1> QED BY <1>1, <1>2, <1>3, <1>4, DollarsValues DEF MemoryInv

LEMMA ReduceOnlyMemory ==
  ASSUME ParserInv, MemoryInv, ReduceOnly
  PROVE  MemoryInv'
  <1> DEFINE dos == {"pass", "null", "stand"}
             value(p) == CASE p.act.do = "pass" -> Dollar(p, p.act.kids[1])
                           [] p.act.do = "null" -> NIL [] p.act.do = "stand" -> p.act.tag
  <1>1. /\ UNCHANGED <<pc, yychar, yylval, out_program, lost, parsed_program>>
        /\ heap' = heap /\ freed' = freed
    BY DEF ReduceOnly, lexerVars, memory, outcome
  <1>2. PICK p \in Ready(dos) : Reduced(p, value(p))
    BY DEF ReduceOnly
  <1> DEFINE n == depth - Len(p.rhs)
             x == value(p)
  <1>3. /\ Working /\ OnTop(stack, n, p) /\ p.act.do \in dos
        /\ Owns(heap, freed, stack, TokenValue, parsed_program, out_program, lost)
        /\ \A k : Dollar(p, k) = stack[n + k].value
    BY ReadyMemory
  <1>4. /\ p.act.do = "pass" => x = stack[n + p.act.kids[1]].value
        /\ p.act.do = "null" => x = NIL
    <2>1. p.act.do = "pass" => x = Dollar(p, p.act.kids[1])
      OBVIOUS
    <2>2. p.act.do = "null" => x = NIL
      OBVIOUS
    <2> QED BY <1>3, <2>1, <2>2
  <1>5. Reduced(p, x)
    BY <1>2
  <1> HIDE DEF x, value
  <1>6. PICK e : e.symbol = p.lhs /\ e.value = x /\ PushedOn(stack, n, e, stack')
    BY <1>3, <1>5, ReducedPushed
  <1> HIDE DEF n
  <1>7. Owns(heap, freed, stack', TokenValue, parsed_program, out_program, lost)
    <2>1. CASE p.act.do = "pass"
      <3>1. e.value = stack[n + p.act.kids[1]].value
        BY <1>4, <1>6, <2>1
      <3> QED BY <1>3, <1>6, <2>1, <3>1, PassOwns
    <2>2. CASE p.act.do \in {"null", "stand"}
      BY <1>3, <1>4, <1>6, <2>2, StandOwns
    <2> QED BY <1>3, <2>1, <2>2
  <1>8. Owns(heap', freed', stack', TokenValue, parsed_program', out_program, lost)
    BY <1>1, <1>7
  <1> HIDE DEF dos
  <1> QED BY <1>1, <1>5, <1>8, ReducedMemory

LEMMA ReduceAppendMemory ==
  ASSUME ParserInv, MemoryInv, ReduceAppend
  PROVE  MemoryInv'
  <1> DEFINE dos == {"append"}
  <1>1. UNCHANGED <<pc, yychar, yylval, out_program, lost, parsed_program>> /\ freed' = freed
    BY DEF ReduceAppend, lexerVars, outcome
  <1>2. PICK p \in Ready(dos) : /\ heap' = Appended(heap, Dollar(p, 1), Dollar(p, 2))
                                /\ Reduced(p, AppendedList(Dollar(p, 1), Dollar(p, 2)))
    BY DEF ReduceAppend
  <1> DEFINE n == depth - Len(p.rhs)
             h == Dollar(p, 1)
             m == Dollar(p, 2)
             x == AppendedList(h, m)
  <1>3. /\ Working /\ OnTop(stack, n, p) /\ p.act.do \in dos
        /\ Owns(heap, freed, stack, TokenValue, parsed_program, out_program, lost)
        /\ \A k : Dollar(p, k) = stack[n + k].value
    BY ReadyMemory
  <1>4. heap' = Appended(heap, h, m) /\ Reduced(p, x)
    BY <1>2
  <1>5. h = stack[n + 1].value /\ m = stack[n + 2].value /\ p.act.do = "append"
    BY <1>3
  <1>6. PICK e : e.symbol = p.lhs /\ e.value = x /\ PushedOn(stack, n, e, stack')
    BY <1>3, <1>4, ReducedPushed
  <1>7. e.value = AppendedList(h, m)
    BY <1>6
  <1> HIDE DEF n, h, m, x, dos
  <1>8. Owns(heap', freed, stack', TokenValue, parsed_program, out_program, lost)
    BY <1>3, <1>4, <1>5, <1>6, <1>7, AppendOwns
  <1>9. Owns(heap', freed', stack', TokenValue, parsed_program', out_program, lost)
    BY <1>1, <1>8
  <1> QED BY <1>1, <1>4, <1>9, ReducedMemory

LEMMA NilKidTyped == NilKid(<<NIL>>)
  <1>1. <<NIL>> \in Seq(Nat) /\ DOMAIN <<NIL>> = {1} /\ <<NIL>>[1] = NIL
    BY DEF NIL
  <1> QED BY <1>1 DEF NilKid

\* A node by the action that makes it
Makes(p, n, tag, G, x) ==
  LET made == New(heap, p.act.kind, tag, IF p.act.do = "recover_block" THEN <<NIL>> ELSE Values(stack, n, p))
  IN  IF p.act.do = "grow"
      THEN G = Appended(made, stack[n + 1].value, Fresh(heap)) /\ x = AppendedList(stack[n + 1].value, Fresh(heap))
      ELSE G = made /\ x = Fresh(heap)

LEMMA MakesOwns ==
  ASSUME NEW v0, NEW v2, NEW v3, Owns(heap, freed, stack, v0, NIL, v2, v3),
         NEW n, NEW p, OnTop(stack, n, p), p.act.do \in MakesNode, NEW tag, NEW G, NEW x, Makes(p, n, tag, G, x),
         NEW e, e.symbol = p.lhs, e.value = x, NEW t, PushedOn(stack, n, e, t),
         NEW v1, v1 = IF p.act.do = "program" THEN Fresh(heap) ELSE NIL
  PROVE  Owns(G, freed, t, v0, v1, v2, v3)
  <1>1. CASE p.act.do = "make"
    <2>1. G = New(heap, p.act.kind, tag, Values(stack, n, p)) /\ e.value = Fresh(heap) /\ v1 = NIL
      BY <1>1 DEF Makes
    <2> QED BY <1>1, <2>1, MakeOwns
  <1>2. CASE p.act.do = "program"
    <2>1. G = New(heap, p.act.kind, tag, Values(stack, n, p)) /\ v1 = Fresh(heap)
      BY <1>2 DEF Makes
    <2> QED BY <1>2, <2>1, ProgramOwns
  <1>3. CASE p.act.do = "recover_block"
    <2>1. PICK kids : kids = <<NIL>>
      OBVIOUS
    <2>2. G = New(heap, p.act.kind, tag, kids) /\ e.value = Fresh(heap) /\ v1 = NIL
      BY <1>3, <2>1 DEF Makes
    <2>3. NilKid(kids)
      BY <2>1, NilKidTyped
    <2> QED BY ONLY <1>3, <2>2, <2>3, Owns(heap, freed, stack, v0, NIL, v2, v3), OnTop(stack, n, p), e.symbol = p.lhs,
                    PushedOn(stack, n, e, t), RecoverBlockOwns
  <1>4. CASE p.act.do = "grow"
    <2>1. PICK M : M = New(heap, p.act.kind, tag, Values(stack, n, p))
      OBVIOUS
    <2>2. PICK h : h = stack[n + 1].value
      OBVIOUS
    <2>3. G = Appended(M, h, Fresh(heap)) /\ e.value = AppendedList(h, Fresh(heap)) /\ v1 = NIL
      BY <1>4, <2>1, <2>2 DEF Makes
    <2> QED BY <1>4, <2>1, <2>2, <2>3, GrowOwns
  <1> QED BY <1>1, <1>2, <1>3, <1>4 DEF MakesNode

LEMMA ReduceMakeMemory ==
  ASSUME ParserInv, MemoryInv, ReduceMake
  PROVE  MemoryInv'
  <1>1. UNCHANGED <<pc, yychar, yylval, out_program, lost>> /\ freed' = freed
    BY DEF ReduceMake, lexerVars
  <1> DEFINE made(p) == New(heap, p.act.kind, Tag(p), IF p.act.do = "recover_block" THEN <<NIL>> ELSE Dollars(p))
             value(p) == IF p.act.do = "grow" THEN AppendedList(Dollar(p, 1), Fresh(heap)) ELSE Fresh(heap)
  <1>2. PICK p \in Ready(MakesNode) :
          /\ heap' = IF p.act.do = "grow" THEN Appended(made(p), Dollar(p, 1), Fresh(heap)) ELSE made(p)
          /\ Reduced(p, value(p))
          /\ parsed_program' = IF p.act.do = "program" THEN Fresh(heap) ELSE parsed_program
    BY DEF ReduceMake
  <1> DEFINE n == depth - Len(p.rhs)
             x == value(p)
  <1>3. /\ Working /\ OnTop(stack, n, p) /\ p.act.do \in MakesNode /\ parsed_program = NIL
        /\ Owns(heap, freed, stack, TokenValue, parsed_program, out_program, lost)
        /\ Dollars(p) = Values(stack, n, p) /\ \A k : Dollar(p, k) = stack[n + k].value
    BY ReadyMemory
  <1>4. Makes(p, n, Tag(p), heap', x)
    BY <1>2, <1>3 DEF Makes
  <1>5. Reduced(p, x)
    BY <1>2
  <1> HIDE DEF x, value, made
  <1>6. PICK e : e.symbol = p.lhs /\ e.value = x /\ PushedOn(stack, n, e, stack')
    BY <1>3, <1>5, ReducedPushed
  <1> HIDE DEF n
  <1>7. parsed_program' = IF p.act.do = "program" THEN Fresh(heap) ELSE NIL
    BY <1>2, <1>3
  <1>8. Owns(heap, freed, stack, TokenValue, NIL, out_program, lost)
    BY <1>3
  <1>9. Owns(heap', freed, stack', TokenValue, parsed_program', out_program, lost)
    BY <1>3, <1>4, <1>6, <1>7, <1>8, MakesOwns
  <1>10. Owns(heap', freed', stack', TokenValue, parsed_program', out_program, lost)
    BY <1>1, <1>9
  <1>11. p.act.do # "program" => parsed_program' = parsed_program
    BY <1>2
  <1> QED BY <1>1, <1>5, <1>10, <1>11, ReducedMemory

LEMMA ReduceRecoverMemory ==
  ASSUME ParserInv, MemoryInv, ReduceRecover
  PROVE  MemoryInv'
  <1> DEFINE dos == {"recover"}
  <1>1. UNCHANGED <<pc, yychar, yylval, out_program, lost, parsed_program>> /\ heap' = heap
    BY DEF ReduceRecover, lexerVars, outcome
  <1>2. PICK p \in Ready(dos) : freed' = freed \o Owned(heap, Dollars(p)) /\ Reduced(p, NIL)
    BY DEF ReduceRecover, Free
  <1> DEFINE n == depth - Len(p.rhs)
  <1>3. /\ Working /\ OnTop(stack, n, p) /\ p.act.do \in dos
        /\ Owns(heap, freed, stack, TokenValue, parsed_program, out_program, lost)
        /\ Dollars(p) = Values(stack, n, p)
    BY ReadyMemory
  <1>4. PICK e : e.symbol = p.lhs /\ e.value = NIL /\ PushedOn(stack, n, e, stack')
    BY <1>2, <1>3, ReducedPushed
  <1>5. freed' = freed \o Owned(heap, Values(stack, n, p)) /\ p.act.do = "recover"
    BY <1>2, <1>3
  <1> HIDE DEF n, dos
  <1>6. Owns(heap, freed', stack', TokenValue, parsed_program, out_program, lost)
    BY <1>3, <1>4, <1>5, RecoverOwns
  <1>7. Owns(heap', freed', stack', TokenValue, parsed_program', out_program, lost)
    BY <1>1, <1>6
  <1> QED BY <1>1, <1>2, <1>7, ReducedMemory

LEMMA CutSequence ==
  ASSUME NEW s, IsSequence(s), NEW n \in 0 .. Len(s), NEW t, t = SubSeq(s, 1, n)
  PROVE  Cut(s, n, t)
  BY PrefixSequence DEF Cut

LEMMA ReduceFailsMemory ==
  ASSUME ParserInv, MemoryInv, ReduceFails
  PROVE  MemoryInv'
  <1>1. UNCHANGED <<yychar, yylval, out_program, parsed_program>> /\ heap' = heap /\ pc' = ABORT
    BY DEF ReduceFails, lexerVars
  <1>2. PICK p \in Ready(MakesNode) :
          /\ freed' = freed \o Owned(heap, Dollars(p)) /\ stack' = Rest(p)
          /\ lost' = IF p.act.do = "grow" THEN Dollar(p, 1) ELSE NIL
    BY DEF ReduceFails, Free
  <1> DEFINE n == depth - Len(p.rhs)
  <1>3. /\ OnTop(stack, n, p) /\ lost = NIL /\ pc = PARSING
        /\ Owns(heap, freed, stack, TokenValue, parsed_program, out_program, lost)
        /\ Dollars(p) = Values(stack, n, p) /\ \A k : Dollar(p, k) = stack[n + k].value
    BY ReadyMemory
  <1>4. Cut(stack, n, stack')
    <2>1. IsSequence(stack) /\ n \in 0 .. Len(stack)
      BY <1>3 DEF OnTop
    <2>2. stack' = SubSeq(stack, 1, n)
      BY <1>2 DEF Rest
    <2> HIDE DEF n
    <2> QED BY <2>1, <2>2, CutSequence
  <1>5. /\ freed' = freed \o Owned(heap, Values(stack, n, p))
        /\ lost' = IF p.act.do = "grow" THEN stack[n + 1].value ELSE NIL
    BY <1>2, <1>3
  <1>6. Owns(heap, freed, stack, TokenValue, parsed_program, out_program, NIL)
    BY <1>3
  <1> HIDE DEF n
  <1>7. Owns(heap, freed', stack', TokenValue, parsed_program, out_program, lost')
    BY <1>3, <1>4, <1>5, <1>6, FailsOwns
  <1>8. TokenValue' = TokenValue
    BY <1>1 DEF TokenValue
  <1>9. Phases' /\ ProgramOnce'
    BY <1>1, <1>3 DEF MemoryInv, Phases, ProgramOnce, PARSING, POPPING, ABORT, FAILED, PARSED, RETURNED
  <1> QED BY <1>1, <1>7, <1>8, <1>9 DEF MemoryInv

LEMMA AppendPushed ==
  ASSUME NEW s, IsSequence(s), NEW e, NEW t, t = Append(s, e)
  PROVE  PushedOn(s, Len(s), e, t)
  <1>1. /\ IsSequence(Append(s, e)) /\ Len(Append(s, e)) = Len(s) + 1
        /\ \A i \in 1 .. Len(s) : Append(s, e)[i] = s[i]
        /\ Append(s, e)[Len(s) + 1] = e
    BY AppendSequence
  <1> QED BY <1>1 DEF PushedOn

LEMMA ShiftMemory ==
  ASSUME ParserInv, MemoryInv, Shift
  PROVE  MemoryInv'
  <1> DEFINE e == [Lookahead EXCEPT !.state = Tables.goto[state][yychar]]
  <1>1. /\ pc = PARSING /\ Shifts(state, yychar) /\ yychar # END /\ stack' = Append(stack, e) /\ yychar' = EMPTY
        /\ heap' = heap /\ freed' = freed /\ UNCHANGED <<pc, parsed_program, out_program, lost>>
    BY DEF Shift, Asks, memory, outcome
  <1>2. e.symbol = yychar /\ e.value = yylval
    BY DEF Lookahead
  <1> HIDE DEF e
  <1>3. Destructed(e) = TokenValue /\ e.symbol \notin Tables.listed
    BY <1>2 DEF Destructed, TokenValue, MemoryInv
  <1>4. Owns(heap, freed, stack, TokenValue, parsed_program, out_program, lost)
    BY DEF MemoryInv
  <1>5. PushedOn(stack, Len(stack), e, stack')
    BY <1>1, <1>4, AppendPushed DEF Owns
  <1>6. Owns(heap, freed, stack', NIL, parsed_program, out_program, lost)
    BY <1>3, <1>4, <1>5, ShiftOwns
  <1>7. (TokenValue = NIL /\ yychar \notin Tables.listed)'
    BY <1>1, NoPointers DEF TokenValue
  <1>8. parsed_program = NIL
    BY <1>1, NoProgramYet DEF ParserInv, MemoryInv
  <1>9. Phases' /\ ProgramOnce'
    BY <1>1, <1>8 DEF MemoryInv, Phases, ProgramOnce, PARSING, FAILED, PARSED, RETURNED
  <1> QED BY <1>1, <1>6, <1>7, <1>9 DEF MemoryInv

(***************************************************************************)
(* The steps of the error recovery, and the end                            *)
(***************************************************************************)

\* What does not touch the memory
LEMMA QuietMemory ==
  ASSUME MemoryInv, Accept \/ SyntaxError \/ GiveUp
  PROVE  MemoryInv'
  <1> USE DEF PARSING, POPPING, ABORT, ACCEPT, FAILED, PARSED, RETURNED
  <1>1. /\ UNCHANGED <<heap, freed, stack, yylval, parsed_program, out_program, lost>>
        /\ yychar' = yychar \/ (yychar = END /\ yychar' = EMPTY)
    BY DEF Accept, SyntaxError, GiveUp, memory, outcome, lexerVars
  <1>2. (TokenValue' = TokenValue) /\ (yychar \notin Tables.listed)'
    BY <1>1, NoPointers DEF TokenValue, MemoryInv
  <1>3. \/ pc \in {PARSING, POPPING} /\ pc' \in {ACCEPT, ABORT}
        \/ pc = PARSING /\ pc' = POPPING
    BY DEF Accept, SyntaxError, GiveUp, IsError, Asks
  <1>4. Phases'
    BY <1>1, <1>3 DEF MemoryInv, Phases
  <1>5. ProgramOnce'
    BY <1>1, <1>3 DEF MemoryInv, ProgramOnce, depth
  <1> QED BY <1>1, <1>2, <1>4, <1>5 DEF MemoryInv

LEMMA OnePointer ==
  ASSUME NEW e
  PROVE  Pointers(<<e>>) = <<Destructed(e)>>
  <1>1. DOMAIN <<e>> = {1} /\ <<e>>[1] = e
    OBVIOUS
  <1>2. Pointers(<<e>>) = [i \in {1} |-> Destructed(e)]
    BY <1>1 DEF Pointers
  <1>3. \A v : [i \in {1} |-> v] = <<v>>
    OBVIOUS
  <1> QED BY <1>2, <1>3

LEMMA DiscardMemory ==
  ASSUME MemoryInv, Discard
  PROVE  MemoryInv'
  <1> USE DEF PARSING, POPPING, ABORT, FAILED, PARSED, RETURNED
  <1>1. /\ UNCHANGED <<heap, stack, parsed_program, out_program, lost>>
        /\ yychar' = EMPTY /\ pc = PARSING /\ pc' = POPPING
        /\ freed' = freed \o Owned(heap, Pointers(<<Lookahead>>))
    BY DEF Discard, IsError, Asks, Free, outcome
  <1>2. freed' = freed \o Owned(heap, <<TokenValue>>)
    BY <1>1, OnePointer, LookaheadValue
  <1>3. Owns(heap, freed, stack, TokenValue, parsed_program, out_program, lost)
    BY DEF MemoryInv
  <1>4. Owns(heap, freed', stack, NIL, parsed_program, out_program, lost)
    BY <1>2, <1>3, DiscardOwns
  <1>5. (TokenValue = NIL /\ yychar \notin Tables.listed)'
    BY <1>1, NoPointers DEF TokenValue
  <1>6. Phases' /\ ProgramOnce'
    BY <1>1 DEF MemoryInv, Phases, ProgramOnce, depth
  <1> QED BY <1>1, <1>4, <1>5, <1>6 DEF MemoryInv

LEMMA PopMemory ==
  ASSUME ParserInv, MemoryInv, Pop
  PROVE  MemoryInv'
  <1> USE DEF PARSING, POPPING, ABORT, FAILED, PARSED, RETURNED
  <1>1. /\ UNCHANGED <<heap, yychar, yylval, pc, parsed_program, out_program, lost>> /\ pc = POPPING /\ depth > 1
        /\ freed' = freed \o Owned(heap, Pointers(<<stack[depth]>>)) /\ stack' = SubSeq(stack, 1, depth - 1)
    BY DEF Pop, Free, outcome, lexerVars
  <1>2. PICK n \in Nat : n = depth - 1 /\ depth = n + 1 /\ Len(stack) = n + 1 /\ n \in 0 .. Len(stack)
    <2>1. Working
      BY <1>1 DEF ParserInv
    <2>2. Len(stack) = depth /\ depth \in Nat
      BY <2>1, StackLength
    <2> QED BY <1>1, <2>2
  <1>3. freed' = freed \o Owned(heap, <<Destructed(stack[n + 1])>>)
    BY <1>1, <1>2, OnePointer
  <1>4. Owns(heap, freed, stack, TokenValue, parsed_program, out_program, lost)
    BY DEF MemoryInv
  <1>5. Cut(stack, n, stack')
    BY <1>1, <1>2, <1>4, CutSequence DEF Owns
  <1>6. Owns(heap, freed', stack', TokenValue, parsed_program, out_program, lost)
    BY <1>2, <1>3, <1>4, <1>5, PopOwns
  <1>7. TokenValue' = TokenValue
    BY <1>1 DEF TokenValue
  <1>8. ProgramOnce'
    <2>1. depth' = n
      BY <1>5 DEF Cut, depth
    <2> QED BY <1>1, <1>2, <2>1 DEF MemoryInv, ProgramOnce
  <1>9. Phases'
    BY <1>1 DEF MemoryInv, Phases
  <1> QED BY <1>1, <1>6, <1>7, <1>8, <1>9 DEF MemoryInv

LEMMA ShiftErrorMemory ==
  ASSUME ParserInv, MemoryInv, ShiftError
  PROVE  MemoryInv'
  <1> USE DEF PARSING, POPPING, ABORT, FAILED, PARSED, RETURNED
  <1> DEFINE e == [state |-> Tables.goto[state]["error"], symbol |-> "error", value |-> yylval]
  <1>1. /\ UNCHANGED <<heap, freed, yychar, yylval, parsed_program, out_program, lost>>
        /\ pc = POPPING /\ pc' = PARSING /\ Shifts(state, "error") /\ stack' = Append(stack, e)
    BY DEF ShiftError, outcome, lexerVars, memory
  <1>2. Destructed(e) = NIL
    BY NoPointers DEF Destructed
  <1> HIDE DEF e
  <1>3. Owns(heap, freed, stack, TokenValue, parsed_program, out_program, lost)
    BY DEF MemoryInv
  <1>4. PushedOn(stack, Len(stack), e, stack')
    BY <1>1, <1>3, AppendPushed DEF Owns
  <1>5. Owns(heap, freed, stack', TokenValue, parsed_program, out_program, lost)
    BY <1>2, <1>3, <1>4, ShiftErrorOwns
  <1>6. parsed_program = NIL
    BY <1>1, NoProgramYet DEF ParserInv, MemoryInv
  <1>7. TokenValue' = TokenValue
    BY <1>1 DEF TokenValue
  <1>8. Phases' /\ ProgramOnce'
    BY <1>1, <1>6 DEF MemoryInv, Phases, ProgramOnce
  <1> QED BY <1>1, <1>5, <1>7, <1>8 DEF MemoryInv

LEMMA EverythingListed ==
  ASSUME NEW s, IsSequence(s), NEW e, NEW list, list = Pointers(<<e>> \o Reverse(s)),
         NEW v0, v0 = Destructed(e), v0 \in Nat, \A i \in 1 .. Len(s) : Destructed(s[i]) \in Nat
  PROVE  Everything(list, s, v0)
  <1> DEFINE S == Range(s) \cup {e}
             r == Reverse(s)
             all == <<e>> \o r
  <1>1. PICK n \in Nat : n = Len(s)
    BY AppendSequence
  <1>2. s \in Seq(S)
    <2>1. s \in Seq(Range(s))
      BY DEF IsSequence
    <2> QED BY <2>1
  <1>3. r \in Seq(S) /\ Len(r) = n /\ \A k \in 1 .. n : r[k] = s[n + 1 - k]
    <2>1. r = [k \in 1 .. n |-> s[n - k + 1]]
      BY <1>1 DEF Reverse
    <2>2. \A k \in 1 .. n : n - k + 1 \in 1 .. n /\ n - k + 1 = n + 1 - k
      OBVIOUS
    <2>3. \A k \in 1 .. n : s[k] \in S
      BY <1>1, <1>2
    <2> HIDE DEF S, r
    <2>4. r \in [1 .. n -> S]
      BY <2>1, <2>2, <2>3
    <2> QED BY <2>1, <2>2, <2>4
  <1>4. /\ Len(all) = n + 1 /\ DOMAIN all = 1 .. n + 1 /\ all[1] = e
        /\ \A k \in 2 .. n + 1 : all[k] = s[n + 2 - k]
    <2>1. <<e>> \in Seq(S) /\ Len(<<e>>) = 1 /\ <<e>>[1] = e
      OBVIOUS
    <2> HIDE DEF S, r
    <2>2. /\ all \in Seq(S) /\ Len(all) = n + 1 /\ all[1] = e
          /\ \A k \in 2 .. n + 1 : all[k] = r[k - 1]
      BY <1>3, <2>1
    <2>3. \A k \in 2 .. n + 1 : k - 1 \in 1 .. n /\ n + 1 - (k - 1) = n + 2 - k
      OBVIOUS
    <2>4. DOMAIN all = 1 .. n + 1
      BY <2>2, LenProperties
    <2> QED BY <1>3, <2>2, <2>3, <2>4
  <1>5. list = [k \in 1 .. n + 1 |-> Destructed(all[k])]
    <2>1. list = [k \in DOMAIN all |-> Destructed(all[k])]
      BY DEF Pointers
    <2> HIDE DEF all
    <2> QED BY <1>4, <2>1
  <1> HIDE DEF all, S, r
  <1>6. list[1] = v0 /\ \A k \in 2 .. n + 1 : list[k] = Destructed(s[n + 2 - k])
    BY <1>4, <1>5
  <1>7. \A k \in 2 .. n + 1 : n + 2 - k \in 1 .. n
    OBVIOUS
  <1>8. list \in [1 .. n + 1 -> Nat]
    <2>1. ASSUME NEW k \in 1 .. n + 1 PROVE list[k] \in Nat
      <3>1. k = 1 \/ k \in 2 .. n + 1
        OBVIOUS
      <3> QED BY <1>1, <1>6, <1>7, <3>1
    <2> QED BY <1>5, <2>1
  <1>9. list \in Seq(Nat) /\ Len(list) = n + 1
    BY <1>8
  <1> QED BY <1>1, <1>6, <1>9 DEF Everything

LEMMA OwnsTyped ==
  ASSUME NEW H, NEW F, NEW s, NEW v0, NEW v1, NEW v2, NEW v3, Owns(H, F, s, v0, v1, v2, v3)
  PROVE  IsSequence(s) /\ v0 \in Nat /\ \A i \in 1 .. Len(s) : Destructed(s[i]) \in Nat
  <1> DEFINE R == Pointed(s, v0, v1, v2, v3)
  <1>1. IsSequence(s) /\ Len(s) \in Nat /\ R \in [Int -> Nat]
    BY OwnsParts
  <1>2. R[0] = v0 /\ \A i \in 1 .. Len(s) : R[i] = Destructed(s[i])
    <2>1. PICK n \in Nat : n = Len(s)
      BY <1>1
    <2>2. R[0] = v0 /\ \A i \in 1 .. n : R[i] = Destructed(s[i])
      BY <2>1, PointedAtLength
    <2> QED BY <2>1, <2>2
  <1> HIDE DEF R
  <1>3. \A i \in 1 .. Len(s) : i \in Int
    BY <1>1
  <1> QED BY <1>1, <1>2, <1>3

LEMMA CleanMemory ==
  ASSUME MemoryInv, Clean
  PROVE  MemoryInv'
  <1> USE DEF PARSING, POPPING, ABORT, ACCEPT, FAILED, PARSED, RETURNED
  <1> DEFINE list == Pointers(<<Lookahead>> \o Reverse(stack))
  <1>1. /\ UNCHANGED <<heap, parsed_program, out_program, lost>>
        /\ pc \in {ACCEPT, ABORT} /\ pc' = (IF pc = ACCEPT THEN PARSED ELSE FAILED)
        /\ freed' = freed \o Owned(heap, list) /\ stack' = <<>> /\ yychar' = EMPTY
    BY DEF Clean, Free, outcome
  <1>2. Owns(heap, freed, stack, TokenValue, parsed_program, out_program, lost)
    BY DEF MemoryInv
  <1>3. IsSequence(stack) /\ TokenValue \in Nat /\ \A i \in 1 .. Len(stack) : Destructed(stack[i]) \in Nat
    BY <1>2, OwnsTyped
  <1>4. Everything(list, stack, TokenValue)
    BY <1>3, LookaheadValue, EverythingListed
  <1>5. Cut(stack, 0, stack')
    <2>1. <<>> \in Seq({}) /\ Len(<<>>) = 0 /\ 1 .. 0 = {}
      OBVIOUS
    <2>2. IsSequence(<<>>)
      BY <2>1, SequenceOf
    <2> QED BY <1>1, <2>1, <2>2 DEF Cut
  <1> HIDE DEF list
  <1>6. Owns(heap, freed', stack', NIL, parsed_program, out_program, lost)
    BY <1>1, <1>2, <1>4, <1>5, CleanOwns
  <1>7. (TokenValue = NIL /\ yychar \notin Tables.listed)'
    BY <1>1, NoPointers DEF TokenValue
  <1>8. Phases' /\ ProgramOnce'
    BY <1>1 DEF MemoryInv, Phases, ProgramOnce
  <1> QED BY <1>1, <1>6, <1>7, <1>8 DEF MemoryInv

LEMMA ReturnMemory ==
  ASSUME MemoryInv, Return
  PROVE  MemoryInv'
  <1> USE DEF PARSING, POPPING, ABORT, ACCEPT, FAILED, PARSED, RETURNED
  <1>1. /\ UNCHANGED <<heap, stack, yychar, yylval, lost>> /\ pc \in {PARSED, FAILED} /\ pc' = RETURNED
        /\ parsed_program' = NIL
        /\ \/ freed' = freed \o Owned(heap, <<parsed_program>>) /\ out_program' = NIL
           \/ freed' = freed /\ out_program' = parsed_program
    BY DEF Return, Free, lexerVars
  <1>2. out_program = NIL /\ stack = <<>> /\ yychar = EMPTY
    BY <1>1 DEF MemoryInv, Phases
  <1>3. Owns(heap, freed, stack, TokenValue, parsed_program, NIL, lost)
    BY <1>2 DEF MemoryInv
  <1>4. Owns(heap, freed', stack, TokenValue, NIL, out_program', lost)
    <2>1. CASE freed' = freed \o Owned(heap, <<parsed_program>>) /\ out_program' = NIL
      BY <1>3, <2>1, ReturnFreesOwns
    <2>2. CASE freed' = freed /\ out_program' = parsed_program
      BY <1>3, <2>2, ReturnHandsOwns
    <2> QED BY <1>1, <2>1, <2>2
  <1>5. (TokenValue' = TokenValue) /\ (yychar \notin Tables.listed)'
    BY <1>1 DEF TokenValue, MemoryInv
  <1>6. Phases' /\ ProgramOnce'
    BY <1>1, <1>2 DEF MemoryInv, Phases, ProgramOnce
  <1> QED BY <1>1, <1>4, <1>5, <1>6 DEF MemoryInv

LEMMA NextMemory == ParserInv /\ MemoryInv /\ [Next]_vars => MemoryInv'
  <1> SUFFICES ASSUME ParserInv, MemoryInv, [Next]_vars PROVE MemoryInv'
    OBVIOUS
  <1>1. CASE ScanText \/ ScanTextFails \/ ScanOther
    BY <1>1, ScanMemory
  <1>2. CASE ReduceOnly \/ ReduceAppend \/ ReduceMake \/ ReduceFails \/ ReduceRecover
    BY <1>2, ReduceOnlyMemory, ReduceAppendMemory, ReduceMakeMemory, ReduceFailsMemory, ReduceRecoverMemory
  <1>3. CASE Shift \/ Discard \/ Pop \/ ShiftError
    BY <1>3, ShiftMemory, DiscardMemory, PopMemory, ShiftErrorMemory
  <1>4. CASE Accept \/ SyntaxError \/ GiveUp
    BY <1>4, QuietMemory
  <1>5. CASE Clean \/ Return
    BY <1>5, CleanMemory, ReturnMemory
  <1>6. CASE UNCHANGED vars
    <2>1. /\ UNCHANGED <<heap, freed, stack, yychar, yylval, pc, parsed_program, out_program, lost>>
      BY <1>6 DEF vars, lexerVars, parserVars, memory, outcome
    <2> QED BY <2>1 DEF MemoryInv, TokenValue, Phases, ProgramOnce, depth
  <1> QED BY <1>1, <1>2, <1>3, <1>4, <1>5, <1>6 DEF Next, Step

\* At every step of the parser the blocks that are not freed are trees, one for each pointer that
\* the parser has: those on its stack with a destructor, the text of its token, the program, what
\* it hands on, and the list that is left behind.
THEOREM MemoryInvariant == Spec => []MemoryInv
  BY Invariant, InitMemory, NextMemory, PTL DEF Spec

(***************************************************************************)
(* What the invariant says                                                 *)
(***************************************************************************)

\* All references, as the trees have them
References(H, L, R) ==
  {l \in ({0} \X Int) \cup UNION {{a} \X Slots(H, a) : a \in L} :
     (IF l[1] = 0 THEN R[l[2]] ELSE Slot(H, l[1], l[2])) # NIL}
Target(H, R, l) == IF l[1] = 0 THEN R[l[2]] ELSE Slot(H, l[1], l[2])

LEMMA ReferenceTyped ==
  ASSUME NEW H, NEW L, NEW R, Typed(H, L, R), NEW l \in References(H, L, R)
  PROVE  /\ l = <<l[1], l[2]>> /\ Target(H, R, l) # NIL
         /\ l[1] = 0 => l[2] \in Int
         /\ l[1] # 0 => l[1] \in L /\ l[2] \in Slots(H, l[1])
  <1>1. Target(H, R, l) # NIL
    BY DEF References, Target
  <1>2. CASE l \in {0} \X Int
    BY <1>1, <1>2
  <1>3. CASE l \notin {0} \X Int
    <2>1. PICK a \in L : l \in {a} \X Slots(H, a)
      BY <1>3 DEF References
    <2>2. a # 0
      BY SlotsTyped DEF Typed
    <2> QED BY <1>1, <2>1, <2>2
  <1> QED BY <1>2, <1>3

\* Every block has one, and every reference is to a block.
LEMMA ReferencesOfTrees ==
  ASSUME NEW H, NEW L, NEW R, NEW T, Trees(H, L, R, T)
  PROVE  /\ IsFiniteSet(L) /\ Cardinality(References(H, L, R)) = Cardinality(L)
         /\ {Target(H, R, l) : l \in References(H, L, R)} = L
  <1> DEFINE refs == References(H, L, R)
             target(l) == Target(H, R, l)
  <1>1. Typed(H, L, R)
    BY DEF Trees
  <1>2. PICK block, slot, tree, rank : TreesBy(H, L, R, T, block, slot, tree, rank)
    BY DEF Trees
  <1>3. Owners(H, L, R, block, slot) /\ block \in [Nat -> Nat] /\ slot \in [Nat -> Int]
    BY <1>2 DEF TreesBy, Witness
  <1> DEFINE f == [x \in L |-> <<block[x], slot[x]>>]
  <1>4. \A x \in L : x \in Nat /\ x # NIL /\ slot[x] \in Int
    BY <1>1, <1>3, SlotsTyped DEF Typed, NIL
  <1>5. ASSUME NEW x \in L PROVE f[x] \in refs /\ target(f[x]) = x
    <2>1. f[x] = <<block[x], slot[x]>> /\ f[x][1] = block[x] /\ f[x][2] = slot[x]
      OBVIOUS
    <2> HIDE DEF f
    <2>2. CASE block[x] = 0
      <3>1. R[slot[x]] = x
        BY <1>3, <2>2 DEF Owners
      <3>2. target(f[x]) = x
        BY <2>1, <2>2, <3>1 DEF Target
      <3>3. f[x] \in {0} \X Int
        BY <1>4, <2>1, <2>2
      <3> QED BY <1>4, <3>2, <3>3 DEF References, Target
    <2>3. CASE block[x] # 0
      <3>1. block[x] \in L /\ slot[x] \in Slots(H, block[x]) /\ Slot(H, block[x], slot[x]) = x
        BY <1>3, <2>3 DEF Owners
      <3>2. target(f[x]) = x
        BY <2>1, <2>3, <3>1 DEF Target
      <3>3. f[x] \in {block[x]} \X Slots(H, block[x])
        BY <2>1, <3>1
      <3> QED BY <1>4, <3>1, <3>2, <3>3 DEF References, Target
    <2> QED BY <2>2, <2>3
  <1>6. ASSUME NEW l \in refs PROVE target(l) \in L /\ f[target(l)] = l
    <2>1. /\ l = <<l[1], l[2]>> /\ target(l) # NIL
          /\ l[1] = 0 => l[2] \in Int
          /\ l[1] # 0 => l[1] \in L /\ l[2] \in Slots(H, l[1])
      BY <1>1, ReferenceTyped
    <2>2. target(l) \in L /\ block[target(l)] = l[1] /\ slot[target(l)] = l[2]
      <3>1. CASE l[1] = 0
        <4>1. target(l) = R[l[2]]
          BY <3>1 DEF Target
        <4> HIDE DEF target
        <4> QED BY <1>3, <2>1, <3>1, <4>1 DEF Owners
      <3>2. CASE l[1] # 0
        <4>1. target(l) = Slot(H, l[1], l[2])
          BY <3>2 DEF Target
        <4> HIDE DEF target
        <4> QED BY <1>3, <2>1, <3>2, <4>1 DEF Owners
      <3> QED BY <3>1, <3>2
    <2> HIDE DEF target, refs
    <2> QED BY <2>1, <2>2
  <1> HIDE DEF refs, target
  <1>7. f \in [L -> refs]
    <2>1. f = [x \in L |-> f[x]]
      OBVIOUS
    <2> HIDE DEF f
    <2> QED BY <1>5, <2>1
  <1> HIDE DEF f
  <1>8. ExistsBijection(L, refs)
    <2>1. \A x, y \in L : f[x] = f[y] => x = y
      BY <1>5
    <2>2. \A l \in refs : \E x \in L : f[x] = l
      BY <1>6
    <2>3. IsInjective(f)
      BY <1>7, <2>1 DEF IsInjective
    <2> QED BY <1>7, <2>2, <2>3 DEF ExistsBijection, Bijection, Injection, Surjection
  <1>9. IsFiniteSet(L)
    <2>1. IsFiniteSet(1 .. Len(H)) /\ L \subseteq 1 .. Len(H)
      BY <1>1, HeapLength, FS_Interval DEF Typed
    <2> QED BY <2>1, FS_Subset
  <1>10. Cardinality(refs) = Cardinality(L)
    BY <1>8, <1>9, FS_Bijection
  <1>11. {target(l) : l \in refs} = L
    BY <1>5, <1>6
  <1> QED BY <1>9, <1>10, <1>11 DEF refs, target

\* Trees to which nothing points are none: there is no block of the least rank.
LEMMA NoTrees ==
  ASSUME NEW H, NEW L, NEW R, NEW T, Trees(H, L, R, T), \A i \in Int : R[i] = NIL
  PROVE  L = {}
  <1>1. PICK block, slot, tree, rank : TreesBy(H, L, R, T, block, slot, tree, rank)
    BY DEF Trees
  <1>2. /\ Owners(H, L, R, block, slot) /\ Ordered(L, block, tree, rank)
        /\ slot \in [Nat -> Int] /\ rank \in [Nat -> Nat]
    BY <1>1 DEF TreesBy, Witness
  <1>3. \A x \in L : x \in Nat /\ x # NIL /\ slot[x] \in Int /\ rank[x] \in Nat
    BY <1>2, SlotsTyped DEF Trees, Typed, NIL
  <1> SUFFICES ASSUME L # {} PROVE FALSE
    OBVIOUS
  <1> DEFINE ranks == {rank[x] : x \in L}
  <1>4. ranks \in SUBSET Nat /\ ranks # {}
    BY <1>3
  <1>5. PICK m \in ranks : \A r \in ranks : m <= r
    BY <1>4, LeastElement
  <1>6. PICK x \in L : rank[x] = m
    BY <1>5
  <1>7. block[x] # 0
    BY <1>2, <1>3 DEF Owners
  <1>8. block[x] \in L /\ rank[block[x]] < rank[x]
    BY <1>2, <1>7 DEF Owners, Ordered
  <1>9. m <= rank[block[x]]
    BY <1>5, <1>8
  <1> QED BY <1>3, <1>6, <1>8, <1>9

LEMMA MemoryTrees ==
  ASSUME MemoryInv, NEW R, R = Pointed(stack, TokenValue, parsed_program, out_program, lost)
  PROVE  /\ FreedOnce(heap, freed) /\ Trees(heap, Live, R, ListsOf(stack)) /\ IsHeap(heap)
         /\ depth \in Nat
         /\ \A i \in Root : R[i] = Rooted(i)
         /\ \A i \in Int : i \notin Root => R[i] = NIL
  <1>1. Owns(heap, freed, stack, TokenValue, parsed_program, out_program, lost)
    BY DEF MemoryInv
  <1>2. /\ IsHeap(heap) /\ FreedOnce(heap, freed) /\ Trees(heap, Blocks(heap, freed), R, ListsOf(stack))
        /\ Len(stack) \in Nat
    BY <1>1, OwnsParts
  <1>3. Blocks(heap, freed) = Live
    BY <1>2, HeapLength DEF Blocks, Live
  <1>4. PICK n \in Nat : Len(stack) = n
    BY <1>2
  <1>5. /\ R[0] = TokenValue /\ R[-1] = parsed_program /\ R[-2] = out_program /\ R[-3] = lost
        /\ \A i \in 1 .. n : R[i] = Destructed(stack[i])
        /\ \A i \in Int : i < -3 \/ i > n => R[i] = NIL
    BY <1>4, PointedAtLength
  <1>6. depth = n /\ Root = -3 .. n
    BY <1>4 DEF depth, Root
  <1>7. ASSUME NEW i \in Root PROVE R[i] = Rooted(i)
    <2>1. \/ i \in 1 .. n /\ i > 0
          \/ i = 0
          \/ i = -1
          \/ i = -2
          \/ i = -3
      BY <1>6
    <2>2. CASE i \in 1 .. n /\ i > 0
      BY <1>5, <2>2 DEF Rooted
    <2>3. CASE i = 0
      BY <1>5, <2>3, LookaheadValue DEF Rooted
    <2>4. CASE i = -1
      BY <1>5, <2>4 DEF Rooted
    <2>5. CASE i = -2
      BY <1>5, <2>5 DEF Rooted
    <2>6. CASE i = -3
      BY <1>5, <2>6 DEF Rooted
    <2> QED BY <2>1, <2>2, <2>3, <2>4, <2>5, <2>6
  <1>8. ASSUME NEW i \in Int, i \notin Root PROVE R[i] = NIL
    <2>1. i < -3 \/ i > n
      BY <1>6, <1>8
    <2> QED BY <1>5, <2>1
  <1> QED BY <1>2, <1>3, <1>6, <1>7, <1>8

LEMMA MemoryReferences ==
  ASSUME MemoryInv, NEW R, R = Pointed(stack, TokenValue, parsed_program, out_program, lost)
  PROVE  /\ Reference = References(heap, Live, R)
         /\ \A l \in Reference : PointsTo(l) = Target(heap, R, l)
  <1>1. /\ Trees(heap, Live, R, ListsOf(stack)) /\ IsHeap(heap) /\ depth \in Nat
        /\ \A i \in Root : R[i] = Rooted(i)
        /\ \A i \in Int : i \notin Root => R[i] = NIL
    BY MemoryTrees
  <1>2. \A a \in Live : a \in Nat \ {0} /\ Slots(heap, a) = 0 .. Len(heap[a].kids)
    BY <1>1, SlotsTyped DEF Trees, Typed, Slots
  <1>3. Root \subseteq Int
    BY <1>1 DEF Root
  <1> DEFINE blocks == UNION {{a} \X Slots(heap, a) : a \in Live}
  <1>4. Location = ({0} \X Root) \cup blocks
    <2>1. \A a \in Live : {a} \X (0 .. Len(heap[a].kids)) = {a} \X Slots(heap, a)
      BY <1>2
    <2>2. UNION {{a} \X (0 .. Len(heap[a].kids)) : a \in Live} = blocks
      BY <2>1
    <2> HIDE DEF blocks
    <2> QED BY <2>2 DEF Location
  <1>5. ASSUME NEW l \in blocks
        PROVE  l[1] # 0 /\ PointsTo(l) = Slot(heap, l[1], l[2]) /\ Target(heap, R, l) = Slot(heap, l[1], l[2])
    <2>1. PICK a \in Live : l \in {a} \X Slots(heap, a)
      OBVIOUS
    <2>2. l[1] = a /\ a # 0
      BY <1>2, <2>1
    <2> HIDE DEF blocks
    <2> QED BY <2>2 DEF PointsTo, Target, Slot
  <1> HIDE DEF blocks
  <1>6. ASSUME NEW l \in {0} \X Int
        PROVE  /\ l[1] = 0 /\ l[2] \in Int /\ l = <<0, l[2]>> /\ Target(heap, R, l) = R[l[2]]
               /\ PointsTo(l) = Rooted(l[2])
    BY DEF PointsTo, Target
  <1>7. \A l \in Location : PointsTo(l) = Target(heap, R, l)
    <2> SUFFICES ASSUME NEW l \in Location PROVE PointsTo(l) = Target(heap, R, l)
      OBVIOUS
    <2>1. CASE l \in blocks
      BY <1>5, <2>1
    <2>2. CASE l \in {0} \X Root
      <3>1. l \in {0} \X Int /\ l[2] \in Root
        BY <1>3, <2>2
      <3> QED BY <1>1, <1>6, <3>1
    <2> QED BY <1>4, <2>1, <2>2
  <1>8. References(heap, Live, R) = {l \in ({0} \X Int) \cup blocks : Target(heap, R, l) # NIL}
    BY DEF References, Target, blocks
  <1>9. ASSUME NEW l \in {0} \X Int, Target(heap, R, l) # NIL PROVE l \in {0} \X Root
    <2>1. l[2] \in Root
      BY <1>1, <1>6, <1>9
    <2> QED BY <1>6, <2>1
  <1>10. Reference = References(heap, Live, R)
    <2>1. \A l : l \in Reference <=> l \in Location /\ Target(heap, R, l) # NIL
      BY <1>7 DEF Reference
    <2>2. \A l : l \in Location => l \in ({0} \X Int) \cup blocks
      BY <1>3, <1>4
    <2>3. \A l \in ({0} \X Int) \cup blocks : Target(heap, R, l) # NIL => l \in Location
      BY <1>4, <1>9
    <2> QED BY <1>8, <2>1, <2>2, <2>3
  <1> QED BY <1>7, <1>10 DEF Reference

\* Every block that is not freed has exactly one owner, and what points to one points to one
\* that is not freed; none is freed twice.  For any grammar whose actions use each pointer once,
\* in whatever order tokens, errors and failing allocations come.
THEOREM EachOwnedOnce == Spec => []OwnedOnce
  <1>1. MemoryInv => OwnedOnce
    <2> SUFFICES ASSUME MemoryInv PROVE OwnedOnce
      OBVIOUS
    <2> DEFINE R == Pointed(stack, TokenValue, parsed_program, out_program, lost)
    <2>1. FreedOnce(heap, freed) /\ Trees(heap, Live, R, ListsOf(stack))
      BY MemoryTrees
    <2>2. Reference = References(heap, Live, R) /\ \A l \in Reference : PointsTo(l) = Target(heap, R, l)
      BY MemoryReferences
    <2> HIDE DEF R
    <2>3. /\ Cardinality(References(heap, Live, R)) = Cardinality(Live)
          /\ {Target(heap, R, l) : l \in References(heap, Live, R)} = Live
      BY <2>1, ReferencesOfTrees
    <2>4. {PointsTo(l) : l \in Reference} = {Target(heap, R, l) : l \in Reference}
      BY <2>2
    <2>5. Cardinality(Range(freed)) = Len(freed)
      BY <2>1 DEF FreedOnce
    <2> QED BY <2>2, <2>3, <2>4, <2>5 DEF OwnedOnce
  <1> QED BY <1>1, MemoryInvariant, PTL

\* When parser_parse hands on no program, everything that malloc and calloc ever gave out was
\* freed, but for a list that an action left behind: no block is out of reach of the destructors,
\* and so none is leaked.
THEOREM AllFreed == Spec => []NothingForgotten
  <1>1. MemoryInv => NothingForgotten
    <2> SUFFICES ASSUME MemoryInv, pc = RETURNED, out_program = NIL, lost = NIL PROVE Live = {}
      BY DEF NothingForgotten
    <2> DEFINE R == Pointed(stack, TokenValue, parsed_program, out_program, lost)
    <2>1. parsed_program = NIL /\ stack = <<>> /\ yychar = EMPTY
      BY DEF MemoryInv, Phases, RETURNED
    <2>2. TokenValue = NIL
      BY <2>1, NoText
    <2>3. Trees(heap, Live, R, ListsOf(stack))
      BY MemoryTrees
    <2>4. \A i \in Int : R[i] = NIL
      <3>1. PICK n \in Nat : n = 0
        OBVIOUS
      <3>2. Len(stack) = n /\ 1 .. n = {}
        BY <2>1, <3>1
      <3>3. /\ R[0] = NIL /\ R[-1] = NIL /\ R[-2] = NIL /\ R[-3] = NIL
            /\ \A i \in Int : i < -3 \/ i > n => R[i] = NIL
        BY <2>1, <2>2, <3>2, PointedAtLength
      <3> HIDE DEF R
      <3> SUFFICES ASSUME NEW i \in Int PROVE R[i] = NIL
        OBVIOUS
      <3>4. i < -3 \/ i = -3 \/ i = -2 \/ i = -1 \/ i = 0 \/ i > n
        BY <3>1
      <3> QED BY <3>3, <3>4
    <2> HIDE DEF R
    <2> QED BY <2>3, <2>4, NoTrees
  <1> QED BY <1>1, MemoryInvariant, PTL
=============================================================================
