-------------------------- MODULE ParamFormProofs --------------------------
EXTENDS ParamForm, FiniteSetTheorems, WellFoundedInduction, TLAPS

-----------------------------------------------------------------------------
(* Numbers.                                                                *)

(* A set of numbers has a least element.                                   *)
LEMMA LeastOf ==
  ASSUME NEW T \in SUBSET Nat, T # {}
  PROVE  \E x \in T : \A y \in T : x <= y
<1>1. IsWellFoundedOn(OpToRel(<, Nat), Nat)
  BY NatLessThanWellFounded
<1> DEFINE R == OpToRel(<, Nat)
<1>2. \A x, y \in Nat : x < y => <<x, y>> \in R
  BY DEF OpToRel
<1> HIDE DEF R
<1>3. IsWellFoundedOn(R, Nat)
  BY <1>1 DEF R
<1>4. PICK x \in T : \A y \in T : ~(<<y, x>> \in R)
  BY <1>3, WFMin
<1>5. \A y \in T : ~(y < x)
  BY <1>2, <1>4
<1> QED BY <1>4, <1>5

(* What holds of 0 and passes from each number to the next holds of all.   *)
LEMMA NoLeastCounterexample ==
  ASSUME NEW S \in SUBSET Nat, 0 \in S, \A i \in Nat : i \in S => i + 1 \in S
  PROVE  S = Nat
<1> SUFFICES ASSUME Nat \ S # {} PROVE FALSE
  OBVIOUS
<1>1. Nat \ S \in SUBSET Nat
  OBVIOUS
<1>2. PICK x \in Nat \ S : \A y \in Nat \ S : x <= y
  BY <1>1, LeastOf
<1>3. x # 0 /\ x - 1 \in Nat /\ (x - 1) + 1 = x
  BY <1>2
<1>4. x - 1 \in S
  BY <1>2, <1>3
<1> QED BY <1>2, <1>3, <1>4

(* The tab that the effect falls back to is one of the tabs.               *)
LEMMA FirstCodeIn ==
  ASSUME NEW codes \in SUBSET Codes, codes # {}
  PROVE  FirstCode(codes) \in codes
<1>1. \A c \in codes : c.num \in Nat /\ c.spelling \in Nat
  BY FormAssumption
<1> DEFINE N == {c.num : c \in codes}
<1>2. N \in SUBSET Nat /\ N # {}
  BY <1>1
<1>3. PICK n \in N : \A m \in N : n <= m
  BY <1>2, LeastOf
<1> DEFINE Z == {c.spelling : c \in {d \in codes : d.num = n}}
<1>4. Z \in SUBSET Nat /\ Z # {}
  BY <1>1, <1>3
<1>5. PICK z \in Z : \A y \in Z : z <= y
  BY <1>4, LeastOf
<1>6. PICK c \in codes : c.num = n /\ c.spelling = z
  BY <1>5
<1>7. \A d \in codes : c.num < d.num \/ (c.num = d.num /\ c.spelling <= d.spelling)
  <2> SUFFICES ASSUME NEW d \in codes, ~(c.num < d.num)
               PROVE  c.num = d.num /\ c.spelling <= d.spelling
    OBVIOUS
  <2>1. d.num \in N
    OBVIOUS
  <2>2. d.num = n
    BY <1>1, <1>2, <1>3, <1>6, <2>1
  <2>3. d.spelling \in Z
    BY <2>2
  <2> QED BY <1>5, <1>6, <2>2, <2>3
<1> QED BY <1>6, <1>7 DEF FirstCode

(* New rows get ids of their own, whichever order they are read in.        *)
LEMMA SerialFacts ==
  ASSUME NEW ids \in SUBSET Nat, IsFiniteSet(ids), NEW order \in ReadOrders,
         NEW i \in ids
  PROVE  /\ Serial(ids, i, order) \in Nat \ {0}
         /\ \A j \in ids : Serial(ids, i, order) = Serial(ids, j, order)
                             => i = j
<1> DEFINE Part(j) ==
      {k \in ids : IF order = "ascending" THEN k <= j ELSE k >= j}
<1>0. \A j : Serial(ids, j, order) = Cardinality(Part(j))
  BY DEF Serial
<1>1. \A j : Part(j) \in SUBSET ids
  OBVIOUS
<1>2. \A j \in ids : j \in Nat /\ j \in Part(j)
  <2>1. \A j \in ids : j \in Nat /\ j <= j /\ j >= j
    OBVIOUS
  <2> QED BY <2>1
<1>a. \A j, k \in ids : k \in Part(j) <=>
        IF order = "ascending" THEN k <= j ELSE k >= j
  OBVIOUS
<1> HIDE DEF Part
<1>3. \A j \in ids : \A k \in Part(j) : Part(k) \subseteq Part(j)
  <2> SUFFICES ASSUME NEW j \in ids, NEW k \in Part(j), NEW m \in Part(k)
               PROVE  m \in Part(j)
    OBVIOUS
  <2>1. k \in ids /\ m \in ids
    BY <1>1
  <2>2. j \in Nat /\ k \in Nat /\ m \in Nat
    BY <2>1
  <2> QED BY <1>a, <2>1, <2>2
<1>4. \A j, k \in ids : j \in Part(k) /\ k \in Part(j) => j = k
  <2> SUFFICES ASSUME NEW j \in ids, NEW k \in ids, j \in Part(k), k \in Part(j)
               PROVE  j = k
    OBVIOUS
  <2>1. j \in Nat /\ k \in Nat
    OBVIOUS
  <2> QED BY <1>a, <2>1
<1>5. \A j, k \in ids : j \in Part(k) \/ k \in Part(j)
  <2> SUFFICES ASSUME NEW j \in ids, NEW k \in ids
               PROVE  j \in Part(k) \/ k \in Part(j)
    OBVIOUS
  <2>1. j \in Nat /\ k \in Nat
    OBVIOUS
  <2> QED BY <1>a, <2>1
<1>6. \A j : IsFiniteSet(Part(j)) /\ Cardinality(Part(j)) \in Nat
  BY <1>1, FS_Subset, FS_CardinalityType
<1>7. \A j, k \in ids : k \in Part(j) /\ Cardinality(Part(j)) = Cardinality(Part(k))
        => j = k
  <2> SUFFICES ASSUME NEW j \in ids, NEW k \in ids, k \in Part(j),
                      Cardinality(Part(j)) = Cardinality(Part(k))
               PROVE  j = k
    OBVIOUS
  <2>1. Part(k) \in SUBSET Part(j)
    BY <1>3
  <2>2. Part(j) = Part(k)
    BY <1>6, <2>1, FS_Subset
  <2> QED BY <1>2, <1>4, <2>2
<1>8. Cardinality(Part(i)) # 0
  BY <1>2, <1>6, FS_EmptySet
<1> QED BY <1>0, <1>5, <1>6, <1>7, <1>8

-----------------------------------------------------------------------------
(* Places.                                                                 *)

LEMMA UptoFacts ==
  ASSUME NEW S, NEW p \in Seq(S), NEW i \in 0 .. Len(p)
  PROVE  /\ Upto(p, i) \in Seq(S) /\ Len(Upto(p, i)) = i
         /\ \A j \in 1 .. i : Upto(p, i)[j] = p[j]
         /\ \A j \in 0 .. i : Upto(Upto(p, i), j) = Upto(p, j)
<1>1. \A j \in 1 .. i : p[j] \in S
  OBVIOUS
<1>2. Upto(p, i) \in [1 .. i -> S]
  BY <1>1 DEF Upto
<1>3. Upto(p, i) \in Seq(S) /\ Len(Upto(p, i)) = i
  BY <1>2
<1>4. \A j \in 1 .. i : Upto(p, i)[j] = p[j]
  BY DEF Upto
<1>5. \A j \in 0 .. i : Upto(Upto(p, i), j) = Upto(p, j)
  BY <1>4 DEF Upto
<1> QED BY <1>3, <1>4, <1>5

LEMMA UptoAll ==
  ASSUME NEW S, NEW p \in Seq(S)
  PROVE  Upto(p, Len(p)) = p
BY DEF Upto

(* Two places of one length that agree everywhere are the same.            *)
LEMMA SamePlace ==
  ASSUME NEW S, NEW T, NEW p \in Seq(S), NEW q \in Seq(T), Len(p) = Len(q),
         \A i \in 1 .. Len(p) : p[i] = q[i]
  PROVE  p = q
<1>1. p = [i \in 1 .. Len(p) |-> p[i]]
  OBVIOUS
<1>2. q = [i \in 1 .. Len(q) |-> q[i]]
  OBVIOUS
<1> QED BY <1>1, <1>2

-----------------------------------------------------------------------------
(* Rows and what they were saved from.                                     *)

(* What a form holds is closed under the parameters around a parameter,    *)
(* and those take children.                                                *)
HeldOK(held, keys) ==
  \A n \in DOMAIN held :
    /\ n = <<n[1], n[2]>>
    /\ n[2] \in Seq(Nat) /\ Len(n[2]) \in 1 .. Depth
    /\ held[n].key \in keys
    /\ \A o \in Over(n) : /\ o \in DOMAIN held
                         /\ TakesChildren(held[o])
                         /\ held[o].key = held[n].key

IdsOK(rows) ==
  /\ IsFiniteSet(rows)
  /\ \A r \in rows : r.id \in Nat \ {0}
  /\ \A r, q \in rows : r.id = q.id => r = q

Kept(rows, held, keys) ==
  IdsOK(rows) /\ RowsHold(rows, held) /\ HeldOK(held, keys)

At(n, i) == <<n[1], Upto(n[2], i)>>

(* The parameters around a parameter, one for each shorter place.          *)
LEMMA AtFacts ==
  ASSUME NEW n, n = <<n[1], n[2]>>, n[2] \in Seq(Nat), Len(n[2]) >= 1
  PROVE  /\ At(n, Len(n[2])) = n
         /\ \A i \in 1 .. Len(n[2]) - 1 : At(n, i) \in Over(n)
         /\ \A o \in Over(n) : \E i \in 1 .. Len(n[2]) - 1 : o = At(n, i)
         /\ \A i \in 1 .. Len(n[2]) :
              /\ At(n, i)[1] = n[1] /\ At(n, i)[2] = Upto(n[2], i)
              /\ At(n, i)[2] \in Seq(Nat) /\ Len(At(n, i)[2]) = i
              /\ Above(At(n, i)) = At(n, i - 1)
              /\ \A j \in 1 .. i : At(At(n, i), j) = At(n, j)
<1>1. At(n, Len(n[2])) = n
  BY UptoAll DEF At
<1>2. \A i \in 1 .. Len(n[2]) - 1 : At(n, i) \in Over(n)
  BY DEF At, Over
<1>3. \A o \in Over(n) : \E i \in 1 .. Len(n[2]) - 1 : o = At(n, i)
  BY DEF At, Over
<1>4. ASSUME NEW i \in 1 .. Len(n[2])
      PROVE  /\ At(n, i)[1] = n[1] /\ At(n, i)[2] = Upto(n[2], i)
             /\ At(n, i)[2] \in Seq(Nat) /\ Len(At(n, i)[2]) = i
             /\ Above(At(n, i)) = At(n, i - 1)
             /\ \A j \in 1 .. i : At(At(n, i), j) = At(n, j)
  <2>1. Len(n[2]) \in Nat /\ i \in 0 .. Len(n[2]) /\ i - 1 \in 0 .. i
    OBVIOUS
  <2>2. /\ Upto(n[2], i) \in Seq(Nat) /\ Len(Upto(n[2], i)) = i
        /\ \A j \in 0 .. i : Upto(Upto(n[2], i), j) = Upto(n[2], j)
    BY <2>1, UptoFacts
  <2>3. At(n, i)[1] = n[1] /\ At(n, i)[2] = Upto(n[2], i)
    BY DEF At
  <2>4. Above(At(n, i)) = At(n, i - 1)
    BY <2>1, <2>2, <2>3 DEF Above, At
  <2>5. \A j \in 1 .. i : At(At(n, i), j) = At(n, j)
    BY <2>2 DEF At
  <2> QED BY <2>2, <2>3, <2>4, <2>5
<1> QED BY <1>1, <1>2, <1>3, <1>4

(* An id finds its row.                                                    *)
LEMMA RowWithId ==
  ASSUME NEW rows, IdsOK(rows), NEW r \in rows
  PROVE  RowWith(rows, r.id) = r
BY DEF IdsOK, RowWith

(* Each parameter held has one row; the row around it is its parent.       *)
LEMMA RowAt ==
  ASSUME NEW rows, NEW held, NEW keys, Kept(rows, held, keys),
         NEW n \in DOMAIN held
  PROVE  \E r \in rows : r.from = n /\ r.data = held[n]
BY DEF Kept, RowsHold

LEMMA ParentAt ==
  ASSUME NEW rows, NEW held, NEW keys, Kept(rows, held, keys),
         NEW r \in rows
  PROVE  /\ r.from \in DOMAIN held
         /\ r.from = <<r.from[1], r.from[2]>>
         /\ r.from[2] \in Seq(Nat) /\ Len(r.from[2]) \in 1 .. Depth
         /\ r.parent = NoParent => Len(r.from[2]) = 1
         /\ Len(r.from[2]) = 1 => r.parent = NoParent
         /\ \A q \in rows : r.parent = q.id =>
              Len(r.from[2]) > 1 /\ q.from = At(r.from, Len(r.from[2]) - 1)
         /\ \A q \in rows : Len(r.from[2]) > 1
                            /\ q.from = At(r.from, Len(r.from[2]) - 1)
              => r.parent = q.id
<1>1. r.from \in DOMAIN held
  BY DEF Kept, RowsHold
<1>2. /\ r.from = <<r.from[1], r.from[2]>>
      /\ r.from[2] \in Seq(Nat) /\ Len(r.from[2]) \in 1 .. Depth
  BY <1>1 DEF Kept, HeldOK
<1>3. Depth \in Nat
  BY FormAssumption
<1>4. Above(r.from) = At(r.from, Len(r.from[2]) - 1)
  BY DEF Above, At
<1>5. \A q \in rows : q.id # 0
  BY DEF Kept, IdsOK
<1>6. Len(r.from[2]) = 1 => r.parent = NoParent
  BY DEF Kept, RowsHold, IsRoot
<1>7. Len(r.from[2]) # 1 =>
        \E q \in rows : q.id = r.parent /\ q.from = At(r.from, Len(r.from[2]) - 1)
  BY <1>4 DEF Kept, RowsHold, IsRoot
<1>8. \A q, u \in rows : (q.id = u.id => q = u) /\ (q.from = u.from => q = u)
  BY DEF Kept, IdsOK, RowsHold
<1>9. r.parent = NoParent => Len(r.from[2]) = 1
  BY <1>5, <1>7 DEF NoParent
<1>10. Len(r.from[2]) # 1 => Len(r.from[2]) > 1
  <2>1. PICK x : x = Len(r.from[2])
    OBVIOUS
  <2>2. x \in 1 .. Depth
    BY <1>2, <2>1
  <2>3. x # 1 => x > 1
    BY <1>3, <2>2
  <2> QED BY <2>1, <2>3
<1> HIDE DEF At
<1>11. ASSUME NEW q \in rows, r.parent = q.id
       PROVE  Len(r.from[2]) > 1 /\ q.from = At(r.from, Len(r.from[2]) - 1)
  BY <1>5, <1>6, <1>7, <1>8, <1>10, <1>11 DEF NoParent
<1>12. ASSUME NEW q \in rows, Len(r.from[2]) > 1,
              q.from = At(r.from, Len(r.from[2]) - 1)
       PROVE  r.parent = q.id
  <2>1. PICK u \in rows :
          u.id = r.parent /\ u.from = At(r.from, Len(r.from[2]) - 1)
    BY <1>2, <1>7, <1>12
  <2> QED BY <1>8, <1>12, <2>1
<1> QED BY <1>1, <1>2, <1>6, <1>9, <1>11, <1>12

(* A row is reached from a root.                                           *)
LEMMA ChainTo ==
  ASSUME NEW rows, NEW held, NEW keys, Kept(rows, held, keys),
         NEW r \in rows
  PROVE  \E c \in Chains(rows) :
           /\ Len(c) = Len(r.from[2]) /\ c[Len(c)] = r.id
           /\ EndOf(rows, c) = r
<1> DEFINE n == r.from
           m == Len(n[2])
           row == [i \in 1 .. m |-> CHOOSE q \in rows : q.from = At(n, i)]
           c == [i \in 1 .. m |-> row[i].id]
<1>0. Depth \in Nat
  BY FormAssumption
<1>1. /\ n \in DOMAIN held /\ n = <<n[1], n[2]>>
      /\ n[2] \in Seq(Nat) /\ m \in 1 .. Depth /\ m \in Nat
  BY <1>0, ParentAt
<1>2. /\ At(n, m) = n
      /\ \A i \in 1 .. m - 1 : At(n, i) \in Over(n)
      /\ \A i \in 1 .. m :
           /\ Len(At(n, i)[2]) = i
           /\ \A j \in 1 .. i : At(At(n, i), j) = At(n, j)
  <2>1. m >= 1
    BY <1>0, <1>1
  <2> HIDE DEF n
  <2> QED BY <1>1, <2>1, AtFacts
<1>3. \A i \in 1 .. m : At(n, i) \in DOMAIN held
  <2>1. \A o \in Over(n) : o \in DOMAIN held
    BY <1>1 DEF Kept, HeldOK
  <2> QED BY <1>1, <1>2, <2>1
<1>4. \A i \in 1 .. m : row[i] \in rows /\ row[i].from = At(n, i)
  <2> SUFFICES ASSUME NEW i \in 1 .. m
               PROVE  row[i] \in rows /\ row[i].from = At(n, i)
    OBVIOUS
  <2>1. \E q \in rows : q.from = At(n, i)
    BY <1>3, RowAt
  <2>2. row[i] = CHOOSE q \in rows : q.from = At(n, i)
    OBVIOUS
  <2> HIDE DEF row
  <2> QED BY <2>1, <2>2
<1>5. c \in [1 .. m -> {q.id : q \in rows}]
  BY <1>4
<1>6. c \in Seq({q.id : q \in rows}) /\ Len(c) = m
  <2> HIDE DEF c, m, n
  <2> QED BY <1>1, <1>5
<1>7. \A i \in 1 .. m : c[i] = row[i].id
  OBVIOUS
<1> HIDE DEF row, c
<1>8. IdsOK(rows)
  BY DEF Kept
<1>9. \A i \in 1 .. m : RowWith(rows, c[i]) = row[i]
  BY <1>4, <1>7, <1>8, RowWithId
<1>10. row[m] = r
  <2>1. row[m] \in rows /\ row[m].from = r.from
    BY <1>1, <1>2, <1>4
  <2> QED BY <2>1 DEF Kept, RowsHold
<1>11. row[1].parent = NoParent
  <2>0. 1 \in 1 .. m
    BY <1>0, <1>1
  <2>1. row[1] \in rows /\ Len(row[1].from[2]) = 1
    BY <2>0, <1>2, <1>4
  <2> QED BY <2>1, ParentAt
<1>12. ASSUME NEW i \in 2 .. m
       PROVE  row[i].parent = c[i - 1]
  <2>1. i \in 1 .. m /\ i - 1 \in 1 .. m /\ i - 1 \in 1 .. i
    BY <1>1
  <2>2. row[i] \in rows /\ row[i].from = At(n, i) /\ Len(row[i].from[2]) = i
    BY <1>2, <1>4, <2>1
  <2>3. row[i - 1] \in rows /\ row[i - 1].from = At(row[i].from, i - 1)
    BY <1>2, <1>4, <2>1, <2>2
  <2>a. i > 1
    BY <1>1
  <2>b. /\ Len(row[i].from[2]) > 1
        /\ row[i - 1].from = At(row[i].from, Len(row[i].from[2]) - 1)
    BY <2>2, <2>3, <2>a
  <2>c. PICK u \in rows, v \in rows : u = row[i] /\ v = row[i - 1]
    BY <2>2, <2>3
  <2>d. Len(u.from[2]) > 1 /\ v.from = At(u.from, Len(u.from[2]) - 1)
    BY <2>b, <2>c
  <2>e. u.parent = v.id
    BY <2>d, ParentAt
  <2>4. row[i].parent = row[i - 1].id
    BY <2>c, <2>e
  <2> QED BY <1>7, <2>1, <2>4
<1>13. c \in Chains(rows)
  <2>1. c \in UNION {[1 .. k -> {q.id : q \in rows}] : k \in 1 .. Depth}
    BY <1>1, <1>5
  <2>2. RowWith(rows, c[1]).parent = NoParent
    BY <1>1, <1>9, <1>11
  <2>3. \A i \in 2 .. Len(c) : RowWith(rows, c[i]).parent = c[i - 1]
    BY <1>1, <1>6, <1>9, <1>12
  <2> QED BY <2>1, <2>2, <2>3 DEF Chains
<1> QED BY <1>1, <1>6, <1>7, <1>9, <1>10, <1>13 DEF EndOf

(* The rows on a chain are those of the parameters around its end.         *)
OnChain(rows, c, k) ==
  LET n == RowWith(rows, c[k]).from
  IN /\ Len(n[2]) = k
     /\ \A i \in 1 .. k : RowWith(rows, c[i]).from = At(n, i)

LEMMA ChainShape ==
  ASSUME NEW rows, IdsOK(rows), NEW c \in Chains(rows)
  PROVE  /\ c \in Seq(Nat \ {0}) /\ Len(c) \in 1 .. Depth
         /\ \A i \in 1 .. Len(c) : /\ RowWith(rows, c[i]) \in rows
                                  /\ RowWith(rows, c[i]).id = c[i]
         /\ RowWith(rows, c[1]).parent = NoParent
         /\ \A i \in 2 .. Len(c) : RowWith(rows, c[i]).parent = c[i - 1]
<1>0. Depth \in Nat
  BY FormAssumption
<1>1. PICK k \in 1 .. Depth : c \in [1 .. k -> {r.id : r \in rows}]
  BY DEF Chains
<1>2. k \in Nat
  BY <1>0
<1>3. c \in Seq({r.id : r \in rows}) /\ Len(c) = k
  BY <1>1, <1>2
<1>4. \A i \in 1 .. Len(c) : \E r \in rows : c[i] = r.id
  BY <1>1, <1>3
<1>5. \A i \in 1 .. Len(c) : /\ RowWith(rows, c[i]) \in rows
                            /\ RowWith(rows, c[i]).id = c[i]
  BY <1>4, RowWithId
<1>6. \A i \in 1 .. Len(c) : c[i] \in Nat \ {0}
  BY <1>4 DEF IdsOK
<1>7. c \in Seq(Nat \ {0})
  BY <1>2, <1>3, <1>6
<1> QED BY <1>1, <1>3, <1>5, <1>7 DEF Chains

LEMMA ChainFrom ==
  ASSUME NEW rows, NEW held, NEW keys, Kept(rows, held, keys),
         NEW c \in Chains(rows)
  PROVE  \A k \in 1 .. Len(c) : OnChain(rows, c, k)
<1> DEFINE S == {j \in Nat : j + 1 \in 1 .. Len(c) => OnChain(rows, c, j + 1)}
<1>0. IdsOK(rows)
  BY DEF Kept
<1>1. /\ c \in Seq(Nat \ {0}) /\ Len(c) \in 1 .. Depth
      /\ \A i \in 1 .. Len(c) : /\ RowWith(rows, c[i]) \in rows
                               /\ RowWith(rows, c[i]).id = c[i]
      /\ RowWith(rows, c[1]).parent = NoParent
      /\ \A i \in 2 .. Len(c) : RowWith(rows, c[i]).parent = c[i - 1]
  BY <1>0, ChainShape
<1>2. Len(c) \in Nat /\ 1 \in 1 .. Len(c)
  BY <1>1, FormAssumption
<1>3. OnChain(rows, c, 1)
  <2>1. PICK r \in rows : r = RowWith(rows, c[1]) /\ r.parent = NoParent
    BY <1>1, <1>2
  <2>2. /\ Len(r.from[2]) = 1 /\ r.from = <<r.from[1], r.from[2]>>
        /\ r.from[2] \in Seq(Nat)
    BY <2>1, ParentAt
  <2>3. At(r.from, 1) = r.from
    BY <2>2, UptoAll DEF At
  <2> QED BY <2>1, <2>2, <2>3 DEF OnChain
<1>4. 0 \in S
  BY <1>3
<1>5. ASSUME NEW j \in Nat, j \in S PROVE j + 1 \in S
  <2> SUFFICES ASSUME j + 2 \in 1 .. Len(c) PROVE OnChain(rows, c, j + 2)
    OBVIOUS
  <2>1. j + 1 \in 1 .. Len(c) /\ j + 2 \in 2 .. Len(c) /\ (j + 2) - 1 = j + 1
    BY <1>2
  <2>2. OnChain(rows, c, j + 1)
    BY <1>5, <2>1
  <2>3. PICK r \in rows, q \in rows : /\ r = RowWith(rows, c[j + 2])
                                   /\ q = RowWith(rows, c[j + 1])
                                   /\ r.parent = q.id
    BY <1>1, <2>1
  <2>4. /\ r.from = <<r.from[1], r.from[2]>> /\ r.from[2] \in Seq(Nat)
        /\ Len(r.from[2]) \in 1 .. Depth
        /\ Len(r.from[2]) > 1 /\ q.from = At(r.from, Len(r.from[2]) - 1)
    BY <2>3, ParentAt
  <2>5. PICK m \in Nat : m = Len(r.from[2]) /\ m > 1
    BY <2>4
  <2>6. /\ At(r.from, m) = r.from
        /\ Len(At(r.from, m - 1)[2]) = m - 1
        /\ \A i \in 1 .. m - 1 : At(At(r.from, m - 1), i) = At(r.from, i)
    <3>1. m - 1 \in 1 .. m /\ m \in 1 .. m
      BY <2>5
    <3>2. PICK n : n = r.from
      OBVIOUS
    <3>3. n = <<n[1], n[2]>> /\ n[2] \in Seq(Nat) /\ Len(n[2]) >= 1
      BY <2>4, <2>5, <3>2
    <3>4. /\ At(n, Len(n[2])) = n
          /\ \A i \in 1 .. Len(n[2]) :
               /\ Len(At(n, i)[2]) = i
               /\ \A j2 \in 1 .. i : At(At(n, i), j2) = At(n, j2)
      BY <3>3, AtFacts
    <3> QED BY <2>5, <3>1, <3>2, <3>4
  <2>7. Len(q.from[2]) = j + 1 /\ \A i \in 1 .. j + 1 :
          RowWith(rows, c[i]).from = At(q.from, i)
    BY <2>2, <2>3 DEF OnChain
  <2>8. m = j + 2
    BY <2>4, <2>5, <2>6, <2>7
  <2>9. \A i \in 1 .. j + 1 : RowWith(rows, c[i]).from = At(r.from, i)
    BY <2>4, <2>5, <2>6, <2>7, <2>8
  <2>10. RowWith(rows, c[j + 2]).from = At(r.from, j + 2)
    BY <2>3, <2>6, <2>8
  <2>11. \A i \in 1 .. j + 2 : RowWith(rows, c[i]).from = At(r.from, i)
    BY <2>9, <2>10
  <2>12. Len(r.from[2]) = j + 2
    BY <2>5, <2>8
  <2> QED BY <2>3, <2>11, <2>12 DEF OnChain
<1> HIDE DEF S
<1>6. S \in SUBSET Nat
  BY DEF S
<1>7. S = Nat
  BY <1>4, <1>5, <1>6, NoLeastCounterexample
<1>8. ASSUME NEW k \in 1 .. Len(c) PROVE OnChain(rows, c, k)
  <2>1. k - 1 \in Nat /\ (k - 1) + 1 = k
    BY <1>2
  <2> QED BY <1>7, <2>1 DEF S
<1> QED BY <1>8

(* A chain, read off the parameter its end was saved from.                 *)
LEMMA ChainEnd ==
  ASSUME NEW rows, NEW held, NEW keys, Kept(rows, held, keys),
         NEW c \in Chains(rows)
  PROVE  /\ EndOf(rows, c) \in rows /\ EndOf(rows, c).id = c[Len(c)]
         /\ Len(EndOf(rows, c).from[2]) = Len(c)
         /\ \A i \in 1 .. Len(c) :
              RowWith(rows, c[i]).from = At(EndOf(rows, c).from, i)
<1>0. IdsOK(rows)
  BY DEF Kept
<1>1. /\ Len(c) \in 1 .. Depth
      /\ \A i \in 1 .. Len(c) : /\ RowWith(rows, c[i]) \in rows
                               /\ RowWith(rows, c[i]).id = c[i]
  BY <1>0, ChainShape
<1>2. Len(c) \in 1 .. Len(c)
  BY <1>1, FormAssumption
<1>3. OnChain(rows, c, Len(c))
  BY <1>2, ChainFrom
<1> QED BY <1>1, <1>2, <1>3 DEF EndOf, OnChain

(* Chains with one end are one chain.                                      *)
LEMMA ChainUnique ==
  ASSUME NEW rows, NEW held, NEW keys, Kept(rows, held, keys),
         NEW c \in Chains(rows), NEW d \in Chains(rows),
         c[Len(c)] = d[Len(d)]
  PROVE  c = d
<1>0. IdsOK(rows)
  BY DEF Kept
<1>1. EndOf(rows, c) = EndOf(rows, d)
  BY DEF EndOf
<1>2. /\ Len(EndOf(rows, c).from[2]) = Len(c)
      /\ \A i \in 1 .. Len(c) :
           RowWith(rows, c[i]).from = At(EndOf(rows, c).from, i)
  BY ChainEnd
<1>3. /\ Len(EndOf(rows, d).from[2]) = Len(d)
      /\ \A i \in 1 .. Len(d) :
           RowWith(rows, d[i]).from = At(EndOf(rows, d).from, i)
  BY ChainEnd
<1>4. c \in Seq(Nat \ {0}) /\ d \in Seq(Nat \ {0})
  BY <1>0, ChainShape
<1>5. /\ \A i \in 1 .. Len(c) : /\ RowWith(rows, c[i]) \in rows
                               /\ RowWith(rows, c[i]).id = c[i]
      /\ \A i \in 1 .. Len(d) : /\ RowWith(rows, d[i]) \in rows
                               /\ RowWith(rows, d[i]).id = d[i]
  BY <1>0, ChainShape
<1>6. Len(c) = Len(d)
  BY <1>1, <1>2, <1>3
<1>7. ASSUME NEW i \in 1 .. Len(c) PROVE c[i] = d[i]
  <2>1. RowWith(rows, c[i]).from = RowWith(rows, d[i]).from
    BY <1>1, <1>2, <1>3, <1>6
  <2>2. RowWith(rows, c[i]) = RowWith(rows, d[i])
    BY <1>5, <1>6, <2>1 DEF Kept, RowsHold
  <2> QED BY <1>5, <1>6, <2>2
<1> QED BY <1>4, <1>6, <1>7, SamePlace

-----------------------------------------------------------------------------
(* Rows -> tables.                                                         *)

LEMMA IdsFinite ==
  ASSUME NEW rows, IdsOK(rows)
  PROVE  IsFiniteSet({r.id : r \in rows})
<1> DEFINE ids == {r.id : r \in rows}
           f == [r \in rows |-> r.id]
<1>1. f \in Surjection(rows, ids)
  BY DEF Surjection
<1>2. IsFiniteSet(rows)
  BY DEF IdsOK
<1> HIDE DEF f, ids
<1>3. IsFiniteSet(ids)
  BY <1>1, <1>2, FS_Surjection
<1> QED BY <1>3 DEF ids

LEMMA NodesOf ==
  ASSUME NEW tables
  PROVE  /\ \A n \in Nodes(tables) :
              /\ n = <<n[1], n[2]>>
              /\ n[1] \in DOMAIN tables /\ n[2] \in DOMAIN tables[n[1]]
         /\ \A k \in DOMAIN tables : \A p \in DOMAIN tables[k] :
              <<k, p>> \in Nodes(tables)
BY DEF Nodes

(* A prefix of a chain is a chain.                                         *)
LEMMA ChainPrefix ==
  ASSUME NEW rows, NEW held, NEW keys, Kept(rows, held, keys),
         NEW c \in Chains(rows), NEW i \in 1 .. Len(c)
  PROVE  Upto(c, i) \in Chains(rows) /\ Upto(c, i)[1] = c[1]
<1>0. IdsOK(rows)
  BY DEF Kept
<1>1. /\ c \in Seq(Nat \ {0}) /\ Len(c) \in 1 .. Depth
      /\ \A j \in 1 .. Len(c) : /\ RowWith(rows, c[j]) \in rows
                               /\ RowWith(rows, c[j]).id = c[j]
      /\ RowWith(rows, c[1]).parent = NoParent
      /\ \A j \in 2 .. Len(c) : RowWith(rows, c[j]).parent = c[j - 1]
  BY <1>0, ChainShape
<1>2. Depth \in Nat /\ Len(c) \in Nat
  BY <1>1, FormAssumption
<1>3. i \in 1 .. Depth /\ i \in 0 .. Len(c) /\ i \in Nat /\ 1 \in 1 .. i
  BY <1>1, <1>2
<1>4. /\ Len(Upto(c, i)) = i
      /\ \A j \in 1 .. i : Upto(c, i)[j] = c[j]
  BY <1>1, <1>3, UptoFacts
<1>5. ASSUME NEW j \in 1 .. i PROVE c[j] \in {r.id : r \in rows}
  <2>1. j \in 1 .. Len(c)
    BY <1>2, <1>3
  <2>2. PICK r \in rows : r.id = c[j]
    BY <1>1, <2>1
  <2> QED BY <2>2
<1>6. Upto(c, i) \in [1 .. i -> {r.id : r \in rows}]
  BY <1>5 DEF Upto
<1>7. \A j \in 2 .. i : RowWith(rows, Upto(c, i)[j]).parent = Upto(c, i)[j - 1]
  <2> SUFFICES ASSUME NEW j \in 2 .. i
               PROVE  RowWith(rows, Upto(c, i)[j]).parent = Upto(c, i)[j - 1]
    OBVIOUS
  <2>1. j \in 1 .. i /\ j - 1 \in 1 .. i /\ j \in 2 .. Len(c)
    BY <1>2, <1>3
  <2> QED BY <1>1, <1>4, <2>1
<1>8. Upto(c, i) \in UNION {[1 .. k -> {r.id : r \in rows}] : k \in 1 .. Depth}
  BY <1>3, <1>6
<1>9. RowWith(rows, Upto(c, i)[1]).parent = NoParent
  BY <1>1, <1>3, <1>4
<1> HIDE DEF Upto
<1> QED BY <1>3, <1>4, <1>7, <1>8, <1>9 DEF Chains

LEMMA OrganizedAt ==
  ASSUME NEW rows, NEW key
  PROVE  /\ DOMAIN Organized(rows, key) =
              {c \in Chains(rows) : RowWith(rows, c[1]).data.key = key}
         /\ \A c \in DOMAIN Organized(rows, key) :
              Organized(rows, key)[c] =
                [name |-> EndOf(rows, c).data.name,
                 type |-> EndOf(rows, c).data.type,
                 act |-> EndOf(rows, c).data.act,
                 required |-> EndOf(rows, c).data.required]
BY Zenon DEF Organized

(* What the backend organizes is a form: its places are chains, and rows   *)
(* have ids of their own.                                                  *)
LEMMA OrganizedOK ==
  ASSUME NEW rows, NEW held, NEW keys, Kept(rows, held, keys),
         NEW tables, NEW of, DOMAIN of = DOMAIN tables,
         \A k, l \in DOMAIN tables : of[k] = of[l] => k = l,
         \A k \in DOMAIN tables : tables[k] = Organized(rows, of[k])
  PROVE  TablesOK(tables)
<1>0. IdsOK(rows)
  BY DEF Kept
<1>1. ASSUME NEW k \in DOMAIN tables
      PROVE  DOMAIN tables[k] =
               {c \in Chains(rows) : RowWith(rows, c[1]).data.key = of[k]}
  <2>1. tables[k] = Organized(rows, of[k])
    OBVIOUS
  <2>2. PICK x : x = of[k]
    OBVIOUS
  <2>3. DOMAIN Organized(rows, x) =
          {c \in Chains(rows) : RowWith(rows, c[1]).data.key = x}
    BY Zenon DEF Organized
  <2> QED BY <2>1, <2>2, <2>3
<1>2. ASSUME NEW n \in Nodes(tables)
      PROVE  /\ n = <<n[1], n[2]>> /\ n[1] \in DOMAIN tables
             /\ n[2] \in Chains(rows)
             /\ RowWith(rows, n[2][1]).data.key = of[n[1]]
             /\ n[2] \in Seq(Nat \ {0}) /\ Len(n[2]) \in 1 .. Depth
  <2>1. n = <<n[1], n[2]>> /\ n[1] \in DOMAIN tables /\ n[2] \in DOMAIN tables[n[1]]
    BY NodesOf
  <2>2. n[2] \in Chains(rows) /\ RowWith(rows, n[2][1]).data.key = of[n[1]]
    BY <1>1, <2>1, ZenonT(60)
  <2>3. n[2] \in Seq(Nat \ {0}) /\ Len(n[2]) \in 1 .. Depth
    BY <1>0, <2>2, ChainShape
  <2> QED BY <2>1, <2>2, <2>3
<1>3. ASSUME NEW n \in Nodes(tables)
      PROVE  /\ n[2] \in Seq(Nat) /\ Len(n[2]) \in 1 .. Depth
             /\ Over(n) \subseteq Nodes(tables)
             /\ Own(n) \in {r.id : r \in rows}
  <2>1. PICK k, c : n = <<k, c>> /\ k = n[1] /\ c = n[2]
    BY <1>2
  <2>2. /\ k \in DOMAIN tables /\ c \in Chains(rows)
        /\ RowWith(rows, c[1]).data.key = of[k]
        /\ c \in Seq(Nat \ {0}) /\ Len(c) \in 1 .. Depth
    BY <1>2, <2>1
  <2>3. c \in Seq(Nat)
    BY <2>2
  <2>4. ASSUME NEW i \in 1 .. Len(c) - 1
        PROVE  <<k, Upto(c, i)>> \in Nodes(tables)
    <3>1. i \in 1 .. Len(c)
      BY <2>2, FormAssumption
    <3>2. Upto(c, i) \in Chains(rows) /\ Upto(c, i)[1] = c[1]
      BY <2>2, <3>1, ChainPrefix
    <3>a. RowWith(rows, Upto(c, i)[1]).data.key = of[k]
      BY <2>2, <3>2
    <3>b. DOMAIN tables[k] =
            {d \in Chains(rows) : RowWith(rows, d[1]).data.key = of[k]}
      BY <1>1, <2>2
    <3>3. Upto(c, i) \in DOMAIN tables[k]
      BY <3>2, <3>a, <3>b
    <3> QED BY <2>2, <3>3, NodesOf
  <2>5. Over(n) \subseteq Nodes(tables)
    BY <2>1, <2>4 DEF Over
  <2>6. EndOf(rows, c) \in rows /\ EndOf(rows, c).id = c[Len(c)]
    BY <2>2, ChainEnd
  <2> QED BY <2>1, <2>2, <2>3, <2>5, <2>6 DEF Own
<1>4. ASSUME NEW n \in Nodes(tables), NEW m \in Nodes(tables), Own(n) = Own(m)
      PROVE  n = m
  <2>1. n[2] = m[2]
    BY <1>2, <1>4, ChainUnique DEF Own
  <2>2. of[n[1]] = of[m[1]]
    BY <1>2, <2>1
  <2>3. n[1] = m[1]
    BY <1>2, <2>2
  <2> QED BY <1>2, <2>1, <2>3
<1>5. IsFiniteSet(Nodes(tables))
  <2> DEFINE f == [n \in Nodes(tables) |-> Own(n)]
             ids == {r.id : r \in rows}
  <2>1. f \in Injection(Nodes(tables), ids)
    BY <1>3, <1>4 DEF Injection, IsInjective
  <2>2. IsFiniteSet(ids)
    BY <1>0, IdsFinite
  <2> HIDE DEF f, ids
  <2> QED BY <2>1, <2>2, FS_Injection
<1> QED BY <1>3, <1>4, <1>5 DEF TablesOK

-----------------------------------------------------------------------------
(* Form -> rows.                                                           *)

(* The parameters around a parameter are around one another.               *)
LEMMA OverOver ==
  ASSUME NEW n, n = <<n[1], n[2]>>, n[2] \in Seq(Nat), Len(n[2]) >= 1,
         NEW o \in Over(n)
  PROVE  Over(o) \subseteq Over(n) /\ o[1] = n[1]
<1>1. PICK i \in 1 .. Len(n[2]) - 1 : o = At(n, i)
  BY AtFacts
<1>2. i \in 1 .. Len(n[2]) /\ i \in Nat /\ Len(n[2]) \in Nat
  OBVIOUS
<1>3. /\ o[1] = n[1] /\ Len(o[2]) = i
      /\ \A j \in 1 .. i : At(o, j) = At(n, j)
  BY <1>1, <1>2, AtFacts
<1>4. ASSUME NEW x \in Over(o) PROVE x \in Over(n)
  <2>1. PICK j \in 1 .. i - 1 : x = At(o, j)
    BY <1>3 DEF Over, At
  <2>2. x = At(n, j) /\ j \in 1 .. Len(n[2]) - 1
    BY <1>2, <1>3, <2>1
  <2> QED BY <2>2, AtFacts
<1> QED BY <1>3, <1>4

LEMMA OneOrMore ==
  ASSUME NEW p \in Seq(Nat), Len(p) >= 1
  PROVE  Len(p) = 1 \/ Len(p) - 1 \in 1 .. Len(p) - 1
<1>1. PICK m \in Nat : m = Len(p)
  OBVIOUS
<1>2. m = 1 \/ m - 1 \in 1 .. m - 1
  BY <1>1
<1> QED BY <1>1, <1>2, Zenon

LEMMA AboveIn ==
  ASSUME NEW n, n[2] \in Seq(Nat), Len(n[2]) >= 1, ~IsRoot(n)
  PROVE  Above(n) \in Over(n)
<1>1. Len(n[2]) = 1 \/ Len(n[2]) - 1 \in 1 .. Len(n[2]) - 1
  BY OneOrMore
<1>2. Len(n[2]) - 1 \in 1 .. Len(n[2]) - 1
  BY <1>1, Zenon DEF IsRoot
<1> QED BY <1>2 DEF Above, Over

LEMMA SentItems ==
  ASSUME NEW tables, NEW keys
  PROVE  LET params == ProcessItems(tables, keys)
         IN /\ DOMAIN params = Nodes(tables)
            /\ \A n \in Nodes(tables) :
                 /\ params[n] = Described(tables[n[1]][n[2]], keys[n[1]])
                 /\ params[n].key = keys[n[1]]
                 /\ TakesChildren(params[n])
                      <=> TakesChildren(tables[n[1]][n[2]])
<1>1. /\ DOMAIN ProcessItems(tables, keys) = Nodes(tables)
      /\ \A n \in Nodes(tables) : ProcessItems(tables, keys)[n] =
            Described(tables[n[1]][n[2]], keys[n[1]])
  BY DEF ProcessItems
<1>2. \A x, k : /\ Described(x, k).key = k
                /\ TakesChildren(Described(x, k)) <=> TakesChildren(x)
  BY DEF Described, TakesChildren
<1> QED BY <1>1, <1>2

(* The parameters that get rows are the ones the form holds.               *)
LEMMA ReachedHeld ==
  ASSUME NEW tables, NEW keys, TablesOK(tables)
  PROVE  LET params == ProcessItems(tables, keys)
             held == Held(tables, keys)
         IN /\ Reached(params) = DOMAIN held
            /\ Reached(params) \subseteq Nodes(tables)
            /\ \A n \in Reached(params) :
                 /\ held[n] = params[n] /\ held[n].key = keys[n[1]]
                 /\ \A o \in Over(n) : /\ o \in Reached(params)
                                      /\ TakesChildren(params[o])
                                      /\ o[1] = n[1]
<1> DEFINE params == ProcessItems(tables, keys)
           held == Held(tables, keys)
<1>1. /\ DOMAIN params = Nodes(tables)
      /\ \A n \in Nodes(tables) :
           /\ params[n] = Described(tables[n[1]][n[2]], keys[n[1]])
           /\ params[n].key = keys[n[1]]
           /\ TakesChildren(params[n]) <=> TakesChildren(tables[n[1]][n[2]])
  BY SentItems
<1>2. /\ DOMAIN held = {n \in Nodes(tables) :
            \A o \in Over(n) : TakesChildren(tables[o[1]][o[2]])}
      /\ \A n \in DOMAIN held :
           held[n] = Described(tables[n[1]][n[2]], keys[n[1]])
  BY DEF Held
<1> HIDE DEF params, held
<1>3. \A n \in Nodes(tables) :
        /\ Over(n) \subseteq Nodes(tables)
        /\ n = <<n[1], n[2]>> /\ n[2] \in Seq(Nat) /\ Len(n[2]) >= 1
  BY NodesOf, FormAssumption DEF TablesOK
<1>4. Reached(params) = {n \in Nodes(tables) :
        \A o \in Over(n) : TakesChildren(params[o])}
  BY <1>1 DEF Reached, Descends
<1>5. Reached(params) = DOMAIN held
  BY <1>1, <1>2, <1>3, <1>4
<1>6. \A n \in Reached(params) : held[n] = params[n] /\ held[n].key = keys[n[1]]
  BY <1>1, <1>2, <1>4, <1>5
<1>7. ASSUME NEW n \in Reached(params), NEW o \in Over(n)
      PROVE  o \in Reached(params) /\ TakesChildren(params[o]) /\ o[1] = n[1]
  <2>1. n \in Nodes(tables) /\ o \in Nodes(tables) /\ TakesChildren(params[o])
    BY <1>3, <1>4
  <2>2. Over(o) \subseteq Over(n) /\ o[1] = n[1]
    BY <1>3, <2>1, OverOver
  <2> QED BY <1>4, <2>1, <2>2
<1> QED BY <1>4, <1>5, <1>6, <1>7 DEF params, held

(* A save stores exactly what the form holds.                              *)
LEMMA ProcessedKept ==
  ASSUME NEW tables, NEW keys, NEW K, TablesOK(tables),
         \A k \in DOMAIN tables : keys[k] \in K
  PROVE  Kept(Processed(ProcessItems(tables, keys)), Held(tables, keys), K)
<1>1. PICK params : params = ProcessItems(tables, keys)
  OBVIOUS
<1>2. PICK held : held = Held(tables, keys)
  OBVIOUS
<1>3. PICK sent : sent = Reached(params)
  OBVIOUS
<1>4. /\ sent = DOMAIN held /\ sent \subseteq Nodes(tables)
      /\ \A n \in sent :
           /\ held[n] = params[n] /\ held[n].key = keys[n[1]]
           /\ \A o \in Over(n) : o \in sent /\ TakesChildren(params[o]) /\ o[1] = n[1]
  BY <1>1, <1>2, <1>3, ReachedHeld
<1>5. \A n \in Nodes(tables) :
        /\ n = <<n[1], n[2]>> /\ n[1] \in DOMAIN tables
        /\ n[2] \in Seq(Nat) /\ Len(n[2]) \in 1 .. Depth /\ Len(n[2]) >= 1
  BY NodesOf, FormAssumption DEF TablesOK
<1>6. HeldOK(held, K)
  BY <1>4, <1>5, ZenonT(60) DEF HeldOK
<1>7. PICK ids : ids = {Own(n) : n \in sent}
  OBVIOUS
<1> DEFINE id(n) == Serial(ids, Own(n), "ascending")
           row(n) == [id |-> id(n),
                      parent |-> IF IsRoot(n) THEN NoParent ELSE id(Above(n)),
                      data |-> params[n], from |-> n]
<1>8. PICK rows : rows = {row(n) : n \in sent}
  OBVIOUS
<1>9. Processed(params) = rows
  BY <1>3, <1>7, <1>8 DEF Processed
<1>10. IsFiniteSet(sent) /\ IsFiniteSet(ids) /\ ids \subseteq Nat
  <2>1. IsFiniteSet(sent)
    BY <1>4, FS_Subset DEF TablesOK
  <2> DEFINE f == [n \in sent |-> Own(n)]
  <2>2. f \in Surjection(sent, ids)
    BY <1>7 DEF Surjection
  <2> HIDE DEF f
  <2>3. IsFiniteSet(ids)
    BY <2>1, <2>2, FS_Surjection
  <2>4. \A n \in sent : Own(n) \in Nat
    <3> SUFFICES ASSUME NEW n \in sent PROVE Own(n) \in Nat
      OBVIOUS
    <3>1. n[2] \in Seq(Nat) /\ Len(n[2]) >= 1
      BY <1>4, <1>5
    <3> QED BY <3>1 DEF Own
  <2> QED BY <1>7, <2>1, <2>3, <2>4
<1>11. \A n \in sent : id(n) \in Nat \ {0}
  BY <1>7, <1>10, SerialFacts DEF ReadOrders
<1>12. ASSUME NEW n \in sent, NEW m \in sent, id(n) = id(m) PROVE n = m
  <2>1. Own(n) \in ids /\ Own(m) \in ids
    BY <1>7
  <2>2. Own(n) = Own(m)
    BY <1>10, <1>12, <2>1, SerialFacts DEF ReadOrders
  <2> QED BY <1>4, <2>2 DEF TablesOK
<1> HIDE DEF id
<1>13. \A n \in sent : /\ row(n) \in rows /\ row(n).id = id(n)
                      /\ row(n).from = n /\ row(n).data = params[n]
                      /\ row(n).parent =
                           IF IsRoot(n) THEN NoParent ELSE id(Above(n))
  BY <1>8
<1>14. \A r \in rows : \E n \in sent : r = row(n)
  BY <1>8
<1>15. IsFiniteSet(rows)
  <2> DEFINE g == [n \in sent |-> row(n)]
  <2>1. g \in Surjection(sent, rows)
    BY <1>8 DEF Surjection
  <2> HIDE DEF g
  <2> QED BY <1>10, <2>1, FS_Surjection
<1> HIDE DEF row
<1>16. IdsOK(rows)
  <2>1. \A r \in rows : r.id \in Nat \ {0}
    BY <1>11, <1>13, <1>14
  <2>2. ASSUME NEW r \in rows, NEW q \in rows, r.id = q.id PROVE r = q
    <3>1. PICK n \in sent : r = row(n)
      BY <1>14
    <3>2. PICK m \in sent : q = row(m)
      BY <1>14
    <3>3. n = m
      BY <1>12, <1>13, <2>2, <3>1, <3>2
    <3> QED BY <3>1, <3>2, <3>3
  <2> QED BY <1>15, <2>1, <2>2 DEF IdsOK
<1>17. RowsHold(rows, held)
  <2>1. {r.from : r \in rows} = DOMAIN held
    <3>1. \A r \in rows : r.from \in sent
      BY <1>13, <1>14
    <3>2. \A n \in sent : \E r \in rows : r.from = n
      BY <1>13
    <3> QED BY <1>4, <3>1, <3>2
  <2>2. \A r, q \in rows : r.from = q.from => r = q
    BY <1>13, <1>14
  <2>3. ASSUME NEW r \in rows
        PROVE  /\ r.data = held[r.from]
               /\ IF IsRoot(r.from) THEN r.parent = NoParent
                  ELSE \E q \in rows : q.id = r.parent /\ q.from = Above(r.from)
    <3>1. PICK n \in sent : r = row(n)
      BY <1>14
    <3>2. r.data = held[r.from] /\ r.from = n
      BY <1>4, <1>13, <3>1
    <3>3. IsRoot(n) => r.parent = NoParent
      BY <1>13, <3>1
    <3>4. ASSUME ~IsRoot(n)
          PROVE  \E q \in rows : q.id = r.parent /\ q.from = Above(n)
      <4>1. Above(n) \in Over(n)
        BY <1>4, <1>5, <3>4, AboveIn
      <4>2. Above(n) \in sent
        BY <1>4, <4>1
      <4>3. r.parent = id(Above(n))
        BY <1>13, <3>1, <3>4
      <4> QED BY <1>13, <4>2, <4>3
    <3> QED BY <3>2, <3>3, <3>4
  <2> QED BY <2>1, <2>2, <2>3 DEF RowsHold
<1> QED BY <1>1, <1>2, <1>6, <1>9, <1>16, <1>17 DEF Kept

-----------------------------------------------------------------------------
(* Rows -> rows.                                                           *)

(* The two passes of starting and committing keep every row, its fields    *)
(* and its parent, whichever order the rows are read in.                   *)
LEMMA RemappedKept ==
  ASSUME NEW rows, NEW held, NEW K, Kept(rows, held, K),
         NEW order \in ReadOrders
  PROVE  Kept(Remapped(rows, order), held, K)
<1>1. PICK ids : ids = {r.id : r \in rows}
  OBVIOUS
<1>2. IdsOK(rows) /\ RowsHold(rows, held) /\ HeldOK(held, K)
  BY DEF Kept
<1>3. IsFiniteSet(ids) /\ ids \subseteq Nat
  BY <1>1, <1>2, IdsFinite DEF IdsOK
<1>4. PICK new : new = [id \in ids |-> Serial(ids, id, order)]
  OBVIOUS
<1>5. \A i \in ids : new[i] \in Nat \ {0}
  BY <1>3, <1>4, SerialFacts
<1>6. \A i, j \in ids : new[i] = new[j] => i = j
  BY <1>3, <1>4, SerialFacts
<1> DEFINE copy(r) == [id |-> new[r.id],
                       parent |-> IF r.parent = NoParent THEN NoParent
                                  ELSE new[r.parent],
                       data |-> r.data, from |-> r.from]
<1>7. PICK copies2 : copies2 = {copy(r) : r \in rows}
  OBVIOUS
<1>8. Remapped(rows, order) = copies2
  BY <1>1, <1>4, <1>7 DEF Remapped
<1>9. \A r \in rows : /\ copy(r) \in copies2 /\ copy(r).id = new[r.id]
                     /\ copy(r).data = r.data /\ copy(r).from = r.from
                     /\ copy(r).parent = IF r.parent = NoParent THEN NoParent
                                         ELSE new[r.parent]
  BY <1>7
<1>10. \A q \in copies2 : \E r \in rows : q = copy(r)
  BY <1>7
<1>11. IsFiniteSet(copies2)
  <2> DEFINE g == [r \in rows |-> copy(r)]
  <2>1. g \in Surjection(rows, copies2)
    BY <1>7 DEF Surjection
  <2> HIDE DEF g
  <2> QED BY <1>2, <2>1, FS_Surjection DEF IdsOK
<1> HIDE DEF copy
<1>12. \A r \in rows : r.id \in ids
  BY <1>1
<1>13. IdsOK(copies2)
  <2>1. \A q \in copies2 : q.id \in Nat \ {0}
    BY <1>5, <1>9, <1>10, <1>12
  <2>2. ASSUME NEW q \in copies2, NEW u \in copies2, q.id = u.id PROVE q = u
    <3>1. PICK r \in rows : q = copy(r)
      BY <1>10
    <3>2. PICK v \in rows : u = copy(v)
      BY <1>10
    <3>3. new[r.id] = new[v.id]
      BY <1>9, <2>2, <3>1, <3>2
    <3>4. r.id = v.id
      BY <1>6, <1>12, <3>3
    <3>5. r = v
      BY <1>2, <3>4 DEF IdsOK
    <3> QED BY <3>1, <3>2, <3>5
  <2> QED BY <1>11, <2>1, <2>2 DEF IdsOK
<1>14. RowsHold(copies2, held)
  <2>1. {q.from : q \in copies2} = DOMAIN held
    <3>1. {r.from : r \in rows} = DOMAIN held
      BY <1>2 DEF RowsHold
    <3>2. \A q \in copies2 : \E r \in rows : q.from = r.from
      BY <1>9, <1>10
    <3>3. \A r \in rows : \E q \in copies2 : q.from = r.from
      BY <1>9
    <3> QED BY <3>1, <3>2, <3>3
  <2>2. ASSUME NEW q \in copies2, NEW u \in copies2, q.from = u.from PROVE q = u
    <3>1. PICK r \in rows : q = copy(r)
      BY <1>10
    <3>2. PICK v \in rows : u = copy(v)
      BY <1>10
    <3>3. r.from = v.from
      BY <1>9, <2>2, <3>1, <3>2
    <3>4. r = v
      BY <1>2, <3>3 DEF RowsHold
    <3> QED BY <3>1, <3>2, <3>4
  <2>3. ASSUME NEW q \in copies2
        PROVE  /\ q.data = held[q.from]
               /\ IF IsRoot(q.from) THEN q.parent = NoParent
                  ELSE \E u \in copies2 : u.id = q.parent /\ u.from = Above(q.from)
    <3>1. PICK r \in rows : q = copy(r)
      BY <1>10
    <3>2. /\ q.data = r.data /\ q.from = r.from
          /\ q.parent = IF r.parent = NoParent THEN NoParent ELSE new[r.parent]
      BY <1>9, <3>1
    <3>3. /\ r.data = held[r.from]
          /\ IF IsRoot(r.from) THEN r.parent = NoParent
             ELSE \E v \in rows : v.id = r.parent /\ v.from = Above(r.from)
      BY <1>2 DEF RowsHold
    <3>4. ASSUME ~IsRoot(r.from)
          PROVE  \E u \in copies2 : u.id = q.parent /\ u.from = Above(r.from)
      <4>1. PICK v \in rows : v.id = r.parent /\ v.from = Above(r.from)
        BY <3>3, <3>4
      <4>2. r.parent # NoParent
        BY <1>2, <4>1 DEF IdsOK, NoParent
      <4> QED BY <1>9, <3>2, <4>1, <4>2
    <3> QED BY <3>2, <3>3, <3>4
  <2> QED BY <2>1, <2>2, <2>3 DEF RowsHold
<1> QED BY <1>2, <1>8, <1>13, <1>14 DEF Kept

(* Copying an API reaches every row.                                       *)
LEMMA CopiedKept ==
  ASSUME NEW rows, NEW held, NEW K, Kept(rows, held, K),
         NEW order \in ReadOrders
  PROVE  Kept(Copied(rows, order), held, K)
<1>1. \A c \in Chains(rows) : EndOf(rows, c) \in rows
  BY ChainEnd
<1>2. \A r \in rows : \E c \in Chains(rows) : EndOf(rows, c) = r
  BY ChainTo
<1>3. CopyParams(rows) = rows
  BY <1>1, <1>2 DEF CopyParams
<1>4. Copied(rows, order) = Remapped(rows, order)
  BY <1>3 DEF Copied
<1> QED BY <1>4, RemappedKept

-----------------------------------------------------------------------------
(* Tables -> code.                                                         *)

(* A place of an organized table and the parameter it was saved from.      *)
LEMMA PlaceFrom ==
  ASSUME NEW rows, NEW held, NEW keys, Kept(rows, held, keys), NEW key,
         NEW c \in DOMAIN Organized(rows, key)
  PROVE  LET n == EndOf(rows, c).from
             item == Organized(rows, key)[c]
         IN /\ c \in Chains(rows) /\ n \in DOMAIN held
            /\ n = <<n[1], n[2]>> /\ n[2] \in Seq(Nat) /\ Len(n[2]) = Len(c)
            /\ held[n].key = key
            /\ item.name = held[n].name /\ item.type = held[n].type
            /\ item.act = held[n].act /\ item.required = held[n].required
            /\ \A i \in 1 .. Len(c) :
                 /\ Upto(c, i) \in DOMAIN Organized(rows, key)
                 /\ EndOf(rows, Upto(c, i)).from = At(n, i)
<1>0. IdsOK(rows) /\ HeldOK(held, keys)
  BY DEF Kept
<1>1. PICK r : r = EndOf(rows, c)
  OBVIOUS
<1>2. c \in Chains(rows) /\ RowWith(rows, c[1]).data.key = key
  BY Zenon DEF Organized
<1>3. /\ r \in rows /\ Len(r.from[2]) = Len(c)
      /\ \A i \in 1 .. Len(c) : RowWith(rows, c[i]).from = At(r.from, i)
  BY <1>1, <1>2, ChainEnd
<1>4. /\ r.from \in DOMAIN held /\ r.from = <<r.from[1], r.from[2]>>
      /\ r.from[2] \in Seq(Nat)
  BY <1>3, ParentAt
<1>5. r.data = held[r.from]
  BY <1>3 DEF Kept, RowsHold
<1>6. Organized(rows, key)[c] =
        [name |-> r.data.name, type |-> r.data.type, act |-> r.data.act,
         required |-> r.data.required]
  BY <1>1, Zenon DEF Organized
<1>7. /\ c \in Seq(Nat \ {0}) /\ Len(c) \in 1 .. Depth
      /\ \A i \in 1 .. Len(c) : RowWith(rows, c[i]) \in rows
  BY <1>0, <1>2, ChainShape
<1>8. Len(c) \in Nat /\ Len(c) >= 1 /\ 1 \in 1 .. Len(c)
  BY <1>7, FormAssumption
<1>9. held[r.from].key = key
  <2>1. PICK n : n = r.from
    OBVIOUS
  <2>2. PICK q \in rows : q = RowWith(rows, c[1]) /\ q.from = At(n, 1)
    BY <1>3, <1>7, <1>8, <2>1
  <2>3. q.data = held[At(n, 1)] /\ q.data.key = key
    BY <1>2, <2>2 DEF Kept, RowsHold
  <2>4. n = <<n[1], n[2]>> /\ n[2] \in Seq(Nat) /\ Len(n[2]) >= 1 /\ n \in DOMAIN held
    BY <1>3, <1>4, <1>8, <2>1
  <2>5. /\ At(n, Len(n[2])) = n
        /\ \A i \in 1 .. Len(n[2]) - 1 : At(n, i) \in Over(n)
    BY <2>4, AtFacts
  <2>6. \A o \in Over(n) : held[o].key = held[n].key
    BY <1>0, <2>4 DEF HeldOK
  <2>7. Len(n[2]) = 1 \/ Len(n[2]) - 1 \in 1 .. Len(n[2]) - 1
    BY <2>4, OneOrMore
  <2>8. CASE Len(n[2]) = 1
    BY <2>1, <2>3, <2>5, <2>8
  <2>9. CASE Len(n[2]) - 1 \in 1 .. Len(n[2]) - 1
    <3>1. 1 \in 1 .. Len(n[2]) - 1
      BY <2>9
    <3> QED BY <2>1, <2>3, <2>5, <2>6, <3>1
  <2> QED BY <2>7, <2>8, <2>9
<1>10. ASSUME NEW i \in 1 .. Len(c)
       PROVE  /\ Upto(c, i) \in DOMAIN Organized(rows, key)
              /\ EndOf(rows, Upto(c, i)).from = At(r.from, i)
  <2>1. Upto(c, i) \in Chains(rows) /\ Upto(c, i)[1] = c[1]
    BY <1>2, ChainPrefix
  <2>2. i \in 0 .. Len(c) /\ i \in 1 .. i
    BY <1>8
  <2>3. Len(Upto(c, i)) = i /\ Upto(c, i)[i] = c[i]
    BY <1>7, <2>2, UptoFacts
  <2>4. EndOf(rows, Upto(c, i)) = RowWith(rows, c[i])
    BY <2>3 DEF EndOf
  <2>5. PICK d : d = Upto(c, i)
    OBVIOUS
  <2>6. d \in Chains(rows) /\ RowWith(rows, d[1]).data.key = key
    BY <1>2, <2>1, <2>5
  <2>7. d \in DOMAIN Organized(rows, key)
    BY <2>6, Zenon DEF Organized
  <2> QED BY <1>3, <2>4, <2>5, <2>7
<1> QED BY <1>1, <1>2, <1>3, <1>4, <1>5, <1>6, <1>9, <1>10

(* Every parameter held has a place in the table of its key.               *)
LEMMA PlaceOf ==
  ASSUME NEW rows, NEW held, NEW keys, Kept(rows, held, keys),
         NEW n \in DOMAIN held
  PROVE  \E c \in DOMAIN Organized(rows, held[n].key) :
           EndOf(rows, c).from = n
<1>1. PICK r \in rows : r.from = n /\ r.data = held[n]
  BY RowAt
<1>2. PICK c \in Chains(rows) : EndOf(rows, c) = r
  BY ChainTo
<1>3. PICK key : key = RowWith(rows, c[1]).data.key
  OBVIOUS
<1>4. c \in DOMAIN Organized(rows, key)
  BY <1>3, Zenon DEF Organized
<1>5. held[EndOf(rows, c).from].key = key
  BY <1>4, PlaceFrom
<1> QED BY <1>1, <1>2, <1>4, <1>5

LEMMA NoPlace ==
  /\ Len(<<>>) = 0
  /\ \A c : Upto(c, 0) = <<>>
BY DEF Upto

(* Places that come from one parameter are one place.                      *)
LEMMA FromUnique ==
  ASSUME NEW rows, NEW held, NEW keys, Kept(rows, held, keys), NEW key,
         NEW c \in DOMAIN Organized(rows, key), NEW d \in DOMAIN Organized(rows, key),
         EndOf(rows, c).from = EndOf(rows, d).from
  PROVE  c = d
<1>1. c \in Chains(rows) /\ d \in Chains(rows) /\ IdsOK(rows)
  BY PlaceFrom DEF Kept
<1>2. EndOf(rows, c) \in rows /\ EndOf(rows, d) \in rows
  BY <1>1, ChainEnd
<1>3. EndOf(rows, c) = EndOf(rows, d)
  BY <1>2 DEF Kept, RowsHold
<1>4. /\ Len(c) \in 1 .. Depth /\ Len(d) \in 1 .. Depth
      /\ \A i \in 1 .. Len(c) : RowWith(rows, c[i]).id = c[i]
      /\ \A i \in 1 .. Len(d) : RowWith(rows, d[i]).id = d[i]
  BY <1>1, ChainShape
<1>5. Len(c) \in 1 .. Len(c) /\ Len(d) \in 1 .. Len(d)
  BY <1>4, FormAssumption
<1>6. c[Len(c)] = d[Len(d)]
  BY <1>3, <1>4, <1>5 DEF EndOf
<1> QED BY <1>1, <1>6, ChainUnique

(* A place, the parameter n it comes from, and the places around it.       *)
PlacedAs(rows, held, table, c, n, m) ==
  /\ n = EndOf(rows, c).from /\ n \in DOMAIN held
  /\ n = <<n[1], n[2]>> /\ n[2] \in Seq(Nat) /\ Len(n[2]) = m
  /\ c \in Seq(Nat \ {0}) /\ Len(c) = m /\ m \in Nat /\ m >= 1
  /\ Upto(c, m) = c /\ At(n, m) = n /\ Above(n) = At(n, m - 1)
  /\ \A i \in 1 .. m : /\ Upto(c, i) \in DOMAIN table
                      /\ EndOf(rows, Upto(c, i)).from = At(n, i)
                      /\ At(n, i)[2] \in Seq(Nat) /\ Len(At(n, i)[2]) = i
                      /\ Len(Upto(c, i)) = i
  /\ \A i \in 1 .. m - 1 : At(n, i) \in Over(n)

LEMMA Placed ==
  ASSUME NEW rows, NEW held, NEW keys, Kept(rows, held, keys), NEW key,
         NEW table, table = Organized(rows, key), NEW c \in DOMAIN table
  PROVE  PlacedAs(rows, held, table, c, EndOf(rows, c).from, Len(c))
<1>1. PICK n, m : n = EndOf(rows, c).from /\ m = Len(c)
  OBVIOUS
<1>2. /\ c \in Chains(rows) /\ n \in DOMAIN held
      /\ n = <<n[1], n[2]>> /\ n[2] \in Seq(Nat) /\ Len(n[2]) = m
      /\ \A i \in 1 .. m : /\ Upto(c, i) \in DOMAIN table
                          /\ EndOf(rows, Upto(c, i)).from = At(n, i)
  BY <1>1, PlaceFrom
<1>3. c \in Seq(Nat \ {0}) /\ m \in 1 .. Depth
  BY <1>1, <1>2, ChainShape DEF Kept
<1>4. m \in Nat /\ m >= 1 /\ m \in 1 .. m
  BY <1>3, FormAssumption
<1>5. /\ At(n, m) = n
      /\ \A i \in 1 .. m - 1 : At(n, i) \in Over(n)
      /\ \A i \in 1 .. m : At(n, i)[2] \in Seq(Nat) /\ Len(At(n, i)[2]) = i
                           /\ Above(At(n, i)) = At(n, i - 1)
  BY <1>2, <1>4, AtFacts
<1>6. Above(n) = At(n, m - 1)
  BY <1>4, <1>5
<1>7. Upto(c, m) = c
  BY <1>1, <1>3, UptoAll
<1>8. \A i \in 1 .. m : Len(Upto(c, i)) = i
  <2>1. \A i \in 1 .. m : i \in 0 .. Len(c)
    BY <1>1, <1>4
  <2> QED BY <1>3, <2>1, UptoFacts
<1> QED BY <1>1, <1>2, <1>3, <1>4, <1>5, <1>6, <1>7, <1>8 DEF PlacedAs

(* What is inside of a parameter is at the places below its own.           *)
LEMMA ChildFrom ==
  ASSUME NEW rows, NEW held, NEW keys, Kept(rows, held, keys), NEW key,
         NEW table, table = Organized(rows, key),
         NEW c \in DOMAIN table, NEW q \in ChildrenOf(table, c)
  PROVE  EndOf(rows, q).from \in Inside(held, EndOf(rows, c).from)
<1>1. PICK n, m : n = EndOf(rows, c).from /\ m = Len(c)
  OBVIOUS
<1>2. q \in DOMAIN table /\ Len(q) = m + 1 /\ Upto(q, m) = c
  BY <1>1 DEF ChildrenOf
<1>3. PICK o, k : o = EndOf(rows, q).from /\ k = Len(q)
  OBVIOUS
<1>4. PlacedAs(rows, held, table, q, o, k) /\ PlacedAs(rows, held, table, c, n, m)
  BY <1>1, <1>2, <1>3, Placed
<1>5. k = m + 1 /\ m \in Nat /\ m >= 1 /\ m \in 1 .. k /\ k - 1 = m /\ k # 1
  BY <1>2, <1>3, <1>4 DEF PlacedAs
<1>6. Above(o) = n /\ o \in DOMAIN held /\ Len(o[2]) = k
  BY <1>1, <1>2, <1>4, <1>5 DEF PlacedAs
<1>7. ~IsRoot(o)
  BY <1>5, <1>6 DEF IsRoot
<1> QED BY <1>1, <1>3, <1>6, <1>7 DEF Inside

LEMMA FromChild ==
  ASSUME NEW rows, NEW held, NEW keys, Kept(rows, held, keys), NEW key,
         NEW table, table = Organized(rows, key),
         NEW c \in DOMAIN table, NEW o \in Inside(held, EndOf(rows, c).from)
  PROVE  \E q \in ChildrenOf(table, c) : EndOf(rows, q).from = o
<1>1. PICK n, m : n = EndOf(rows, c).from /\ m = Len(c)
  OBVIOUS
<1>2. o \in DOMAIN held /\ ~IsRoot(o) /\ Above(o) = n
  BY <1>1 DEF Inside
<1>3. held[n].key = key
  BY <1>1, PlaceFrom
<1>4. held[o].key = key
  <2>1. o[2] \in Seq(Nat) /\ Len(o[2]) >= 1
    BY <1>2, FormAssumption DEF Kept, HeldOK
  <2>2. Above(o) \in Over(o)
    BY <1>2, <2>1, AboveIn
  <2> QED BY <1>2, <1>3, <2>2 DEF Kept, HeldOK
<1>5. PICK q \in DOMAIN table : EndOf(rows, q).from = o
  BY <1>2, <1>4, PlaceOf
<1>6. PICK k : k = Len(q)
  OBVIOUS
<1>7. PlacedAs(rows, held, table, q, o, k) /\ PlacedAs(rows, held, table, c, n, m)
  BY <1>1, <1>5, <1>6, Placed
<1>8. k \in Nat /\ k >= 1 /\ k # 1 /\ m \in Nat
  BY <1>2, <1>7 DEF PlacedAs, IsRoot
<1>9. k - 1 \in 1 .. k /\ k - 1 \in Nat
  BY <1>8
<1>10. Upto(q, k - 1) \in DOMAIN table /\ EndOf(rows, Upto(q, k - 1)).from = n
       /\ Len(Upto(q, k - 1)) = k - 1
  BY <1>2, <1>7, <1>9 DEF PlacedAs
<1>11. Upto(q, k - 1) = c
  BY <1>1, <1>10, FromUnique
<1>12. k = m + 1 /\ Upto(q, m) = c
  <2>1. m = k - 1
    BY <1>1, <1>10, <1>11
  <2> QED BY <1>8, <1>11, <2>1
<1> QED BY <1>1, <1>5, <1>6, <1>12 DEF ChildrenOf

(* Interfaces are named as the form names them.                            *)
LEMMA NamedAt ==
  ASSUME NEW rows, NEW held, NEW keys, Kept(rows, held, keys), NEW key,
         NEW table, table = Organized(rows, key), NEW c \in DOMAIN table,
         NEW j \in 0 .. Len(c), \A i \in 1 .. j : TakesChildren(table[Upto(c, i)]),
         NEW root
  PROVE  InterfaceName(root, table, Upto(c, j)) = Named(held, EndOf(rows, c).from, j, root)
<1>1. PICK n, m : n = EndOf(rows, c).from /\ m = Len(c)
  OBVIOUS
<1>2. PlacedAs(rows, held, table, c, n, m)
  BY <1>1, Placed
<1>3. m \in Nat /\ c \in Seq(Nat \ {0}) /\ j \in 0 .. m /\ j \in Nat
  BY <1>1, <1>2 DEF PlacedAs
<1>4. Len(Upto(c, j)) = j /\ \A i \in 1 .. j : Upto(Upto(c, j), i) = Upto(c, i)
  <2>1. Len(Upto(c, j)) = j /\ \A i \in 0 .. j : Upto(Upto(c, j), i) = Upto(c, i)
    BY <1>1, <1>3, UptoFacts
  <2> QED BY <2>1
<1> DEFINE f == [i \in 1 .. Len(Upto(c, j)) |-> Piece(table[Upto(Upto(c, j), i)])]
           g == [i \in 1 .. j |->
                   LET p == held[<<n[1], Upto(n[2], i)>>]
                   IN IF p.type = "array" THEN capitalizeFirstLetter(p.name) \o <<"Item">>
                      ELSE capitalizeFirstLetter(p.name)]
<1>5. ASSUME NEW i \in 1 .. j
      PROVE  Piece(table[Upto(Upto(c, j), i)]) =
               LET p == held[<<n[1], Upto(n[2], i)>>]
               IN IF p.type = "array" THEN capitalizeFirstLetter(p.name) \o <<"Item">>
                  ELSE capitalizeFirstLetter(p.name)
  <2>1. PICK d : d = Upto(c, i)
    OBVIOUS
  <2>2. i \in 1 .. m
    BY <1>3
  <2>3. d \in DOMAIN table /\ EndOf(rows, d).from = At(n, i)
    BY <1>2, <2>1, <2>2 DEF PlacedAs
  <2>4. PICK x, y : x = table[d] /\ y = held[<<n[1], Upto(n[2], i)>>]
    OBVIOUS
  <2>5. x.name = y.name /\ x.type = y.type
    <3>1. PICK o : o = EndOf(rows, d).from
      OBVIOUS
    <3>2. x.name = held[o].name /\ x.type = held[o].type
      BY <2>3, <2>4, <3>1, PlaceFrom
    <3>3. o = <<n[1], Upto(n[2], i)>>
      BY <2>3, <3>1, Zenon DEF At
    <3>4. held[o] = y
      BY <2>4, <3>3, Zenon
    <3> QED BY <3>2, <3>4
  <2>6. TakesChildren(x) /\ x = table[Upto(Upto(c, j), i)]
    BY <1>4, <2>1, <2>4
  <2>7. Piece(x) = IF y.type = "array" THEN capitalizeFirstLetter(y.name) \o <<"Item">>
                   ELSE capitalizeFirstLetter(y.name)
    BY <2>5, <2>6 DEF TakesChildren, Piece
  <2> QED BY <2>4, <2>6, <2>7
<1>6. f = g
  BY <1>4, <1>5
<1>7. InterfaceName(root, table, Upto(c, j)) = root \o FlattenSeq(f)
  BY DEF InterfaceName
<1>8. Named(held, n, j, root) = root \o FlattenSeq(g)
  BY DEF Named
<1> QED BY <1>1, <1>6, <1>7, <1>8, Zenon

(* The parameters around a place take children.                            *)
LEMMA TakesAbove ==
  ASSUME NEW rows, NEW held, NEW keys, Kept(rows, held, keys), NEW key,
         NEW table, table = Organized(rows, key), NEW c \in DOMAIN table,
         NEW i \in 1 .. Len(c) - 1
  PROVE  TakesChildren(table[Upto(c, i)]) /\ HasInterface(table, Upto(c, i))
<1>1. PICK n, m : n = EndOf(rows, c).from /\ m = Len(c)
  OBVIOUS
<1>2. PlacedAs(rows, held, table, c, n, m)
  BY <1>1, Placed
<1>3. m \in Nat /\ i \in 1 .. m /\ i + 1 \in 1 .. m /\ i \in Nat /\ c \in Seq(Nat \ {0})
  BY <1>1, <1>2 DEF PlacedAs
<1>4. PICK d \in DOMAIN table : d = Upto(c, i) /\ EndOf(rows, d).from = At(n, i)
  BY <1>2, <1>3 DEF PlacedAs
<1>5. PICK o : o = At(n, i)
  OBVIOUS
<1>6. TakesChildren(held[o])
  BY <1>1, <1>2, <1>5 DEF Kept, HeldOK, PlacedAs
<1>7. table[d].type = held[o].type /\ table[d].act = held[o].act
  BY <1>4, <1>5, PlaceFrom
<1>8. TakesChildren(table[d])
  BY <1>6, <1>7 DEF TakesChildren
<1>9. Upto(c, i + 1) \in ChildrenOf(table, d)
  <2>1. Upto(c, i + 1) \in DOMAIN table /\ Len(Upto(c, i + 1)) = i + 1 /\ Len(d) = i
    BY <1>2, <1>3, <1>4 DEF PlacedAs
  <2>2. i + 1 \in 0 .. Len(c) /\ i \in 0 .. i + 1
    BY <1>1, <1>3
  <2>3. Upto(Upto(c, i + 1), i) = Upto(c, i)
    BY <1>3, <2>2, UptoFacts
  <2> QED BY <1>4, <2>1, <2>3 DEF ChildrenOf
<1> QED BY <1>4, <1>8, <1>9 DEF HasInterface

(* A field says what the form says of its parameter.                       *)
LEMMA FieldHeld ==
  ASSUME NEW rows, NEW held, NEW keys, Kept(rows, held, keys), NEW key,
         NEW table, table = Organized(rows, key), NEW c \in DOMAIN table, NEW root
  PROVE  FieldOf(root, table, c) = HeldField(held, EndOf(rows, c).from, root)
<1>1. PICK n, m : n = EndOf(rows, c).from /\ m = Len(c)
  OBVIOUS
<1>2. PlacedAs(rows, held, table, c, n, m)
  BY <1>1, Placed
<1>3. PICK x, y : x = table[c] /\ y = held[n]
  OBVIOUS
<1>4. x.name = y.name /\ x.type = y.type /\ x.act = y.act /\ x.required = y.required
  BY <1>1, <1>3, PlaceFrom
<1>5. HasInterface(table, c) <=> Inside(held, n) # {}
  <2>1. ASSUME HasInterface(table, c) PROVE Inside(held, n) # {}
    BY <1>1, <2>1, ChildFrom DEF HasInterface
  <2>2. ASSUME Inside(held, n) # {} PROVE HasInterface(table, c)
    <3>1. PICK o \in Inside(held, n) : TRUE
      BY <2>2
    <3>2. PICK q \in ChildrenOf(table, c) : TRUE
      BY <1>1, <3>1, FromChild
    <3>3. o \in DOMAIN held /\ ~IsRoot(o) /\ Above(o) = n
      BY <3>1 DEF Inside
    <3>4. o[2] \in Seq(Nat) /\ Len(o[2]) >= 1
      BY <3>3, FormAssumption DEF Kept, HeldOK
    <3>5. n \in Over(o)
      BY <3>3, <3>4, AboveIn
    <3>6. TakesChildren(y)
      BY <1>3, <3>3, <3>5 DEF Kept, HeldOK
    <3>7. TakesChildren(x)
      BY <1>4, <3>6 DEF TakesChildren
    <3> QED BY <1>3, <3>2, <3>7 DEF HasInterface
  <2> QED BY <2>1, <2>2
<1>6. ASSUME HasInterface(table, c)
      PROVE  InterfaceName(root, table, c) = Named(held, n, Len(n[2]), root)
  <2>1. m \in 0 .. Len(c) /\ Upto(c, m) = c /\ Len(n[2]) = m /\ m \in Nat
    BY <1>1, <1>2 DEF PlacedAs
  <2>2. ASSUME NEW i \in 1 .. m PROVE TakesChildren(table[Upto(c, i)])
    <3>1. CASE i = m
      BY <1>6, <2>1, <3>1 DEF HasInterface
    <3>2. CASE i # m
      <4>1. i \in 1 .. Len(c) - 1
        BY <1>1, <2>1, <3>2
      <4> QED BY <4>1, TakesAbove
    <3> QED BY <3>1, <3>2
  <2>3. InterfaceName(root, table, Upto(c, m)) = Named(held, n, m, root)
    BY <1>1, <2>1, <2>2, NamedAt
  <2> QED BY <2>1, <2>3
<1>7. PICK t : t = IF HasInterface(table, c)
                   THEN [of |-> InterfaceName(root, table, c), list |-> x.type = "array"]
                   ELSE tsTypeMap(x.type, x.act)
  OBVIOUS
<1>8. t = IF Inside(held, n) # {}
          THEN [of |-> Named(held, n, Len(n[2]), root), list |-> y.type = "array"]
          ELSE tsTypeMap(y.type, y.act)
  BY <1>4, <1>5, <1>6, <1>7, Zenon
<1>9. FieldOf(root, table, c) = [name |-> x.name, optional |-> ~x.required, type |-> t]
  BY <1>3, <1>7, Zenon DEF FieldOf
<1>10. HeldField(held, n, root) = [name |-> y.name, optional |-> ~y.required, type |-> t]
  BY <1>3, <1>8, Zenon DEF HeldField
<1> QED BY <1>1, <1>4, <1>9, <1>10, Zenon

(* Places side by side come from parameters side by side.                  *)
LEMMA Siblings ==
  ASSUME NEW rows, NEW held, NEW keys, Kept(rows, held, keys), NEW key,
         NEW table, table = Organized(rows, key), NEW c \in DOMAIN table, NEW q \in DOMAIN table
  PROVE  q \in ChildrenOf(table, Upto(c, Len(c) - 1))
           <=> EndOf(rows, q).from \in Beside(held, EndOf(rows, c).from)
<1>1. PICK n, m, o, k, p : /\ n = EndOf(rows, c).from /\ m = Len(c)
                           /\ o = EndOf(rows, q).from /\ k = Len(q)
                           /\ p = Upto(c, m - 1)
  OBVIOUS
<1>2. PlacedAs(rows, held, table, c, n, m) /\ PlacedAs(rows, held, table, q, o, k)
  BY <1>1, Placed
<1>3. /\ m \in Nat /\ m >= 1 /\ k \in Nat /\ k >= 1
      /\ Len(n[2]) = m /\ Len(o[2]) = k /\ o \in DOMAIN held /\ c \in Seq(Nat \ {0})
      /\ Above(n) = At(n, m - 1) /\ Above(o) = At(o, k - 1)
  BY <1>2 DEF PlacedAs
<1>4. held[n].key = key /\ held[o].key = key
  BY <1>1, PlaceFrom
<1>5. Len(p) = m - 1
  <2>1. PICK j : j = m - 1 /\ j \in 0 .. Len(c)
    BY <1>1, <1>3
  <2> QED BY <1>1, <1>3, <2>1, UptoFacts
<1>6. q \in ChildrenOf(table, p) <=> k = m /\ Upto(q, m - 1) = p
  BY <1>1, <1>3, <1>5 DEF ChildrenOf
<1>7. CASE m = 1
  <2>1. Upto(q, m - 1) = p
    BY <1>1, <1>7, NoPlace
  <2>2. o \in Beside(held, n) <=> k = 1
    BY <1>3, <1>4, <1>7 DEF Beside, IsRoot
  <2> QED BY <1>1, <1>6, <1>7, <2>1, <2>2
<1>8. CASE m > 1
  <2>1. o \in Beside(held, n) <=> k # 1 /\ Above(o) = Above(n)
    <3>1. ~IsRoot(n) /\ (IsRoot(o) <=> k = 1)
      BY <1>3, <1>8 DEF IsRoot
    <3> QED BY <1>3, <1>4, <3>1, Zenon DEF Beside
  <2>2. m - 1 \in 1 .. m
    BY <1>3, <1>8
  <2>3. p \in DOMAIN table /\ EndOf(rows, p).from = Above(n) /\ Len(Above(n)[2]) = m - 1
    BY <1>1, <1>2, <1>3, <2>2 DEF PlacedAs
  <2>4. ASSUME k > 1
        PROVE  /\ Upto(q, k - 1) \in DOMAIN table
               /\ EndOf(rows, Upto(q, k - 1)).from = Above(o) /\ Len(Above(o)[2]) = k - 1
    <3>1. k - 1 \in 1 .. k
      BY <1>3, <2>4
    <3> QED BY <1>2, <1>3, <3>1 DEF PlacedAs
  <2>5. ASSUME k = m, Upto(q, m - 1) = p PROVE k # 1 /\ Above(o) = Above(n)
    BY <1>8, <2>3, <2>4, <2>5
  <2>6. ASSUME k # 1, Above(o) = Above(n) PROVE k = m /\ Upto(q, m - 1) = p
    <3>1. k > 1
      BY <1>3, <2>6
    <3>2. k - 1 = m - 1
      BY <2>3, <2>4, <2>6, <3>1
    <3>3. k = m
      BY <1>3, <3>2
    <3>4. Upto(q, k - 1) = p
      BY <2>3, <2>4, <2>6, <3>1, FromUnique
    <3> QED BY <3>3, <3>4
  <2> QED BY <1>1, <1>6, <2>1, <2>5, <2>6
<1> QED BY <1>3, <1>7, <1>8

(* What the generator writes for the places under p, and what the form     *)
(* calls for beside n.                                                     *)
Written(root, table, p) ==
  [name |-> InterfaceName(root, table, p),
   fields |-> {FieldOf(root, table, q) : q \in ChildrenOf(table, p)}]
Called(held, n, root) ==
  [name |-> Named(held, n, Len(n[2]) - 1, root),
   fields |-> {HeldField(held, m, root) : m \in Beside(held, n)}]

LEMMA InterfaceHeld ==
  ASSUME NEW rows, NEW held, NEW keys, Kept(rows, held, keys), NEW key,
         NEW table, table = Organized(rows, key), NEW c \in DOMAIN table, NEW root
  PROVE  /\ Upto(c, Len(c) - 1) \in {<<>>} \cup Entered(table)
         /\ Written(root, table, Upto(c, Len(c) - 1)) = Called(held, EndOf(rows, c).from, root)
<1>1. PICK n, m, p : n = EndOf(rows, c).from /\ m = Len(c) /\ p = Upto(c, m - 1)
  OBVIOUS
<1>2. PlacedAs(rows, held, table, c, n, m)
  BY <1>1, Placed
<1>3. m \in Nat /\ m >= 1 /\ Len(n[2]) = m /\ m - 1 \in 0 .. Len(c) /\ c \in Seq(Nat \ {0})
  BY <1>1, <1>2 DEF PlacedAs
<1>4. Len(p) = m - 1 /\ \A i \in 1 .. m - 1 : Upto(p, i) = Upto(c, i)
  <2>1. PICK j : j = m - 1 /\ j \in 0 .. Len(c)
    BY <1>3
  <2>2. Len(Upto(c, j)) = j /\ \A i \in 0 .. j : Upto(Upto(c, j), i) = Upto(c, i)
    BY <1>3, <2>1, UptoFacts
  <2> QED BY <1>1, <1>3, <2>1, <2>2
<1>5. \A i \in 1 .. m - 1 : TakesChildren(table[Upto(c, i)]) /\ HasInterface(table, Upto(c, i))
  BY <1>1, TakesAbove
<1>6. p \in {<<>>} \cup Entered(table)
  <2>1. CASE m = 1
    BY <1>1, <2>1, NoPlace
  <2>2. CASE m # 1
    <3>1. m - 1 \in 1 .. m
      BY <1>3, <2>2
    <3>2. p \in DOMAIN table
      BY <1>1, <1>2, <3>1 DEF PlacedAs
    <3> QED BY <1>4, <1>5, <3>2 DEF Entered
  <2> QED BY <2>1, <2>2
<1>7. InterfaceName(root, table, p) = Named(held, n, Len(n[2]) - 1, root)
  <2>1. PICK j \in 0 .. Len(c) : j = m - 1
    BY <1>3
  <2>2. InterfaceName(root, table, Upto(c, j)) = Named(held, n, j, root)
    BY <1>1, <1>5, <2>1, NamedAt
  <2> QED BY <1>1, <1>3, <2>1, <2>2
<1>8. {FieldOf(root, table, q) : q \in ChildrenOf(table, p)} =
        {HeldField(held, o, root) : o \in Beside(held, n)}
  <2>1. ChildrenOf(table, p) \subseteq DOMAIN table
    BY DEF ChildrenOf
  <2>2. ASSUME NEW q \in ChildrenOf(table, p)
        PROVE  \E o \in Beside(held, n) : FieldOf(root, table, q) = HeldField(held, o, root)
    <3>1. EndOf(rows, q).from \in Beside(held, n)
      BY <1>1, <2>1, Siblings
    <3>2. FieldOf(root, table, q) = HeldField(held, EndOf(rows, q).from, root)
      BY <2>1, FieldHeld
    <3> QED BY <3>1, <3>2
  <2>3. ASSUME NEW o \in Beside(held, n)
        PROVE  \E q \in ChildrenOf(table, p) : FieldOf(root, table, q) = HeldField(held, o, root)
    <3>1. o \in DOMAIN held /\ held[o].key = held[n].key
      BY DEF Beside
    <3>2. held[n].key = key
      BY <1>1, PlaceFrom
    <3>3. PICK q \in DOMAIN table : EndOf(rows, q).from = o
      BY <3>1, <3>2, PlaceOf
    <3>4. q \in ChildrenOf(table, p)
      BY <1>1, <3>3, Siblings
    <3>5. FieldOf(root, table, q) = HeldField(held, o, root)
      BY <3>3, FieldHeld
    <3> QED BY <3>4, <3>5
  <2> QED BY <2>2, <2>3
<1>9. Written(root, table, p) = Called(held, n, root)
  BY <1>7, <1>8, Zenon DEF Written, Called
<1> QED BY <1>1, <1>6, <1>9

(* A table without rows writes nothing; one with rows, what the form calls *)
(* for under its key.                                                      *)
LEMMA TableCode ==
  ASSUME NEW rows, NEW held, NEW keys, Kept(rows, held, keys), NEW key,
         NEW table, table = Organized(rows, key), DOMAIN table # {}, NEW root
  PROVE  /\ \A i \in generateInterface(root, table) : \E n \in DOMAIN held :
              held[n].key = key /\ i = Called(held, n, root)
         /\ \A n \in DOMAIN held :
              held[n].key = key => Called(held, n, root) \in generateInterface(root, table)
         /\ Written(root, table, <<>>) \in generateInterface(root, table)
<1>1. generateInterface(root, table) = {Written(root, table, p) : p \in {<<>>} \cup Entered(table)}
  BY DEF generateInterface, Written
<1>2. ASSUME NEW p \in {<<>>} \cup Entered(table)
      PROVE  \E c \in DOMAIN table : p = Upto(c, Len(c) - 1)
  <2>1. CASE p = <<>>
    <3>1. PICK c \in DOMAIN table : TRUE
      OBVIOUS
    <3>2. PICK m, n : m = Len(c) /\ n = EndOf(rows, c).from
      OBVIOUS
    <3>3. PlacedAs(rows, held, table, c, n, m)
      BY <3>2, Placed
    <3>4. 1 \in 1 .. m
      BY <3>3 DEF PlacedAs
    <3>5. PICK d : d = Upto(c, 1)
      OBVIOUS
    <3>6. d \in DOMAIN table /\ Len(d) = 1
      BY <3>3, <3>4, <3>5 DEF PlacedAs
    <3>7. Upto(d, Len(d) - 1) = <<>>
      BY <3>6, NoPlace
    <3> QED BY <2>1, <3>6, <3>7
  <2>2. CASE p \in Entered(table)
    <3>1. PICK m, n : m = Len(p) /\ n = EndOf(rows, p).from
      OBVIOUS
    <3>2. p \in DOMAIN table
      BY <2>2 DEF Entered
    <3>3. PlacedAs(rows, held, table, p, n, m)
      BY <3>1, <3>2, Placed
    <3>4. m \in 1 .. Len(p) /\ Upto(p, m) = p /\ m \in Nat
      BY <3>1, <3>3 DEF PlacedAs
    <3>5. HasInterface(table, p)
      <4>1. HasInterface(table, Upto(p, m))
        BY <2>2, <3>4 DEF Entered
      <4> QED BY <3>4, <4>1
    <3>6. PICK c \in ChildrenOf(table, p) : TRUE
      BY <3>5 DEF HasInterface
    <3>7. c \in DOMAIN table /\ Len(c) = m + 1 /\ Upto(c, m) = p
      BY <3>1, <3>6 DEF ChildrenOf
    <3>8. Len(c) - 1 = m
      BY <3>4, <3>7
    <3> QED BY <3>7, <3>8
  <2> QED BY <2>1, <2>2
<1>3. ASSUME NEW i \in generateInterface(root, table)
      PROVE  \E n \in DOMAIN held : held[n].key = key /\ i = Called(held, n, root)
  <2>1. PICK p \in {<<>>} \cup Entered(table) : i = Written(root, table, p)
    BY <1>1
  <2>2. PICK c \in DOMAIN table : p = Upto(c, Len(c) - 1)
    BY <1>2
  <2>3. PICK n : n = EndOf(rows, c).from
    OBVIOUS
  <2>4. Written(root, table, p) = Called(held, n, root)
    BY <2>2, <2>3, InterfaceHeld
  <2>5. n \in DOMAIN held /\ held[n].key = key
    BY <2>3, PlaceFrom
  <2> QED BY <2>1, <2>4, <2>5
<1>4. ASSUME NEW n \in DOMAIN held, held[n].key = key
      PROVE  Called(held, n, root) \in generateInterface(root, table)
  <2>1. PICK c \in DOMAIN table : EndOf(rows, c).from = n
    BY <1>4, PlaceOf
  <2>2. /\ Upto(c, Len(c) - 1) \in {<<>>} \cup Entered(table)
        /\ Written(root, table, Upto(c, Len(c) - 1)) = Called(held, n, root)
    BY <2>1, InterfaceHeld
  <2> QED BY <1>1, <2>2
<1> QED BY <1>1, <1>3, <1>4

(* The code of one side, request or response.                              *)
LEMMA SideCode ==
  ASSUME NEW rows, NEW held, NEW keys, Kept(rows, held, keys),
         NEW tables, \A k \in DOMAIN tables : tables[k] = Organized(rows, k),
         \A n \in DOMAIN held : held[n].key \in DOMAIN tables,
         NEW roots, \A k \in DOMAIN tables : roots[k] \in Seq(Words)
  PROVE  SideHolds(roots, tables, held)
<1>1. PICK code : code = namespaces(roots, tables)
  OBVIOUS
<1>2. code = UNION {generateInterface(roots[k], tables[k]) : k \in NonEmpty(tables)}
  BY <1>1 DEF namespaces
<1>3. \A k \in NonEmpty(tables) : k \in DOMAIN tables /\ DOMAIN tables[k] # {}
  BY DEF NonEmpty
<1>4. HeldCode(held, roots) = {Called(held, n, roots[held[n].key]) : n \in DOMAIN held}
  BY DEF HeldCode, Called
<1>5. ASSUME NEW k \in NonEmpty(tables)
      PROVE  /\ \A i \in generateInterface(roots[k], tables[k]) : \E n \in DOMAIN held :
                  held[n].key = k /\ i = Called(held, n, roots[k])
             /\ \A n \in DOMAIN held : held[n].key = k =>
                  Called(held, n, roots[k]) \in generateInterface(roots[k], tables[k])
             /\ Written(roots[k], tables[k], <<>>) \in generateInterface(roots[k], tables[k])
  <2>1. PICK root, table : root = roots[k] /\ table = tables[k]
    OBVIOUS
  <2>2. table = Organized(rows, k) /\ DOMAIN table # {}
    BY <1>3, <2>1
  <2>3. /\ \A i \in generateInterface(root, table) : \E n \in DOMAIN held :
             held[n].key = k /\ i = Called(held, n, root)
        /\ \A n \in DOMAIN held :
             held[n].key = k => Called(held, n, root) \in generateInterface(root, table)
        /\ Written(root, table, <<>>) \in generateInterface(root, table)
    BY <2>2, TableCode
  <2> QED BY <2>1, <2>3, Zenon
<1>6. ASSUME NEW i \in code PROVE i \in HeldCode(held, roots)
  <2>1. PICK k \in NonEmpty(tables) : i \in generateInterface(roots[k], tables[k])
    BY <1>2
  <2>2. PICK n \in DOMAIN held : held[n].key = k /\ i = Called(held, n, roots[k])
    BY <1>5, <2>1
  <2> QED BY <1>4, <2>2
<1>7. ASSUME NEW i \in HeldCode(held, roots) PROVE i \in code
  <2>1. PICK n \in DOMAIN held : i = Called(held, n, roots[held[n].key])
    BY <1>4
  <2>2. PICK k : k = held[n].key
    OBVIOUS
  <2>3. PICK c \in DOMAIN Organized(rows, k) : EndOf(rows, c).from = n
    BY <2>2, PlaceOf
  <2>4. k \in NonEmpty(tables)
    BY <2>2, <2>3 DEF NonEmpty
  <2>5. i \in generateInterface(roots[k], tables[k])
    BY <1>5, <2>1, <2>2, <2>4
  <2> QED BY <1>2, <2>4, <2>5
<1>8. ASSUME NEW k \in NonEmpty(tables) PROVE roots[k] \in {i.name : i \in code}
  <2>1. PICK i : i = Written(roots[k], tables[k], <<>>)
    OBVIOUS
  <2>2. i \in code
    BY <1>2, <1>5, <2>1
  <2>3. i.name = InterfaceName(roots[k], tables[k], <<>>)
    BY <2>1 DEF Written
  <2>4. PICK root, table : root = roots[k] /\ table = tables[k]
    OBVIOUS
  <2>5. InterfaceName(root, table, <<>>) = root
    <3>1. PICK f : f = [j \in 1 .. Len(<<>>) |-> Piece(table[Upto(<<>>, j)])]
      OBVIOUS
    <3>2. f = <<>> /\ Len(f) = 0
      BY <3>1
    <3>3. FlattenSeq(f) = <<>>
      BY <3>2 DEF FlattenSeq
    <3>4. root \in Seq(Words)
      BY <1>3, <2>4
    <3>5. InterfaceName(root, table, <<>>) = root \o FlattenSeq(f)
      BY <3>1 DEF InterfaceName
    <3> QED BY <3>3, <3>4, <3>5
  <2> QED BY <2>2, <2>3, <2>4, <2>5
<1>9. Imports(roots, tables) \subseteq {i.name : i \in code}
  BY <1>8 DEF Imports
<1>10. code = HeldCode(held, roots)
  BY <1>6, <1>7
<1> QED BY <1>1, <1>9, <1>10, Zenon DEF SideHolds
(* A draft or published API with the form it was saved from.               *)
DocOK(d) ==
  /\ Kept(d.req, d.holds.req, Locations)
  /\ Kept(d.resp, d.holds.resp, Nums)
  /\ \A n \in DOMAIN d.holds.req : d.holds.req[n].key = n[1]

LEMMA RootKey ==
  ASSUME NEW rows, NEW held, NEW keys, Kept(rows, held, keys),
         NEW n \in DOMAIN held
  PROVE  held[n].key \in {r.data.key : r \in Roots(rows)}
<1>1. PICK key : key = held[n].key
  OBVIOUS
<1>2. PICK c \in DOMAIN Organized(rows, key) : EndOf(rows, c).from = n
  BY <1>1, PlaceOf
<1>3. c \in Chains(rows) /\ RowWith(rows, c[1]).data.key = key
  BY Zenon DEF Organized
<1>4. IdsOK(rows)
  BY DEF Kept
<1>5. /\ Len(c) \in 1 .. Depth /\ RowWith(rows, c[1]).parent = NoParent
      /\ \A i \in 1 .. Len(c) : RowWith(rows, c[i]) \in rows
  BY <1>3, <1>4, ChainShape
<1>6. 1 \in 1 .. Len(c)
  BY <1>5, FormAssumption
<1> QED BY <1>1, <1>3, <1>5, <1>6 DEF Roots

(* The fields of one part of the request.                                  *)
SentFrom(table) == {table[p].name : p \in ChildrenOf(table, <<>>)}

HeldIn(held, l) ==
  {held[n].name : n \in {m \in DOMAIN held : IsRoot(m) /\ m[1] = l}}

LEMMA RootFields ==
  ASSUME NEW rows, NEW held, NEW keys, Kept(rows, held, keys), NEW l,
         \A n \in DOMAIN held : held[n].key = n[1]
  PROVE  SentFrom(Organized(rows, l)) = HeldIn(held, l)
<1>1. PICK table : table = Organized(rows, l)
  OBVIOUS
<1>2. \A p \in DOMAIN table : p \in ChildrenOf(table, <<>>) <=> Len(p) = 1
  BY NoPlace DEF ChildrenOf
<1>3. ChildrenOf(table, <<>>) \subseteq DOMAIN table
  BY DEF ChildrenOf
<1>4. ASSUME NEW p \in ChildrenOf(table, <<>>)
      PROVE  \E n \in DOMAIN held :
               IsRoot(n) /\ n[1] = l /\ table[p].name = held[n].name
  <2>1. PICK n : n = EndOf(rows, p).from
    OBVIOUS
  <2>2. /\ n \in DOMAIN held /\ Len(n[2]) = Len(p) /\ held[n].key = l
        /\ table[p].name = held[n].name
    BY <1>1, <1>3, <2>1, PlaceFrom
  <2> QED BY <1>2, <1>3, <2>2 DEF IsRoot
<1>5. ASSUME NEW n \in DOMAIN held, IsRoot(n), n[1] = l
      PROVE  \E p \in ChildrenOf(table, <<>>) : table[p].name = held[n].name
  <2>1. held[n].key = l
    BY <1>5
  <2>2. PICK p \in DOMAIN table : EndOf(rows, p).from = n
    BY <1>1, <2>1, PlaceOf
  <2>3. Len(n[2]) = Len(p) /\ table[p].name = held[n].name
    BY <1>1, <2>2, PlaceFrom
  <2> QED BY <1>2, <1>5, <2>2, <2>3 DEF IsRoot
<1> QED BY <1>1, <1>4, <1>5 DEF SentFrom, HeldIn

(* The names of the tables are made of words.                              *)
LEMMA RootsNamed ==
  ASSUME NEW a \in Apis
  PROVE  /\ DOMAIN ReqRoots(a) = Locations /\ DOMAIN RespRoots(a) = Nums
         /\ \A l \in Locations : ReqRoots(a)[l] \in Seq(Words)
         /\ \A n \in Nums : RespRoots(a)[n] \in Seq(Words)
<1>1. PICK name \in Seq(Words) : name = ApiName[a]
  BY NamesAssumption
<1>2. \A s \in Seq(Words) : capitalizeFirstLetter(s) \in Seq(Words)
  <2> SUFFICES ASSUME NEW s \in Seq(Words) PROVE capitalizeFirstLetter(s) \in Seq(Words)
    OBVIOUS
  <2>1. \A i \in 1 .. Len(s) : s[i] \in Words /\ Upper[s[i]] \in Words
    BY NamesAssumption
  <2> QED BY <2>1 DEF capitalizeFirstLetter
<1>3. ASSUME NEW l \in Locations PROVE RequestInterfaceName(name, l) \in Seq(Words)
  <2>1. <<l>> \in Seq(Words) /\ <<"Request">> \in Seq(Words)
    BY NamesAssumption
  <2>2. PICK s \in Seq(Words), t \in Seq(Words), w \in Seq(Words) :
          /\ s = capitalizeFirstLetter(name) /\ t = capitalizeFirstLetter(<<l>>)
          /\ w = <<"Request">>
    BY <1>2, <2>1
  <2>3. (s \o t) \o w \in Seq(Words)
    OBVIOUS
  <2> QED BY <2>2, <2>3 DEF RequestInterfaceName
<1>4. ASSUME NEW n \in Nums PROVE ResponseInterfaceName(name, Numeral[n]) \in Seq(Words)
  <2>1. <<Numeral[n], "Response">> \in Seq(Words)
    BY NamesAssumption
  <2> QED BY <1>2, <2>1 DEF ResponseInterfaceName
<1> QED BY <1>1, <1>3, <1>4 DEF ReqRoots, RespRoots

(* The code of an API is what the form called for.                         *)
LEMMA DocCode ==
  ASSUME NEW a \in Apis, NEW d, DocOK(d)
  PROVE  CodeHolds(a, d)
<1>1. PICK req, resp, sq, sp : /\ req = ReqTables(d.req) /\ resp = RespTables(d.resp)
                               /\ sq = d.holds.req /\ sp = d.holds.resp
  OBVIOUS
<1>2. Kept(d.req, sq, Locations) /\ Kept(d.resp, sp, Nums)
  BY <1>1 DEF DocOK
<1>3. DOMAIN req = Locations /\ \A k \in DOMAIN req : req[k] = Organized(d.req, k)
  BY <1>1 DEF ReqTables
<1>4. /\ DOMAIN resp = {r.data.key : r \in Roots(d.resp)}
      /\ \A k \in DOMAIN resp : resp[k] = Organized(d.resp, k)
  BY <1>1 DEF RespTables
<1>5. \A n \in DOMAIN sq : sq[n].key \in DOMAIN req
  BY <1>2, <1>3 DEF Kept, HeldOK
<1>6. \A n \in DOMAIN sp : sp[n].key \in DOMAIN resp
  BY <1>2, <1>4, RootKey
<1>7. DOMAIN resp \subseteq Nums
  <2>1. \A r \in Roots(d.resp) : r \in d.resp
    BY DEF Roots
  <2>2. \A r \in d.resp : r.data = sp[r.from] /\ r.from \in DOMAIN sp
    BY <1>2 DEF Kept, RowsHold
  <2>3. \A n \in DOMAIN sp : sp[n].key \in Nums
    BY <1>2 DEF Kept, HeldOK
  <2> QED BY <1>4, <2>1, <2>2, <2>3
<1>8. PICK rq, rp : rq = ReqRoots(a) /\ rp = RespRoots(a)
  OBVIOUS
<1>9. /\ \A k \in DOMAIN req : rq[k] \in Seq(Words)
      /\ \A k \in DOMAIN resp : rp[k] \in Seq(Words)
  BY <1>3, <1>7, <1>8, RootsNamed
<1>10. SideHolds(rq, req, sq)
  BY <1>2, <1>3, <1>5, <1>9, SideCode
<1>11. SideHolds(rp, resp, sp)
  BY <1>2, <1>4, <1>6, <1>9, SideCode
<1>12. ASSUME NEW l \in Locations
       PROVE  SentFields(req)[l] = IF l = "cookie" THEN {}
                ELSE {sq[n].name : n \in {m \in DOMAIN sq : IsRoot(m) /\ m[1] = l}}
  <2>1. SentFields(req)[l] = IF l = "cookie" THEN {} ELSE SentFrom(req[l])
    BY <1>3 DEF SentFields, SentFrom
  <2>2. req[l] = Organized(d.req, l)
    BY <1>3
  <2>3. \A n \in DOMAIN sq : sq[n].key = n[1]
    BY <1>1 DEF DocOK
  <2>4. SentFrom(Organized(d.req, l)) = HeldIn(sq, l)
    BY <1>2, <2>3, RootFields
  <2>5. SentFields(req)[l] = IF l = "cookie" THEN {} ELSE HeldIn(sq, l)
    BY <2>1, <2>2, <2>4, Zenon
  <2> QED BY <2>5 DEF HeldIn
<1> QED BY <1>1, <1>8, <1>10, <1>11, <1>12, Zenon DEF CodeHolds
-----------------------------------------------------------------------------
(* The editor.                                                             *)

(* Dropping items with what is inside of them leaves a form.               *)
LEMMA FewerOK ==
  ASSUME NEW tables, NEW after, TablesOK(tables),
         Nodes(after) \subseteq Nodes(tables),
         \A n \in Nodes(after) : Over(n) \subseteq Nodes(after)
  PROVE  TablesOK(after)
<1>1. IsFiniteSet(Nodes(after))
  BY FS_Subset DEF TablesOK
<1> QED BY <1>1 DEF TablesOK

(* So does one more item below an item of the form, with an id of its own. *)
LEMMA OneMoreOK ==
  ASSUME NEW tables, NEW after, TablesOK(tables), NEW n,
         Nodes(after) = Nodes(tables) \cup {n},
         n[2] \in Seq(Nat), Len(n[2]) \in 1 .. Depth,
         Over(n) \subseteq Nodes(tables),
         \A m \in Nodes(tables) : Own(m) # Own(n)
  PROVE  TablesOK(after)
<1>1. IsFiniteSet(Nodes(after))
  BY FS_AddElement DEF TablesOK
<1> QED BY <1>1 DEF TablesOK

LEMMA PlaceIn ==
  ASSUME NEW tables, TablesOK(tables), NEW k \in DOMAIN tables,
         NEW p \in DOMAIN tables[k]
  PROVE  /\ <<k, p>> \in Nodes(tables)
         /\ p \in Seq(Nat) /\ Len(p) \in 1 .. Depth /\ Len(p) \in Nat
         /\ \A i \in 1 .. Len(p) - 1 : Upto(p, i) \in DOMAIN tables[k]
<1>1. PICK n : n = <<k, p>>
  OBVIOUS
<1>2. n \in Nodes(tables) /\ n[1] = k /\ n[2] = p
  BY <1>1, NodesOf
<1>3. p \in Seq(Nat) /\ Len(p) \in 1 .. Depth /\ Over(n) \subseteq Nodes(tables)
  BY <1>2 DEF TablesOK
<1>4. Len(p) \in Nat
  BY <1>3
<1>5. ASSUME NEW i \in 1 .. Len(p) - 1
      PROVE  Upto(p, i) \in DOMAIN tables[k]
  <2>1. PICK o : o = <<k, Upto(p, i)>>
    OBVIOUS
  <2>2. o \in Over(n) /\ o[1] = k /\ o[2] = Upto(p, i)
    BY <1>2, <2>1 DEF Over
  <2>3. o[2] \in DOMAIN tables[o[1]]
    BY <1>3, <2>2, NodesOf
  <2> QED BY <2>2, <2>3
<1> QED BY <1>1, <1>2, <1>3, <1>4, <1>5

(* One table of a form is replaced by one with fewer places.               *)
LEMMA FewerPlaces ==
  ASSUME NEW tables, NEW after, TablesOK(tables),
         \A k \in DOMAIN after : \A p \in DOMAIN after[k] :
           /\ k \in DOMAIN tables /\ p \in DOMAIN tables[k]
           /\ \A i \in 1 .. Len(p) - 1 : Upto(p, i) \in DOMAIN after[k]
  PROVE  TablesOK(after)
<1>1. ASSUME NEW n \in Nodes(after)
      PROVE  n \in Nodes(tables) /\ Over(n) \subseteq Nodes(after)
  <2>1. /\ n = <<n[1], n[2]>> /\ n[1] \in DOMAIN after
        /\ n[2] \in DOMAIN after[n[1]]
    BY NodesOf
  <2>2. PICK k, p : k = n[1] /\ p = n[2]
    OBVIOUS
  <2>3. /\ k \in DOMAIN tables /\ p \in DOMAIN tables[k]
        /\ \A i \in 1 .. Len(p) - 1 : Upto(p, i) \in DOMAIN after[k]
    BY <2>1, <2>2
  <2>4. n \in Nodes(tables)
    BY <2>1, <2>2, <2>3, NodesOf
  <2>5. \A i \in 1 .. Len(p) - 1 : <<k, Upto(p, i)>> \in Nodes(after)
    BY <2>1, <2>2, <2>3, NodesOf
  <2> QED BY <2>2, <2>4, <2>5 DEF Over
<1> QED BY <1>1, FewerOK

(* After any handler of a table the form is a form.                        *)
LEMMA AddOK ==
  ASSUME NEW tables, TablesOK(tables), NEW k \in DOMAIN tables,
         NEW id \in FreeIds(tables), NEW table \in handleAdd(tables[k], id),
         NEW after, DOMAIN after = DOMAIN tables,
         after[k] = table, \A l \in DOMAIN tables \ {k} : after[l] = tables[l]
  PROVE  TablesOK(after)
<1>1. id \in Nat /\ \A m \in Nodes(tables) : Own(m) # id
  BY FormAssumption DEF FreeIds
<1>2. PICK q \in OpenTables(tables[k]) :
        /\ Len(q) < Depth
        /\ DOMAIN table = DOMAIN tables[k] \cup {Append(q, id)}
  BY DEF handleAdd
<1>3. q = <<>> \/ q \in DOMAIN tables[k]
  BY <1>2 DEF OpenTables, OnScreen
<1>4. q \in Seq(Nat)
  <2>1. CASE q = <<>>
    BY <2>1
  <2>2. CASE q \in DOMAIN tables[k]
    BY <2>2, PlaceIn
  <2> QED BY <1>3, <2>1, <2>2
<1>5. PICK p : p = Append(q, id)
  OBVIOUS
<1>6. PICK d \in Nat : d = Depth
  BY FormAssumption
<1>7. PICK j \in Nat : j = Len(q)
  BY <1>4
<1>8. /\ p \in Seq(Nat) /\ Len(p) = j + 1 /\ p[j + 1] = id
      /\ \A i \in 1 .. j : p[i] = q[i]
  BY <1>1, <1>4, <1>5, <1>7
<1>9. Len(p) \in 1 .. Depth
  <2>1. j < d
    BY <1>2, <1>6, <1>7
  <2>2. j + 1 \in 1 .. d
    BY <2>1
  <2> QED BY <1>6, <1>8, <2>2
<1>10. PICK n : n = <<k, p>>
  OBVIOUS
<1>11. n[1] = k /\ n[2] = p
  BY <1>10
<1>12. Own(n) = id
  BY <1>8, <1>11 DEF Own
<1>13. Nodes(after) = Nodes(tables) \cup {n}
  <2>1. \A m \in Nodes(after) : m \in Nodes(tables) \/ m = n
    <3> SUFFICES ASSUME NEW m \in Nodes(after) PROVE m \in Nodes(tables) \/ m = n
      OBVIOUS
    <3>1. /\ m = <<m[1], m[2]>> /\ m[1] \in DOMAIN after
          /\ m[2] \in DOMAIN after[m[1]]
      BY NodesOf
    <3>2. PICK l, o : l = m[1] /\ o = m[2]
      OBVIOUS
    <3>3. m = <<l, o>> /\ l \in DOMAIN tables /\ o \in DOMAIN after[l]
      BY <3>1, <3>2
    <3>4. o \in DOMAIN tables[l] \/ (l = k /\ o = p)
      BY <1>2, <1>5, <3>3
    <3> QED BY <1>10, <3>3, <3>4, NodesOf
  <2>2. \A m \in Nodes(tables) : m \in Nodes(after)
    <3> SUFFICES ASSUME NEW m \in Nodes(tables) PROVE m \in Nodes(after)
      OBVIOUS
    <3>1. /\ m = <<m[1], m[2]>> /\ m[1] \in DOMAIN tables
          /\ m[2] \in DOMAIN tables[m[1]]
      BY NodesOf
    <3>2. PICK l, o : l = m[1] /\ o = m[2]
      OBVIOUS
    <3>3. m = <<l, o>> /\ l \in DOMAIN tables /\ o \in DOMAIN tables[l]
      BY <3>1, <3>2
    <3>4. l \in DOMAIN after /\ o \in DOMAIN after[l]
      BY <1>2, <3>3
    <3> QED BY <3>3, <3>4, NodesOf
  <2>3. n \in Nodes(after)
    BY <1>2, <1>5, <1>10, NodesOf
  <2> QED BY <2>1, <2>2, <2>3
<1>14. Over(n) \subseteq Nodes(tables)
  <2> SUFFICES ASSUME NEW i \in 1 .. j
               PROVE  <<k, Upto(p, i)>> \in Nodes(tables)
    <3>1. Len(p) - 1 = j
      BY <1>8
    <3>2. Over(n) = {<<k, Upto(p, i)>> : i \in 1 .. j}
      BY <1>11, <3>1, Zenon DEF Over
    <3> QED BY <3>2
  <2>1. Upto(p, i) = Upto(q, i)
    BY <1>8 DEF Upto
  <2>2. q \in DOMAIN tables[k]
    <3>1. j # 0
      OBVIOUS
    <3>2. Len(<<>>) = 0
      OBVIOUS
    <3> QED BY <1>3, <1>7, <3>1, <3>2
  <2>3. i = j \/ i \in 1 .. j - 1
    OBVIOUS
  <2>4. Upto(q, i) \in DOMAIN tables[k]
    <3>1. CASE i = j
      <4>1. Upto(q, Len(q)) = q
        BY <1>4, UptoAll
      <4> QED BY <1>7, <2>2, <3>1, <4>1
    <3>2. CASE i \in 1 .. j - 1
      BY <1>7, <2>2, <3>2, PlaceIn
    <3> QED BY <2>3, <3>1, <3>2
  <2> QED BY <2>1, <2>4, NodesOf
<1> QED BY <1>1, <1>8, <1>9, <1>11, <1>12, <1>13, <1>14, OneMoreOK

LEMMA RemoveOK ==
  ASSUME NEW tables, TablesOK(tables), NEW k \in DOMAIN tables,
         NEW table \in handleRemove(tables[k]),
         NEW after, DOMAIN after = DOMAIN tables,
         after[k] = table, \A l \in DOMAIN tables \ {k} : after[l] = tables[l]
  PROVE  TablesOK(after)
<1>1. PICK q \in OnScreen(tables[k]) :
        DOMAIN table =
          {o \in DOMAIN tables[k] : Len(o) < Len(q) \/ Upto(o, Len(q)) # q}
  BY DEF handleRemove
<1>2. q \in DOMAIN tables[k]
  BY <1>1 DEF OnScreen
<1>3. PICK m \in Nat : m = Len(q)
  BY <1>2, PlaceIn
<1>4. ASSUME NEW p \in DOMAIN table
      PROVE  /\ p \in DOMAIN tables[k]
             /\ \A i \in 1 .. Len(p) - 1 : Upto(p, i) \in DOMAIN table
  <2>1. p \in DOMAIN tables[k] /\ (Len(p) < m \/ Upto(p, m) # q)
    BY <1>1, <1>3
  <2>2. /\ p \in Seq(Nat) /\ Len(p) \in Nat
        /\ \A i \in 1 .. Len(p) - 1 : Upto(p, i) \in DOMAIN tables[k]
    BY <2>1, PlaceIn
  <2>3. ASSUME NEW i \in 1 .. Len(p) - 1
        PROVE  Upto(p, i) \in DOMAIN table
    <3>1. /\ Len(Upto(p, i)) = i
          /\ \A j \in 0 .. i : Upto(Upto(p, i), j) = Upto(p, j)
      <4>1. i \in 0 .. Len(p)
        BY <2>2
      <4> QED BY <2>2, <4>1, UptoFacts
    <3>2. i < m \/ Upto(Upto(p, i), m) # q
      <4>1. i < m \/ (m \in 0 .. i /\ ~(Len(p) < m))
        BY <2>2
      <4> QED BY <2>1, <3>1, <4>1
    <3> QED BY <1>1, <1>3, <2>2, <3>1, <3>2
  <2> QED BY <2>1, <2>3
<1>5. \A l \in DOMAIN after : \A p \in DOMAIN after[l] :
        /\ l \in DOMAIN tables /\ p \in DOMAIN tables[l]
        /\ \A i \in 1 .. Len(p) - 1 : Upto(p, i) \in DOMAIN after[l]
  <2> SUFFICES ASSUME NEW l \in DOMAIN after, NEW p \in DOMAIN after[l]
               PROVE  /\ l \in DOMAIN tables /\ p \in DOMAIN tables[l]
                      /\ \A i \in 1 .. Len(p) - 1 : Upto(p, i) \in DOMAIN after[l]
    OBVIOUS
  <2>1. CASE l = k
    BY <1>4, <2>1
  <2>2. CASE l # k
    <3>1. l \in DOMAIN tables /\ after[l] = tables[l]
      BY <2>2
    <3> QED BY <3>1, PlaceIn
  <2> QED BY <2>1, <2>2
<1> QED BY <1>5, FewerPlaces

(* Only the places matter: other fields, the same form.                    *)
LEMMA SamePlacesOK ==
  ASSUME NEW tables, TablesOK(tables), NEW after,
         \A k \in DOMAIN after :
           \/ DOMAIN after[k] = {}
           \/ k \in DOMAIN tables /\ DOMAIN after[k] = DOMAIN tables[k]
  PROVE  TablesOK(after)
<1>1. \A l \in DOMAIN after : \A p \in DOMAIN after[l] :
        /\ l \in DOMAIN tables /\ p \in DOMAIN tables[l]
        /\ \A i \in 1 .. Len(p) - 1 : Upto(p, i) \in DOMAIN after[l]
  <2> SUFFICES ASSUME NEW l \in DOMAIN after, NEW p \in DOMAIN after[l]
               PROVE  /\ l \in DOMAIN tables /\ p \in DOMAIN tables[l]
                      /\ \A i \in 1 .. Len(p) - 1 : Upto(p, i) \in DOMAIN after[l]
    OBVIOUS
  <2>1. l \in DOMAIN tables /\ DOMAIN after[l] = DOMAIN tables[l]
    OBVIOUS
  <2> QED BY <2>1, PlaceIn
<1> QED BY <1>1, FewerPlaces

LEMMA EditOK ==
  ASSUME NEW tables, TablesOK(tables), NEW k \in DOMAIN tables,
         NEW table \in TableEdits(tables, k)
  PROVE  TablesOK([tables EXCEPT ![k] = table])
<1>1. PICK after : after = [tables EXCEPT ![k] = table]
  OBVIOUS
<1>2. /\ DOMAIN after = DOMAIN tables /\ after[k] = table
      /\ \A l \in DOMAIN tables \ {k} : after[l] = tables[l]
  BY <1>1
<1>3. CASE FreeIds(tables) # {} /\ table \in handleAdd(tables[k], generateId(tables))
  <2>1. PICK id : id = generateId(tables)
    OBVIOUS
  <2>2. id \in FreeIds(tables)
    BY <1>3, <2>1 DEF generateId
  <2>3. table \in handleAdd(tables[k], id)
    BY <1>3, <2>1
  <2>4. TablesOK(after)
    BY <1>2, <2>2, <2>3, AddOK
  <2> QED BY <1>1, <2>4
<1>4. CASE table \in handleRemove(tables[k])
  <2>1. TablesOK(after)
    BY <1>2, <1>4, RemoveOK
  <2> QED BY <1>1, <2>1
<1>5. CASE table \in handleFieldChange(tables[k])
  <2>1. DOMAIN table = DOMAIN tables[k]
    BY <1>5 DEF handleFieldChange
  <2>2. TablesOK(after)
    BY <1>2, <2>1, SamePlacesOK
  <2> QED BY <1>1, <2>2
<1> QED BY <1>3, <1>4, <1>5 DEF TableEdits

LEMMA NoItemsOK ==
  ASSUME NEW tables, \A k \in DOMAIN tables : tables[k] = NoItems
  PROVE  TablesOK(tables)
<1>1. DOMAIN NoItems = {}
  BY DEF NoItems
<1>2. Nodes(tables) = {}
  BY <1>1, NodesOf
<1> QED BY <1>2, FS_EmptySet DEF TablesOK

-----------------------------------------------------------------------------
(* The inductive invariant: rows hold what was saved, the editor shows a   *)
(* form, and a save on its way carries what will be kept.                  *)

DocsOK(docs) ==
  DOMAIN docs \subseteq Apis /\ \A a \in DOMAIN docs : DocOK(docs[a])

EditorFields ==
  {"api", "path", "req", "resp", "tab", "isDraft", "rejectSubmit", "touched"}

EditorOK(form) ==
  /\ DOMAIN form = EditorFields
  /\ DOMAIN form.req = Locations /\ TablesOK(form.req)
  /\ DOMAIN form.resp \subseteq Codes /\ TablesOK(form.resp)
  /\ form.api # NoApi /\ StatusCodes(form.resp) # {}
       => form.tab \in StatusCodes(form.resp)

SavedAs(request) ==
  [path |-> request.path, req |-> Processed(request.req),
   resp |-> Processed(request.resp), holds |-> request.holds]

Inv ==
  /\ DocsOK(drafts) /\ DocsOK(published)
  /\ EditorOK(editor) /\ editor.api \in DOMAIN drafts \cup {NoApi}
  /\ saving.api \in DOMAIN drafts \cup {NoApi}
  /\ saving = None \/ DocOK(SavedAs(saving))
  /\ edits \in 0 .. MaxEdits /\ copies \in 0 .. MaxSteps

(* An open tab, if there is one, is one of the tabs.                       *)
LEMMA TabIn ==
  ASSUME NEW resp, DOMAIN resp \subseteq Codes, StatusCodes(resp) # {}, NEW tab
  PROVE  TabAfter(resp, tab) \in StatusCodes(resp)
<1>1. PICK codes : codes = StatusCodes(resp)
  OBVIOUS
<1>2. codes \in SUBSET Codes /\ codes # {}
  BY <1>1 DEF StatusCodes
<1>3. FirstCode(codes) \in codes
  BY <1>2, FirstCodeIn
<1> QED BY <1>1, <1>2, <1>3 DEF TabAfter

(* What a submitted form becomes when the backend has stored it.           *)
LEMMA FormStored ==
  ASSUME NEW form, NEW path, DOMAIN form.req = Locations, TablesOK(form.req),
         DOMAIN form.resp \subseteq Codes, TablesOK(form.resp),
         NEW d, d.path = path, d.req = Processed(ReqParams(form)),
         d.resp = Processed(RespParams(form)), d.holds = Holds(form)
  PROVE  DocOK(d)
<1>1. PICK sq, sp : /\ sq = Held(form.req, ReqKeys)
                    /\ sp = Held(form.resp, RespKeys(form.resp))
  OBVIOUS
<1>2. d.holds.req = sq /\ d.holds.resp = sp
  BY <1>1 DEF Holds
<1>3. Kept(d.req, sq, Locations)
  <2>1. \A k \in DOMAIN form.req : ReqKeys[k] \in Locations
    BY DEF ReqKeys
  <2> QED BY <1>1, <2>1, ProcessedKept DEF ReqParams
<1>4. Kept(d.resp, sp, Nums)
  <2>1. PICK keys : keys = RespKeys(form.resp)
    OBVIOUS
  <2>2. \A k \in DOMAIN form.resp : keys[k] \in Nums
    BY <2>1 DEF RespKeys, Nums
  <2> QED BY <1>1, <2>1, <2>2, ProcessedKept DEF RespParams
<1>5. \A n \in DOMAIN sq : sq[n].key = n[1]
  <2>1. \A n \in DOMAIN sq : n \in Nodes(form.req) /\
           sq[n] = Described(form.req[n[1]][n[2]], ReqKeys[n[1]])
    BY <1>1 DEF Held
  <2>2. \A n \in DOMAIN sq : n[1] \in Locations
    BY <2>1, NodesOf
  <2>3. \A n \in DOMAIN sq : ReqKeys[n[1]] = n[1]
    BY <2>2 DEF ReqKeys
  <2>4. \A x, k : Described(x, k).key = k
    BY DEF Described
  <2> QED BY <2>1, <2>3, <2>4
<1> QED BY <1>2, <1>3, <1>4, <1>5 DEF DocOK

(* No document is a document of these.                                     *)
LEMMA NoDocs ==
  ASSUME NEW docs, docs = <<>>
  PROVE  DOMAIN docs = {} /\ DocsOK(docs)
<1>1. DOMAIN docs = {}
  OBVIOUS
<1> QED BY <1>1 DEF DocsOK

LEMMA ClosedOK == EditorOK(Closed) /\ Closed.api = NoApi
<1>1. /\ Closed.api = NoApi /\ Closed.req = [l \in Locations |-> NoItems]
      /\ Closed.resp = <<>>
  BY DEF Closed
<1>2. DOMAIN Closed = EditorFields
  BY DEF Closed, EditorFields
<1>3. DOMAIN Closed.resp = {}
  BY <1>1
<1>4. DOMAIN Closed.req = Locations /\ \A l \in Locations : Closed.req[l] = NoItems
  BY <1>1
<1>5. TablesOK(Closed.req) /\ TablesOK(Closed.resp)
  BY <1>3, <1>4, NoItemsOK
<1> QED BY <1>1, <1>2, <1>3, <1>4, <1>5 DEF EditorOK

LEMMA InitInv == Init => Inv
<1> SUFFICES ASSUME Init PROVE Inv
  OBVIOUS
<1>1. DocsOK(drafts)
  <2>1. /\ DOMAIN drafts = DOMAIN FirstDrafts
        /\ \A a \in DOMAIN FirstDrafts :
             /\ drafts[a].path = FirstDrafts[a].path
             /\ drafts[a].req = Processed(ReqParams(FirstDrafts[a]))
             /\ drafts[a].resp = Processed(RespParams(FirstDrafts[a]))
             /\ drafts[a].holds = Holds(FirstDrafts[a])
    BY DEF Init
  <2>2. ASSUME NEW a \in DOMAIN FirstDrafts PROVE DocOK(drafts[a])
    <3>1. PICK form, d : form = FirstDrafts[a] /\ d = drafts[a]
      OBVIOUS
    <3>2. /\ DOMAIN form.req = Locations /\ DOMAIN form.resp \subseteq Codes
          /\ TablesOK(form.req) /\ TablesOK(form.resp)
      BY <3>1, FirstDraftsAssumption
    <3>3. DocOK(d)
      BY <2>1, <3>1, <3>2, FormStored
    <3> QED BY <3>1, <3>3
  <2> QED BY <2>1, <2>2, FirstDraftsAssumption DEF DocsOK
<1>2. DocsOK(published)
  BY NoDocs DEF Init
<1>3. EditorOK(editor) /\ editor.api \in DOMAIN drafts \cup {NoApi}
  BY ClosedOK DEF Init
<1>4. saving = None /\ saving.api = NoApi
  BY DEF Init, None
<1>5. edits \in 0 .. MaxEdits /\ copies \in 0 .. MaxSteps
  BY FormAssumption DEF Init
<1> QED BY <1>1, <1>2, <1>3, <1>4, <1>5 DEF Inv

(* The request tables of an opened API.                                    *)
LEMMA ReqTablesOK ==
  ASSUME NEW rows, NEW held, Kept(rows, held, Locations)
  PROVE  DOMAIN ReqTables(rows) = Locations /\ TablesOK(ReqTables(rows))
<1>1. PICK tables, of : tables = ReqTables(rows) /\ of = ReqKeys
  OBVIOUS
<1>2. /\ DOMAIN tables = Locations /\ DOMAIN of = Locations
      /\ \A l \in Locations : tables[l] = Organized(rows, l) /\ of[l] = l
  BY <1>1 DEF ReqTables, ReqKeys
<1>3. \A k \in DOMAIN tables : tables[k] = Organized(rows, of[k])
  BY <1>2
<1>4. \A k, l \in DOMAIN tables : of[k] = of[l] => k = l
  BY <1>2
<1>5. DOMAIN of = DOMAIN tables
  BY <1>2
<1>6. TablesOK(tables)
  BY <1>3, <1>4, <1>5, OrganizedOK
<1> QED BY <1>1, <1>2, <1>6

(* The response tables of an opened API, by the numerals of their codes.   *)
LEMMA RespTablesOK ==
  ASSUME NEW rows, NEW held, Kept(rows, held, Nums),
         NEW tables, tables = RespTables(rows), NEW loaded,
         loaded = [c \in {Plain(n) : n \in DOMAIN tables} |-> tables[c.int]]
  PROVE  DOMAIN loaded \subseteq Codes /\ TablesOK(loaded)
<1>1. /\ DOMAIN tables = {r.data.key : r \in Roots(rows)}
      /\ \A n \in DOMAIN tables : tables[n] = Organized(rows, n)
  BY DEF RespTables
<1>2. DOMAIN tables \subseteq Nums
  <2>1. Roots(rows) \subseteq rows
    BY DEF Roots
  <2>2. \A r \in rows : r.data = held[r.from] /\ r.from \in DOMAIN held
    BY DEF Kept, RowsHold
  <2>3. \A n \in DOMAIN held : held[n].key \in Nums
    BY DEF Kept, HeldOK
  <2> QED BY <1>1, <2>1, <2>2, <2>3
<1>3. \A n : Plain(n).int = n
  BY DEF Plain
<1>4. DOMAIN loaded = {Plain(n) : n \in DOMAIN tables}
  OBVIOUS
<1>5. \A c \in DOMAIN loaded : /\ c.int \in DOMAIN tables /\ c = Plain(c.int)
                               /\ loaded[c] = tables[c.int]
  BY <1>3
<1>6. DOMAIN loaded \subseteq Codes
  <2>1. \A n \in Nums : Plain(n) \in Codes
    BY FormAssumption DEF Nums
  <2> QED BY <1>2, <1>5, <2>1
<1>7. PICK of : of = [c \in DOMAIN loaded |-> c.int]
  OBVIOUS
<1>8. DOMAIN of = DOMAIN loaded /\ \A c \in DOMAIN loaded : of[c] = c.int
  BY <1>7
<1>9. \A c \in DOMAIN loaded : loaded[c] = Organized(rows, of[c])
  BY <1>1, <1>5, <1>8
<1>10. \A c, d \in DOMAIN loaded : of[c] = of[d] => c = d
  <2> SUFFICES ASSUME NEW c \in DOMAIN loaded, NEW d \in DOMAIN loaded,
                      of[c] = of[d]
               PROVE  c = d
    OBVIOUS
  <2>1. PICK m, n : m = c.int /\ n = d.int
    OBVIOUS
  <2>2. m = n
    BY <1>8, <2>1
  <2>3. c = Plain(m) /\ d = Plain(n)
    BY <1>5, <2>1
  <2> QED BY <2>2, <2>3
<1>11. TablesOK(loaded)
  <2>1. PICK t : t = loaded
    OBVIOUS
  <2>2. /\ DOMAIN of = DOMAIN t
        /\ \A c, d \in DOMAIN t : of[c] = of[d] => c = d
        /\ \A c \in DOMAIN t : t[c] = Organized(rows, of[c])
    BY <1>8, <1>9, <1>10, <2>1
  <2>3. TablesOK(t)
    BY <2>2, OrganizedOK
  <2> QED BY <2>1, <2>3
<1> QED BY <1>6, <1>11

LEMMA WithDefaultOK ==
  ASSUME NEW resp, DOMAIN resp \subseteq Codes, TablesOK(resp),
         NEW touched
  PROVE  /\ DOMAIN WithDefault(resp, touched) \subseteq Codes
         /\ TablesOK(WithDefault(resp, touched))
<1>1. PICK one : one = [c \in {Plain(200)} |-> NoItems]
  OBVIOUS
<1>2. DOMAIN one \subseteq Codes
  BY <1>1, FormAssumption
<1>3. TablesOK(one)
  BY <1>1, NoItemsOK
<1>4. WithDefault(resp, touched) = one \/ WithDefault(resp, touched) = resp
  BY <1>1, Zenon DEF WithDefault
<1> QED BY <1>2, <1>3, <1>4, Zenon

LEMMA OpenStep ==
  ASSUME Inv, NEW a \in DOMAIN drafts, Open(a)
  PROVE  Inv'
<1>1. PICK doc : doc = drafts[a]
  OBVIOUS
<1>2. DocOK(doc) /\ DOMAIN editor = EditorFields
  BY <1>1 DEF Inv, DocsOK, EditorOK
<1>3. PICK sq, sp : sq = doc.holds.req /\ sp = doc.holds.resp
  OBVIOUS
<1>4. Kept(doc.req, sq, Locations) /\ Kept(doc.resp, sp, Nums)
  BY <1>2, <1>3 DEF DocOK
<1>5. PICK tables : tables = RespTables(doc.resp)
  OBVIOUS
<1>6. PICK loaded : loaded = [c \in {Plain(n) : n \in DOMAIN tables} |-> tables[c.int]]
  OBVIOUS
<1>7. PICK resp : resp = WithDefault(loaded, editor.touched)
  OBVIOUS
<1>8. PICK req, tab : req = ReqTables(doc.req) /\ tab = TabAfter(resp, editor.tab)
  OBVIOUS
<1>9. DOMAIN req = Locations /\ TablesOK(req)
  BY <1>4, <1>8, ReqTablesOK
<1>10. DOMAIN resp \subseteq Codes /\ TablesOK(resp)
  <2>1. DOMAIN loaded \subseteq Codes /\ TablesOK(loaded)
    BY <1>4, <1>5, <1>6, RespTablesOK
  <2> QED BY <1>7, <2>1, WithDefaultOK, Zenon
<1>11. StatusCodes(resp) # {} => tab \in StatusCodes(resp)
  BY <1>8, <1>10, TabIn
<1>12. PICK d : editor' = [editor EXCEPT
            !.api = a, !.path = doc.path, !.req = req,
            !.resp = resp, !.tab = tab, !.isDraft = d]
  BY <1>1, <1>5, <1>6, <1>7, <1>8, ZenonT(60) DEF Open
<1>13. /\ DOMAIN editor' = EditorFields /\ editor'.api = a /\ editor'.req = req
       /\ editor'.resp = resp /\ editor'.tab = tab
  BY <1>2, <1>12 DEF EditorFields
<1>14. EditorOK(editor')
  BY <1>9, <1>10, <1>11, <1>13 DEF EditorOK
<1>15. UNCHANGED <<drafts, published, saving, edits, copies>>
  BY DEF Open
<1> QED BY <1>13, <1>14, <1>15 DEF Inv

(* An edit of the form keeps everything else.                              *)
LEMMA EditStep ==
  ASSUME Inv, NEW new, Edit(new), EditorOK(new), new.api = editor.api
  PROVE  Inv'
<1>1. /\ editor' = new /\ edits' = edits + 1 /\ edits < MaxEdits
      /\ UNCHANGED <<drafts, published, saving, copies>>
  BY DEF Edit, Editable
<1>2. edits' \in 0 .. MaxEdits
  BY <1>1, FormAssumption DEF Inv
<1> QED BY <1>1, <1>2 DEF Inv

LEMMA EditPathStep ==
  ASSUME Inv, NEW p \in PathTexts, EditPath(p)
  PROVE  Inv'
<1>1. PICK new : new = [editor EXCEPT !.path = p, !.isDraft = TRUE]
  OBVIOUS
<1>2. EditorOK(editor) /\ DOMAIN editor = EditorFields
  BY DEF Inv, EditorOK
<1>3. /\ DOMAIN new = EditorFields /\ new.api = editor.api
      /\ new.req = editor.req /\ new.resp = editor.resp /\ new.tab = editor.tab
  BY <1>1, <1>2 DEF EditorFields
<1>4. EditorOK(new)
  BY <1>2, <1>3 DEF EditorOK
<1>5. Edit(new)
  BY <1>1, Zenon DEF EditPath
<1> QED BY <1>3, <1>4, <1>5, EditStep

LEMMA EditRequestTableStep ==
  ASSUME Inv, NEW l \in Locations, EditRequestTable(l)
  PROVE  Inv'
<1>1. EditorOK(editor) /\ DOMAIN editor = EditorFields
  BY DEF Inv, EditorOK
<1>2. PICK table \in TableEdits(editor.req, l) :
        Edit([editor EXCEPT !.req[l] = table, !.isDraft = TRUE,
                            !.rejectSubmit = HasError(table)])
  BY Zenon DEF EditRequestTable
<1>3. PICK y, z : y = TRUE /\ z = HasError(table)
  OBVIOUS
<1>4. PICK req : req = [editor.req EXCEPT ![l] = table]
  OBVIOUS
<1>5. PICK new : new = [editor EXCEPT !.req = req, !.isDraft = y, !.rejectSubmit = z]
  OBVIOUS
<1>6. Edit(new)
  BY <1>2, <1>3, <1>4, <1>5, Zenon
<1>7. /\ DOMAIN new = EditorFields /\ new.api = editor.api /\ new.req = req
      /\ new.resp = editor.resp /\ new.tab = editor.tab
  BY <1>1, <1>5 DEF EditorFields
<1>8. DOMAIN req = Locations /\ TablesOK(req)
  BY <1>1, <1>2, <1>4, EditOK DEF EditorOK
<1>9. EditorOK(new)
  BY <1>1, <1>7, <1>8 DEF EditorOK
<1> QED BY <1>6, <1>7, <1>9, EditStep

LEMMA EditResponseTableStep ==
  ASSUME Inv, EditResponseTable
  PROVE  Inv'
<1>1. EditorOK(editor) /\ DOMAIN editor = EditorFields
  BY DEF Inv, EditorOK
<1>2. PICK c : c = editor.tab
  OBVIOUS
<1>3. c \in DOMAIN editor.resp
  BY <1>2 DEF EditResponseTable, StatusCodes
<1>4. PICK table \in TableEdits(editor.resp, c) :
        Edit([editor EXCEPT !.resp[c] = table, !.isDraft = TRUE,
                            !.rejectSubmit = HasError(table)])
  BY <1>2, Zenon DEF EditResponseTable
<1>5. PICK y, z : y = TRUE /\ z = HasError(table)
  OBVIOUS
<1>6. PICK resp : resp = [editor.resp EXCEPT ![c] = table]
  OBVIOUS
<1>7. PICK new : new = [editor EXCEPT !.resp = resp, !.isDraft = y, !.rejectSubmit = z]
  OBVIOUS
<1>8. Edit(new)
  BY <1>4, <1>5, <1>6, <1>7, Zenon
<1>9. /\ DOMAIN new = EditorFields /\ new.api = editor.api /\ new.req = editor.req
      /\ new.resp = resp /\ new.tab = editor.tab
  BY <1>1, <1>7 DEF EditorFields
<1>10. DOMAIN resp = DOMAIN editor.resp /\ TablesOK(resp)
  BY <1>1, <1>3, <1>4, <1>6, EditOK DEF EditorOK
<1>11. StatusCodes(resp) = StatusCodes(editor.resp)
  BY <1>10 DEF StatusCodes
<1>12. EditorOK(new)
  BY <1>1, <1>9, <1>10, <1>11 DEF EditorOK
<1> QED BY <1>8, <1>9, <1>12, EditStep

LEMMA SelectTabStep ==
  ASSUME Inv, NEW c \in Codes, SelectTab(c)
  PROVE  Inv'
<1>1. EditorOK(editor) /\ DOMAIN editor = EditorFields
  BY DEF Inv, EditorOK
<1>2. /\ c \in StatusCodes(editor.resp) /\ editor' = [editor EXCEPT !.tab = c]
      /\ UNCHANGED <<drafts, published, saving, edits, copies>>
  BY DEF SelectTab
<1>3. /\ DOMAIN editor' = EditorFields /\ editor'.api = editor.api
      /\ editor'.req = editor.req /\ editor'.resp = editor.resp
      /\ editor'.tab = c
  BY <1>1, <1>2 DEF EditorFields
<1>4. EditorOK(editor')
  BY <1>1, <1>2, <1>3 DEF EditorOK
<1> QED BY <1>2, <1>3, <1>4 DEF Inv

(* Other tabs, and the one that the effect then makes active.              *)
LEMMA TabsStep ==
  ASSUME Inv, NEW resp, NEW tab, NEW d, NEW t,
         DOMAIN resp \subseteq Codes, TablesOK(resp),
         Edit([editor EXCEPT !.resp = resp, !.touched = t, !.isDraft = d,
                             !.tab = TabAfter(resp, tab)])
  PROVE  Inv'
<1>1. EditorOK(editor) /\ DOMAIN editor = EditorFields
  BY DEF Inv, EditorOK
<1>2. PICK c : c = TabAfter(resp, tab)
  OBVIOUS
<1>3. PICK new : new = [editor EXCEPT !.resp = resp, !.touched = t,
                                      !.isDraft = d, !.tab = c]
  OBVIOUS
<1>4. Edit(new)
  BY <1>2, <1>3, Zenon
<1>5. /\ DOMAIN new = EditorFields /\ new.api = editor.api /\ new.req = editor.req
      /\ new.resp = resp /\ new.tab = c
  BY <1>1, <1>3 DEF EditorFields
<1>6. StatusCodes(resp) # {} => c \in StatusCodes(resp)
  BY <1>2, TabIn
<1>7. EditorOK(new)
  BY <1>1, <1>5, <1>6 DEF EditorOK
<1> QED BY <1>4, <1>5, <1>7, EditStep

LEMMA DeleteTabStep ==
  ASSUME Inv, NEW c \in Codes, handleDeleteTab(c)
  PROVE  Inv'
<1>1. EditorOK(editor)
  BY DEF Inv
<1>2. PICK resp : resp = [d \in DOMAIN editor.resp \ {c} |-> editor.resp[d]]
  OBVIOUS
<1>3. PICK left : left = StatusCodes(editor.resp) \ {c}
  OBVIOUS
<1>4. PICK tab : tab = IF editor.tab # c THEN editor.tab
                       ELSE IF left = {} THEN NoTab ELSE FirstCode(left)
  OBVIOUS
<1>5. PICK d \in MaybeDraft(editor.isDraft) :
        Edit([editor EXCEPT !.resp = resp, !.touched = TRUE, !.isDraft = d,
                            !.tab = TabAfter(resp, tab)])
  BY <1>2, <1>3, <1>4, Zenon DEF handleDeleteTab
<1>6. DOMAIN resp \subseteq Codes
  BY <1>1, <1>2 DEF EditorOK
<1>7. \A k \in DOMAIN resp : k \in DOMAIN editor.resp /\ resp[k] = editor.resp[k]
  BY <1>2
<1>8. TablesOK(resp)
  BY <1>1, <1>7, SamePlacesOK DEF EditorOK
<1>9. PICK t : t = TRUE
  OBVIOUS
<1>10. Edit([editor EXCEPT !.resp = resp, !.touched = t, !.isDraft = d,
                           !.tab = TabAfter(resp, tab)])
  BY <1>5, <1>9, Zenon
<1> QED BY <1>6, <1>8, <1>10, TabsStep

LEMMA AddCodeStep ==
  ASSUME Inv, NEW c \in Codes, AddCode(c)
  PROVE  Inv'
<1>1. EditorOK(editor)
  BY DEF Inv
<1>2. PICK resp : resp = [d \in DOMAIN editor.resp \cup {c} |->
                            IF d = c THEN NoItems ELSE editor.resp[d]]
  OBVIOUS
<1>3. PICK d \in MaybeDraft(editor.isDraft) :
        Edit([editor EXCEPT !.resp = resp, !.touched = TRUE, !.isDraft = d,
                            !.tab = TabAfter(resp, c)])
  BY <1>2, Zenon DEF AddCode
<1>4. DOMAIN resp \subseteq Codes
  BY <1>1, <1>2 DEF EditorOK
<1>5. \A k \in DOMAIN resp :
        \/ DOMAIN resp[k] = {}
        \/ k \in DOMAIN editor.resp /\ DOMAIN resp[k] = DOMAIN editor.resp[k]
  BY <1>2 DEF NoItems
<1>6. TablesOK(resp)
  BY <1>1, <1>5, SamePlacesOK DEF EditorOK
<1>7. PICK t : t = TRUE
  OBVIOUS
<1>8. Edit([editor EXCEPT !.resp = resp, !.touched = t, !.isDraft = d,
                          !.tab = TabAfter(resp, c)])
  BY <1>3, <1>7, Zenon
<1> QED BY <1>4, <1>6, <1>8, TabsStep

LEMMA AddCodeRefusedStep ==
  ASSUME Inv, AddCodeRefused
  PROVE  Inv'
<1>1. EditorOK(editor) /\ DOMAIN editor = EditorFields
  BY DEF Inv, EditorOK
<1>2. PICK new : new = [editor EXCEPT !.touched = TRUE]
  OBVIOUS
<1>3. /\ DOMAIN new = EditorFields /\ new.api = editor.api
      /\ new.req = editor.req /\ new.resp = editor.resp /\ new.tab = editor.tab
  BY <1>1, <1>2 DEF EditorFields
<1>4. EditorOK(new)
  BY <1>1, <1>3 DEF EditorOK
<1>5. Edit(new)
  BY <1>2, Zenon DEF AddCodeRefused
<1> QED BY <1>3, <1>4, <1>5, EditStep

LEMMA SubmitStep ==
  ASSUME Inv, handleSubmit
  PROVE  Inv'
<1>1. PICK form : form = editor
  OBVIOUS
<1>2. EditorOK(form) /\ form.api \in DOMAIN drafts \cup {NoApi}
  BY <1>1 DEF Inv
<1>5. /\ saving'.api = form.api /\ saving'.path = form.path
      /\ saving'.req = ReqParams(form) /\ saving'.resp = RespParams(form)
      /\ saving'.holds = Holds(form)
  BY <1>1 DEF handleSubmit
<1>6. PICK s, d : s = saving' /\ d = SavedAs(s)
  OBVIOUS
<1>7. /\ d.path = form.path /\ d.req = Processed(ReqParams(form))
      /\ d.resp = Processed(RespParams(form)) /\ d.holds = Holds(form)
  BY <1>5, <1>6 DEF SavedAs
<1>8. DocOK(d)
  BY <1>2, <1>7, FormStored DEF EditorOK
<1>9. DocOK(SavedAs(saving'))
  BY <1>6, <1>8
<1>10. UNCHANGED <<drafts, published, editor, edits, copies>>
  BY DEF handleSubmit
<1> QED BY <1>2, <1>5, <1>9, <1>10 DEF Inv

LEMMA SaveSucceedsStep ==
  ASSUME Inv, SaveSucceeds
  PROVE  Inv'
<1>1. PICK d : d = SavedAs(saving)
  OBVIOUS
<1>2. DocOK(d)
  BY <1>1 DEF Inv, SaveSucceeds
<1>3. drafts' = [drafts EXCEPT ![saving.api] = d]
  BY <1>1 DEF SaveSucceeds, SavedAs
<1>4. DocsOK(drafts') /\ DOMAIN drafts' = DOMAIN drafts
  BY <1>2, <1>3 DEF Inv, DocsOK
<1>5. EditorOK(editor) /\ DOMAIN editor = EditorFields
  BY DEF Inv, EditorOK
<1>6. PICK b : editor' = [editor EXCEPT !.isDraft = b]
  BY Zenon DEF SaveSucceeds
<1>7. /\ DOMAIN editor' = EditorFields /\ editor'.api = editor.api
      /\ editor'.req = editor.req /\ editor'.resp = editor.resp
      /\ editor'.tab = editor.tab
  BY <1>5, <1>6 DEF EditorFields
<1>8. EditorOK(editor')
  BY <1>5, <1>7 DEF EditorOK
<1>9. saving' = None /\ saving'.api = NoApi
  BY DEF SaveSucceeds, None
<1>10. UNCHANGED <<published, edits, copies>>
  BY DEF SaveSucceeds
<1> QED BY <1>4, <1>7, <1>8, <1>9, <1>10 DEF Inv

LEMMA SaveFailsStep ==
  ASSUME Inv, SaveFails
  PROVE  Inv'
<1>1. saving' = None /\ saving'.api = NoApi
  BY DEF SaveFails, None
<1>2. UNCHANGED <<drafts, published, editor, edits, copies>>
  BY DEF SaveFails
<1> QED BY <1>1, <1>2 DEF Inv

(* What keeps the rows and the history keeps the document.                 *)
LEMMA SameDocOK ==
  ASSUME NEW d, DocOK(d), NEW e, e.path = d.path, e.holds = d.holds,
         Kept(e.req, d.holds.req, Locations), Kept(e.resp, d.holds.resp, Nums)
  PROVE  DocOK(e)
BY DEF DocOK

LEMMA CopyApiStep ==
  ASSUME Inv, NEW a \in Apis, NEW b \in Apis, CopyApi(a, b)
  PROVE  Inv'
<1>1. PICK o \in ReadOrders : drafts' =
        [x \in DOMAIN drafts \cup {b} |->
         IF x # b THEN drafts[x]
         ELSE [path |-> drafts[a].path, req |-> Copied(drafts[a].req, o),
               resp |-> Copied(drafts[a].resp, o), holds |-> drafts[a].holds]]
  BY DEF CopyApi
<1>2. PICK d, q, p : /\ d = drafts[a]
                     /\ q = Copied(d.req, o) /\ p = Copied(d.resp, o)
  OBVIOUS
<1>3. PICK e : e = [path |-> d.path, req |-> q, resp |-> p, holds |-> d.holds]
  OBVIOUS
<1>4. DocOK(d)
  BY <1>2 DEF Inv, DocsOK, CopyApi
<1>5. PICK sq, sp : sq = d.holds.req /\ sp = d.holds.resp
  OBVIOUS
<1>6. Kept(d.req, sq, Locations) /\ Kept(d.resp, sp, Nums)
  BY <1>4, <1>5 DEF DocOK
<1>7. Kept(q, sq, Locations) /\ Kept(p, sp, Nums)
  BY <1>2, <1>6, CopiedKept
<1>8. /\ e.path = d.path /\ e.holds = d.holds /\ e.req = q /\ e.resp = p
  BY <1>3
<1>9. DocOK(e)
  BY <1>4, <1>5, <1>7, <1>8, SameDocOK
<1>10. /\ DOMAIN drafts' = DOMAIN drafts \cup {b} /\ drafts'[b] = e
       /\ \A x \in DOMAIN drafts \ {b} : drafts'[x] = drafts[x]
  BY <1>1, <1>2, <1>3
<1>11. DocsOK(drafts')
  BY <1>9, <1>10 DEF Inv, DocsOK
<1>12. copies' \in 0 .. MaxSteps
  BY FormAssumption DEF Inv, CopyApi, MoreSteps
<1>13. UNCHANGED <<published, editor, saving, edits>>
  BY DEF CopyApi
<1> QED BY <1>10, <1>11, <1>12, <1>13 DEF Inv

LEMMA DuplicateOK ==
  ASSUME NEW docs, DocsOK(docs), NEW o \in ReadOrders
  PROVE  DocsOK(Duplicate(docs, o))
<1>1. PICK new : new = Duplicate(docs, o)
  OBVIOUS
<1>2. /\ DOMAIN new = DOMAIN docs
      /\ \A a \in DOMAIN docs :
           /\ new[a].path = docs[a].path /\ new[a].holds = docs[a].holds
           /\ new[a].req = Remapped(docs[a].req, o)
           /\ new[a].resp = Remapped(docs[a].resp, o)
  BY <1>1 DEF Duplicate
<1>3. ASSUME NEW a \in DOMAIN docs PROVE DocOK(new[a])
  <2>1. PICK d, e : d = docs[a] /\ e = new[a]
    OBVIOUS
  <2>2. DocOK(d)
    BY <2>1 DEF DocsOK
  <2>3. PICK sq, sp : sq = d.holds.req /\ sp = d.holds.resp
    OBVIOUS
  <2>4. Kept(d.req, sq, Locations) /\ Kept(d.resp, sp, Nums)
    BY <2>2, <2>3 DEF DocOK
  <2>5. Kept(e.req, sq, Locations) /\ Kept(e.resp, sp, Nums)
    BY <1>2, <2>1, <2>4, RemappedKept
  <2>6. e.path = d.path /\ e.holds = d.holds
    BY <1>2, <2>1
  <2>7. DocOK(e)
    BY <2>2, <2>3, <2>5, <2>6, SameDocOK
  <2> QED BY <2>1, <2>7
<1> QED BY <1>1, <1>2, <1>3 DEF DocsOK

LEMMA CommitStep ==
  ASSUME Inv, CommitIteration
  PROVE  Inv'
<1>1. PICK o \in ReadOrders : published' = Duplicate(drafts, o)
  BY DEF CommitIteration
<1>2. DocsOK(drafts)
  BY DEF Inv
<1>3. DocsOK(published')
  BY <1>1, <1>2, DuplicateOK
<1>4. drafts' = <<>> /\ editor' = Closed /\ saving' = None /\ UNCHANGED edits
  BY DEF CommitIteration
<1>5. DocsOK(drafts')
  BY <1>4, NoDocs
<1>6. EditorOK(editor') /\ editor'.api = NoApi
  BY <1>4, ClosedOK
<1>7. saving'.api = NoApi
  BY <1>4 DEF None
<1>8. copies' \in 0 .. MaxSteps
  BY FormAssumption DEF Inv, CommitIteration, MoreSteps
<1> QED BY <1>3, <1>4, <1>5, <1>6, <1>7, <1>8 DEF Inv

LEMMA StartStep ==
  ASSUME Inv, StartIteration
  PROVE  Inv'
<1>1. PICK o \in ReadOrders : drafts' = Duplicate(published, o)
  BY DEF StartIteration
<1>2. DocsOK(published)
  BY DEF Inv
<1>3. DocsOK(drafts')
  BY <1>1, <1>2, DuplicateOK
<1>4. DOMAIN drafts = {} /\ UNCHANGED <<published, editor, saving, edits, copies>>
  BY DEF StartIteration
<1>5. editor.api = NoApi /\ saving.api = NoApi
  BY <1>4 DEF Inv
<1> QED BY <1>3, <1>4, <1>5 DEF Inv

LEMMA StepInv == Inv /\ [Next]_vars => Inv'
<1> SUFFICES ASSUME Inv, [Next]_vars PROVE Inv'
  OBVIOUS
<1>1. ASSUME NEW a \in DOMAIN drafts, Open(a) PROVE Inv'
  BY <1>1, OpenStep
<1>2. ASSUME NEW p \in PathTexts, EditPath(p) PROVE Inv'
  BY <1>2, EditPathStep
<1>3. ASSUME NEW l \in Locations, EditRequestTable(l) PROVE Inv'
  BY <1>3, EditRequestTableStep
<1>4. CASE EditResponseTable
  BY <1>4, EditResponseTableStep
<1>5. ASSUME NEW c \in Codes, SelectTab(c) PROVE Inv'
  BY <1>5, SelectTabStep
<1>6. ASSUME NEW c \in Codes, handleDeleteTab(c) PROVE Inv'
  BY <1>6, DeleteTabStep
<1>7. ASSUME NEW c \in Codes, AddCode(c) PROVE Inv'
  BY <1>7, AddCodeStep
<1>8. CASE AddCodeRefused
  BY <1>8, AddCodeRefusedStep
<1>9. CASE handleSubmit
  BY <1>9, SubmitStep
<1>10. CASE SaveSucceeds
  BY <1>10, SaveSucceedsStep
<1>11. CASE SaveFails
  BY <1>11, SaveFailsStep
<1>12. ASSUME NEW a \in Apis, NEW b \in Apis, CopyApi(a, b) PROVE Inv'
  BY <1>12, CopyApiStep
<1>13. CASE CommitIteration
  BY <1>13, CommitStep
<1>14. CASE StartIteration
  BY <1>14, StartStep
<1>15. CASE UNCHANGED vars
  BY <1>15 DEF Inv, vars
<1> QED BY <1>1, <1>2, <1>3, <1>4, <1>5, <1>6, <1>7, <1>8, <1>9, <1>10, <1>11,
           <1>12, <1>13, <1>14, <1>15, Zenon DEF Next

(* At all times rows hold the form they were saved from, the editor shows  *)
(* a form and a save on its way is one of a form.                          *)
THEOREM AlwaysInv == Spec => []Inv
BY InitInv, StepInv, PTL DEF Spec

LEMMA DocsIn ==
  ASSUME NEW docs, DocsOK(docs), NEW d \in Docs(docs)
  PROVE  DocOK(d)
BY DEF DocsOK, Docs

(* Rows that hold a form point to rows, and their roots come from roots.   *)
LEMMA KeptRows ==
  ASSUME NEW rows, NEW held, NEW keys, Kept(rows, held, keys)
  PROVE  /\ RowsOK(rows)
         /\ \A r \in Roots(rows) : /\ r.from \in DOMAIN held
                                   /\ IsRoot(r.from) /\ r.data = held[r.from]
<1>1. IdsOK(rows) /\ RowsHold(rows, held)
  BY DEF Kept
<1>2. ASSUME NEW r \in rows
      PROVE  r.parent = NoParent \/ \E p \in rows : p.id = r.parent
  BY <1>1 DEF RowsHold
<1>3. \A r, q \in rows : r.id = q.id => r = q
  BY <1>1 DEF IdsOK
<1>4. ASSUME NEW r \in Roots(rows)
      PROVE  /\ r.from \in DOMAIN held
             /\ IsRoot(r.from) /\ r.data = held[r.from]
  <2>1. r \in rows /\ r.parent = 0
    BY DEF Roots, NoParent
  <2>2. r.from \in DOMAIN held /\ r.data = held[r.from]
    BY <1>1, <2>1 DEF RowsHold
  <2>3. IsRoot(r.from) \/ \E q \in rows : q.id = r.parent
    BY <1>1, <2>1 DEF RowsHold
  <2>4. \A q \in rows : q.id # 0
    BY <1>1 DEF IdsOK
  <2> QED BY <2>1, <2>2, <2>3, <2>4
<1> QED BY <1>2, <1>3, <1>4 DEF RowsOK

LEMMA DocRows ==
  ASSUME NEW d, DocOK(d)
  PROVE  /\ RowsOK(d.req) /\ RowsOK(d.resp)
         /\ RowsHold(d.req, d.holds.req) /\ RowsHold(d.resp, d.holds.resp)
<1>1. PICK sq, sp : sq = d.holds.req /\ sp = d.holds.resp
  OBVIOUS
<1>2. Kept(d.req, sq, Locations) /\ Kept(d.resp, sp, Nums)
  BY <1>1 DEF DocOK
<1>3. /\ RowsOK(d.req) /\ RowsOK(d.resp)
      /\ RowsHold(d.req, sq) /\ RowsHold(d.resp, sp)
  BY <1>2, KeptRows DEF Kept
<1> QED BY <1>1, <1>3, Zenon

(* Rows of every draft and published API point to rows of their own table  *)
(* and have ids of their own, after any saves, copies, commits and starts; *)
(* the editor and a save on its way name drafts of the open iteration.     *)
THEOREM Typed == Spec => []TypeOK
<1>1. Inv => TypeOK
  <2> SUFFICES ASSUME Inv PROVE TypeOK
    OBVIOUS
  <2>1. \A d \in Docs(drafts) \cup Docs(published) : RowsOK(d.req) /\ RowsOK(d.resp)
    BY DocsIn, DocRows DEF Inv
  <2> QED BY <2>1 DEF TypeOK, Inv, EditorOK
<1> QED BY <1>1, AlwaysInv, PTL

(* organizeReqParams, addApiParams, copyApi and the two passes of starting *)
(* and committing together keep the trees that were on the form: no        *)
(* parameter is lost, doubled, moved or left with the wrong parent.        *)
THEOREM RowsKeptAsSaved == Spec => []KeptAsSaved
<1>1. Inv => KeptAsSaved
  BY DocsIn, DocRows DEF Inv, KeptAsSaved
<1> QED BY <1>1, AlwaysInv, PTL

(* For any tables, names and status codes, and through any saves, copies   *)
(* and versions, the generator writes for a published API exactly the      *)
(* interfaces that the form it was saved from called for, defines what the *)
(* service class imports, and hands every parameter but a cookie to its    *)
(* part of the request (generator.ts, service-class.ts).                   *)
THEOREM GeneratedAsSaved == Spec => []CodeAsSaved
<1>1. Inv => CodeAsSaved
  <2> SUFFICES ASSUME Inv, NEW a \in DOMAIN published
               PROVE  CodeHolds(a, published[a])
    BY DEF CodeAsSaved
  <2>1. PICK d : d = published[a]
    OBVIOUS
  <2>2. DocOK(d) /\ a \in Apis
    BY <2>1 DEF Inv, DocsOK
  <2>3. CodeHolds(a, d)
    BY <2>2, DocCode
  <2> QED BY <2>1, <2>3
<1> QED BY <1>1, AlwaysInv, PTL

(* ResponseParamsEdit never leaves the form without an active tab while it *)
(* has one to show.                                                        *)
THEOREM AlwaysTabActive == Spec => []TabActive
<1>1. Inv => TabActive
  BY DEF Inv, EditorOK, TabActive
<1> QED BY <1>1, AlwaysInv, PTL
=============================================================================
