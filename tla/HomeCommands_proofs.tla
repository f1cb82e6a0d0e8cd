------------------------ MODULE HomeCommands_proofs -------------------------
(***************************************************************************)
(* What redaction makes of any document; what holds of an analysis in any  *)
(* home, its secrets included; and of the command lines that compose it    *)
(* with control calls and the owner's commands.                            *)
(*                                                                         *)
(* The walk of Redact is a recursive function over the nodes of a          *)
(* document. That a definition by places agrees with it is shown by a      *)
(* least counterexample, the deepest node at which they differ.            *)
(***************************************************************************)
EXTENDS HomeCommands, LocalState_proofs, TargetedCall_proofs

-----------------------------------------------------------------------------
\* A set of natural numbers that is not empty has a least one.
LEMMA LeastNumber ==
  ASSUME NEW T \in SUBSET Nat, T # {}
  PROVE  \E n \in T : \A m \in T : n <= m
<1>1. IsWellFoundedOn(OpToRel(<, Nat), Nat)
  BY NatLessThanWellFounded
<1>2. PICK n \in T : \A m \in T : ~(<<m, n>> \in OpToRel(<, Nat))
  BY <1>1, WFMin
<1>3. \A m \in T : ~(m < n)
  BY <1>2 DEF OpToRel
<1> QED BY <1>3

(* Places.                                                                 *)

\* The first elements of a sequence.
LEMMA FirstElements ==
  ASSUME NEW S, NEW s \in Seq(S), NEW i \in 0..Len(s)
  PROVE  /\ SubSeq(s, 1, i) \in Seq(S) /\ Len(SubSeq(s, 1, i)) = i
         /\ \A j \in 1..i : SubSeq(s, 1, i)[j] = s[j]
<1>1. Len(s) \in Nat
  BY LenProperties
<1>2. \A j \in 1..i : s[j] \in S
  BY <1>1, ElementOfSeq
<1>3. /\ SubSeq(s, 1, i) \in Seq(S)
      /\ Len(SubSeq(s, 1, i)) = IF 1 <= i THEN i - 1 + 1 ELSE 0
      /\ \A j \in 1..(i - 1 + 1) : SubSeq(s, 1, i)[j] = s[1 + j - 1]
  BY <1>1, <1>2, SubSeqProperties
<1>4. \A j \in 1..i : 1 + j - 1 = j /\ j \in 1..(i - 1 + 1)
  BY <1>1
<1> QED BY <1>1, <1>3, <1>4

LEMMA PrefixByElements ==
  ASSUME NEW S, NEW s \in Seq(S), NEW t \in Seq(S)
  PROVE  IsPrefix(s, t) <=> Len(s) <= Len(t) /\ \A i \in 1..Len(s) : s[i] = t[i]
<1>1. Len(s) \in Nat /\ Len(t) \in Nat
  BY LenProperties
<1>2. CASE Len(s) <= Len(t)
  <2>1. /\ SubSeq(s, 1, Len(s)) = s
        /\ SubSeq(t, 1, Len(s)) \in Seq(S) /\ Len(SubSeq(t, 1, Len(s))) = Len(s)
        /\ \A i \in 1..Len(s) : SubSeq(t, 1, Len(s))[i] = t[i]
    <3>1. \A i \in 1..Len(s) : t[i] \in S
      BY <1>1, <1>2, ElementOfSeq
    <3> QED BY <1>1, <3>1, SubSeqFull, SubSeqProperties
  <2>2. s = SubSeq(t, 1, Len(s)) <=> \A i \in 1..Len(s) : s[i] = t[i]
    BY <2>1, SeqEqual
  <2> QED BY <1>2, <2>1, <2>2 DEF IsPrefix
<1> QED BY <1>2 DEF IsPrefix

\* Places are ordered like the branches of a tree.
LEMMA PrefixOrder ==
  ASSUME NEW S, NEW s \in Seq(S), NEW t \in Seq(S), NEW u \in Seq(S)
  PROVE  /\ IsPrefix(s, s)
         /\ IsPrefix(s, t) /\ IsPrefix(t, u) => IsPrefix(s, u)
         /\ IsPrefix(s, t) /\ IsPrefix(t, s) => s = t
         /\ IsPrefix(s, u) /\ IsPrefix(t, u) => IsPrefix(s, t) \/ IsPrefix(t, s)
<1>1. Len(s) \in Nat /\ Len(t) \in Nat /\ Len(u) \in Nat
  BY LenProperties
<1> QED BY <1>1, PrefixByElements, SeqEqual

\* All but the last label.
LEMMA FrontOfPlace ==
  ASSUME NEW S, NEW s \in Seq(S), s # <<>>
  PROVE  /\ Front(s) \in Seq(S)
         /\ Len(s) \in Nat \ {0} /\ Len(Front(s)) = Len(s) - 1
         /\ \A i \in 1..(Len(s) - 1) : Front(s)[i] = s[i]
<1> DEFINE n == Len(s) - 1
<1>1. Len(s) \in Nat \ {0} /\ n \in 0..Len(s)
  BY EmptySeq
<1>2. Front(s) = SubSeq(s, 1, n)
  BY DEF Front
<1> HIDE DEF n
<1>3. /\ Front(s) \in Seq(S) /\ Len(Front(s)) = n
      /\ \A i \in 1..n : Front(s)[i] = s[i]
  BY <1>1, <1>2, FirstElements
<1> QED BY <1>1, <1>3 DEF n

\* The place of a part is next to that of its node: nothing lies between.
LEMMA PartIsNext ==
  ASSUME NEW S, NEW s \in Seq(S), NEW t \in Seq(S), t # <<>>, Front(t) = s
  PROVE  /\ IsPrefix(s, t) /\ ~IsPrefix(t, s) /\ s # t
         /\ \A u \in Seq(S) : IsPrefix(u, t) /\ u # t => IsPrefix(u, s)
<1>1. /\ Len(t) \in Nat \ {0} /\ Len(s) = Len(t) - 1
      /\ \A i \in 1..(Len(t) - 1) : s[i] = t[i]
  BY FrontOfPlace
<1>2. IsPrefix(s, t) /\ ~IsPrefix(t, s)
  BY <1>1, PrefixByElements
<1>3. ASSUME NEW u \in Seq(S), IsPrefix(u, t), u # t
      PROVE  IsPrefix(u, s)
  <2>1. Len(u) \in Nat /\ Len(u) <= Len(t) /\ \A i \in 1..Len(u) : u[i] = t[i]
    BY <1>3, PrefixByElements, LenProperties
  <2>2. Len(u) # Len(t)
    BY <1>3, <2>1, SeqEqual
  <2>3. Len(u) <= Len(s) /\ \A i \in 1..Len(u) : u[i] = s[i]
    BY <1>1, <2>1, <2>2
  <2> QED BY <2>3, PrefixByElements
<1> QED BY <1>1, <1>2, <1>3

\* Above every place there is one that is next to a given one.
LEMMA PlaceOnTheWay ==
  ASSUME NEW S, NEW s \in Seq(S), NEW t \in Seq(S), IsPrefix(s, t), s # t
  PROVE  LET u == SubSeq(t, 1, Len(s) + 1)
         IN  /\ u # <<>> /\ Front(u) = s /\ IsPrefix(u, t) /\ u \in Seq(S)
             /\ Len(s) + 1 \in 0..Len(t)
<1> DEFINE u == SubSeq(t, 1, Len(s) + 1)
<1>1. /\ Len(s) \in Nat /\ Len(t) \in Nat /\ Len(s) <= Len(t)
      /\ \A i \in 1..Len(s) : s[i] = t[i]
  BY PrefixByElements, LenProperties
<1>2. Len(s) < Len(t)
  BY <1>1, SeqEqual
<1>3. \A i \in 1..(Len(s) + 1) : t[i] \in S
  BY <1>1, <1>2, ElementOfSeq
<1>4. /\ u \in Seq(S) /\ Len(u) = Len(s) + 1
      /\ \A i \in 1..(Len(s) + 1) : u[i] = t[i]
  BY <1>1, <1>3, SubSeqProperties
<1> HIDE DEF u
<1>5. u # <<>>
  BY <1>1, <1>4, EmptySeq
<1>6. IsPrefix(u, t)
  BY <1>1, <1>2, <1>4, PrefixByElements
<1>7. Front(u) = s
  <2>1. /\ Front(u) \in Seq(S) /\ Len(Front(u)) = Len(s)
        /\ \A i \in 1..Len(s) : Front(u)[i] = u[i]
    <3>1. /\ Front(u) \in Seq(S) /\ Len(Front(u)) = Len(u) - 1
          /\ \A i \in 1..(Len(u) - 1) : Front(u)[i] = u[i]
      BY <1>4, <1>5, FrontOfPlace
    <3>2. Len(u) - 1 = Len(s)
      BY <1>1, <1>4
    <3> QED BY <3>1, <3>2
  <2> QED BY <1>1, <1>4, <2>1, SeqEqual
<1> QED BY <1>1, <1>2, <1>4, <1>5, <1>6, <1>7 DEF u

-----------------------------------------------------------------------------
(* Documents.                                                              *)

\* q lies on the way to m, or is m.
Above(q, m) == IsPrefix(q.at, m.at)

LEMMA NodeOrder ==
  ASSUME NEW doc, IsDocument(doc), NEW n \in doc, NEW m \in doc, NEW q \in doc
  PROVE  /\ Above(n, n)
         /\ Above(n, m) /\ Above(m, q) => Above(n, q)
         /\ Above(n, m) /\ Above(m, n) => n = m
         /\ Above(n, q) /\ Above(m, q) => Above(n, m) \/ Above(m, n)
         /\ IsStrictPrefix(n.at, m.at) <=> Above(n, m) /\ n # m
<1>1. n.at \in Seq(Labels) /\ m.at \in Seq(Labels) /\ q.at \in Seq(Labels)
      /\ (n.at = m.at => n = m)
  BY DEF IsDocument
<1> QED BY <1>1, PrefixOrder DEF Above, IsStrictPrefix

LEMMA PartsOfNode ==
  ASSUME NEW doc, IsDocument(doc), NEW n \in doc
  PROVE  /\ Parts(doc, n) \subseteq doc
         /\ \A m \in Parts(doc, n) :
              /\ m.at # <<>> /\ Above(n, m) /\ m # n
              /\ \A q \in doc : Above(q, m) /\ q # m => Above(q, n)
         /\ \A m \in doc : Above(n, m) /\ m # n => \E k \in Parts(doc, n) : Above(k, m)
<1>1. \A m \in doc : m.at \in Seq(Labels)
  BY DEF IsDocument
<1>2. ASSUME NEW m \in Parts(doc, n)
      PROVE  /\ m.at # <<>> /\ Above(n, m) /\ m # n
             /\ \A q \in doc : Above(q, m) /\ q # m => Above(q, n)
  <2>1. m \in doc /\ m.at # <<>> /\ Front(m.at) = n.at
    BY <1>2 DEF Parts
  <2>2. /\ IsPrefix(n.at, m.at) /\ n.at # m.at
        /\ \A u \in Seq(Labels) : IsPrefix(u, m.at) /\ u # m.at => IsPrefix(u, n.at)
    BY <1>1, <2>1, PartIsNext
  <2> QED BY <1>1, <2>1, <2>2 DEF Above, IsDocument
<1>3. ASSUME NEW m \in doc, Above(n, m), m # n
      PROVE  \E k \in Parts(doc, n) : Above(k, m)
  <2> DEFINE i == Len(n.at) + 1
             u == SubSeq(m.at, 1, i)
  <2>1. n.at # m.at
    BY <1>3 DEF IsDocument
  <2>2. u # <<>> /\ Front(u) = n.at /\ IsPrefix(u, m.at) /\ i \in 0..Len(m.at)
    BY <1>1, <1>3, <2>1, PlaceOnTheWay DEF Above
  <2>3. PICK k \in doc : k.at = u
    BY <2>2 DEF IsDocument
  <2> QED BY <2>2, <2>3 DEF Parts, Above
<1> QED BY <1>2, <1>3 DEF Parts

LEMMA RootOfDocument ==
  ASSUME NEW doc, IsDocument(doc)
  PROVE  /\ Root(doc) \in doc /\ Root(doc).at = <<>>
         /\ \A m \in doc : Above(Root(doc), m)
         /\ \A m \in doc : Above(m, Root(doc)) => m = Root(doc)
<1>1. PICK n \in doc : n.at \in Seq(Labels)
  BY DEF IsDocument
<1>2. Len(n.at) \in Nat
  BY <1>1, LenProperties
<1>3. PICK m \in doc : m.at = SubSeq(n.at, 1, 0)
  BY <1>2 DEF IsDocument
<1>4. m.at = <<>>
  BY <1>3, SubSeqEmpty
<1>5. Root(doc) \in doc /\ Root(doc).at = <<>>
  BY <1>3, <1>4 DEF Root
<1>6. ASSUME NEW k \in doc
      PROVE  Above(Root(doc), k) /\ (Above(k, Root(doc)) => k = Root(doc))
  <2>1. k.at \in Seq(Labels) /\ Root(doc).at \in Seq(Labels) /\ Len(<<>>) = 0
    BY <1>5 DEF IsDocument
  <2>2. Len(k.at) \in Nat
    BY <2>1, LenProperties
  <2>3. PICK r \in Seq(Labels) : r = Root(doc).at /\ Len(r) = 0
    BY <1>5, <2>1
  <2>4. IsPrefix(r, k.at)
    BY <2>1, <2>2, <2>3, PrefixByElements
  <2> QED BY <1>5, <2>3, <2>4, NodeOrder DEF Above
<1> QED BY <1>5, <1>6

\* Of the nodes in a set that is not empty, one has no parts in it.
LEMMA DeepestNode ==
  ASSUME NEW doc, IsDocument(doc), NEW D \in SUBSET doc, D # {}
  PROVE  \E n \in D : \A m \in Parts(doc, n) : m \notin D
<1> DEFINE Below(n) == {m \in doc : Above(n, m)}
           T == {Cardinality(Below(n)) : n \in D}
<1>1. \A n \in doc : IsFiniteSet(Below(n)) /\ Cardinality(Below(n)) \in Nat
  BY FS_Subset, FS_CardinalityType DEF IsDocument
<1>2. T \in SUBSET Nat /\ T # {}
  BY <1>1
<1>3. PICK least \in T : \A k \in T : least <= k
  <2> HIDE DEF T
  <2> QED BY <1>2, LeastNumber
<1>4. PICK n \in D : least = Cardinality(Below(n))
  BY <1>3
<1>5. ASSUME NEW m \in Parts(doc, n), m \in D
      PROVE  FALSE
  <2>1. m \in doc /\ Above(n, m) /\ m # n
    BY PartsOfNode
  <2>2. Below(m) \in SUBSET Below(n) /\ n \in Below(n) /\ n \notin Below(m)
    BY <2>1, NodeOrder
  <2>3. Cardinality(Below(n)) <= Cardinality(Below(m))
    BY <1>3, <1>4, <1>5
  <2>4. /\ Cardinality(Below(m)) <= Cardinality(Below(n))
        /\ Cardinality(Below(n)) = Cardinality(Below(m)) => Below(n) = Below(m)
    <3>1. IsFiniteSet(Below(n))
      BY <1>1
    <3> HIDE DEF Below
    <3> QED BY <2>2, <3>1, FS_Subset
  <2>5. Cardinality(Below(n)) \in Nat /\ Cardinality(Below(m)) \in Nat
    BY <1>1, <2>1
  <2> HIDE DEF Below
  <2> QED BY <2>2, <2>3, <2>4, <2>5
<1> QED BY <1>5

-----------------------------------------------------------------------------
(* Sums.                                                                   *)

\* The values of a function on a finite set.
LEMMA ImageIsFinite ==
  ASSUME NEW S, IsFiniteSet(S), NEW g
  PROVE  IsFiniteSet({g[x] : x \in S})
<1> DEFINE h == [x \in S |-> g[x]]
           T == {g[x] : x \in S}
<1>1. h \in Surjection(S, T)
  BY DEF Surjection
<1> HIDE DEF h, T
<1>2. IsFiniteSet(T)
  BY <1>1, FS_Surjection
<1> QED BY <1>2 DEF T

\* A sum over a finite set of the sizes of finite sets that lie apart.
LEMMA SumOfSizes ==
  ASSUME NEW S, IsFiniteSet(S), NEW g, NEW f, f = [x \in S |-> Cardinality(g[x])],
         \A x \in S : IsFiniteSet(g[x]),
         \A x, y \in S : x # y => g[x] \cap g[y] = {}
  PROVE  SumFunction(f) = Cardinality(UNION {g[x] : x \in S})
<1> DEFINE All(s) == UNION {g[x] : x \in s}
           Eqn(h) == h = [s \in SUBSET S |->
                            IF s = {} THEN 0
                            ELSE LET x == CHOOSE x \in s : TRUE IN f[x] + h[s \ {x}]]
           sum == CHOOSE iter : Eqn(iter)
           size == [s \in SUBSET S |-> Cardinality(All(s))]
<1>1. SumFunction(f) = sum[S]
  <2>1. DOMAIN f = S
    OBVIOUS
  <2>2. SumFunction(f) = SumFunctionOnSet(f, S)
    BY <2>1 DEF SumFunction
  <2> QED BY <2>2 DEF SumFunctionOnSet, FoldFunctionOnSet, MapThenFoldSet
<1>2. ASSUME NEW s \in SUBSET S
      PROVE  IsFiniteSet(s) /\ IsFiniteSet(All(s)) /\ Cardinality(All(s)) \in Nat
  <2>1. IsFiniteSet(s)
    BY FS_Subset
  <2>2. IsFiniteSet({g[x] : x \in s})
    BY <2>1, ImageIsFinite
  <2>3. IsFiniteSet(All(s))
    BY <2>2, FS_UNION
  <2> QED BY <2>1, <2>3, FS_CardinalityType
<1>3. ASSUME NEW s \in SUBSET S, NEW x \in s
      PROVE  Cardinality(All(s)) = f[x] + Cardinality(All(s \ {x}))
  <2>1. All(s) = g[x] \cup All(s \ {x}) /\ g[x] \cap All(s \ {x}) = {}
    OBVIOUS
  <2>2. IsFiniteSet(g[x]) /\ IsFiniteSet(All(s \ {x})) /\ s \ {x} \in SUBSET S
    BY <1>2
  <2>3. Cardinality(g[x]) \in Nat /\ Cardinality(All(s \ {x})) \in Nat /\ f[x] = Cardinality(g[x])
    BY <1>2, <2>2, FS_CardinalityType
  <2> HIDE DEF All
  <2>4. Cardinality(g[x] \cup All(s \ {x})) =
          Cardinality(g[x]) + Cardinality(All(s \ {x})) - Cardinality(g[x] \cap All(s \ {x}))
    BY <2>2, FS_Union
  <2>5. Cardinality({}) = 0
    BY FS_EmptySet
  <2>6. Cardinality(All(s)) = Cardinality(g[x]) + Cardinality(All(s \ {x})) - 0
    BY <2>1, <2>4, <2>5
  <2> QED BY <2>3, <2>6
<1>4. Cardinality(All({})) = 0
  BY FS_EmptySet
<1>5. Eqn(size)
  <2>1. ASSUME NEW s \in SUBSET S, s # {}
        PROVE  LET x == CHOOSE x \in s : TRUE IN size[s] = f[x] + size[s \ {x}]
    <3> DEFINE x == CHOOSE x \in s : TRUE
    <3>1. x \in s /\ s \ {x} \in SUBSET S
      BY <2>1
    <3> HIDE DEF x, All
    <3>2. size[s] = f[x] + size[s \ {x}]
      BY <1>3, <3>1
    <3> QED BY <3>2 DEF x
  <2> HIDE DEF All
  <2> QED BY <1>4, <2>1
<1>6. Eqn(sum)
  <2>1. \E h : Eqn(h)
    BY <1>5
  <2> HIDE DEF Eqn
  <2> QED BY <2>1
<1> HIDE DEF sum
<1>7. sum[S] = size[S]
  <2> SUFFICES ASSUME sum[S] # size[S]
               PROVE  FALSE
    OBVIOUS
  <2> DEFINE D == {s \in SUBSET S : sum[s] # size[s]}
             T == {Cardinality(s) : s \in D}
  <2>1. T \in SUBSET Nat /\ T # {}
    BY <1>2, FS_CardinalityType
  <2>2. PICK least \in T : \A k \in T : least <= k
    <3> HIDE DEF T
    <3> QED BY <2>1, LeastNumber
  <2>3. PICK s \in D : least = Cardinality(s)
    BY <2>2
  <2>4. s # {}
    <3>1. sum[{}] = 0 /\ size[{}] = 0
      <4> HIDE DEF All
      <4> QED BY <1>4, <1>6
    <3> QED BY <3>1
  <2> DEFINE x == CHOOSE x \in s : TRUE
  <2>5. x \in s
    BY <2>4
  <2>6. sum[s] = f[x] + sum[s \ {x}] /\ size[s] = f[x] + size[s \ {x}]
    <3> HIDE DEF All, size
    <3> QED BY <1>5, <1>6, <2>4
  <2>7. s \ {x} \in D
    BY <2>6
  <2>8. Cardinality(s \ {x}) = Cardinality(s) - 1 /\ Cardinality(s) \in Nat
    <3> HIDE DEF x
    <3> QED BY <1>2, <2>5, FS_RemoveElement, FS_CardinalityType
  <2>9. Cardinality(s) <= Cardinality(s \ {x})
    BY <2>2, <2>3, <2>7
  <2> QED BY <2>8, <2>9
<1> QED BY <1>1, <1>7

-----------------------------------------------------------------------------
(* The walk.                                                               *)

\* Below a node, what no sensitive key below it hides,
OpenIn(doc, extra, n) ==
  {m \in doc : Above(n, m) /\ \A q \in Hidden(doc, extra) : Above(q, m) => Above(q, n)}

\* and the outermost of what they hide.
SecretsIn(doc, extra, n) ==
  {m \in Hidden(doc, extra) :
     /\ Above(n, m) /\ m # n
     /\ \A q \in Hidden(doc, extra) : Above(q, m) /\ q # m => Above(q, n)}

LEMMA OpenOfParts ==
  ASSUME NEW doc, IsDocument(doc), NEW extra, NEW n \in doc
  PROVE  OpenIn(doc, extra, n) =
           {n} \cup UNION {OpenIn(doc, extra, m) :
                             m \in {m \in Parts(doc, n) : ~IsMasked(m, extra)}}
<1> DEFINE Free == {m \in Parts(doc, n) : ~IsMasked(m, extra)}
<1>1. n \in OpenIn(doc, extra, n)
  BY NodeOrder DEF OpenIn
<1>2. ASSUME NEW k \in Free, NEW m \in OpenIn(doc, extra, k)
      PROVE  m \in OpenIn(doc, extra, n)
  <2>1. k \in doc /\ m \in doc /\ Above(n, k) /\ Above(k, m)
    BY <1>2, PartsOfNode DEF OpenIn
  <2>2. ASSUME NEW q \in Hidden(doc, extra), Above(q, m)
        PROVE  Above(q, n)
    <3>1. Above(q, k) /\ q \in doc /\ q # k
      BY <1>2, <2>2 DEF OpenIn, Hidden
    <3> QED BY <1>2, <3>1, PartsOfNode
  <2> QED BY <2>1, <2>2, NodeOrder DEF OpenIn
<1>3. ASSUME NEW m \in OpenIn(doc, extra, n), m # n
      PROVE  \E k \in Free : m \in OpenIn(doc, extra, k)
  <2>1. m \in doc /\ Above(n, m)
    BY <1>3 DEF OpenIn
  <2>2. PICK k \in Parts(doc, n) : Above(k, m)
    BY <1>3, <2>1, PartsOfNode
  <2>3. k \in doc /\ k.at # <<>> /\ Above(n, k) /\ ~Above(k, n)
    BY PartsOfNode, NodeOrder
  <2>4. ~IsMasked(k, extra)
    BY <1>3, <2>2, <2>3 DEF OpenIn, Hidden
  <2>5. \A q \in Hidden(doc, extra) : Above(q, m) => Above(q, k)
    BY <1>3, <2>3, NodeOrder DEF OpenIn, Hidden
  <2> QED BY <2>1, <2>2, <2>4, <2>5 DEF OpenIn
<1> QED BY <1>1, <1>2, <1>3

LEMMA SecretsOfParts ==
  ASSUME NEW doc, IsDocument(doc), NEW extra, NEW n \in doc
  PROVE  SecretsIn(doc, extra, n) =
           UNION {IF IsMasked(m, extra) THEN {m} ELSE SecretsIn(doc, extra, m) :
                    m \in Parts(doc, n)}
<1>1. ASSUME NEW k \in Parts(doc, n), IsMasked(k, extra)
      PROVE  k \in SecretsIn(doc, extra, n)
  BY <1>1, PartsOfNode DEF SecretsIn, Hidden
<1>2. ASSUME NEW k \in Parts(doc, n), ~IsMasked(k, extra), NEW m \in SecretsIn(doc, extra, k)
      PROVE  m \in SecretsIn(doc, extra, n)
  <2>1. k \in doc /\ m \in doc /\ Above(n, k) /\ Above(k, m) /\ k # n /\ m \in Hidden(doc, extra)
    BY <1>2, PartsOfNode DEF SecretsIn, Hidden
  <2>2. Above(n, m) /\ m # n
    BY <2>1, NodeOrder
  <2>3. ASSUME NEW q \in Hidden(doc, extra), Above(q, m), q # m
        PROVE  Above(q, n)
    <3>1. Above(q, k) /\ q \in doc /\ q # k
      BY <1>2, <2>3 DEF SecretsIn, Hidden
    <3> QED BY <3>1, PartsOfNode
  <2> QED BY <2>1, <2>2, <2>3 DEF SecretsIn
<1>3. ASSUME NEW m \in SecretsIn(doc, extra, n)
      PROVE  \E k \in Parts(doc, n) :
               m \in IF IsMasked(k, extra) THEN {k} ELSE SecretsIn(doc, extra, k)
  <2>1. m \in doc /\ Above(n, m) /\ m # n /\ m \in Hidden(doc, extra) /\ IsMasked(m, extra)
    BY DEF SecretsIn, Hidden
  <2>2. PICK k \in Parts(doc, n) : Above(k, m)
    BY <2>1, PartsOfNode
  <2>3. k \in doc /\ k.at # <<>> /\ Above(n, k) /\ ~Above(k, n)
    BY PartsOfNode, NodeOrder
  <2>4. IsMasked(k, extra) => m = k
    BY <1>3, <2>2, <2>3 DEF SecretsIn, Hidden
  <2>5. \A q \in Hidden(doc, extra) : Above(q, m) /\ q # m => Above(q, k)
    BY <1>3, <2>3, NodeOrder DEF SecretsIn, Hidden
  <2> QED BY <2>1, <2>2, <2>4, <2>5 DEF SecretsIn
<1> QED BY <1>1, <1>2, <1>3

\* What the walk makes of a node: it keeps the open ones and masks the others.
TreeOf(doc, extra, n) ==
  OpenIn(doc, extra, n) \cup {Masked(m) : m \in SecretsIn(doc, extra, n)}

LEMMA TreeIsWalk ==
  ASSUME NEW doc, IsDocument(doc), NEW extra
  PROVE  [n \in doc |-> TreeOf(doc, extra, n)] =
           [n \in doc |-> TreeStep(doc, extra, [m \in doc |-> TreeOf(doc, extra, m)], n)]
<1> SUFFICES ASSUME NEW n \in doc
             PROVE  TreeOf(doc, extra, n) =
                      TreeStep(doc, extra, [m \in doc |-> TreeOf(doc, extra, m)], n)
  OBVIOUS
<1> DEFINE Step == {n} \cup UNION {IF IsMasked(m, extra) THEN {Masked(m)}
                                   ELSE TreeOf(doc, extra, m) : m \in Parts(doc, n)}
           T == [m \in doc |-> TreeOf(doc, extra, m)]
<1>1. TreeStep(doc, extra, T, n) = Step
  <2>1. \A m \in Parts(doc, n) : T[m] = TreeOf(doc, extra, m)
    BY PartsOfNode
  <2> HIDE DEF T
  <2> QED BY <2>1 DEF TreeStep
<1>2. TreeOf(doc, extra, n) \subseteq Step
  <2>1. ASSUME NEW m \in OpenIn(doc, extra, n)
        PROVE  m \in Step
    BY OpenOfParts DEF TreeOf
  <2>2. ASSUME NEW m \in SecretsIn(doc, extra, n)
        PROVE  Masked(m) \in Step
    <3>1. PICK k \in Parts(doc, n) :
            m \in IF IsMasked(k, extra) THEN {k} ELSE SecretsIn(doc, extra, k)
      BY SecretsOfParts
    <3> QED BY <3>1 DEF TreeOf
  <2> HIDE DEF Step
  <2> QED BY <2>1, <2>2 DEF TreeOf
<1>3. Step \subseteq TreeOf(doc, extra, n)
  <2>1. n \in TreeOf(doc, extra, n)
    BY OpenOfParts DEF TreeOf
  <2>2. ASSUME NEW k \in Parts(doc, n), IsMasked(k, extra)
        PROVE  Masked(k) \in TreeOf(doc, extra, n)
    BY <2>2, SecretsOfParts DEF TreeOf
  <2>3. ASSUME NEW k \in Parts(doc, n), ~IsMasked(k, extra)
        PROVE  TreeOf(doc, extra, k) \subseteq TreeOf(doc, extra, n)
    <3>1. OpenIn(doc, extra, k) \subseteq OpenIn(doc, extra, n)
      BY <2>3, OpenOfParts
    <3>2. SecretsIn(doc, extra, k) \subseteq SecretsIn(doc, extra, n)
      BY <2>3, SecretsOfParts
    <3> QED BY <3>1, <3>2 DEF TreeOf
  <2> QED BY <2>1, <2>2, <2>3
<1> HIDE DEF Step
<1> QED BY <1>1, <1>2, <1>3

LEMMA CountIsWalk ==
  ASSUME NEW doc, IsDocument(doc), NEW extra
  PROVE  [n \in doc |-> Cardinality(SecretsIn(doc, extra, n))] =
           [n \in doc |-> CountStep(doc, extra,
                            [m \in doc |-> Cardinality(SecretsIn(doc, extra, m))], n)]
<1> SUFFICES ASSUME NEW n \in doc
             PROVE  Cardinality(SecretsIn(doc, extra, n)) =
                      CountStep(doc, extra, [m \in doc |-> Cardinality(SecretsIn(doc, extra, m))], n)
  OBVIOUS
<1> DEFINE C == [m \in doc |-> Cardinality(SecretsIn(doc, extra, m))]
           S == Parts(doc, n)
           g == [m \in S |-> IF IsMasked(m, extra) THEN {m} ELSE SecretsIn(doc, extra, m)]
           f == [m \in S |-> IF IsMasked(m, extra) THEN 1 ELSE C[m]]
<1>1. IsFiniteSet(S) /\ S \subseteq doc
  BY PartsOfNode, FS_Subset DEF IsDocument
<1>2. \A m \in S : IsFiniteSet(g[m])
  <2>1. \A m \in S : g[m] \in SUBSET doc
    BY <1>1 DEF SecretsIn, Hidden
  <2> HIDE DEF g, S
  <2> QED BY <2>1, FS_Subset DEF IsDocument
<1>3. f = [m \in S |-> Cardinality(g[m])]
  <2>1. \A m \in S : C[m] = Cardinality(SecretsIn(doc, extra, m))
    BY <1>1
  <2>2. \A m \in S : f[m] = Cardinality(g[m])
    BY <2>1, FS_Singleton
  <2> QED BY <2>2
<1>4. \A m, k \in S : m # k => g[m] \cap g[k] = {}
  <2> SUFFICES ASSUME NEW m \in S, NEW k \in S, NEW q \in g[m], q \in g[k]
               PROVE  m = k
    OBVIOUS
  <2>1. q \in doc /\ Above(m, q) /\ Above(k, q)
    BY <1>1, NodeOrder DEF SecretsIn, Hidden
  <2>2. Above(m, k) \/ Above(k, m)
    BY <1>1, <2>1, NodeOrder
  <2>3. ~Above(m, n) /\ ~Above(k, n)
    BY PartsOfNode, NodeOrder
  <2> QED BY <1>1, <2>2, <2>3, PartsOfNode
<1>5. SumFunction(f) = Cardinality(UNION {g[m] : m \in S})
  <2> HIDE DEF f, g, S
  <2> QED BY <1>1, <1>2, <1>3, <1>4, SumOfSizes
<1>6. UNION {g[m] : m \in S} = SecretsIn(doc, extra, n)
  <2>1. {g[m] : m \in S} = {IF IsMasked(m, extra) THEN {m} ELSE SecretsIn(doc, extra, m) :
                              m \in Parts(doc, n)}
    OBVIOUS
  <2> HIDE DEF g, S
  <2> QED BY <2>1, SecretsOfParts
<1>7. SumFunction(f) = CountStep(doc, extra, C, n)
  BY DEF CountStep
<1> QED BY <1>5, <1>6, <1>7

\* The walk of redaction.py takes out exactly the outermost values under the
\* sensitive keys of a document, and counts them.
THEOREM RedactTakesSecretsOut ==
  ASSUME NEW doc, IsDocument(doc), NEW extra
  PROVE  /\ Redacts(doc, Redact(doc, extra).tree, extra)
         /\ Redact(doc, extra).count = Cardinality(Secrets(doc, extra))
<1> DEFINE IsTree(t)  == t = [n \in doc |-> TreeStep(doc, extra, t, n)]
           IsCount(t) == t = [n \in doc |-> CountStep(doc, extra, t, n)]
           tree  == CHOOSE t : IsTree(t)
           count == CHOOSE t : IsCount(t)
           root  == Root(doc)
<1>1. Redact(doc, extra).tree = tree[root] /\ Redact(doc, extra).count = count[root]
  BY DEF Redact
<1>2. IsTree(tree) /\ IsCount(count)
  <2>1. \E t : IsTree(t)
    <3> DEFINE T == [n \in doc |-> TreeOf(doc, extra, n)]
    <3>1. IsTree(T)
      BY TreeIsWalk
    <3> HIDE DEF T, IsTree
    <3> QED BY <3>1
  <2>2. \E t : IsCount(t)
    <3> DEFINE C == [n \in doc |-> Cardinality(SecretsIn(doc, extra, n))]
    <3>1. IsCount(C)
      BY CountIsWalk
    <3> HIDE DEF C, IsCount
    <3> QED BY <3>1
  <2> HIDE DEF IsTree, IsCount
  <2> QED BY <2>1, <2>2
<1> HIDE DEF tree, count
<1>3. root \in doc
  BY RootOfDocument
<1>4. tree[root] = TreeOf(doc, extra, root)
  <2> SUFFICES ASSUME tree[root] # TreeOf(doc, extra, root)
               PROVE  FALSE
    OBVIOUS
  <2> DEFINE T == [n \in doc |-> TreeOf(doc, extra, n)]
             D == {n \in doc : tree[n] # T[n]}
  <2>1. PICK n \in D : \A m \in Parts(doc, n) : m \notin D
    BY <1>3, DeepestNode
  <2>2. \A m \in Parts(doc, n) : tree[m] = T[m]
    BY <2>1, PartsOfNode
  <2>3. TreeStep(doc, extra, tree, n) = TreeStep(doc, extra, T, n)
    <3> HIDE DEF T
    <3> QED BY <2>2 DEF TreeStep
  <2>4. T[n] = TreeStep(doc, extra, T, n)
    BY TreeIsWalk
  <2>5. tree[n] = TreeStep(doc, extra, tree, n)
    BY <1>2
  <2> QED BY <2>1, <2>3, <2>4, <2>5
<1>5. count[root] = Cardinality(SecretsIn(doc, extra, root))
  <2> SUFFICES ASSUME count[root] # Cardinality(SecretsIn(doc, extra, root))
               PROVE  FALSE
    OBVIOUS
  <2> DEFINE C == [n \in doc |-> Cardinality(SecretsIn(doc, extra, n))]
             D == {n \in doc : count[n] # C[n]}
  <2>1. PICK n \in D : \A m \in Parts(doc, n) : m \notin D
    BY <1>3, DeepestNode
  <2>2. \A m \in Parts(doc, n) : count[m] = C[m]
    BY <2>1, PartsOfNode
  <2>3. CountStep(doc, extra, count, n) = CountStep(doc, extra, C, n)
    <3> HIDE DEF C
    <3>1. [m \in Parts(doc, n) |-> IF IsMasked(m, extra) THEN 1 ELSE count[m]] =
          [m \in Parts(doc, n) |-> IF IsMasked(m, extra) THEN 1 ELSE C[m]]
      BY <2>2
    <3> QED BY <3>1 DEF CountStep
  <2>4. C[n] = CountStep(doc, extra, C, n)
    BY CountIsWalk
  <2>5. count[n] = CountStep(doc, extra, count, n)
    BY <1>2
  <2> QED BY <2>1, <2>3, <2>4, <2>5
<1>6. /\ \A m \in doc : Above(root, m) /\ (Above(m, root) <=> m = root)
      /\ root \notin Hidden(doc, extra)
  BY <1>3, RootOfDocument, NodeOrder DEF Hidden
<1>7. SecretsIn(doc, extra, root) = Secrets(doc, extra)
  <2> HIDE DEF root
  <2>1. \A m \in Hidden(doc, extra) : m \in doc /\ m # root
    BY <1>6 DEF Hidden
  <2>2. \A q, m \in Hidden(doc, extra) : IsStrictPrefix(q.at, m.at) <=> Above(q, m) /\ q # m
    BY <2>1, NodeOrder
  <2> QED BY <1>6, <2>1, <2>2 DEF SecretsIn, Secrets
<1>8. OpenIn(doc, extra, root) = {n \in doc : \A q \in Hidden(doc, extra) : ~IsPrefix(q.at, n.at)}
  <2> HIDE DEF root
  <2>1. \A q \in Hidden(doc, extra) : q \in doc /\ ~Above(q, root)
    BY <1>6 DEF Hidden
  <2> QED BY <1>6, <2>1 DEF OpenIn, Above
<1> QED BY <1>1, <1>4, <1>5, <1>7, <1>8 DEF Redacts, TreeOf

\* What is cleaned is a document again, in which every sensitive key is masked.
LEMMA CleanedIsDocument ==
  ASSUME NEW doc, IsDocument(doc), NEW clean, NEW extra, Redacts(doc, clean, extra)
  PROVE  /\ IsDocument(clean) /\ Clean(clean, extra)
         /\ \A m \in clean : m \in doc \/ m = Masked(m)
<1> DEFINE Open == {n \in doc : \A q \in Hidden(doc, extra) : ~IsPrefix(q.at, n.at)}
<1>1. clean = Open \cup {Masked(m) : m \in Secrets(doc, extra)}
  BY DEF Redacts
<1>2. \A m : Masked(m).at = m.at /\ Masked(Masked(m)) = Masked(m)
  BY DEF Masked, Node
<1>3. \A m \in Secrets(doc, extra) : m \in doc /\ m \in Hidden(doc, extra)
  BY DEF Secrets, Hidden
<1>4. \A m \in clean : \/ m \in Open /\ m \in doc
                       \/ m = Masked(m) /\ \E q \in Secrets(doc, extra) : q.at = m.at
  BY <1>1, <1>2
<1>5. Clean(clean, extra)
  <2> SUFFICES ASSUME NEW m \in Hidden(clean, extra), m \in Open, m \in doc
               PROVE  FALSE
    BY <1>4 DEF Clean, Hidden
  <2>1. m \in Hidden(doc, extra)
    BY DEF Hidden
  <2> QED BY <2>1, NodeOrder DEF Above
<1>6. IsFiniteSet(clean)
  <2> DEFINE g == [m \in Secrets(doc, extra) |-> Masked(m)]
             Image == {g[m] : m \in Secrets(doc, extra)}
  <2>1. IsFiniteSet(Open) /\ IsFiniteSet(Secrets(doc, extra))
    BY <1>3, FS_Subset DEF IsDocument
  <2>2. IsFiniteSet(Image)
    <3> HIDE DEF g
    <3> QED BY <2>1, ImageIsFinite
  <2>3. clean = Open \cup Image
    BY <1>1
  <2> HIDE DEF Open, Image
  <2> QED BY <2>1, <2>2, <2>3, FS_Union
<1>7. ASSUME NEW m \in clean, NEW q \in clean, m.at = q.at
      PROVE  m = q
  <2>1. CASE m \in Open /\ q \in Open
    BY <1>7, <2>1 DEF IsDocument
  <2>2. CASE m = Masked(m) /\ q = Masked(q)
    BY <1>7, <2>2 DEF Masked
  <2>3. ASSUME NEW x \in Open, NEW y \in Secrets(doc, extra), x.at = y.at
        PROVE  FALSE
    <3>1. y \in Hidden(doc, extra) /\ y \in doc
      BY <1>3
    <3> QED BY <2>3, <3>1, NodeOrder DEF Above
  <2> HIDE DEF Open
  <2> QED BY <1>4, <1>7, <2>1, <2>2, <2>3
<1>8. ASSUME NEW m \in clean, NEW i \in 0..Len(m.at)
      PROVE  \E q \in clean : q.at = SubSeq(m.at, 1, i)
  <2>1. PICK x \in doc : x.at = m.at /\ (m \in Open => x = m)
                         /\ (m \notin Open => x \in Secrets(doc, extra))
    BY <1>3, <1>4
  <2>2. PICK q \in doc : q.at = SubSeq(m.at, 1, i)
    BY <2>1 DEF IsDocument
  <2>3. Above(q, x)
    <3>1. x.at \in Seq(Labels) /\ q.at \in Seq(Labels) /\ i \in 0..Len(x.at)
      BY <2>1 DEF IsDocument
    <3>2. Len(q.at) = i /\ \A j \in 1..i : q.at[j] = x.at[j]
      BY <2>1, <2>2, <3>1, FirstElements
    <3>3. i <= Len(x.at)
      BY <3>1, LenProperties
    <3> QED BY <3>1, <3>2, <3>3, PrefixByElements DEF Above
  <2>4. CASE q = x
    BY <2>1, <2>2, <2>4
  <2>5. CASE q # x
    <3>1. ASSUME NEW k \in Hidden(doc, extra), IsPrefix(k.at, q.at)
          PROVE  FALSE
      <4>1. k \in doc /\ Above(k, q)
        BY <3>1 DEF Hidden, Above
      <4>2. Above(k, x) /\ k # x
        BY <2>3, <2>5, <4>1, NodeOrder
      <4>3. IsPrefix(k.at, x.at) /\ IsStrictPrefix(k.at, x.at)
        BY <4>1, <4>2, NodeOrder DEF Above
      <4> QED BY <2>1, <4>3 DEF Secrets
    <3>2. q \in clean
      BY <1>1, <3>1
    <3> QED BY <2>2, <3>2
  <2> QED BY <2>4, <2>5
<1>9. \A m \in clean : m.at \in Seq(Labels)
  BY <1>3, <1>4 DEF IsDocument
<1>10. clean # {}
  <2>1. Root(doc) \in Open
    BY RootOfDocument DEF Hidden, Above
  <2> QED BY <1>1, <2>1
<1>11. \A m \in clean : m \in doc \/ m = Masked(m)
  BY <1>4
<1> HIDE DEF Open
<1> QED BY <1>5, <1>6, <1>7, <1>8, <1>9, <1>10, <1>11 DEF IsDocument

\* Once the secrets are taken out, taking out fewer changes nothing.
LEMMA CleanedIsSettled ==
  ASSUME NEW doc, IsDocument(doc), NEW clean, NEW extra, Redacts(doc, clean, extra),
         NEW fewer \in SUBSET extra
  PROVE  Redacts(clean, clean, fewer) /\ Secrets(clean, fewer) = Hidden(clean, fewer)
<1> DEFINE Open == {n \in doc : \A q \in Hidden(doc, extra) : ~IsPrefix(q.at, n.at)}
<1>1. clean = Open \cup {Masked(m) : m \in Secrets(doc, extra)} /\ IsDocument(clean)
  BY CleanedIsDocument DEF Redacts
<1>2. \A m : Masked(m).at = m.at /\ Masked(Masked(m)) = Masked(m)
  BY DEF Masked, Node
<1>3. \A m \in Secrets(doc, extra) : m \in doc /\ m \in Hidden(doc, extra)
  BY DEF Secrets, Hidden
<1>4. ASSUME NEW q \in Hidden(clean, fewer)
      PROVE  q \in clean /\ q = Masked(q) /\ \E m \in Secrets(doc, extra) : q = Masked(m)
  <2>1. q \in clean /\ q.at # <<>> /\ IsMasked(q, extra)
    BY DEF Hidden, IsMasked, Sensitive
  <2>2. q \notin Open
    BY <2>1, NodeOrder DEF Hidden, Above
  <2> QED BY <1>1, <1>2, <2>1, <2>2
<1>5. ASSUME NEW q \in Hidden(clean, fewer), NEW n \in clean, IsPrefix(q.at, n.at)
      PROVE  n = q
  <2>1. PICK m \in Secrets(doc, extra) : q = Masked(m)
    BY <1>4
  <2>2. m \in Hidden(doc, extra) /\ m \in doc /\ q.at = m.at
    BY <1>2, <1>3, <2>1
  <2>3. n \notin Open
    BY <1>5, <2>2
  <2>4. PICK k \in Secrets(doc, extra) : n = Masked(k)
    BY <1>1, <2>3
  <2>5. IsPrefix(m.at, k.at) /\ k \in doc
    BY <1>2, <1>3, <1>5, <2>2, <2>4
  <2>6. ~IsStrictPrefix(m.at, k.at)
    BY <2>2 DEF Secrets
  <2>7. m = k
    BY <2>2, <2>5, <2>6, NodeOrder DEF Above
  <2> QED BY <2>1, <2>4, <2>7
<1>6. Secrets(clean, fewer) = Hidden(clean, fewer)
  <2>1. \A q, n \in Hidden(clean, fewer) : ~IsStrictPrefix(q.at, n.at)
    BY <1>4, <1>5 DEF IsStrictPrefix
  <2> QED BY <2>1 DEF Secrets
<1> HIDE DEF Open
<1>7. clean = {n \in clean : \A q \in Hidden(clean, fewer) : ~IsPrefix(q.at, n.at)}
                \cup {Masked(m) : m \in Hidden(clean, fewer)}
  BY <1>4, <1>5
<1> QED BY <1>6, <1>7 DEF Redacts

\* What redact has made of a document it leaves as it is.
THEOREM RedactSettles ==
  ASSUME NEW doc, IsDocument(doc), NEW clean, NEW extra, Redacts(doc, clean, extra),
         NEW fewer \in SUBSET extra
  PROVE  Redact(clean, fewer).tree = clean
<1>1. IsDocument(clean)
  BY CleanedIsDocument
<1>2. Redacts(clean, Redact(clean, fewer).tree, fewer)
  BY <1>1, RedactTakesSecretsOut
<1> QED BY <1>2, CleanedIsSettled DEF Redacts

\* There is nothing to take out of a document without parts.
LEMMA SingleNode ==
  ASSUME NEW kind, NEW value, NEW extra
  PROVE  LET doc == {Node(<<>>, kind, value)}
         IN  /\ IsDocument(doc) /\ Clean(doc, extra)
             /\ Secrets(doc, extra) = {}
             /\ \A clean : Redacts(doc, clean, extra) <=> clean = doc
<1> DEFINE doc == {Node(<<>>, kind, value)}
<1>1. Hidden(doc, extra) = {}
  BY DEF Hidden, Node
<1>2. IsDocument(doc)
  <2>1. IsFiniteSet(doc)
    BY FS_Singleton
  <2>2. PICK e \in Seq(Labels) : e = <<>> /\ Len(e) = 0
    BY EmptySeq
  <2>3. SubSeq(e, 1, 0) = e
    BY <2>2, SubSeqEmpty
  <2>4. \A n \in doc : n.at = e
    BY <2>2 DEF Node
  <2>5. \A n \in doc : \A i \in 0..Len(n.at) : n.at = SubSeq(n.at, 1, i)
    <3>1. \A i \in 0..Len(e) : e = SubSeq(e, 1, i)
      <4>1. \A i \in 0..Len(e) : i = 0
        BY <2>2
      <4> QED BY <2>3, <4>1
    <3> QED BY <2>4, <3>1
  <2> QED BY <2>1, <2>2, <2>4, <2>5 DEF IsDocument
<1>3. Secrets(doc, extra) = {} /\ Clean(doc, extra)
  BY <1>1 DEF Secrets, Clean
<1>4. \A clean : Redacts(doc, clean, extra) <=> clean = doc
  BY <1>1, <1>3 DEF Redacts
<1> QED BY <1>2, <1>3, <1>4

\* The places below a label.
LEMMA PlaceUnder ==
  ASSUME NEW k \in Labels, NEW s \in Seq(Labels)
  PROVE  /\ <<k>> \o s \in Seq(Labels) /\ Len(<<k>> \o s) = Len(s) + 1
         /\ (<<k>> \o s)[1] = k
         /\ \A i \in 1..Len(s) : (<<k>> \o s)[i + 1] = s[i]
<1>1. <<k>> \in Seq(Labels) /\ Len(<<k>>) = 1 /\ <<k>>[1] = k
  OBVIOUS
<1>2. Len(s) \in Nat
  BY LenProperties
<1>3. PICK t \in Seq(Labels) : t = <<k>> /\ Len(t) = 1 /\ t[1] = k
  BY <1>1
<1>4. /\ t \o s \in Seq(Labels)
      /\ Len(t \o s) = 1 + Len(s)
      /\ \A i \in 1..(1 + Len(s)) : (t \o s)[i] = IF i <= 1 THEN t[i] ELSE s[i - 1]
  BY <1>3, ConcatProperties
<1>5. (t \o s)[1] = k /\ \A i \in 1..Len(s) : (t \o s)[i + 1] = s[i]
  <2>1. \A i \in 1..Len(s) : i + 1 \in 1..(1 + Len(s)) /\ ~(i + 1 <= 1) /\ i + 1 - 1 = i
    BY <1>2
  <2>2. 1 \in 1..(1 + Len(s))
    BY <1>2
  <2> QED BY <1>3, <1>4, <2>1, <2>2
<1> QED BY <1>2, <1>3, <1>4, <1>5

LEMMA PlacesApart ==
  ASSUME NEW k \in Labels, NEW j \in Labels, NEW s \in Seq(Labels), NEW t \in Seq(Labels),
         <<k>> \o s = <<j>> \o t
  PROVE  k = j /\ s = t
<1>1. k = j /\ Len(s) + 1 = Len(t) + 1 /\ Len(s) \in Nat /\ Len(t) \in Nat
  BY PlaceUnder, LenProperties
<1>2. \A i \in 1..Len(s) : s[i] = t[i]
  BY <1>1, PlaceUnder
<1> QED BY <1>1, <1>2, SeqEqual

LEMMA WayUnder ==
  ASSUME NEW k \in Labels, NEW s \in Seq(Labels), NEW i \in 0..Len(s)
  PROVE  SubSeq(<<k>> \o s, 1, i + 1) = <<k>> \o SubSeq(s, 1, i)
<1> DEFINE t == <<k>> \o s
           u == SubSeq(s, 1, i)
           v == SubSeq(t, 1, i + 1)
           w == <<k>> \o u
<1>1. /\ t \in Seq(Labels) /\ Len(t) = Len(s) + 1 /\ t[1] = k
      /\ \A j \in 1..Len(s) : t[j + 1] = s[j]
      /\ Len(s) \in Nat
  BY PlaceUnder, LenProperties
<1>2. u \in Seq(Labels) /\ Len(u) = i /\ \A j \in 1..i : u[j] = s[j]
  BY FirstElements
<1>3. /\ w \in Seq(Labels) /\ Len(w) = Len(u) + 1 /\ w[1] = k
      /\ \A j \in 1..Len(u) : w[j + 1] = u[j]
  BY <1>2, PlaceUnder
<1>4. v \in Seq(Labels) /\ Len(v) = i + 1 /\ \A j \in 1..(i + 1) : v[j] = t[j]
  <2>1. i + 1 \in 0..Len(t)
    BY <1>1
  <2> HIDE DEF t
  <2> QED BY <1>1, <2>1, FirstElements
<1> HIDE DEF t, u, v, w
<1>5. ASSUME NEW j \in 1..(i + 1)
      PROVE  v[j] = w[j]
  <2>1. CASE j = 1
    BY <1>1, <1>3, <1>4, <2>1
  <2>2. CASE j # 1
    <3>1. j - 1 \in 1..i /\ j - 1 + 1 = j /\ j - 1 \in 1..Len(s)
      BY <1>1, <2>2
    <3>2. t[j] = s[j - 1] /\ w[j] = u[j - 1]
      BY <1>1, <1>2, <1>3, <3>1
    <3> QED BY <1>2, <1>4, <3>1, <3>2
  <2> QED BY <2>1, <2>2
<1>6. v = w
  BY <1>2, <1>3, <1>4, <1>5, SeqEqual
<1> QED BY <1>6 DEF t, u, v, w

LEMMA CompoundIsDocument ==
  ASSUME NEW kind, NEW docs, IsFiniteSet(DOMAIN docs), DOMAIN docs \subseteq Labels,
         \A k \in DOMAIN docs : IsDocument(docs[k])
  PROVE  IsDocument(Compound(kind, docs))
<1> DEFINE root == Node(<<>>, kind, "none")
           Moved(k, n) == Node(<<k>> \o n.at, n.kind, n.value)
           Under(k) == {Moved(k, n) : n \in docs[k]}
           doc == Compound(kind, docs)
<1>1. doc = {root} \cup UNION {Under(k) : k \in DOMAIN docs}
  BY DEF Compound
<1>2. root.at = <<>> /\ \A k, n : Moved(k, n).at = <<k>> \o n.at
  BY DEF Node
<1>3. \A k \in DOMAIN docs : \A n \in docs[k] :
        k \in Labels /\ n.at \in Seq(Labels) /\ Len(n.at) \in Nat
  BY LenProperties DEF IsDocument
<1> HIDE DEF root, Moved, doc
<1>4. ASSUME NEW m \in doc, m # root
      PROVE  \E k \in DOMAIN docs : \E n \in docs[k] : m = Moved(k, n)
  BY <1>1, <1>4
<1>5. IsFiniteSet(doc)
  <2>1. ASSUME NEW k \in DOMAIN docs
        PROVE  IsFiniteSet(Under(k))
    <3> DEFINE g == [n \in docs[k] |-> Moved(k, n)]
               Image == {g[n] : n \in docs[k]}
    <3>1. IsFiniteSet(Image)
      <4>1. IsFiniteSet(docs[k])
        BY DEF IsDocument
      <4> HIDE DEF g
      <4> QED BY <4>1, ImageIsFinite
    <3>2. Image = Under(k)
      OBVIOUS
    <3> QED BY <3>1, <3>2
  <2> DEFINE h == [k \in DOMAIN docs |-> Under(k)]
             All == {Under(k) : k \in DOMAIN docs}
  <2>2. IsFiniteSet({h[k] : k \in DOMAIN docs})
    <3> HIDE DEF h
    <3> QED BY ImageIsFinite
  <2>3. All = {h[k] : k \in DOMAIN docs}
    OBVIOUS
  <2>4. \A s \in All : IsFiniteSet(s)
    BY <2>1
  <2>5. doc = (UNION All) \cup {root}
    BY <1>1
  <2> HIDE DEF All, h
  <2>6. IsFiniteSet(UNION All)
    BY <2>2, <2>3, <2>4, FS_UNION
  <2>7. IsFiniteSet((UNION All) \cup {root})
    BY <2>6, FS_AddElement
  <2> QED BY <2>5, <2>7
<1>6. \A m \in doc : m.at \in Seq(Labels)
  <2>1. root.at \in Seq(Labels)
    BY <1>2, EmptySeq
  <2>2. ASSUME NEW k \in DOMAIN docs, NEW n \in docs[k]
        PROVE  Moved(k, n).at \in Seq(Labels)
    <3>1. <<k>> \o n.at \in Seq(Labels)
      BY <1>3, PlaceUnder
    <3> QED BY <1>2, <3>1
  <2> QED BY <1>4, <2>1, <2>2
<1>7. ASSUME NEW k \in DOMAIN docs, NEW n \in docs[k]
      PROVE  Moved(k, n).at # <<>>
  <2>1. Len(Moved(k, n).at) = Len(n.at) + 1 /\ Len(n.at) \in Nat
    <3>1. Len(<<k>> \o n.at) = Len(n.at) + 1
      BY <1>3, PlaceUnder
    <3> QED BY <1>2, <1>3, <3>1
  <2>2. Len(<<>>) = 0
    BY EmptySeq
  <2> QED BY <2>1, <2>2
<1>8. ASSUME NEW m \in doc, NEW q \in doc, m.at = q.at
      PROVE  m = q
  <2>1. CASE m = root \/ q = root
    BY <1>2, <1>4, <1>7, <1>8, <2>1
  <2>2. CASE m # root /\ q # root
    <3>1. PICK k \in DOMAIN docs : \E n \in docs[k] : m = Moved(k, n)
      BY <1>4, <2>2
    <3>2. PICK n \in docs[k] : m = Moved(k, n)
      BY <3>1
    <3>3. PICK j \in DOMAIN docs : \E x \in docs[j] : q = Moved(j, x)
      BY <1>4, <2>2
    <3>4. PICK x \in docs[j] : q = Moved(j, x)
      BY <3>3
    <3>5. <<k>> \o n.at = <<j>> \o x.at
      BY <1>2, <1>8, <3>2, <3>4
    <3>6. k = j /\ n.at = x.at
      BY <1>3, <3>5, PlacesApart
    <3>7. n = x
      BY <3>6 DEF IsDocument
    <3> QED BY <3>2, <3>4, <3>6, <3>7
  <2> QED BY <2>1, <2>2
<1>9. ASSUME NEW m \in doc, NEW i \in 0..Len(m.at)
      PROVE  \E q \in doc : q.at = SubSeq(m.at, 1, i)
  <2>1. m.at \in Seq(Labels) /\ Len(m.at) \in Nat
    BY <1>6, LenProperties
  <2>2. CASE i = 0
    <3>1. SubSeq(m.at, 1, i) = <<>>
      BY <2>2, SubSeqEmpty
    <3> QED BY <1>1, <1>2, <3>1
  <2>3. CASE i # 0
    <3>1. m # root
      <4>1. Len(<<>>) = 0
        BY EmptySeq
      <4> QED BY <1>2, <2>3, <4>1
    <3>2. PICK k \in DOMAIN docs : \E n \in docs[k] : m = Moved(k, n)
      BY <1>4, <3>1
    <3>3. PICK n \in docs[k] : m = Moved(k, n)
      BY <3>2
    <3>4. m.at = <<k>> \o n.at /\ Len(m.at) = Len(n.at) + 1 /\ Len(n.at) \in Nat
      BY <1>2, <1>3, <3>3, PlaceUnder
    <3>5. i - 1 \in 0..Len(n.at) /\ i - 1 + 1 = i
      BY <2>1, <2>3, <3>4
    <3>6. SubSeq(m.at, 1, i) = <<k>> \o SubSeq(n.at, 1, i - 1)
      <4> DEFINE j == i - 1
      <4>1. j \in 0..Len(n.at) /\ j + 1 = i
        BY <3>5
      <4> HIDE DEF j
      <4>2. SubSeq(<<k>> \o n.at, 1, j + 1) = <<k>> \o SubSeq(n.at, 1, j)
        BY <1>3, <4>1, WayUnder
      <4> QED BY <3>4, <4>1, <4>2 DEF j
    <3>7. PICK x \in docs[k] : x.at = SubSeq(n.at, 1, i - 1)
      BY <3>5 DEF IsDocument
    <3>8. Moved(k, x) \in doc
      BY <1>1
    <3>9. Moved(k, x).at = SubSeq(m.at, 1, i)
      BY <1>2, <3>6, <3>7
    <3> QED BY <3>8, <3>9
  <2> QED BY <2>2, <2>3
<1>10. doc # {}
  BY <1>1
<1>11. IsDocument(doc)
  BY <1>5, <1>6, <1>8, <1>9, <1>10 DEF IsDocument
<1> QED BY <1>11 DEF doc

LEMMA ListIsDocument ==
  ASSUME NEW n \in Nat, NEW docs, DOMAIN docs = 1..n, \A i \in 1..n : IsDocument(docs[i])
  PROVE  IsDocument(List(docs))
<1> DEFINE label == [i \in 1..n |-> Item(i)]
           At == {label[i] : i \in 1..n}
           below == [k \in {Item(i) : i \in DOMAIN docs} |-> docs[k.number]]
<1>1. IsFiniteSet(At)
  <2>1. IsFiniteSet(1..n)
    BY FS_Interval
  <2> HIDE DEF label
  <2> QED BY <2>1, ImageIsFinite
<1>2. At = DOMAIN below
  OBVIOUS
<1>3. \A i \in 1..n : Item(i) \in Labels /\ Item(i).number = i
  BY DEF Item, Labels
<1>4. \A k \in DOMAIN below : k \in Labels /\ IsDocument(below[k])
  BY <1>3
<1> HIDE DEF At, below
<1>5. IsDocument(Compound("list", below))
  BY <1>1, <1>2, <1>4, CompoundIsDocument
<1> QED BY <1>5 DEF List, below

-----------------------------------------------------------------------------
(* Analyses.                                                               *)

Stages == {"rest", "begin", "credential", "read", "check", "discover", "redact",
           "model", "print", "done"}

\* Types, and which operation each stage belongs to.
AnalysisTypes ==
  /\ stage \in Stages
  /\ request \in Requests
  /\ resolutions \in [DOMAIN request.targets -> Resolutions]
  /\ redaction \in {"not_applicable", "complete", "withheld"}
  /\ asked \in Seq(DOMAIN request.targets)
  /\ redirected \in Nat
  /\ seen \in [Entities -> SUBSET (Looks \cup {Absent})]
  /\ stage = "read" => request.op = "inspect"
  /\ stage = "check" => request.op = "check"
  /\ stage = "discover" => request.op = "find"
  /\ stage = "model" => request.op = "interpret"

\* Requests and resolutions stay in step.
TokensInv ==
  /\ Range(asked) \subseteq Valid
  /\ \A i \in DOMAIN request.targets :
       /\ i \notin Valid => resolutions[i] = "invalid"
       /\ i \in Valid => resolutions[i] # "invalid"
       /\ i \in Valid => (resolutions[i] = "not_inspected") = (i \notin Range(asked))

\* Targets are asked for in their order, and nothing after a redirect.
TurnsInv ==
  /\ \A i \in Range(asked), j \in Unread : i < j
  /\ redirected = 0 \/ (/\ stage \notin {"begin", "credential", "read"}
                        /\ redirected \in Range(asked)
                        /\ \A i \in Range(asked) : i <= redirected)

\* What was absent was seen so; what is being read has been seen.
AbsentInv ==
  /\ \A i \in DOMAIN request.targets :
       resolutions[i] = "absent" => Absent \in seen[request.targets[i]]
  /\ stage = "read" => \A e \in Entities : home[e] \in seen[e]

\* A target that was not resolved is reported.
ReportInv ==
  problems = {} /\ request.op = "inspect" =>
    /\ ~request.strays
    /\ \A i \in DOMAIN request.targets : resolutions[i] \in {"resolved", "not_inspected"}
    /\ stage \in {"redact", "print"} => Unread = {}

\* The entities are those of the resolved targets, as they were seen.
Shows(found, looks) ==
  /\ \A k \in DOMAIN found : looks[k] \in seen[request.targets[found[k]]]
  /\ entities = [k \in DOMAIN found |-> MinimumEntity(request.targets[found[k]], looks[k],
                                                   request.fields)]

EntitiesInv ==
  \E found \in Ascending(Successes) : \E looks \in [DOMAIN found -> Looks] : Shows(found, looks)

ResultInv ==
  request.op = "inspect" /\ stage = "print" /\ redaction = "complete" =>
    output = Redact(List(entities), {}).tree

AnalysisInv ==
  /\ HomeTypeOK
  /\ AnalysisTypes
  /\ TokensInv /\ TurnsInv /\ AbsentInv /\ ReportInv /\ EntitiesInv /\ ResultInv

-----------------------------------------------------------------------------
\* What is known of a request.
LEMMA RequestTypes ==
  ASSUME AnalysisTypes
  PROVE  /\ request.op \in Operations
         /\ request.targets \in Seq(Entities \cup {Invalid})
         /\ DOMAIN request.targets \subseteq Nat \ {0}
         /\ IsFiniteSet(DOMAIN request.targets)
         /\ \A i \in Valid : i \in DOMAIN request.targets /\ request.targets[i] \in Entities
<1>1. /\ request.op \in Operations
      /\ request.targets \in Seq(Entities \cup {Invalid})
  BY DEF AnalysisTypes, Requests
<1>2. DOMAIN request.targets = 1..Len(request.targets) /\ Len(request.targets) \in Nat
  BY <1>1, LenProperties
<1>3. IsFiniteSet(1..Len(request.targets))
  BY <1>2, FS_Interval
<1>4. \A i \in DOMAIN request.targets : request.targets[i] \in Entities \cup {Invalid}
  BY <1>1, <1>2, ElementOfSeq
<1> QED BY <1>1, <1>2, <1>3, <1>4 DEF Valid

\* A function on the first numbers is a sequence.
LEMMA ArrayIsSeq ==
  ASSUME NEW n \in Nat, NEW S, NEW s \in [1..n -> S]
  PROVE  s \in Seq(S) /\ Len(s) = n
<1>1. s \in Seq(S)
  OBVIOUS
<1> QED BY <1>1, LenProperties

\* One more position, above the others, is the last of those in order.
LEMMA AscendingGrows ==
  ASSUME NEW S \in SUBSET Nat, IsFiniteSet(S), NEW i \in Nat, \A j \in S : j < i,
         NEW f \in Ascending(S)
  PROVE  /\ Append(f, i) \in Ascending(S \cup {i})
         /\ Len(f) = Cardinality(S) /\ f \in Seq(Nat)
         /\ Cardinality(S) \in Nat
<1>1. Cardinality(S) \in Nat /\ Cardinality(S \cup {i}) = Cardinality(S) + 1
  BY FS_CardinalityType, FS_AddElement
<1>2. f \in [1..Cardinality(S) -> S] /\ \A j, k \in DOMAIN f : j < k => f[j] < f[k]
  BY DEF Ascending
<1>3. f \in Seq(S) /\ f \in Seq(S \cup {i}) /\ f \in Seq(Nat) /\ Len(f) = Cardinality(S)
  <2>1. f \in [1..Cardinality(S) -> S \cup {i}] /\ f \in [1..Cardinality(S) -> Nat]
    BY <1>2
  <2> QED BY <1>1, <1>2, <2>1, ArrayIsSeq
<1>4. /\ Append(f, i) \in Seq(S \cup {i})
      /\ Len(Append(f, i)) = Cardinality(S) + 1
      /\ \A k \in 1..Cardinality(S) : Append(f, i)[k] = f[k]
      /\ Append(f, i)[Cardinality(S) + 1] = i
  BY <1>3, AppendProperties
<1>5. Append(f, i) \in [1..(Cardinality(S) + 1) -> S \cup {i}]
  BY <1>4, LenProperties
<1>6. \A j, k \in 1..(Cardinality(S) + 1) : j < k => Append(f, i)[j] < Append(f, i)[k]
  <2> SUFFICES ASSUME NEW j \in 1..(Cardinality(S) + 1), NEW k \in 1..(Cardinality(S) + 1),
                      j < k
               PROVE  Append(f, i)[j] < Append(f, i)[k]
    OBVIOUS
  <2>1. j \in 1..Cardinality(S) /\ f[j] \in S
    BY <1>1, <1>2
  <2>2. CASE k \in 1..Cardinality(S)
    BY <1>2, <1>4, <2>1, <2>2
  <2>3. CASE k = Cardinality(S) + 1
    <3>1. Append(f, i)[j] = f[j] /\ Append(f, i)[k] = i
      BY <1>4, <2>1, <2>3
    <3> QED BY <2>1, <3>1
  <2>4. k \in 1..Cardinality(S) \/ k = Cardinality(S) + 1
    BY <1>1
  <2> QED BY <2>2, <2>3, <2>4
<1> QED BY <1>1, <1>3, <1>5, <1>6 DEF Ascending

-----------------------------------------------------------------------------
\* What an entity has shown is never forgotten, and what is read was seen.
LEMMA WitnessSees ==
  ASSUME AnalysisInv, HomeTypeOK', AnalysisWitness
  PROVE  /\ seen' \in [Entities -> SUBSET (Looks \cup {Absent})]
         /\ \A e \in Entities : seen[e] \subseteq seen'[e]
         /\ stage' = "read" => \A e \in Entities : home'[e] \in seen'[e]
<1>1. seen \in [Entities -> SUBSET (Looks \cup {Absent})]
  BY DEF AnalysisInv, AnalysisTypes
<1>2. home' \in [Entities -> Looks \cup {Absent}]
  BY DEF HomeTypeOK
<1>3. CASE stage' = "read"
  <2>1. seen' = [e \in Entities |-> seen[e] \cup {home'[e]}]
    BY <1>3 DEF AnalysisWitness
  <2> QED BY <1>1, <1>2, <2>1
<1>4. CASE stage' # "read"
  BY <1>1, <1>4 DEF AnalysisWitness
<1> QED BY <1>3, <1>4

\* What the entities show does not depend on what is seen later.
LEMMA EntitiesKept ==
  ASSUME AnalysisInv, HomeTypeOK', AnalysisWitness,
         NEW found \in Ascending(Successes), NEW looks \in [DOMAIN found -> Looks],
         Shows(found, looks), NEW k \in DOMAIN found
  PROVE  /\ looks[k] \in seen'[request.targets[found[k]]]
         /\ found[k] \in DOMAIN request.targets
<1>1. found[k] \in Successes
  BY DEF Ascending
<1>2. found[k] \in Valid
  BY <1>1 DEF AnalysisInv, Successes, TokensInv
<1>3. found[k] \in DOMAIN request.targets /\ request.targets[found[k]] \in Entities
  BY <1>2, RequestTypes DEF AnalysisInv
<1> QED BY <1>3, WitnessSees DEF Shows

\* Nor on anything else than which targets were resolved.
LEMMA EntitiesStay ==
  ASSUME AnalysisInv, HomeTypeOK', AnalysisWitness, Successes' = Successes,
         UNCHANGED <<request, entities>>
  PROVE  EntitiesInv'
<1>1. PICK found \in Ascending(Successes) :
        \E looks \in [DOMAIN found -> Looks] : Shows(found, looks)
  BY DEF AnalysisInv, EntitiesInv
<1>2. PICK looks \in [DOMAIN found -> Looks] : Shows(found, looks)
  BY <1>1
<1>3. Shows(found, looks)'
  <2>1. (\A k \in DOMAIN found : looks[k] \in seen[request.targets[found[k]]])'
    BY <1>2, EntitiesKept
  <2>2. (entities = [k \in DOMAIN found |->
                       MinimumEntity(request.targets[found[k]], looks[k], request.fields)])'
    BY <1>2 DEF Shows
  <2> QED BY <2>1, <2>2 DEF Shows
<1> QED BY <1>2, <1>3 DEF EntitiesInv

\* A step that reads no entity keeps what was read as it is.
LEMMA ReadingKept ==
  ASSUME AnalysisInv, AnalysisWitness, HomeTypeOK',
         UNCHANGED <<request, resolutions, entities, asked, redirected>>,
         redirected = 0 \/ stage' \notin {"begin", "credential", "read"}
  PROVE  TokensInv' /\ TurnsInv' /\ AbsentInv' /\ EntitiesInv'
<1>1. TokensInv /\ TurnsInv /\ AbsentInv /\ EntitiesInv /\ AnalysisTypes
  BY DEF AnalysisInv
<1>2. /\ \A e \in Entities : seen[e] \subseteq seen'[e]
      /\ stage' = "read" => \A e \in Entities : home'[e] \in seen'[e]
  BY WitnessSees
<1>3. Valid' = Valid /\ Unread' = Unread /\ Successes' = Successes
  BY DEF Valid, Unread, Successes
<1>4. TokensInv'
  BY <1>1, <1>3 DEF TokensInv
<1>5. TurnsInv'
  BY <1>1, <1>3 DEF TurnsInv
<1>6. AbsentInv'
  <2>1. ASSUME NEW i \in DOMAIN request.targets, resolutions[i] = "absent"
        PROVE  Absent \in seen'[request.targets[i]]
    <3>1. i \in Valid
      BY <1>1, <2>1 DEF TokensInv
    <3>2. request.targets[i] \in Entities
      BY <1>1, <3>1, RequestTypes
    <3> QED BY <1>1, <1>2, <2>1, <3>2 DEF AbsentInv
  <2> QED BY <1>2, <2>1 DEF AbsentInv
<1>7. EntitiesInv'
  BY <1>3, EntitiesStay
<1> QED BY <1>4, <1>5, <1>6, <1>7

-----------------------------------------------------------------------------
\* What a step that reads no entity does to the rest.
Quiet ==
  /\ UNCHANGED <<request, resolutions, entities, asked, redirected>>
  /\ problems \subseteq problems'
  /\ stage' \in Stages
  /\ redaction' \in {"not_applicable", "complete", "withheld"}
  /\ stage' = "read" => request.op = "inspect"
  /\ stage' = "check" => request.op = "check"
  /\ stage' = "discover" => request.op = "find"
  /\ stage' = "model" => request.op = "interpret"
  /\ redirected = 0 \/ stage' \notin {"begin", "credential", "read"}
  /\ problems' = {} /\ request.op = "inspect" /\ stage' \in {"redact", "print"} =>
       stage \in {"redact", "print"}
  /\ ResultInv'

LEMMA QuietKeeps ==
  ASSUME AnalysisInv, HomeTypeOK', AnalysisWitness, Quiet
  PROVE  AnalysisInv'
<1>1. AnalysisTypes'
  <2>1. seen' \in [Entities -> SUBSET (Looks \cup {Absent})]
    BY WitnessSees
  <2> QED BY <2>1 DEF AnalysisInv, AnalysisTypes, Quiet
<1>2. TokensInv' /\ TurnsInv' /\ AbsentInv' /\ EntitiesInv'
  BY ReadingKept DEF Quiet
<1>3. ReportInv'
  BY DEF AnalysisInv, ReportInv, Quiet, Unread, Valid
<1> QED BY <1>1, <1>2, <1>3 DEF AnalysisInv, Quiet

LEMMA GiveUpIsQuiet ==
  ASSUME AnalysisInv, NEW why, GiveUp(why), UNCHANGED <<asked, redirected>>
  PROVE  Quiet
<1>1. problems' # {} /\ problems \subseteq problems' /\ stage' = "print"
      /\ redaction' = "not_applicable"
      /\ UNCHANGED <<request, resolutions, entities>>
  BY DEF GiveUp, Finish
<1> QED BY <1>1 DEF Quiet, Stages, ResultInv

LEMMA StartIsQuiet ==
  ASSUME AnalysisInv, Start, UNCHANGED <<asked, redirected>>
  PROVE  Quiet
<1>1. stage = "begin" /\ redirected = 0 /\ request.op \in Operations
  BY RequestTypes DEF Start, AnalysisInv, TurnsInv
<1>2. CASE \E why : GiveUp(why)
  BY <1>2, GiveUpIsQuiet
<1>3. CASE Enter("credential")
  BY <1>1, <1>3 DEF Enter, Quiet, Stages, ResultInv, AnalysisInv, AnalysisTypes
<1>4. CASE request.op \notin Live /\ Enter("redact")
  BY <1>1, <1>4 DEF Enter, Quiet, Stages, ResultInv, AnalysisInv, AnalysisTypes, Live
<1> QED BY <1>2, <1>3, <1>4 DEF Start

LEMMA CredentialIsQuiet ==
  ASSUME AnalysisInv, Credential, UNCHANGED <<asked, redirected>>
  PROVE  Quiet
<1>1. stage = "credential" /\ redirected = 0
  BY DEF Credential, AnalysisInv, TurnsInv
<1>2. CASE \E why : GiveUp(why)
  BY <1>2, GiveUpIsQuiet
<1>3. CASE \/ request.op = "inspect" /\ Enter("read")
           \/ request.op = "check" /\ Enter("check")
           \/ request.op = "find" /\ Enter("discover")
  BY <1>1, <1>3 DEF Enter, Quiet, Stages, ResultInv, AnalysisInv, AnalysisTypes
<1> QED BY <1>2, <1>3 DEF Credential

LEMMA SerializeIsQuiet ==
  ASSUME AnalysisInv, Serialize, UNCHANGED <<asked, redirected>>
  PROVE  Quiet
<1>1. stage' = "done" /\ problems \subseteq problems'
      /\ redaction' \in {"not_applicable", "complete", "withheld"}
      /\ UNCHANGED <<request, resolutions, entities>>
  BY DEF Serialize, AnalysisInv, AnalysisTypes
<1> QED BY <1>1 DEF Quiet, Stages, ResultInv

\* The operations that inspect nothing end, or go on to the model.
LEMMA OthersAreQuiet ==
  ASSUME AnalysisInv, UNCHANGED <<asked, redirected>>,
         CheckConnection \/ Discover \/ RedactSummary \/ RedactEvidence \/ Interpret
  PROVE  Quiet
<1>1. request.op # "inspect"
  BY DEF AnalysisInv, AnalysisTypes, CheckConnection, Discover, RedactSummary, RedactEvidence,
         Interpret
<1>2. CASE /\ stage' = "print" /\ problems \subseteq problems'
           /\ redaction' \in {"not_applicable", "complete", "withheld"}
           /\ UNCHANGED <<request, resolutions, entities>>
  BY <1>1, <1>2 DEF Quiet, Stages, ResultInv
<1>3. CASE /\ request.op = "interpret" /\ stage' = "model" /\ redaction' = "complete"
           /\ UNCHANGED <<request, resolutions, entities, problems>>
  BY <1>1, <1>3 DEF Quiet, Stages, ResultInv
<1>4. CASE CheckConnection
  BY <1>2, <1>4 DEF CheckConnection, Finish
<1>5. CASE Discover
  BY <1>2, <1>5 DEF Discover, GiveUp, Finish
<1>6. CASE RedactSummary
  BY <1>2, <1>6 DEF RedactSummary, Finish
<1>7. CASE RedactEvidence
  BY <1>2, <1>3, <1>7 DEF RedactEvidence, Finish
<1>8. CASE Interpret
  BY <1>2, <1>8 DEF Interpret, Finish
<1> QED BY <1>4, <1>5, <1>6, <1>7, <1>8

LEMMA RedactEntitiesIsQuiet ==
  ASSUME AnalysisInv, RedactEntities, UNCHANGED <<asked, redirected>>
  PROVE  Quiet
<1>1. /\ stage = "redact" /\ stage' = "print" /\ problems \subseteq problems'
      /\ redaction' \in {"complete", "withheld"}
      /\ redaction' = "complete" => output' = Redact(List(entities), {}).tree
      /\ UNCHANGED <<request, resolutions, entities>>
  BY DEF RedactEntities, Finish
<1>2. ResultInv'
  BY <1>1 DEF ResultInv
<1> QED BY <1>1, <1>2 DEF Quiet, Stages

-----------------------------------------------------------------------------
\* One answer, to the first target that is unread.
LEMMA AnswerKeeps ==
  ASSUME AnalysisInv, HomeTypeOK', AnalysisWitness, stage = "read",
         NEW i \in Unread, \A j \in Unread : i <= j,
         NEW what \in {"resolved", "absent", "unavailable"}, NEW why, NEW on \in BOOLEAN,
         Answered(i, what, why, on),
         IF what = "resolved" THEN on ELSE why # {},
         what = "absent" => home[request.targets[i]] = Absent,
         asked' = Append(asked, i),
         redirected' = redirected \/ (redirected' = i /\ ~on)
  PROVE  /\ AnalysisTypes' /\ TokensInv' /\ TurnsInv' /\ AbsentInv' /\ ReportInv' /\ ResultInv'
         /\ request.targets[i] \in Entities
         /\ Successes' = IF what = "resolved" THEN Successes \cup {i} ELSE Successes
         /\ request' = request
         /\ \A j \in Successes : j < i
         /\ i \in Nat
<1>1. /\ AnalysisTypes /\ TokensInv /\ TurnsInv /\ AbsentInv /\ ReportInv
      /\ request.op = "inspect"
  BY DEF AnalysisInv, AnalysisTypes
<1>2. /\ resolutions' = [resolutions EXCEPT ![i] = what]
      /\ problems' = problems \cup why
      /\ stage' = IF on /\ Unread # {i} THEN "read" ELSE "redact"
      /\ UNCHANGED <<request, redaction>>
  BY DEF Answered
<1>3. /\ i \in Valid /\ i \in DOMAIN request.targets /\ request.targets[i] \in Entities
      /\ i \in Nat \ {0} /\ DOMAIN request.targets \subseteq Nat \ {0}
  BY <1>1, RequestTypes DEF Unread
<1>4. /\ resolutions \in [DOMAIN request.targets -> Resolutions]
      /\ resolutions[i] = "not_inspected"
      /\ resolutions' \in [DOMAIN request.targets -> Resolutions]
      /\ resolutions'[i] = what
      /\ \A j \in DOMAIN request.targets : j # i => resolutions'[j] = resolutions[j]
  BY <1>1, <1>2, <1>3 DEF AnalysisTypes, Unread, Resolutions
<1>5. /\ Valid' = Valid /\ Valid \subseteq DOMAIN request.targets
      /\ Unread' = Unread \ {i}
  <2>1. Valid' = Valid /\ Valid \subseteq DOMAIN request.targets
    BY <1>2 DEF Valid
  <2> QED BY <1>4, <2>1 DEF Unread
<1>6. /\ asked' \in Seq(DOMAIN request.targets)
      /\ Range(asked') = Range(asked) \cup {i}
      /\ Range(asked) \subseteq DOMAIN request.targets
  <2>1. asked \in Seq(DOMAIN request.targets)
    BY <1>1 DEF AnalysisTypes
  <2>2. /\ asked' \in Seq(DOMAIN request.targets) /\ Len(asked') = Len(asked) + 1
        /\ \A k \in 1..Len(asked) : asked'[k] = asked[k]
        /\ asked'[Len(asked) + 1] = i
    BY <1>3, <2>1, AppendProperties
  <2>3. /\ DOMAIN asked = 1..Len(asked) /\ DOMAIN asked' = 1..(Len(asked) + 1)
        /\ Len(asked) \in Nat
    BY <2>1, <2>2, LenProperties
  <2>4. Range(asked') \subseteq Range(asked) \cup {i}
    BY <2>2, <2>3 DEF Range
  <2>5. Range(asked) \cup {i} \subseteq Range(asked')
    BY <2>2, <2>3 DEF Range
  <2>6. Range(asked) \subseteq DOMAIN request.targets
    BY <2>1, <2>3, ElementOfSeq DEF Range
  <2> QED BY <2>2, <2>4, <2>5, <2>6
<1>7. /\ seen' \in [Entities -> SUBSET (Looks \cup {Absent})]
      /\ \A e \in Entities : seen[e] \subseteq seen'[e]
      /\ stage' = "read" => \A e \in Entities : home'[e] \in seen'[e]
  BY WitnessSees
<1>8. redirected' \in Nat
  BY <1>1, <1>3 DEF AnalysisTypes
<1>9. AnalysisTypes'
  BY <1>1, <1>2, <1>4, <1>6, <1>7, <1>8 DEF AnalysisTypes, Stages
<1>10. TokensInv'
  <2>1. Range(asked') \subseteq Valid'
    BY <1>1, <1>3, <1>5, <1>6 DEF TokensInv
  <2>2. ASSUME NEW j \in DOMAIN request.targets
        PROVE  /\ j \notin Valid => resolutions'[j] = "invalid"
               /\ j \in Valid => resolutions'[j] # "invalid"
               /\ j \in Valid => (resolutions'[j] = "not_inspected") = (j \notin Range(asked'))
    BY <1>1, <1>3, <1>4, <1>6 DEF TokensInv
  <2> QED BY <1>2, <1>5, <2>1, <2>2 DEF TokensInv
<1>11. \A j \in Range(asked) : j < i
  BY <1>1 DEF TurnsInv
<1>12. TurnsInv'
  <2>1. ASSUME NEW j \in Range(asked'), NEW k \in Unread'
        PROVE  j < k
    <3>1. k \in Unread /\ k # i /\ k \in Nat /\ i <= k
      BY <1>3, <1>5 DEF Unread
    <3> QED BY <1>1, <1>3, <1>6, <3>1 DEF TurnsInv
  <2>2. redirected = 0
    BY <1>1 DEF TurnsInv
  <2>3. CASE redirected' = redirected
    BY <2>1, <2>2, <2>3 DEF TurnsInv
  <2>4. CASE redirected' = i /\ ~on
    <3>1. stage' = "redact"
      BY <1>2, <2>4
    <3>2. i \in Range(asked') /\ \A j \in Range(asked') : j <= i
      BY <1>3, <1>6, <1>11
    <3> QED BY <2>1, <2>4, <3>1, <3>2 DEF TurnsInv
  <2> QED BY <2>3, <2>4
<1>13. AbsentInv'
  <2>1. ASSUME NEW j \in DOMAIN request.targets, resolutions'[j] = "absent"
        PROVE  Absent \in seen'[request.targets[j]]
    <3>1. CASE j = i
      <4>1. home[request.targets[i]] \in seen[request.targets[i]]
        BY <1>1, <1>3 DEF AbsentInv
      <4> QED BY <1>3, <1>4, <1>7, <2>1, <3>1, <4>1
    <3>2. CASE j # i
      <4>1. resolutions[j] = "absent" /\ Absent \in seen[request.targets[j]]
        BY <1>1, <1>4, <2>1, <3>2 DEF AbsentInv
      <4>2. request.targets[j] \in Entities
        BY <1>1, <4>1, RequestTypes DEF TokensInv
      <4> QED BY <1>7, <4>1, <4>2
    <3> QED BY <3>1, <3>2
  <2> QED BY <1>2, <1>7, <2>1 DEF AbsentInv
<1>14. ReportInv'
  <2> SUFFICES ASSUME problems' = {}
               PROVE  /\ request.op = "inspect" => ~request.strays
                      /\ \A j \in DOMAIN request.targets :
                           resolutions'[j] \in {"resolved", "not_inspected"}
                      /\ stage' \in {"redact", "print"} => Unread' = {}
    BY <1>2 DEF ReportInv
  <2>1. problems = {} /\ what = "resolved"
    BY <1>2
  <2>2. /\ request.op = "inspect" => ~request.strays
        /\ \A j \in DOMAIN request.targets : resolutions'[j] \in {"resolved", "not_inspected"}
    BY <1>1, <1>4, <2>1 DEF ReportInv
  <2> QED BY <1>2, <1>5, <2>1, <2>2
<1>15. ResultInv'
  BY <1>2 DEF ResultInv
<1>16. Successes' = IF what = "resolved" THEN Successes \cup {i} ELSE Successes
  BY <1>2, <1>3, <1>4 DEF Successes
<1>17. \A j \in Successes : j < i
  <2> SUFFICES ASSUME NEW j \in Successes
               PROVE  j < i
    OBVIOUS
  <2>1. j \in DOMAIN request.targets /\ resolutions[j] = "resolved"
    BY DEF Successes
  <2>2. j \in Range(asked)
    BY <1>1, <2>1 DEF TokensInv
  <2> QED BY <1>11, <2>2
<1> QED BY <1>2, <1>3, <1>9, <1>10, <1>12, <1>13, <1>14, <1>15, <1>16, <1>17

\* An entity that was found joins the others, as it was at that instant.
LEMMA FoundShows ==
  ASSUME AnalysisInv, HomeTypeOK', AnalysisWitness, stage = "read",
         NEW i \in Nat, \A j \in Successes : j < i, request' = request,
         Successes' = Successes \cup {i}, request.targets[i] \in Entities,
         home[request.targets[i]] # Absent,
         entities' = Append(entities, MinimumEntity(request.targets[i], home[request.targets[i]],
                                                    request.fields))
  PROVE  EntitiesInv'
<1> DEFINE t == request.targets[i]
           E(e, look) == MinimumEntity(e, look, request.fields)
<1>0. PICK found \in Ascending(Successes) :
        \E looks \in [DOMAIN found -> Looks] : Shows(found, looks)
  BY DEF AnalysisInv, EntitiesInv
<1>1. PICK looks \in [DOMAIN found -> Looks] : Shows(found, looks)
  BY <1>0
<1>2. Successes \in SUBSET Nat /\ IsFiniteSet(Successes)
  <2>1. Successes \subseteq DOMAIN request.targets
    BY DEF Successes
  <2> QED BY <2>1, RequestTypes, FS_Subset DEF AnalysisInv
<1> DEFINE n == Cardinality(Successes)
           f == Append(found, i)
           g == [k \in 1..(n + 1) |-> IF k = n + 1 THEN home[t] ELSE looks[k]]
<1>3. /\ n \in Nat /\ found \in Seq(Nat) /\ Len(found) = n
      /\ f \in Ascending(Successes \cup {i})
  BY <1>0, <1>2, AscendingGrows
<1>4. /\ DOMAIN found = 1..n /\ DOMAIN f = 1..(n + 1)
      /\ \A k \in 1..n : f[k] = found[k]
      /\ f[n + 1] = i
  BY <1>3, AppendProperties, LenProperties
<1>5. home[t] \in Looks /\ home[t] \in seen'[t]
  <2>1. home[t] \in seen[t] /\ home \in [Entities -> Looks \cup {Absent}]
    BY DEF AnalysisInv, AbsentInv, HomeTypeOK
  <2> QED BY <2>1, WitnessSees
<1>6. g \in [DOMAIN f -> Looks]
  BY <1>1, <1>3, <1>4, <1>5
<1>7. \A k \in DOMAIN f : g[k] \in seen'[request.targets[f[k]]]
  <2> SUFFICES ASSUME NEW k \in 1..(n + 1)
               PROVE  g[k] \in seen'[request.targets[f[k]]]
    BY <1>4
  <2>1. CASE k = n + 1
    BY <1>4, <1>5, <2>1
  <2>2. CASE k # n + 1
    <3>1. k \in 1..n /\ g[k] = looks[k] /\ f[k] = found[k]
      BY <1>3, <1>4, <2>2
    <3> QED BY <1>0, <1>1, <1>4, <3>1, EntitiesKept
  <2> QED BY <2>1, <2>2
<1>8. entities' = [k \in DOMAIN f |-> E(request.targets[f[k]], g[k])]
  <2> DEFINE old == [k \in 1..n |-> E(request.targets[found[k]], looks[k])]
             new == [k \in 1..(n + 1) |-> E(request.targets[f[k]], g[k])]
  <2>1. entities = old
    BY <1>1, <1>4 DEF Shows
  <2> DEFINE All == {E(request.targets[f[k]], g[k]) : k \in 1..(n + 1)}
  <2>2. \A k \in 1..n : old[k] = new[k] /\ old[k] \in All
    BY <1>3, <1>4
  <2>3. new[n + 1] = E(t, home[t]) /\ E(t, home[t]) \in All
    BY <1>3, <1>4
  <2>4. old \in Seq(All) /\ Len(old) = n
    <3>1. old \in [1..n -> All]
      BY <2>2
    <3>2. n \in Nat
      BY <1>3
    <3> HIDE DEF old, All, n
    <3> QED BY <3>1, <3>2, ArrayIsSeq
  <2>5. entities' = Append(old, E(t, home[t]))
    BY <2>1
  <2> HIDE DEF old, All
  <2>6. /\ entities' \in Seq(All) /\ Len(entities') = n + 1
        /\ \A k \in 1..n : entities'[k] = old[k]
        /\ entities'[n + 1] = E(t, home[t])
    BY <2>3, <2>4, <2>5, AppendProperties
  <2>7. entities' \in [1..(n + 1) -> All]
    BY <2>6, LenProperties
  <2>8. \A k \in 1..(n + 1) : entities'[k] = new[k]
    <3> SUFFICES ASSUME NEW k \in 1..(n + 1)
                 PROVE  entities'[k] = new[k]
      OBVIOUS
    <3>1. k \in 1..n \/ k = n + 1
      BY <1>3
    <3> HIDE DEF new, n
    <3> QED BY <2>2, <2>3, <2>6, <3>1
  <2>9. entities' = new
    BY <2>7, <2>8
  <2> QED BY <1>4, <2>9
<1>9. PICK F \in Ascending(Successes \cup {i}) : F = f
  BY <1>3
<1>10. PICK G \in [DOMAIN F -> Looks] : G = g
  BY <1>6, <1>9
<1> HIDE DEF f, g
<1>11. Shows(F, G)'
  <2>1. (\A k \in DOMAIN F : G[k] \in seen[request.targets[F[k]]])'
    BY <1>7, <1>9, <1>10
  <2>2. (entities = [k \in DOMAIN F |-> MinimumEntity(request.targets[F[k]], G[k],
                                                      request.fields)])'
    BY <1>8, <1>9, <1>10
  <2> QED BY <2>1, <2>2 DEF Shows
<1> QED BY <1>9, <1>10, <1>11 DEF EntitiesInv

-----------------------------------------------------------------------------
LEMMA ReadKeeps ==
  ASSUME AnalysisInv, HomeTypeOK', AnalysisWitness, ReadEntity
  PROVE  AnalysisInv'
<1>1. stage = "read"
  BY DEF ReadEntity, ReadNext
<1>2. PICK i \in Unread :
        /\ \A j \in Unread : i <= j
        /\ asked' = Append(asked, i)
        /\ \/ /\ home[request.targets[i]] # Absent
              /\ entities' = Append(entities, MinimumEntity(request.targets[i],
                                      home[request.targets[i]], request.fields))
              /\ Answered(i, "resolved", {}, TRUE)
              /\ UNCHANGED redirected
           \/ /\ home[request.targets[i]] = Absent
              /\ Answered(i, "absent", {"absent"}, TRUE)
              /\ UNCHANGED <<entities, redirected>>
           \/ /\ \E why \in {"authorization", "read"} : Answered(i, "unavailable", {why}, TRUE)
              /\ UNCHANGED <<entities, redirected>>
           \/ /\ Answered(i, "unavailable", {"origin_change"}, FALSE)
              /\ redirected' = i
              /\ UNCHANGED entities
  BY DEF ReadEntity, ReadNext
<1> DEFINE Rest == /\ AnalysisTypes' /\ TokensInv' /\ TurnsInv' /\ AbsentInv'
                   /\ ReportInv' /\ ResultInv' /\ request' = request
<1>3. CASE /\ home[request.targets[i]] # Absent
           /\ entities' = Append(entities, MinimumEntity(request.targets[i],
                                   home[request.targets[i]], request.fields))
           /\ Answered(i, "resolved", {}, TRUE)
           /\ UNCHANGED redirected
  <2>1. /\ Rest /\ Successes' = Successes \cup {i} /\ request.targets[i] \in Entities
        /\ \A j \in Successes : j < i
        /\ i \in Nat
    BY <1>1, <1>2, <1>3, AnswerKeeps
  <2>2. EntitiesInv'
    BY <1>1, <1>3, <2>1, FoundShows
  <2> QED BY <2>1, <2>2 DEF AnalysisInv
<1>4. CASE /\ UNCHANGED entities
           /\ \E what \in {"absent", "unavailable"},
                 why \in {"absent", "authorization", "read", "origin_change"}, on \in BOOLEAN :
                /\ Answered(i, what, {why}, on)
                /\ what = "absent" => home[request.targets[i]] = Absent
                /\ redirected' = redirected \/ (redirected' = i /\ ~on)
  <2>1. PICK what \in {"absent", "unavailable"},
             why \in {"absent", "authorization", "read", "origin_change"}, on \in BOOLEAN :
               /\ Answered(i, what, {why}, on)
               /\ what = "absent" => home[request.targets[i]] = Absent
               /\ redirected' = redirected \/ (redirected' = i /\ ~on)
    BY <1>4
  <2>2. Rest /\ Successes' = Successes
    BY <1>1, <1>2, <2>1, AnswerKeeps
  <2>3. EntitiesInv'
    BY <1>4, <2>2, EntitiesStay
  <2> QED BY <2>2, <2>3 DEF AnalysisInv
<1> QED BY <1>2, <1>3, <1>4

LEMMA HomeKeeps ==
  ASSUME AnalysisInv, HomeTypeOK', AnalysisWitness,
         UNCHANGED <<analysisVars, asked, redirected, raw>>
  PROVE  AnalysisInv'
<1>1. Quiet
  <2>1. ResultInv'
    BY DEF AnalysisInv, ResultInv, analysisVars
  <2> QED BY <2>1 DEF AnalysisInv, AnalysisTypes, TurnsInv, Quiet, analysisVars
<1> QED BY <1>1, QuietKeeps

LEMMA StepKeeps ==
  ASSUME AnalysisInv, AnalysisStep, AnalysisWitness
  PROVE  AnalysisInv'
<1>1. HomeTypeOK'
  BY DEF AnalysisInv, AnalysisStep, homeVars, HomeTypeOK
<1>2. CASE ReadEntity
  BY <1>1, <1>2, ReadKeeps
<1>3. CASE /\ Start \/ Credential \/ CheckConnection \/ Serialize
           /\ UNCHANGED <<asked, redirected, raw>>
  <2>1. Quiet
    BY <1>3, StartIsQuiet, CredentialIsQuiet, OthersAreQuiet, SerializeIsQuiet
  <2> QED BY <1>1, <2>1, QuietKeeps
<1>4. CASE /\ RedactEntities \/ Discover \/ RedactSummary \/ RedactEvidence \/ Interpret
           /\ UNCHANGED <<asked, redirected>>
  <2>1. Quiet
    BY <1>4, RedactEntitiesIsQuiet, OthersAreQuiet
  <2> QED BY <1>1, <2>1, QuietKeeps
<1> QED BY <1>2, <1>3, <1>4 DEF AnalysisStep

LEMMA StutterKeeps ==
  ASSUME AnalysisInv, UNCHANGED <<homeVars, analysisVars, analysisHistory>>
  PROVE  AnalysisInv'
<1>1. HomeTypeOK' /\ AnalysisTypes'
  BY DEF AnalysisInv, HomeTypeOK, AnalysisTypes, homeVars, analysisVars, analysisHistory
<1>2. Valid' = Valid /\ Unread' = Unread /\ Successes' = Successes
  BY DEF Valid, Unread, Successes, analysisVars
<1>3. TokensInv' /\ TurnsInv' /\ AbsentInv' /\ ReportInv'
  BY <1>2 DEF AnalysisInv, TokensInv, TurnsInv, AbsentInv, ReportInv, homeVars, analysisVars,
              analysisHistory
<1>4. ResultInv'
  BY DEF AnalysisInv, ResultInv, analysisVars
<1>5. EntitiesInv'
  <2>1. PICK found \in Ascending(Successes) :
          \E looks \in [DOMAIN found -> Looks] : Shows(found, looks)
    BY DEF AnalysisInv, EntitiesInv
  <2>2. PICK looks \in [DOMAIN found -> Looks] : Shows(found, looks)
    BY <2>1
  <2>3. Shows(found, looks)'
    BY <2>2 DEF Shows, analysisVars, analysisHistory
  <2> QED BY <1>2, <2>2, <2>3 DEF EntitiesInv
<1> QED BY <1>1, <1>3, <1>4, <1>5 DEF AnalysisInv

LEMMA AnalysisStarts ==
  ASSUME AnalysisStart
  PROVE  AnalysisInv
<1>1. PICK asking \in Requests, start \in {"rest", "begin"} : AnalysisInit(start, asking)
  BY DEF AnalysisStart
<1>2. /\ HomeTypeOK /\ request = asking /\ stage \in {"rest", "begin"}
      /\ resolutions = [i \in DOMAIN request.targets |->
                          IF request.targets[i] = Invalid THEN "invalid" ELSE "not_inspected"]
      /\ entities = <<>> /\ redaction = "not_applicable"
      /\ problems = {why \in {"target"} : request.op = "inspect" /\
                       (\/ request.strays
                        \/ request.targets = <<>> \/ Invalid \in Range(request.targets))}
      /\ asked = <<>> /\ redirected = 0
      /\ seen = [e \in Entities |-> {}]
  BY <1>1 DEF AnalysisStart, AnalysisInit
<1>3. Range(asked) = {} /\ Successes = {}
  BY <1>2 DEF Range, Successes
<1>4. AnalysisTypes
  BY <1>2 DEF AnalysisTypes, Stages, Resolutions
<1>5. TokensInv
  BY <1>2, <1>3 DEF TokensInv, Valid
<1>6. TurnsInv /\ AbsentInv /\ ResultInv
  BY <1>2, <1>3 DEF TurnsInv, AbsentInv, ResultInv
<1>7. ReportInv
  <2> SUFFICES ASSUME problems = {}, request.op = "inspect"
               PROVE  /\ ~request.strays
                      /\ \A i \in DOMAIN request.targets :
                           resolutions[i] \in {"resolved", "not_inspected"}
    BY <1>2 DEF ReportInv
  <2>1. Invalid \notin Range(request.targets) /\ ~request.strays
    BY <1>2
  <2>2. \A i \in DOMAIN request.targets : request.targets[i] # Invalid
    BY <2>1 DEF Range
  <2> QED BY <1>2, <2>1, <2>2
<1>8. EntitiesInv
  <2>1. Cardinality(Successes) = 0
    BY <1>3, FS_EmptySet
  <2>2. <<>> \in Ascending(Successes)
    BY <1>3, <2>1 DEF Ascending
  <2>3. <<>> \in [DOMAIN <<>> -> Looks] /\ Shows(<<>>, <<>>)
    BY <1>2 DEF Shows
  <2> QED BY <2>2, <2>3 DEF EntitiesInv
<1> QED BY <1>2, <1>4, <1>5, <1>6, <1>7, <1>8 DEF AnalysisInv

-----------------------------------------------------------------------------
LEMMA AnalysisNextKeeps ==
  ASSUME AnalysisInv, [AnalysisNext]_<<homeVars, analysisVars, analysisHistory>>
  PROVE  AnalysisInv'
<1>1. CASE AnalysisStep /\ AnalysisWitness
  BY <1>1, StepKeeps
<1>2. CASE HomeStep /\ UNCHANGED <<analysisVars, asked, redirected, raw>> /\ AnalysisWitness
  <2>1. HomeTypeOK'
    BY <1>2, HomeStays DEF AnalysisInv
  <2> QED BY <1>2, <2>1, HomeKeeps
<1>3. CASE UNCHANGED <<homeVars, analysisVars, analysisHistory>>
  BY <1>3, StutterKeeps
<1> QED BY <1>1, <1>2, <1>3 DEF AnalysisNext

\* The inductive invariant: of an analysis it says which tokens were sent, in
\* which order, what was seen meanwhile, and what became of it.
THEOREM AnalysisSound == AnalysisSpec => []AnalysisInv
BY AnalysisStarts, AnalysisNextKeeps, PTL DEF AnalysisSpec

LEMMA AnalysisIsFaithful == AnalysisInv => InspectionFaithful
<1> SUFFICES ASSUME AnalysisInv, request.op = "inspect", stage = "print"
             PROVE  InspectionFaithful
  BY DEF InspectionFaithful
<1>1. /\ AnalysisTypes /\ TokensInv /\ TurnsInv /\ AbsentInv /\ ReportInv
      /\ EntitiesInv /\ ResultInv
  BY DEF AnalysisInv
<1>2. DOMAIN resolutions = DOMAIN request.targets
  BY <1>1 DEF AnalysisTypes
<1>3. ASSUME redaction = "complete"
      PROVE  \E found \in Ascending(Successes) : \E looks \in [DOMAIN found -> Looks] :
               /\ \A k \in DOMAIN found : looks[k] \in seen[request.targets[found[k]]]
               /\ output = Redact(List([k \in DOMAIN found |->
                             MinimumEntity(request.targets[found[k]], looks[k],
                                           request.fields)]), {}).tree
  BY <1>1, <1>3 DEF EntitiesInv, Shows, ResultInv
<1>4. ASSUME NEW i \in DOMAIN resolutions
      PROVE  /\ resolutions[i] = "absent" => Absent \in seen[request.targets[i]]
             /\ i \in Valid => (resolutions[i] = "not_inspected") = (i \notin Range(asked))
             /\ redirected > 0 /\ i \in Range(asked) => i <= redirected
  BY <1>1, <1>2 DEF AbsentInv, TokensInv, TurnsInv
<1>5. problems = {} => Successes = DOMAIN request.targets /\ ~request.strays
  <2> SUFFICES ASSUME problems = {}, NEW i \in DOMAIN request.targets
               PROVE  resolutions[i] = "resolved"
    BY <1>1 DEF Successes, ReportInv
  <2>1. resolutions[i] \in {"resolved", "not_inspected"} /\ i \notin Unread
    BY <1>1 DEF ReportInv
  <2>2. i \in Valid
    BY <1>1, <2>1 DEF TokensInv
  <2> QED BY <2>1, <2>2 DEF Unread
<1> QED BY <1>3, <1>4, <1>5 DEF InspectionFaithful

\* inspect_live_entities in any home and for any request: what it returns, and
\* what it says of each target, is what was asked for and seen.
THEOREM InspectionIsFaithful == AnalysisSpec => []InspectionFaithful
BY AnalysisSound, AnalysisIsFaithful, PTL

\* The types of an analysis, given that what was counted is a number.
LEMMA AnalysisHasTypes == AnalysisInv /\ removed \in Nat => AnalysisTypeOK
<1> SUFFICES ASSUME AnalysisInv, removed \in Nat
             PROVE  AnalysisTypeOK
  OBVIOUS
<1>1. AnalysisTypes /\ TurnsInv /\ EntitiesInv
  BY DEF AnalysisInv
<1>2. Len(entities) <= Len(request.targets)
  <2>1. PICK found \in Ascending(Successes) :
          \E looks \in [DOMAIN found -> Looks] : Shows(found, looks)
    BY <1>1 DEF EntitiesInv
  <2>2. PICK looks \in [DOMAIN found -> Looks] : Shows(found, looks)
    BY <2>1
  <2>3. /\ Len(request.targets) \in Nat
        /\ DOMAIN request.targets = 1..Len(request.targets)
    BY <1>1, RequestTypes, LenProperties
  <2> DEFINE m == Len(request.targets)
  <2>4. Cardinality(1..m) = m /\ IsFiniteSet(1..m)
    <3>1. m \in Nat
      BY <2>3
    <3> HIDE DEF m
    <3>2. IsFiniteSet(1..m) /\ Cardinality(1..m) = IF 1 > m THEN 0 ELSE m - 1 + 1
      BY <3>1, FS_Interval
    <3> QED BY <3>1, <3>2
  <2>5. Successes \subseteq 1..Len(request.targets)
    BY <2>3 DEF Successes
  <2>6. /\ Cardinality(Successes) \in Nat
        /\ Cardinality(Successes) <= Len(request.targets)
    BY <2>4, <2>5, FS_Subset, FS_CardinalityType
  <2>7. DOMAIN found = 1..Cardinality(Successes)
    BY <2>1 DEF Ascending
  <2> DEFINE n == Cardinality(Successes)
             All == {entities[k] : k \in 1..n}
  <2>8. entities \in [1..n -> All]
    BY <2>2, <2>7 DEF Shows
  <2>9. Len(entities) = n
    <3>1. n \in Nat
      BY <2>6
    <3> HIDE DEF n, All
    <3> QED BY <2>8, <3>1, ArrayIsSeq
  <2> QED BY <2>6, <2>9
<1>3. Range(asked) \subseteq DOMAIN request.targets
  <2>1. asked \in Seq(DOMAIN request.targets)
    BY <1>1 DEF AnalysisTypes
  <2> QED BY <2>1, LenProperties, ElementOfSeq DEF Range
<1>4. redirected \in {0} \cup Range(asked)
  BY <1>1 DEF TurnsInv
<1> QED BY <1>1, <1>2, <1>3, <1>4 DEF AnalysisTypes, AnalysisTypeOK, Stages

-----------------------------------------------------------------------------
(* Documents of an analysis.                                               *)

\* What redact makes of a document, and how much of it is a secret.
LEMMA RedactedDocument ==
  ASSUME NEW doc, IsDocument(doc), NEW extra
  PROVE  /\ Redacts(doc, Redact(doc, extra).tree, extra)
         /\ Redact(doc, extra).count = Cardinality(Secrets(doc, extra))
         /\ Cardinality(Secrets(doc, extra)) \in Nat
<1>1. Secrets(doc, extra) \in SUBSET doc
  BY DEF Secrets, Hidden
<1>2. Cardinality(Secrets(doc, extra)) \in Nat
  BY <1>1, FS_Subset, FS_CardinalityType DEF IsDocument
<1> QED BY <1>2, RedactTakesSecretsOut

LEMMA LeafIsDocument ==
  ASSUME NEW value
  PROVE  /\ IsDocument(Leaf(value))
         /\ \A extra : /\ Clean(Leaf(value), extra) /\ Secrets(Leaf(value), extra) = {}
                       /\ \A clean : Redacts(Leaf(value), clean, extra) <=> clean = Leaf(value)
BY SingleNode DEF Leaf

\* An object with few keys, all of them keys that the code itself writes.
LEMMA DictIsDocument ==
  ASSUME NEW ks, IsFiniteSet(ks), ks \subseteq Keys, NEW docs, DOMAIN docs = ks,
         \A k \in ks : IsDocument(docs[k])
  PROVE  IsDocument(Dict(docs))
<1>1. ks \subseteq Labels
  BY DEF Labels
<1> QED BY <1>1, CompoundIsDocument DEF Dict

LEMMA FewAreFinite ==
  ASSUME NEW a, NEW b, NEW c
  PROVE  IsFiniteSet({a, b, c})
<1>1. IsFiniteSet({a} \cup {b})
  BY FS_Singleton, FS_Union
<1>2. IsFiniteSet(({a} \cup {b}) \cup {c})
  BY <1>1, FS_Singleton, FS_Union
<1>3. {a, b, c} = ({a} \cup {b}) \cup {c}
  OBVIOUS
<1> QED BY <1>2, <1>3

LEMMA EntityIsDocument ==
  ASSUME NEW e, NEW look, NEW fields \in Seq({Shade, Code})
  PROVE  IsDocument(MinimumEntity(e, look, fields))
<1> DEFINE chosen == {k \in Range(fields) : k = Code \/ look.shade # "missing"}
           Attribute == [k \in chosen |-> IF k = Code THEN Leaf("code") ELSE Leaf(look.shade)]
           ks == {EntityIdKey, StateKey} \cup {a \in {AttributesKey} : fields # <<>>}
           docs == [k \in ks |-> CASE k = EntityIdKey -> Leaf(e)
                                   [] k = StateKey -> Leaf(look.state)
                                   [] OTHER -> Dict(SelectedAttributes(look, fields))]
<1>1. Range(fields) \subseteq {Shade, Code}
  BY LenProperties, ElementOfSeq DEF Range
<1>2. IsFiniteSet({Shade, Code}) /\ IsFiniteSet({EntityIdKey, StateKey, AttributesKey})
  <2>1. {Shade, Code} = {Shade, Code, Code}
    OBVIOUS
  <2> QED BY <2>1, FewAreFinite
<1>3. chosen \in SUBSET {Shade, Code} /\ ks \in SUBSET {EntityIdKey, StateKey, AttributesKey}
  BY <1>1
<1>4. IsFiniteSet(chosen) /\ IsFiniteSet(ks)
  <2> HIDE DEF chosen, ks
  <2> QED BY <1>2, <1>3, FS_Subset
<1>5. IsDocument(Dict(SelectedAttributes(look, fields)))
  <2>1. chosen \subseteq Keys
    BY <1>3, AnalysisAssumption
  <2>2. \A k \in chosen : IsDocument(Attribute[k])
    <3>1. IsDocument(Leaf("code")) /\ IsDocument(Leaf(look.shade))
      BY LeafIsDocument
    <3> HIDE DEF chosen
    <3> QED BY <3>1
  <2>3. SelectedAttributes(look, fields) = Attribute
    BY DEF SelectedAttributes
  <2>4. DOMAIN Attribute = chosen
    OBVIOUS
  <2> HIDE DEF chosen, Attribute
  <2> QED BY <1>4, <2>1, <2>2, <2>3, <2>4, DictIsDocument
<1>6. ks \subseteq Keys
  BY <1>3, KeysAssumption
<1>7. \A k \in ks : IsDocument(docs[k])
  BY <1>5, LeafIsDocument
<1>8. MinimumEntity(e, look, fields) = Dict(docs) /\ DOMAIN docs = ks
  BY DEF MinimumEntity
<1> HIDE DEF ks, docs
<1> QED BY <1>4, <1>6, <1>7, <1>8, DictIsDocument

LEMMA ShapeIsDocument == ASSUME NEW doc PROVE IsDocument(Shape(doc))
<1> DEFINE Number == Leaf(ToString(Cardinality(Parts(doc, Root(doc)))))
           Described(type, counts) ==
             Dict([k \in {TypeKey} \cup counts |-> IF k = TypeKey THEN Leaf(type) ELSE Number])
<1>1. ASSUME NEW type, NEW counts \in SUBSET {KeyCount, ItemCount}
      PROVE  IsDocument(Described(type, counts))
  <2> DEFINE ks == {TypeKey} \cup counts
             docs == [k \in ks |-> IF k = TypeKey THEN Leaf(type) ELSE Number]
  <2>1. ks \subseteq Keys
    BY KeysAssumption
  <2>2. IsFiniteSet(ks)
    <3>1. IsFiniteSet({TypeKey, KeyCount, ItemCount})
      BY FewAreFinite
    <3>2. ks \in SUBSET {TypeKey, KeyCount, ItemCount}
      OBVIOUS
    <3> HIDE DEF ks
    <3> QED BY <3>1, <3>2, FS_Subset
  <2>3. \A k \in ks : IsDocument(docs[k])
    BY LeafIsDocument
  <2>4. Described(type, counts) = Dict(docs) /\ DOMAIN docs = ks
    OBVIOUS
  <2> HIDE DEF ks, docs, Described
  <2> QED BY <2>1, <2>2, <2>3, <2>4, DictIsDocument
<1>2. /\ IsDocument(Described("object", {KeyCount}))
      /\ IsDocument(Described("array", {ItemCount}))
      /\ IsDocument(Described("string", {}))
  <2> HIDE DEF Described
  <2> QED BY <1>1
<1>3. Shape(doc) \in {Described("object", {KeyCount}), Described("array", {ItemCount}),
                      Described("string", {})}
  BY DEF Shape
<1> HIDE DEF Described
<1> QED BY <1>2, <1>3

LEMMA SequenceIsDocument ==
  ASSUME NEW S, NEW docs \in Seq(S), \A d \in S : IsDocument(d)
  PROVE  IsDocument(List(docs))
<1> DEFINE n == Len(docs)
<1>1. n \in Nat /\ DOMAIN docs = 1..n /\ \A i \in 1..n : docs[i] \in S
  BY LenProperties, ElementOfSeq
<1> HIDE DEF n
<1> QED BY <1>1, ListIsDocument

-----------------------------------------------------------------------------
(* Secrets.                                                                *)

\* The secrets of the evidence, which were counted before the answer was.
Given == IF request.op # "interpret" THEN 0
         ELSE Cardinality(Secrets(List(request.evidence), Extra))

\* A document that no further redaction changes.
StaysClean(doc) == IsDocument(doc) /\ Clean(doc, Extra) /\ Redact(doc, {}).tree = doc

\* What the steps that lead to the result carry: the model has been given the
\* evidence without its secrets, and its answer does not exist yet. A result
\* that was not redacted has nothing in it, or is the verdict on a connection.
SecretsInv ==
  /\ SecretsKept
  /\ removed \in Nat
  /\ stage \notin {"print", "done"} => raw = Nothing
  /\ stage = "model" => Redacts(List(request.evidence), spoken, Extra) /\ removed = Given
  /\ stage = "print" => StaysClean(output)
  /\ stage = "print" /\ redaction = "not_applicable" /\ request.op # "check" => output = Empty

FlowInv == AnalysisInv /\ SecretsInv

LEMMA EvidenceIsDocument ==
  ASSUME AnalysisTypes
  PROVE  IsDocument(List(request.evidence)) /\ request.answers \subseteq Documents
<1>1. request.evidence \in Seq(Documents) /\ request.answers \subseteq Documents
  BY DEF AnalysisTypes, Requests
<1> QED BY <1>1, AnalysisAssumption, SequenceIsDocument

LEMMA EntitiesAreDocument ==
  ASSUME AnalysisInv
  PROVE  IsDocument(List(entities))
<1>1. request.fields \in Seq({Shade, Code})
  BY DEF AnalysisInv, AnalysisTypes, Requests
<1>2. PICK found \in Ascending(Successes) :
        \E looks \in [DOMAIN found -> Looks] : Shows(found, looks)
  BY DEF AnalysisInv, EntitiesInv
<1>3. PICK looks \in [DOMAIN found -> Looks] : Shows(found, looks)
  BY <1>2
<1> DEFINE n == Cardinality(Successes)
<1>4. n \in Nat /\ DOMAIN found = 1..n
  <2>1. Successes \subseteq DOMAIN request.targets
    BY DEF Successes
  <2>2. IsFiniteSet(Successes)
    BY <2>1, RequestTypes, FS_Subset DEF AnalysisInv
  <2> QED BY <1>2, <2>2, FS_CardinalityType DEF Ascending
<1>5. DOMAIN entities = 1..n /\ \A k \in 1..n : IsDocument(entities[k])
  <2>1. entities = [k \in 1..n |-> MinimumEntity(request.targets[found[k]], looks[k],
                                                 request.fields)]
    BY <1>3, <1>4 DEF Shows
  <2> HIDE DEF n
  <2> QED BY <1>1, <2>1, EntityIsDocument
<1> HIDE DEF n
<1> QED BY <1>4, <1>5, ListIsDocument

\* An empty result is a document in which there is nothing to take out.
LEMMA EmptyIsDocument ==
  /\ IsDocument(Empty) /\ Redact(Empty, {}).tree = Empty
  /\ \A extra : Clean(Empty, extra)
<1>1. List(<<>>) = {Node(<<>>, "list", "none")}
  BY DEF List, Compound
<1>2. \E kind, value : Empty = {Node(<<>>, kind, value)}
  BY <1>1 DEF Empty, Nothing, Leaf
<1>3. PICK kind, value : Empty = {Node(<<>>, kind, value)}
  BY <1>2
<1>4. /\ IsDocument(Empty)
      /\ \A extra : Clean(Empty, extra) /\ \A clean : Redacts(Empty, clean, extra) <=> clean = Empty
  BY <1>3, SingleNode
<1> QED BY <1>4, RedactedDocument

LEMMA NothingIsEmpty == request.op \notin {"inspect", "find", "check"} => Empty = Nothing
BY DEF Empty

LEMMA SameRequest ==
  ASSUME UNCHANGED request
  PROVE  Extra' = Extra /\ Empty' = Empty /\ Given' = Given
BY DEF Extra, Empty, Given

LEMMA EmptyStaysClean == StaysClean(Empty)
BY EmptyIsDocument DEF StaysClean

LEMMA LeafStaysClean == ASSUME NEW value PROVE StaysClean(Leaf(value))
BY LeafIsDocument, RedactedDocument DEF StaysClean

LEMMA CleanedSettles ==
  ASSUME NEW doc, IsDocument(doc), NEW clean, Redacts(doc, clean, Extra)
  PROVE  StaysClean(clean)
BY CleanedIsDocument, RedactSettles DEF StaysClean

LEMMA FlowKept ==
  ASSUME FlowInv,
         UNCHANGED <<stage, request, spoken, output, redaction, removed, printed, raw>>
  PROVE  SecretsInv'
BY SameRequest DEF FlowInv, SecretsInv, SecretsKept, Given, StaysClean

\* A step to a stage where there is no result yet.
LEMMA FlowEnters ==
  ASSUME FlowInv, stage' \notin {"model", "print", "done"}, stage \notin {"print", "done"},
         UNCHANGED <<request, spoken, removed, raw>>
  PROVE  SecretsInv'
BY SameRequest DEF FlowInv, SecretsInv, SecretsKept

LEMMA FlowFinishes ==
  ASSUME FlowInv, NEW result, NEW status, NEW count \in Nat, NEW why,
         Finish(result, status, count, why),
         status \in {"not_applicable", "complete", "withheld"},
         status # "complete" => StaysClean(result),
         status # "complete" /\ request.op # "check" => result = Empty,
         status = "withheld" => result = Empty,
         status = "complete" =>
           /\ IsDocument(raw') /\ Redacts(raw', result, Extra)
           /\ count = Cardinality(Secrets(raw', Extra)) + Given
  PROVE  SecretsInv'
<1>1. /\ stage' = "print" /\ output' = result /\ redaction' = status /\ removed' = count
      /\ UNCHANGED <<request, spoken>>
  BY DEF Finish
<1>2. Extra' = Extra /\ Empty' = Empty /\ Given' = Given
  BY <1>1, SameRequest
<1>3. StaysClean(result)
  BY CleanedSettles
<1>4. SecretsKept'
  <2>1. (spoken # Nothing => Redacts(List(request.evidence), spoken, Extra))'
    BY <1>1, <1>2 DEF FlowInv, SecretsInv, SecretsKept
  <2>2. (redaction = "complete" =>
           /\ Redacts(raw, output, Extra)
           /\ removed = Cardinality(Secrets(raw, Extra)) + Given)'
    BY <1>1, <1>2
  <2>3. (redaction = "withheld" => output = Empty)'
    BY <1>1, <1>2
  <2> QED BY <1>1, <2>1, <2>2, <2>3 DEF SecretsKept, Given
<1> QED BY <1>1, <1>2, <1>3, <1>4 DEF SecretsInv, StaysClean

\* The result is what redact makes of a document.
LEMMA FlowRedacts ==
  ASSUME FlowInv, NEW before \in Nat, before = Given, NEW why, IsDocument(raw'),
         Finish(Redact(raw', Extra).tree, "complete", before + Redact(raw', Extra).count, why)
  PROVE  SecretsInv'
<1> DEFINE result == Redact(raw', Extra).tree
           count  == Redact(raw', Extra).count
<1>1. /\ Redacts(raw', result, Extra)
      /\ count = Cardinality(Secrets(raw', Extra)) /\ count \in Nat
  BY RedactedDocument
<1> HIDE DEF result, count
<1>2. before + count \in Nat /\ before + count = Cardinality(Secrets(raw', Extra)) + Given
  BY <1>1
<1>3. Finish(result, "complete", before + count, why)
  BY DEF result, count
<1> QED BY <1>1, <1>2, <1>3, FlowFinishes

\* The result is nothing, with a failure.
LEMMA FlowFails ==
  ASSUME FlowInv, NEW status \in {"not_applicable", "withheld"}, NEW count \in Nat, NEW why,
         Finish(Empty, status, count, why)
  PROVE  SecretsInv'
BY FlowFinishes, EmptyStaysClean

LEMMA FlowGivesUp ==
  ASSUME FlowInv, NEW why, GiveUp(why)
  PROVE  SecretsInv'
BY FlowFails DEF GiveUp, FlowInv, SecretsInv

LEMMA FlowOfReading ==
  ASSUME FlowInv, Start \/ Credential \/ ReadEntity \/ CheckConnection, UNCHANGED raw
  PROVE  SecretsInv'
<1>1. CASE \E why : GiveUp(why)
  BY <1>1, FlowGivesUp
<1>2. CASE /\ stage \notin {"print", "done"}
           /\ \E next \in {"credential", "redact", "read", "check", "discover"} : Enter(next)
  BY <1>2, FlowEnters DEF Enter
<1>3. CASE Start
  BY <1>1, <1>2, <1>3 DEF Start
<1>4. CASE Credential
  BY <1>1, <1>2, <1>4 DEF Credential
<1>5. CASE ReadEntity
  <2>1. /\ stage = "read" /\ stage' \in {"read", "redact"}
        /\ UNCHANGED <<request, spoken, removed>>
    BY <1>5 DEF ReadEntity, ReadNext, Answered
  <2> QED BY <2>1, FlowEnters
<1>6. CASE CheckConnection
  <2>1. request.op = "check"
    BY <1>6 DEF FlowInv, AnalysisInv, AnalysisTypes, CheckConnection
  <2>2. PICK verdict, why : Finish(Leaf(verdict), "not_applicable", 0, why)
    BY <1>6 DEF CheckConnection
  <2> QED BY <2>1, <2>2, FlowFinishes, LeafStaysClean
<1> QED BY <1>3, <1>4, <1>5, <1>6

LEMMA FoundIsDocument ==
  ASSUME NEW matches \in Sorted({e \in Entities : Matches(e)})
  PROVE  LET returned == IF Len(matches) <= Limit THEN matches ELSE SubSeq(matches, 1, Limit)
         IN  IsDocument(List([i \in DOMAIN returned |->
                                Dict([k \in {EntityIdKey} |-> Leaf(returned[i])])]))
<1> DEFINE returned == IF Len(matches) <= Limit THEN matches ELSE SubSeq(matches, 1, Limit)
           FoundEntity(e) == Dict([k \in {EntityIdKey} |-> Leaf(e)])
           docs == [i \in DOMAIN returned |-> FoundEntity(returned[i])]
<1>1. matches \in Seq(Entities)
  <2>1. {e \in Entities : Matches(e)} \in SUBSET Entities
    OBVIOUS
  <2> QED BY <2>1, SortedIsSet
<1>2. returned \in Seq(Entities)
  <2>1. Len(matches) \in Nat /\ Limit \in Nat
    BY <1>1, LenProperties, AnalysisAssumption
  <2>2. CASE ~(Len(matches) <= Limit)
    BY <1>1, <2>1, <2>2, FirstElements
  <2> QED BY <1>1, <2>2
<1> HIDE DEF returned
<1>3. Len(returned) \in Nat /\ DOMAIN docs = 1..Len(returned)
  BY <1>2, LenProperties
<1>4. ASSUME NEW e
      PROVE  IsDocument(FoundEntity(e))
  <2> DEFINE one == [k \in {EntityIdKey} |-> Leaf(e)]
  <2>1. IsFiniteSet({EntityIdKey}) /\ {EntityIdKey} \subseteq Keys /\ DOMAIN one = {EntityIdKey}
    BY FS_Singleton, KeysAssumption
  <2>2. \A k \in {EntityIdKey} : IsDocument(one[k])
    BY LeafIsDocument
  <2>3. FoundEntity(e) = Dict(one)
    OBVIOUS
  <2> HIDE DEF one, FoundEntity
  <2> QED BY <2>1, <2>2, <2>3, DictIsDocument
<1>5. \A i \in 1..Len(returned) : IsDocument(docs[i])
  <2> HIDE DEF FoundEntity
  <2> QED BY <1>3, <1>4
<1> HIDE DEF docs
<1>6. IsDocument(List(docs))
  BY <1>3, <1>5, ListIsDocument
<1> QED BY <1>6 DEF docs, returned

LEMMA SummaryIsDocument ==
  ASSUME AnalysisTypes
  PROVE  IsDocument(Summary)
<1> DEFINE n == Len(request.evidence)
           docs == [i \in DOMAIN request.evidence |-> Shape(request.evidence[i])]
<1>1. request.evidence \in Seq(Documents)
  BY DEF AnalysisTypes, Requests
<1>2. n \in Nat /\ DOMAIN docs = 1..n
  BY <1>1, LenProperties
<1>3. \A i \in 1..n : IsDocument(docs[i])
  BY <1>2, ShapeIsDocument
<1>4. Summary = List(docs)
  BY DEF Summary
<1> HIDE DEF n, docs
<1> QED BY <1>2, <1>3, <1>4, ListIsDocument

LEMMA FlowOfRedaction ==
  ASSUME FlowInv, RedactEntities \/ Discover \/ RedactSummary
  PROVE  SecretsInv'
<1>1. CASE RedactEntities
  <2>1. /\ raw' = List(entities) /\ IsDocument(raw') /\ Extra = {} /\ Given = 0
    BY <1>1, EntitiesAreDocument DEF RedactEntities, Extra, Live, Given, FlowInv
  <2>2. CASE Finish(Redact(raw', {}).tree, "complete", Redact(raw', {}).count, {})
    <3>1. Redact(raw', {}).count = 0 + Redact(raw', {}).count
      BY <2>1, RedactedDocument
    <3> QED BY <2>1, <2>2, <3>1, FlowRedacts
  <2>3. CASE Finish(Empty, "withheld", 0, {"redaction"})
    BY <2>3, FlowFails
  <2> QED BY <1>1, <2>1, <2>2, <2>3 DEF RedactEntities
<1>2. CASE Discover
  <2>1. Extra = {} /\ Given = 0
    BY <1>2 DEF FlowInv, AnalysisInv, AnalysisTypes, Discover, Extra, Live, Given
  <2>2. CASE /\ IsDocument(raw')
             /\ Finish(Redact(raw', {}).tree, "complete", Redact(raw', {}).count, {})
    <3>1. Redact(raw', {}).count = 0 + Redact(raw', {}).count
      BY <2>2, RedactedDocument
    <3> QED BY <2>1, <2>2, <3>1, FlowRedacts
  <2> QED BY <1>2, <2>2, FlowGivesUp, FoundIsDocument DEF Discover
<1>3. CASE RedactSummary
  <2>1. /\ raw' = Summary /\ IsDocument(raw') /\ Extra = request.extra /\ Given = 0
        /\ Empty = Nothing
    BY <1>3, SummaryIsDocument, NothingIsEmpty
    DEF RedactSummary, Extra, Live, Given, FlowInv, AnalysisInv
  <2>2. CASE Finish(Redact(raw', Extra).tree, "complete", Redact(raw', Extra).count, {})
    <3>1. Redact(raw', Extra).count = 0 + Redact(raw', Extra).count
      BY <2>1, RedactedDocument
    <3> QED BY <2>1, <2>2, <3>1, FlowRedacts
  <2>3. CASE Finish(Empty, "withheld", 0, {"redaction"})
    BY <2>3, FlowFails
  <2> QED BY <1>3, <2>1, <2>2, <2>3 DEF RedactSummary
<1> QED BY <1>1, <1>2, <1>3

LEMMA FlowOfEvidence ==
  ASSUME FlowInv, RedactEvidence
  PROVE  SecretsInv'
<1> DEFINE evidence == List(request.evidence)
           r == Redact(evidence, Extra)
<1>1. /\ request.op = "interpret" /\ Empty = Nothing /\ Extra = request.extra
      /\ raw' = Nothing /\ Given = Cardinality(Secrets(evidence, Extra))
  BY NothingIsEmpty DEF RedactEvidence, Extra, Live, Given, FlowInv, SecretsInv
<1>2. Redacts(evidence, r.tree, Extra) /\ r.count = Given /\ Given \in Nat
  BY <1>1, EvidenceIsDocument, RedactedDocument DEF FlowInv, AnalysisInv
<1>3. CASE Finish(Nothing, "withheld", 0, {"redaction"})
  BY <1>1, <1>3, FlowFails
<1>4. CASE Finish(Nothing, "complete", r.count, {"unconfigured"})
  <2>1. IsDocument(Nothing) /\ Redacts(Nothing, Nothing, Extra) /\ Secrets(Nothing, Extra) = {}
    BY LeafIsDocument DEF Nothing
  <2>2. r.count = Cardinality(Secrets(Nothing, Extra)) + Given
    BY <1>2, <2>1, FS_EmptySet
  <2> HIDE DEF r
  <2> QED BY <1>1, <1>2, <1>4, <2>1, <2>2, FlowFinishes
<1>5. CASE /\ stage' = "model" /\ spoken' = r.tree /\ removed' = r.count
           /\ UNCHANGED request
  <2>1. Extra' = Extra /\ Given' = Given
    BY <1>5, SameRequest
  <2> HIDE DEF r
  <2> QED BY <1>1, <1>2, <1>5, <2>1 DEF SecretsInv, SecretsKept
<1> QED BY <1>1, <1>3, <1>4, <1>5 DEF RedactEvidence

LEMMA FlowOfAnswers ==
  ASSUME FlowInv, Interpret
  PROVE  SecretsInv'
<1>1. /\ stage = "model" /\ request.op = "interpret" /\ removed = Given /\ removed \in Nat
      /\ Redacts(List(request.evidence), spoken, Extra) /\ raw = Nothing
      /\ Empty = Nothing /\ Extra = request.extra
  BY NothingIsEmpty DEF Interpret, FlowInv, AnalysisInv, AnalysisTypes, SecretsInv, Extra, Live
<1>2. CASE Finish(Nothing, "complete", removed, {"model"}) /\ UNCHANGED raw
  <2>1. IsDocument(Nothing) /\ Redacts(Nothing, Nothing, Extra) /\ Secrets(Nothing, Extra) = {}
    BY LeafIsDocument DEF Nothing
  <2>2. removed = Cardinality(Secrets(Nothing, Extra)) + Given
    BY <1>1, <2>1, FS_EmptySet
  <2> QED BY <1>1, <1>2, <2>1, <2>2, FlowFinishes
<1>3. CASE /\ raw' \in {spoken} \cup request.answers
           /\ Finish(Redact(raw', Extra).tree, "complete", removed + Redact(raw', Extra).count, {})
  <2>1. IsDocument(spoken)
    BY <1>1, EvidenceIsDocument, CleanedIsDocument DEF FlowInv, AnalysisInv
  <2>2. IsDocument(raw')
    BY <1>3, <2>1, EvidenceIsDocument, AnalysisAssumption DEF FlowInv, AnalysisInv
  <2> QED BY <1>1, <1>3, <2>2, FlowRedacts
<1>4. CASE Finish(Nothing, "withheld", removed, {"redaction"})
  BY <1>1, <1>4, FlowFails
<1> QED BY <1>1, <1>2, <1>3, <1>4 DEF Interpret

LEMMA FlowOfText ==
  ASSUME FlowInv, Serialize, UNCHANGED raw
  PROVE  SecretsInv'
<1>1. /\ stage = "print" /\ stage' = "done" /\ removed' \in {removed, 0}
      /\ \/ printed' = Redact(output, {}).tree /\ UNCHANGED redaction
         \/ printed' = Empty /\ redaction' = "withheld"
      /\ UNCHANGED <<request, spoken, output, raw>>
  BY DEF Serialize
<1>2. Extra' = Extra /\ Empty' = Empty
  BY <1>1, SameRequest
<1>3. StaysClean(output)
  BY <1>1 DEF FlowInv, SecretsInv
<1>4. redaction = "withheld" => output = Empty
  BY <1>1 DEF FlowInv, SecretsInv, SecretsKept
<1>5. Clean(printed', Extra) /\ printed' = IF redaction' = "withheld" THEN Empty ELSE output
  <2>1. CASE printed' = Redact(output, {}).tree /\ UNCHANGED redaction
    BY <1>3, <1>4, <2>1 DEF StaysClean
  <2>2. CASE printed' = Empty /\ redaction' = "withheld"
    BY <2>2, EmptyStaysClean DEF StaysClean
  <2> QED BY <1>1, <2>1, <2>2
<1> QED BY <1>1, <1>2, <1>5 DEF FlowInv, SecretsInv, SecretsKept

LEMMA FlowStarts ==
  ASSUME AnalysisStart
  PROVE  SecretsInv
<1>1. stage \in {"rest", "begin"} /\ spoken = Nothing /\ raw = Nothing /\ removed = 0
  BY DEF AnalysisStart, AnalysisInit
<1> QED BY <1>1 DEF SecretsInv, SecretsKept

LEMMA FlowKeeps ==
  ASSUME FlowInv, [AnalysisNext]_<<homeVars, analysisVars, analysisHistory>>
  PROVE  FlowInv'
<1>1. AnalysisInv'
  BY AnalysisNextKeeps DEF FlowInv
<1>2. CASE UNCHANGED <<analysisVars, raw>>
  <2>1. UNCHANGED <<stage, request, spoken, output, redaction, removed, printed, raw>>
    BY <1>2 DEF analysisVars
  <2> QED BY <1>1, <2>1, FlowKept DEF FlowInv
<1>3. CASE AnalysisStep
  BY <1>1, <1>3, FlowOfReading, FlowOfRedaction, FlowOfEvidence, FlowOfAnswers, FlowOfText
  DEF FlowInv, AnalysisStep
<1> QED BY <1>2, <1>3 DEF AnalysisNext, analysisHistory

\* What lies under a sensitive key of any document of any depth reaches neither
\* a model nor the output, all else does, and the secrets are counted: in every
\* evidence, for all entities that were read, whatever a model answers, and
\* also when redaction fails half way.
THEOREM SecretsAreKept == AnalysisSpec => []SecretsKept
<1>1. AnalysisStart => FlowInv
  BY AnalysisStarts, FlowStarts DEF FlowInv
<1>2. FlowInv /\ [AnalysisNext]_<<homeVars, analysisVars, analysisHistory>> => FlowInv'
  BY FlowKeeps
<1>3. FlowInv => SecretsKept
  BY DEF FlowInv, SecretsInv
<1> QED BY <1>1, <1>2, <1>3, PTL DEF AnalysisSpec

\* Nothing printed tells how many keys an object has.
KeyCountMasked ==
  stage = "done" =>
    \A n \in printed : n.at # <<>> /\ Last(n.at) = KeyCount => n.value = "[REDACTED]"

\* The summary never tells how many keys an object has (api.py:621), whatever
\* the evidence: the name of that field is a sensitive one.
THEOREM KeyCountIsNeverTold == AnalysisSpec => []KeyCountMasked
<1>1. SecretsKept => KeyCountMasked
  <2> SUFFICES ASSUME SecretsKept, stage = "done",
                      NEW n \in printed, n.at # <<>>, Last(n.at) = KeyCount
               PROVE  n.value = "[REDACTED]"
    BY DEF KeyCountMasked
  <2>1. "key" \in KeyCount.words \cap SensitiveWords
    BY DEF KeyCount, Key, SensitiveWords
  <2>2. IsMasked(n, Extra)
    BY <2>1 DEF IsMasked, Sensitive, key_has_sensitive_component
  <2>3. n = Masked(n)
    BY <2>2 DEF SecretsKept, Clean, Hidden
  <2>4. Masked(n).value = "[REDACTED]"
    BY DEF Masked, Node
  <2> QED BY <2>3, <2>4
<1> QED BY <1>1, SecretsAreKept, PTL

-----------------------------------------------------------------------------
(* The composition.                                                        *)

\* What a control call sees of a command line is a control call.
LEMMA CommandCalls ==
  ASSUME [CommandNext]_commandVars
  PROVE  [CallNext]_<<homeVars, callVars, callHistory>>
<1>1. CASE CallMoves
  BY <1>1 DEF CallMoves, CallNext
<1>2. CASE HomeMoves
  BY <1>2 DEF HomeMoves, CallNext, HomeStep
<1>3. CASE OwnerStep \/ AnalysisMoves
  BY <1>3 DEF OwnerStep, AnalysisMoves, AnalysisStep
<1> QED BY <1>1, <1>2, <1>3 DEF CommandNext, commandVars

LEMMA CommandOwns ==
  ASSUME [CommandNext]_commandVars
  PROVE  [LocalNext]_localVars
BY DEF CommandNext, OwnerStep, CallMoves, AnalysisMoves, HomeMoves, commandVars

\* A control call is a control call, and the owner's commands are the owner's
\* commands, also in the process that chooses between them: what was shown of
\* each by itself (TargetsAreSound, KeyringStaysScoped, ...) holds there.
THEOREM CommandsAreCalls == CommandSpec => CallSpec /\ LocalSpec
<1>1. CommandStart => CallStart /\ LocalInit
  BY DEF CommandStart
<1>2. [CommandNext]_commandVars => [CallNext]_<<homeVars, callVars, callHistory>>
  BY CommandCalls
<1>3. [CommandNext]_commandVars => [LocalNext]_localVars
  BY CommandOwns
<1> QED BY <1>1, <1>2, <1>3, PTL DEF CommandSpec, CallSpec, LocalSpec

\* An analysis rests while a call changes the home.
CommandInv ==
  /\ FlowInv
  /\ CallInv
  /\ awake \in {"owner", "call", "analysis"}
  /\ awake # "analysis" => stage = "rest"

LEMMA RestKeeps ==
  ASSUME FlowInv, HomeTypeOK', stage = "rest", UNCHANGED <<analysisVars, analysisHistory>>
  PROVE  FlowInv'
<1>1. SecretsInv'
  <2>1. UNCHANGED <<stage, request, spoken, output, redaction, removed, printed, raw>>
    BY DEF analysisVars, analysisHistory
  <2> QED BY <2>1, FlowKept
<1>2. AnalysisTypes'
  BY DEF FlowInv, AnalysisInv, AnalysisTypes, analysisVars, analysisHistory
<1>3. Valid' = Valid /\ Unread' = Unread /\ Successes' = Successes
  BY DEF Valid, Unread, Successes, analysisVars
<1>4. TokensInv' /\ TurnsInv' /\ AbsentInv' /\ ReportInv' /\ ResultInv'
  BY <1>3 DEF FlowInv, AnalysisInv, TokensInv, TurnsInv, AbsentInv, ReportInv, ResultInv,
              analysisVars, analysisHistory
<1>5. EntitiesInv'
  <2>1. PICK found \in Ascending(Successes) :
          \E looks \in [DOMAIN found -> Looks] : Shows(found, looks)
    BY DEF FlowInv, AnalysisInv, EntitiesInv
  <2>2. PICK looks \in [DOMAIN found -> Looks] : Shows(found, looks)
    BY <2>1
  <2>3. Shows(found, looks)'
    BY <2>2 DEF Shows, analysisVars, analysisHistory
  <2> QED BY <1>3, <2>2, <2>3 DEF EntitiesInv
<1> QED BY <1>1, <1>2, <1>4, <1>5 DEF FlowInv, AnalysisInv

LEMMA CommandKeeps ==
  ASSUME CommandInv, [CommandNext]_commandVars
  PROVE  CommandInv'
<1>1. CallInv'
  BY CommandCalls, CallInvNext DEF CommandInv
<1>2. awake' = awake
  BY DEF CommandNext, OwnerStep, CallMoves, AnalysisMoves, HomeMoves, commandVars
<1>3. FlowInv' /\ (awake # "analysis" => stage' = "rest")
  <2>1. CASE CallMoves
    <3>1. stage = "rest" /\ HomeTypeOK' /\ UNCHANGED <<analysisVars, analysisHistory>>
      BY <1>1, <2>1 DEF CommandInv, CallMoves, CallInv, OrderInv
    <3> QED BY <3>1, RestKeeps DEF CommandInv, analysisVars
  <2>2. CASE AnalysisMoves
    BY <2>2, FlowKeeps DEF CommandInv, AnalysisMoves, AnalysisNext
  <2>3. CASE HomeMoves
    <3>1. AnalysisNext /\ stage' = stage
      BY <2>3 DEF HomeMoves, AnalysisNext, HomeStep, analysisVars
    <3> QED BY <3>1, FlowKeeps DEF CommandInv
  <2>4. CASE OwnerStep \/ UNCHANGED commandVars
    <3>1. UNCHANGED <<homeVars, analysisVars, analysisHistory>> /\ stage' = stage
      BY <2>4 DEF OwnerStep, commandVars, analysisVars
    <3> QED BY <3>1, FlowKeeps DEF CommandInv
  <2> QED BY <2>1, <2>2, <2>3, <2>4 DEF CommandNext
<1> QED BY <1>1, <1>2, <1>3 DEF CommandInv

\* Every promise of the parts is one of the command lines: what the selector
\* means as the target, disabled or not, no plain target twice, effects that
\* were shown, inspections that tell what was seen, results without their
\* secrets, tokens and trust with their own homes.
THEOREM CommandsAreSound ==
  CommandSpec => [](/\ TargetsSound /\ EffectHonest
                    /\ InspectionFaithful /\ SecretsKept
                    /\ KeyringScoped /\ TrustScoped)
<1>1. CommandStart => CommandInv
  BY CallInvInit, AnalysisStarts, FlowStarts DEF CommandStart, CommandInv, FlowInv
<1>2. CommandInv /\ [CommandNext]_commandVars => CommandInv'
  BY CommandKeeps
<1>3. CommandInv => InspectionFaithful /\ SecretsKept
  BY AnalysisIsFaithful DEF CommandInv, FlowInv, SecretsInv
<1> QED BY <1>1, <1>2, <1>3, CommandsAreCalls, TargetsAreSound, EffectIsHonest,
           KeyringStaysScoped, TrustStaysScoped, PTL DEF CommandSpec

\* The type invariant of the command lines, the number of secrets included.
THEOREM CommandTypes == CommandSpec => []CommandTypeOK
<1>1. CommandStart => CommandInv
  BY CallInvInit, AnalysisStarts, FlowStarts DEF CommandStart, CommandInv, FlowInv
<1>2. CommandInv /\ [CommandNext]_commandVars => CommandInv'
  BY CommandKeeps
<1>3. ASSUME CommandInv, LocalTypeOK, HomeTypeOK, CallTypeOK
      PROVE  CommandTypeOK
  <2>1. AnalysisInv /\ removed \in Nat
    BY <1>3 DEF CommandInv, FlowInv, SecretsInv
  <2> QED BY <1>3, <2>1, AnalysisHasTypes DEF CommandInv, CommandTypeOK
<1> QED BY <1>1, <1>2, <1>3, CommandsAreCalls, LocalTypes, CallTypes, PTL DEF CommandSpec
=============================================================================
