----------------------------- MODULE NewsProofs -----------------------------
(***************************************************************************)
(* Proofs about News for every set of names and connections, every depth   *)
(* of path and any number of rows.                                         *)
(***************************************************************************)
EXTENDS News, SequenceTheorems, WellFoundedInduction, TLAPS

(* A non-empty set of naturals has a least element.  Every induction below *)
(* looks at the least counterexample.                                      *)
LEMMA LeastElement ==
  ASSUME NEW S \in SUBSET Nat, S # {}
  PROVE  \E x \in S : \A y \in S : x <= y
<1>1. PICK x \in S : \A y \in S : ~(<<y, x>> \in OpToRel(<, Nat))
  BY WFMin, NatLessThanWellFounded, Zenon
<1>2. ASSUME NEW y \in S  PROVE x <= y
  <2>1. ~(<<y, x>> \in OpToRel(<, Nat))  BY <1>1, Zenon
  <2>2. x \in Nat /\ y \in Nat  OBVIOUS
  <2>3. ~(y < x)  BY <2>1, <2>2 DEF OpToRel
  <2>. QED  BY <2>2, <2>3
<1>. QED  BY <1>2

----------------------------------------------------------------------------
(* The catalogue.                                                          *)

(* A bundle lies below an older one or at the root, a category in a        *)
(* bundle or at the root, and neither has a sibling of its name.           *)
CatalogueInv ==
  /\ bundles \in Seq([name : Names, parent : Nat])
  /\ categories \in Seq([name : Names, bundle : Nat])
  /\ \A b \in DOMAIN bundles : bundles[b].parent < b
  /\ \A c \in DOMAIN categories : categories[c].bundle \in 0..Len(bundles)
  /\ \A b, d \in DOMAIN bundles :
       bundles[b].name = bundles[d].name /\ bundles[b].parent = bundles[d].parent => b = d
  /\ \A c, d \in DOMAIN categories :
       categories[c].name = categories[d].name /\ categories[c].bundle = categories[d].bundle
       => c = d

(* The reference path of a bundle is its parent's, extended by its name.   *)
LEMMA BundlePathUnfolds ==
  ASSUME CatalogueInv
  PROVE  BundlePath = [b \in 0..Len(bundles) |->
           IF b = NULL THEN <<>> ELSE Append(BundlePath[bundles[b].parent], bundles[b].name)]
<1>. DEFINE Walk(g, k) ==
       g = [b \in 0..k |->
              IF b = NULL THEN <<>> ELSE Append(g[bundles[b].parent], bundles[b].name)]
     Missing == {k \in 0..Len(bundles) : ~ \E g : Walk(g, k)}
<1>1. Len(bundles) \in Nat /\ DOMAIN bundles = 1..Len(bundles)
  BY DEF CatalogueInv
<1>. HIDE DEF Walk
<1>2. ASSUME Missing # {}  PROVE FALSE
  <2>1. PICK k \in Missing : \A j \in Missing : k <= j
    <3>1. Missing \in SUBSET Nat  BY <1>1
    <3>. HIDE DEF Missing
    <3>. QED  BY <1>2, <3>1, LeastElement
  <2>2. CASE k = 0
    <3>1. Walk([b \in 0..0 |-> <<>>], 0)  BY DEF NULL, Walk
    <3>. QED  BY <2>1, <2>2, <3>1
  <2>3. CASE k # 0
    <3>1. k - 1 \in 0..Len(bundles) /\ k - 1 \notin Missing  BY <1>1, <2>1, <2>3
    <3>2. PICK g : Walk(g, k - 1)  BY <3>1
    <3>6. \A b \in 0..(k - 1) :
            g[b] = IF b = NULL THEN <<>> ELSE Append(g[bundles[b].parent], bundles[b].name)
      BY <3>2, Zenon DEF Walk
    <3>. DEFINE h == [b \in 0..k |-> IF b = k THEN Append(g[bundles[k].parent], bundles[k].name)
                                     ELSE g[b]]
    <3>3. ASSUME NEW b \in 0..k, b # NULL
          PROVE  bundles[b].parent \in 0..(k - 1) /\ bundles[b].parent < b
      <4>1. b \in DOMAIN bundles  BY <1>1, <3>1, <3>3 DEF NULL
      <4>2. bundles[b] \in [name : Names, parent : Nat] /\ bundles[b].parent < b
        BY <1>1, <4>1, ElementOfSeq, Zenon DEF CatalogueInv
      <4>. QED  BY <3>1, <4>2
    <3>4. \A b \in 0..k :
            h[b] = IF b = NULL THEN <<>> ELSE Append(h[bundles[b].parent], bundles[b].name)
      <4>. SUFFICES ASSUME NEW b \in 0..k
                    PROVE h[b] = IF b = NULL THEN <<>>
                                 ELSE Append(h[bundles[b].parent], bundles[b].name)
        BY Zenon
      <4>1. CASE b = NULL
        BY <1>1, <2>3, <3>1, <3>6, <4>1 DEF NULL
      <4>2. CASE b # NULL
        <5>1. h[bundles[b].parent] = g[bundles[b].parent]
          BY <1>1, <2>3, <3>3, <4>2, SMTT(30)
        <5>2. h[b] = Append(g[bundles[b].parent], bundles[b].name)
          <6>1. CASE b = k  BY <6>1, Zenon
          <6>2. CASE b # k
            <7>1. b \in 0..(k - 1)  BY <3>1, <6>2
            <7>2. h[b] = g[b]  BY <6>2, Zenon
            <7>. QED  BY <3>6, <4>2, <7>1, <7>2, Zenon
          <6>. QED  BY <6>1, <6>2
        <5>. QED  BY <4>2, <5>1, <5>2, Zenon
      <4>. QED  BY <4>1, <4>2
    <3>5. Walk(h, k)  BY <3>4 DEF Walk
    <3>. QED  BY <2>1, <3>5
  <2>. QED  BY <2>2, <2>3
<1>3. Len(bundles) \notin Missing  BY <1>2
<1>4. \E g : Walk(g, Len(bundles))  BY <1>1, <1>3
<1>5. BundlePath = CHOOSE g : Walk(g, Len(bundles))  BY DEF BundlePath, Walk
<1>6. Walk(BundlePath, Len(bundles))  BY <1>4, <1>5
<1>. QED  BY <1>6, Zenon DEF Walk

(* A bundle's parent is an older bundle or the root.                       *)
LEMMA BundleTyped ==
  ASSUME CatalogueInv, NEW b \in DOMAIN bundles
  PROVE  /\ b \in 1..Len(bundles) /\ bundles[b].name \in Names
         /\ bundles[b].parent \in 0..Len(bundles) /\ bundles[b].parent < b
<1>1. Len(bundles) \in Nat /\ DOMAIN bundles = 1..Len(bundles)  BY DEF CatalogueInv
<1>2. bundles[b] \in [name : Names, parent : Nat] /\ bundles[b].parent < b
  BY <1>1, ElementOfSeq, Zenon DEF CatalogueInv
<1>. QED  BY <1>1, <1>2

(* The same, bundle by bundle.                                             *)
LEMMA BundlePathStep ==
  ASSUME CatalogueInv
  PROVE  /\ BundlePath[NULL] = <<>>
         /\ \A b \in DOMAIN bundles :
              BundlePath[b] = Append(BundlePath[bundles[b].parent], bundles[b].name)
<1>1. Len(bundles) \in Nat /\ DOMAIN bundles = 1..Len(bundles)  BY DEF CatalogueInv
<1>2. NULL \in 0..Len(bundles)  BY <1>1 DEF NULL
<1>3. ASSUME NEW b \in DOMAIN bundles  PROVE b \in 0..Len(bundles) /\ b # NULL
  BY <1>1 DEF NULL
<1>. QED  BY <1>2, <1>3, BundlePathUnfolds, Zenon

(* Paths are sequences of names, and a bundle has more than none.          *)
LEMMA BundlePathTyped ==
  ASSUME CatalogueInv, NEW b \in 0..Len(bundles)
  PROVE  BundlePath[b] \in Seq(Names) /\ (b # NULL => BundlePath[b] # <<>>)
<1>. DEFINE Bad == {d \in 0..Len(bundles) : BundlePath[d] \notin Seq(Names)}
<1>1. Len(bundles) \in Nat /\ DOMAIN bundles = 1..Len(bundles)  BY DEF CatalogueInv
<1>2. ASSUME NEW d \in DOMAIN bundles, BundlePath[bundles[d].parent] \in Seq(Names)
      PROVE  BundlePath[d] \in Seq(Names) /\ BundlePath[d] # <<>>
  <2>1. /\ bundles[d].name \in Names
        /\ BundlePath[d] = Append(BundlePath[bundles[d].parent], bundles[d].name)
    BY BundleTyped, BundlePathStep
  <2>2. /\ Append(BundlePath[bundles[d].parent], bundles[d].name) \in Seq(Names)
        /\ Append(BundlePath[bundles[d].parent], bundles[d].name) # <<>>
    BY <1>2, <2>1, AppendProperties
  <2>. QED  BY <2>1, <2>2, Zenon
<1>3. ASSUME Bad # {}  PROVE FALSE
  <2>1. Bad \in SUBSET Nat  BY <1>1
  <2>2. PICK d \in Bad : \A e \in Bad : d <= e
    <3>. HIDE DEF Bad
    <3>. QED  BY <1>3, <2>1, LeastElement
  <2>3. d # NULL  BY BundlePathStep, EmptySeq, Zenon
  <2>4. d \in DOMAIN bundles  BY <1>1, <2>3 DEF NULL
  <2>5. bundles[d].parent \in 0..Len(bundles) /\ bundles[d].parent < d
    BY <2>4, BundleTyped
  <2>6. bundles[d].parent \notin Bad  BY <1>1, <2>1, <2>2, <2>5
  <2>. QED  BY <1>2, <2>4, <2>5, <2>6
<1>4. \A d \in 0..Len(bundles) : BundlePath[d] \in Seq(Names)  BY <1>3
<1>5. ASSUME b # NULL  PROVE BundlePath[b] # <<>>
  <2>1. b \in DOMAIN bundles  BY <1>1, <1>5 DEF NULL
  <2>. QED  BY <1>2, <1>4, <2>1, BundleTyped
<1>. QED  BY <1>4, <1>5

(* A bundle is reached by a path's last segment from its parent, and from  *)
(* nowhere else.                                                           *)
LEMMA BundlePathExtends ==
  ASSUME CatalogueInv, NEW b \in DOMAIN bundles, NEW path \in Seq(Names), NEW n \in Names
  PROVE  BundlePath[b] = Append(path, n)
           <=> BundlePath[bundles[b].parent] = path /\ bundles[b].name = n
<1>1. /\ bundles[b].parent \in 0..Len(bundles) /\ bundles[b].name \in Names
      /\ BundlePath[b] = Append(BundlePath[bundles[b].parent], bundles[b].name)
  BY BundleTyped, BundlePathStep
<1>2. BundlePath[bundles[b].parent] \in Seq(Names)  BY <1>1, BundlePathTyped
<1>3. Append(BundlePath[bundles[b].parent], bundles[b].name) = Append(path, n)
        <=> BundlePath[bundles[b].parent] = path /\ bundles[b].name = n
  BY <1>1, <1>2, AppendInjective, SMTT(30)
<1>. QED  BY <1>1, <1>3, Zenon

(* No two bundles have the same path: siblings have different names.       *)
LEMMA BundlePathInjective ==
  ASSUME CatalogueInv, NEW b \in 0..Len(bundles), NEW d \in 0..Len(bundles),
         BundlePath[b] = BundlePath[d]
  PROVE  b = d
<1>. DEFINE Bad == {x \in 0..Len(bundles) :
                      \E y \in 0..Len(bundles) : BundlePath[x] = BundlePath[y] /\ x # y}
<1>1. Len(bundles) \in Nat /\ DOMAIN bundles = 1..Len(bundles)  BY DEF CatalogueInv
<1>2. ASSUME Bad # {}  PROVE FALSE
  <2>1. Bad \in SUBSET Nat  BY <1>1
  <2>2. PICK x \in Bad : \A e \in Bad : x <= e
    <3>. HIDE DEF Bad
    <3>. QED  BY <1>2, <2>1, LeastElement
  <2>3. PICK y \in 0..Len(bundles) : BundlePath[x] = BundlePath[y] /\ x # y
    BY <2>2
  <2>4. x \in DOMAIN bundles /\ y \in DOMAIN bundles
    <3>1. x # NULL /\ y # NULL  BY <2>3, BundlePathTyped, BundlePathStep
    <3>. QED  BY <1>1, <3>1 DEF NULL
  <2>5. /\ bundles[x].name \in Names /\ bundles[x].parent \in 0..Len(bundles)
        /\ bundles[x].parent < x /\ bundles[y].parent \in 0..Len(bundles)
    BY <2>4, BundleTyped
  <2>6. BundlePath[bundles[x].parent] \in Seq(Names)  BY <2>5, BundlePathTyped
  <2>7. /\ BundlePath[bundles[y].parent] = BundlePath[bundles[x].parent]
        /\ bundles[y].name = bundles[x].name
    <3>1. BundlePath[y] = Append(BundlePath[bundles[x].parent], bundles[x].name)
      BY <2>3, <2>4, BundlePathStep, Zenon
    <3>2. \A q \in Seq(Names), m \in Names :
            BundlePath[y] = Append(q, m)
              => BundlePath[bundles[y].parent] = q /\ bundles[y].name = m
      BY <2>4, BundlePathExtends
    <3>. QED  BY <2>5, <2>6, <3>1, <3>2, Zenon
  <2>8. bundles[x].parent # bundles[y].parent
    BY <2>3, <2>4, <2>7 DEF CatalogueInv
  <2>9. bundles[x].parent \in Bad  BY <2>5, <2>7, <2>8
  <2>. QED  BY <1>1, <2>1, <2>2, <2>5, <2>9
<1>. QED  BY <1>2

----------------------------------------------------------------------------
(* The recursive query.                                                    *)

(* The rows at a depth are those joined to the rows one level above.       *)
LEMMA TreeUnfolds ==
  ASSUME NEW path \in Seq(Names), NEW left
  PROVE  /\ tree(path, left)[0] = {NULL}
         /\ \A n \in 1..Len(path) :
              tree(path, left)[n]
                = UNION {Joined(id, path[n], left) : id \in tree(path, left)[n - 1]}
<1>. DEFINE Next(rows, n) == UNION {Joined(id, path[n], left) : id \in rows}
     Rec(g, k) == g = [n \in 0..k |-> IF n = 0 THEN {NULL} ELSE Next(g[n - 1], n)]
     Missing == {k \in 0..Len(path) : ~ \E g : Rec(g, k)}
<1>1. Len(path) \in Nat  OBVIOUS
<1>2. tree(path, left) = CHOOSE g : Rec(g, Len(path))  BY DEF tree
<1>. HIDE DEF Next, Rec
<1>3. ASSUME Missing # {}  PROVE FALSE
  <2>1. Missing \in SUBSET Nat  BY <1>1
  <2>2. PICK k \in Missing : \A j \in Missing : k <= j
    <3>. HIDE DEF Missing
    <3>. QED  BY <1>3, <2>1, LeastElement
  <2>3. CASE k = 0
    <3>1. Rec([n \in 0..0 |-> {NULL}], 0)  BY DEF Rec
    <3>. QED  BY <2>2, <2>3, <3>1
  <2>4. CASE k # 0
    <3>1. k - 1 \in 0..Len(path) /\ k - 1 \notin Missing  BY <1>1, <2>2, <2>4
    <3>2. PICK g : Rec(g, k - 1)  BY <3>1
    <3>. DEFINE h == [n \in 0..k |-> IF n = k THEN Next(g[k - 1], k) ELSE g[n]]
    <3>3. \A n \in 0..(k - 1) : g[n] = IF n = 0 THEN {NULL} ELSE Next(g[n - 1], n)
      BY <3>2 DEF Rec
    <3>4. \A n \in 0..k : h[n] = IF n = 0 THEN {NULL} ELSE Next(h[n - 1], n)
      <4>. SUFFICES ASSUME NEW n \in 0..k
                    PROVE  h[n] = IF n = 0 THEN {NULL} ELSE Next(h[n - 1], n)
        BY Zenon
      <4>1. CASE n = 0
        <5>1. 0 \in 0..k /\ 0 # k /\ 0 \in 0..(k - 1)  BY <2>1, <2>4, <3>1
        <5>. QED  BY <3>3, <4>1, <5>1, Zenon
      <4>2. CASE n # 0
        <5>1. n - 1 \in 0..k /\ n - 1 # k /\ (n # k => n \in 0..(k - 1))
          BY <3>1, <4>2
        <5>2. h[n - 1] = g[n - 1]  BY <5>1, Zenon
        <5>3. h[n] = Next(g[n - 1], n)  BY <3>3, <4>2, <5>1, Zenon
        <5>. QED  BY <4>2, <5>2, <5>3, Zenon
      <4>. QED  BY <4>1, <4>2
    <3>5. Rec(h, k)  BY <3>4, Zenon DEF Rec
    <3>. QED  BY <2>2, <3>5
  <2>. QED  BY <2>3, <2>4
<1>4. \E g : Rec(g, Len(path))  BY <1>1, <1>3
<1>5. Rec(tree(path, left), Len(path))  BY <1>2, <1>4
<1>6. /\ tree(path, left)[0] = {NULL}
      /\ \A n \in 1..Len(path) : tree(path, left)[n] = Next(tree(path, left)[n - 1], n)
  <2>1. 0 \in 0..Len(path) /\ \A n \in 1..Len(path) : n \in 0..Len(path) /\ n # 0
    BY <1>1
  <2>. QED  BY <1>5, <2>1, Zenon DEF Rec
<1>. QED  BY <1>6 DEF Next

(* The last segment of a piece of a path.                                  *)
LEMMA SubSeqGrows ==
  ASSUME NEW path \in Seq(Names), NEW n \in 1..Len(path), NEW m \in 1..n
  PROVE  /\ path[n] \in Names
         /\ SubSeq(path, m, n - 1) \in Seq(Names)
         /\ SubSeq(path, m, n) = Append(SubSeq(path, m, n - 1), path[n])
<1>1. Len(path) \in Nat /\ path[n] \in Names  BY ElementOfSeq, LenProperties
<1>2. SubSeq(path, m, n - 1) \in Seq(Names)
  <2>1. \A i \in m..(n - 1) : path[i] \in Names  BY <1>1, ElementOfSeq
  <2>. QED  BY <2>1, <1>1, SubSeqProperties
<1>3. SubSeq(path, m, n) = SubSeq(path, m, n - 1) \o <<path[n]>>
  <2>1. m \in 1..Len(path) /\ n \in m..Len(path)  BY <1>1
  <2>. QED  BY <2>1, SubSeqRecursiveSecond
<1>. QED  BY <1>1, <1>2, <1>3, AppendIsConcat

(* A row of the INNER JOIN query at depth n is a bundle with the first n   *)
(* segments as its path; there is at most one.                             *)
LEMMA TreeFindsBundles ==
  ASSUME CatalogueInv, NEW path \in Seq(Names), NEW n \in 0..Len(path)
  PROVE  tree(path, FALSE)[n]
           = {b \in 0..Len(bundles) : BundlePath[b] = SubSeq(path, 1, n)}
<1>. DEFINE Named(k) == {b \in 0..Len(bundles) : BundlePath[b] = SubSeq(path, 1, k)}
     Differs(k) == tree(path, FALSE)[k] # Named(k)
     Bad == {k \in 0..Len(path) : Differs(k)}
<1>1. /\ Len(bundles) \in Nat /\ DOMAIN bundles = 1..Len(bundles)
      /\ Len(path) \in Nat
  BY DEF CatalogueInv
<1>. HIDE DEF Named, Differs
<1>2. ASSUME Bad # {}  PROVE FALSE
  <2>1. Bad \in SUBSET Nat  BY <1>1
  <2>2. PICK k \in Bad : \A e \in Bad : k <= e
    <3>. HIDE DEF Bad
    <3>. QED  BY <1>2, <2>1, LeastElement
  <2>3. CASE k = 0
    <3>1. SubSeq(path, 1, 0) = <<>>  BY SubSeqEmpty
    <3>2. NULL \in 0..Len(bundles)  BY <1>1 DEF NULL
    <3>3. Named(0) = {NULL}  BY <3>1, <3>2, BundlePathTyped, BundlePathStep DEF Named
    <3>4. tree(path, FALSE)[0] = {NULL}  BY TreeUnfolds, Zenon
    <3>. QED  BY <2>2, <2>3, <3>3, <3>4, Zenon DEF Differs
  <2>4. CASE k # 0
    <3>1. /\ k \in 1..Len(path) /\ k - 1 \in 0..Len(path) /\ k - 1 \notin Bad
          /\ 1 \in 1..k
      BY <1>1, <2>1, <2>2, <2>4
    <3>2. tree(path, FALSE)[k - 1] = Named(k - 1)  BY <3>1, Zenon DEF Differs
    <3>3. tree(path, FALSE)[k] = UNION {Joined(id, path[k], FALSE) : id \in Named(k - 1)}
      <4>1. tree(path, FALSE)[k]
              = UNION {Joined(id, path[k], FALSE) : id \in tree(path, FALSE)[k - 1]}
        BY <3>1, TreeUnfolds, Zenon
      <4>. QED  BY <3>2, <4>1, Zenon
    <3>4. /\ path[k] \in Names /\ SubSeq(path, 1, k - 1) \in Seq(Names)
          /\ SubSeq(path, 1, k) = Append(SubSeq(path, 1, k - 1), path[k])
      BY <3>1, SubSeqGrows, Zenon
    <3>5. ASSUME NEW b \in 0..Len(bundles)
          PROVE  b \in Named(k)
                 <=> /\ b \in DOMAIN bundles /\ bundles[b].name = path[k]
                     /\ bundles[b].parent \in Named(k - 1)
      <4>1. CASE b = NULL
        <5>1. SubSeq(path, 1, k) # <<>>  BY <3>4, AppendProperties
        <5>2. NULL \notin DOMAIN bundles  BY <1>1 DEF NULL
        <5>. QED  BY <4>1, <5>1, <5>2, BundlePathStep DEF Named
      <4>2. CASE b # NULL
        <5>1. b \in DOMAIN bundles  BY <1>1, <4>2 DEF NULL
        <5>2. BundlePath[b] = SubSeq(path, 1, k)
                <=> BundlePath[bundles[b].parent] = SubSeq(path, 1, k - 1)
                    /\ bundles[b].name = path[k]
          <6>1. \A q \in Seq(Names), m \in Names :
                  BundlePath[b] = Append(q, m)
                    <=> BundlePath[bundles[b].parent] = q /\ bundles[b].name = m
            BY <5>1, BundlePathExtends
          <6>. QED  BY <3>4, <6>1, Zenon
        <5>3. bundles[b].parent \in 0..Len(bundles)  BY <5>1, BundleTyped
        <5>. QED  BY <5>1, <5>2, <5>3 DEF Named
      <4>. QED  BY <4>1, <4>2
    <3>6. \A b : b \in UNION {Joined(id, path[k], FALSE) : id \in Named(k - 1)}
                 <=> /\ b \in DOMAIN bundles /\ bundles[b].name = path[k]
                     /\ bundles[b].parent \in Named(k - 1)
      BY DEF Joined, Children
    <3>7. tree(path, FALSE)[k] = Named(k)
      <4>1. \A b \in DOMAIN bundles : b \in 0..Len(bundles)  BY <1>1
      <4>2. \A b \in Named(k) : b \in 0..Len(bundles)  BY DEF Named
      <4>. QED  BY <3>3, <3>5, <3>6, <4>1, <4>2, Zenon
    <3>. QED  BY <2>2, <3>7, Zenon DEF Differs
  <2>. QED  BY <2>3, <2>4
<1>. QED  BY <1>2, Zenon DEF Named, Differs

(* The LEFT JOIN query has one row at every depth, so that the subquery of *)
(* CATEGORY_BODY_SQL is scalar: Postgres would refuse a second row and     *)
(* SQLite would silently take the first.                                   *)
THEOREM LeftTreeScalar ==
  ASSUME CatalogueInv, NEW path \in Seq(Names), NEW n \in 0..Len(path)
  PROVE  \E r : tree(path, TRUE)[n] = {r}
<1>. DEFINE Single(j) == \E r : tree(path, TRUE)[j] = {r}
            Bad == {j \in 0..Len(path) : ~ Single(j)}
<1>1. Len(path) \in Nat  BY LenProperties
<1>. HIDE DEF Single
<1>2. ASSUME Bad # {}  PROVE FALSE
  <2>1. Bad \in SUBSET Nat  BY <1>1
  <2>2. PICK j \in Bad : \A e \in Bad : j <= e
    <3>. HIDE DEF Bad
    <3>. QED  BY <1>2, <2>1, LeastElement
  <2>3. CASE j = 0
    <3>1. tree(path, TRUE)[0] = {NULL}  BY TreeUnfolds, Zenon
    <3>. QED  BY <2>2, <2>3, <3>1, Zenon DEF Single
  <2>4. CASE j # 0
    <3>1. j \in 1..Len(path) /\ j - 1 \in 0..Len(path) /\ j - 1 \notin Bad
      BY <1>1, <2>1, <2>2, <2>4
    <3>2. PICK r : tree(path, TRUE)[j - 1] = {r}  BY <3>1, Zenon DEF Single
    <3>3. tree(path, TRUE)[j]
            = UNION {Joined(id, path[j], TRUE) : id \in tree(path, TRUE)[j - 1]}
      BY <3>1, TreeUnfolds, Zenon
    <3>4. tree(path, TRUE)[j] = Joined(r, path[j], TRUE)
      <4>1. UNION {Joined(id, path[j], TRUE) : id \in {r}} = Joined(r, path[j], TRUE)
        OBVIOUS
      <4>. QED  BY <3>2, <3>3, <4>1, Zenon
    <3>5. \A x, y \in Children(r, path[j]) : x = y  BY DEF CatalogueInv, Children
    <3>6. \E x : Joined(r, path[j], TRUE) = {x}
      <4>1. CASE Children(r, path[j]) = {}  BY <4>1, Zenon DEF Joined
      <4>2. CASE Children(r, path[j]) # {}
        <5>1. PICK x : x \in Children(r, path[j])  BY <4>2
        <5>2. Children(r, path[j]) = {x}  BY <3>5, <5>1, Zenon
        <5>. QED  BY <4>2, <5>2, Zenon DEF Joined
      <4>. QED  BY <4>1, <4>2
    <3>. QED  BY <2>2, <3>4, <3>6, Zenon DEF Single
  <2>. QED  BY <2>3, <2>4
<1>. QED  BY <1>2, Zenon DEF Single

(* `.first()` on the rows of a query, none of which has the id that stands *)
(* for an invalid path.                                                    *)
LEMMA FirstChooses ==
  ASSUME NEW ids \in SUBSET Nat
  PROVE  /\ ids = {} => First(ids) = Invalid
         /\ ids # {} => First(ids) \in ids /\ First(ids) # Invalid
<1>1. ASSUME ids # {}  PROVE First(ids) \in ids /\ First(ids) # Invalid
  <2>1. \E x \in ids : \A y \in ids : x <= y  BY <1>1, LeastElement
  <2>2. Min(ids) \in ids  BY <2>1, Zenon DEF Min
  <2>3. First(ids) = Min(ids)  BY <1>1, Zenon DEF First
  <2>4. \A x \in ids : x # Invalid  BY DEF Invalid
  <2>. QED  BY <2>2, <2>3, <2>4, Zenon
<1>. QED  BY <1>1 DEF First

(* bundle_id_from_path answers with the bundle of that path, or with an    *)
(* error if there is none.                                                 *)
LEMMA BundleFound ==
  ASSUME CatalogueInv, NEW path \in Seq(Names)
  PROVE  /\ \A b \in 0..Len(bundles) : bundle_id_from_path(path) = b <=> BundlePath[b] = path
         /\ bundle_id_from_path(path) \in 0..Len(bundles) \cup {Invalid}
<1>1. Len(bundles) \in Nat /\ NULL \in 0..Len(bundles)  BY DEF CatalogueInv, NULL
<1>2. CASE path = <<>>
  <2>1. bundle_id_from_path(path) = NULL  BY <1>2 DEF bundle_id_from_path
  <2>. QED  BY <1>1, <1>2, <2>1, BundlePathTyped, BundlePathStep
<1>3. CASE path # <<>>
  <2>. DEFINE found == {b \in 0..Len(bundles) : BundlePath[b] = path}
  <2>1. Len(path) \in 0..Len(path) /\ SubSeq(path, 1, Len(path)) = path
    BY SubSeqFull, LenProperties
  <2>2. tree(path, FALSE)[Len(path)] = found  BY <2>1, TreeFindsBundles, Zenon
  <2>3. bundle_id_from_path(path) = First(found)
    BY <1>3, <2>2, Zenon DEF bundle_id_from_path
  <2>4. found \in SUBSET Nat  BY <1>1
  <2>5. /\ found = {} => First(found) = Invalid
        /\ found # {} => First(found) \in found /\ First(found) # Invalid
    BY <2>4, FirstChooses, Zenon
  <2>6. \A b, d \in found : b = d  BY BundlePathInjective
  <2>7. \A b \in 0..Len(bundles) : b # Invalid  BY <1>1 DEF Invalid
  <2>. HIDE DEF found
  <2>8. \A b \in 0..Len(bundles) : b \in found <=> BundlePath[b] = path  BY DEF found
  <2>9. \A b \in found : b \in 0..Len(bundles)  BY DEF found
  <2>. QED  BY <2>3, <2>5, <2>6, <2>7, <2>8, <2>9
<1>. QED  BY <1>2, <1>3

(* The LEFT JOIN query agrees with the path as long as the path exists.    *)
LEMMA LeftTreeFollowsPath ==
  ASSUME CatalogueInv, NEW path \in Seq(Names), NEW n \in 0..Len(path),
         NEW b \in 0..Len(bundles), BundlePath[b] = SubSeq(path, 1, n)
  PROVE  tree(path, TRUE)[n] = {b}
<1>. DEFINE Strays(k) == \E d \in 0..Len(bundles) :
                 BundlePath[d] = SubSeq(path, 1, k) /\ tree(path, TRUE)[k] # {d}
     Bad == {k \in 0..Len(path) : Strays(k)}
<1>1. /\ Len(bundles) \in Nat /\ DOMAIN bundles = 1..Len(bundles)
      /\ Len(path) \in Nat
  BY DEF CatalogueInv
<1>. HIDE DEF Strays
<1>2. ASSUME Bad # {}  PROVE FALSE
  <2>1. Bad \in SUBSET Nat  BY <1>1
  <2>2. PICK k \in Bad : \A e \in Bad : k <= e
    <3>. HIDE DEF Bad
    <3>. QED  BY <1>2, <2>1, LeastElement, SMTT(30)
  <2>3. PICK d \in 0..Len(bundles) :
             BundlePath[d] = SubSeq(path, 1, k) /\ tree(path, TRUE)[k] # {d}
    BY <2>2, Zenon DEF Strays
  <2>4. CASE k = 0
    <3>1. SubSeq(path, 1, 0) = <<>>  BY SubSeqEmpty
    <3>2. d = NULL  BY <2>3, <2>4, <3>1, BundlePathTyped, Zenon
    <3>3. tree(path, TRUE)[0] = {NULL}  BY TreeUnfolds, Zenon
    <3>. QED  BY <2>3, <2>4, <3>2, <3>3, Zenon
  <2>5. CASE k # 0
    <3>1. /\ k \in 1..Len(path) /\ k - 1 \in 0..Len(path) /\ k - 1 \notin Bad
          /\ 1 \in 1..k
      BY <1>1, <2>1, <2>2, <2>5
    <3>2. /\ path[k] \in Names /\ SubSeq(path, 1, k - 1) \in Seq(Names)
          /\ SubSeq(path, 1, k) = Append(SubSeq(path, 1, k - 1), path[k])
      BY <3>1, SubSeqGrows
    <3>3. d \in DOMAIN bundles
      <4>0. \A q \in Seq(Names), m \in Names : Append(q, m) # <<>>
        BY AppendProperties
      <4>1. SubSeq(path, 1, k) # <<>>  BY <3>2, <4>0, Zenon
      <4>2. d # NULL  BY <2>3, <4>1, BundlePathStep
      <4>. QED  BY <1>1, <4>2 DEF NULL
    <3>4. BundlePath[bundles[d].parent] = SubSeq(path, 1, k - 1) /\ bundles[d].name = path[k]
      <4>1. \A q \in Seq(Names), m \in Names :
              BundlePath[d] = Append(q, m)
                => BundlePath[bundles[d].parent] = q /\ bundles[d].name = m
        BY <3>3, BundlePathExtends
      <4>. QED  BY <2>3, <3>2, <4>1, Zenon
    <3>5. bundles[d].parent \in 0..Len(bundles)  BY <3>3, BundleTyped
    <3>6. tree(path, TRUE)[k - 1] = {bundles[d].parent}
      BY <3>1, <3>4, <3>5, Zenon DEF Strays
    <3>7. tree(path, TRUE)[k]
            = UNION {Joined(id, path[k], TRUE) : id \in tree(path, TRUE)[k - 1]}
      BY <3>1, TreeUnfolds, Zenon
    <3>8. Children(bundles[d].parent, path[k]) = {d}
      BY <3>3, <3>4 DEF CatalogueInv, Children
    <3>9. Joined(bundles[d].parent, path[k], TRUE) = {d}
      BY <3>8 DEF Joined
    <3>10. UNION {Joined(id, path[k], TRUE) : id \in {bundles[d].parent}} = {d}
      BY <3>9, Zenon
    <3>11. tree(path, TRUE)[k] = {d}  BY <3>6, <3>7, <3>10, Zenon
    <3>. QED  BY <2>3, <3>11, Zenon
  <2>. QED  BY <2>4, <2>5
<1>3. ~ Strays(n)  BY <1>2
<1>. QED  BY <1>3, Zenon DEF Strays
(* Where a row of the LEFT JOIN query comes from: the segments that lead   *)
(* to it from the root, after a prefix that is the path of no bundle.      *)
LEMMA LeftTreeOrigin ==
  ASSUME CatalogueInv, NEW path \in Seq(Names), NEW n \in 0..Len(path),
         NEW r \in tree(path, TRUE)[n]
  PROVE  /\ r \in 0..Len(bundles)
         /\ \E k \in 0..n :
              /\ BundlePath[r] = SubSeq(path, k + 1, n)
              /\ k = 0 \/ bundle_id_from_path(SubSeq(path, 1, k)) = Invalid
<1>. DEFINE
     From(x, j, k) == /\ BundlePath[x] = SubSeq(path, k + 1, j)
                      /\ k = 0 \/ bundle_id_from_path(SubSeq(path, 1, k)) = Invalid
     Reached(x, j) == x \in 0..Len(bundles) /\ \E k \in 0..j : From(x, j, k)
     Strays(j) == \E x \in tree(path, TRUE)[j] : ~ Reached(x, j)
     Bad == {j \in 0..Len(path) : Strays(j)}
<1>1. /\ Len(bundles) \in Nat /\ DOMAIN bundles = 1..Len(bundles)
      /\ Len(path) \in Nat /\ NULL \in 0..Len(bundles)
  BY DEF CatalogueInv, NULL
<1>. HIDE DEF Strays, Reached, From
<1>2. ASSUME Bad # {}  PROVE FALSE
  <2>1. Bad \in SUBSET Nat  BY <1>1
  <2>2. PICK j \in Bad : \A e \in Bad : j <= e
    <3>. HIDE DEF Bad
    <3>. QED  BY <1>2, <2>1, LeastElement
  <2>3. PICK x \in tree(path, TRUE)[j] : ~ Reached(x, j)  BY <2>2, Zenon DEF Strays
  <2>4. CASE j = 0
    <3>1. x = NULL
      <4>1. tree(path, TRUE)[0] = {NULL}  BY TreeUnfolds, Zenon
      <4>. QED  BY <2>3, <2>4, <4>1, Zenon
    <3>2. SubSeq(path, 0 + 1, 0) = <<>>  BY SubSeqEmpty
    <3>3. From(NULL, 0, 0)  BY <3>2, BundlePathStep, Zenon DEF From
    <3>. QED  BY <1>1, <2>3, <2>4, <3>1, <3>3 DEF Reached
  <2>5. CASE j # 0
    <3>1. /\ j \in 1..Len(path) /\ j - 1 \in 0..Len(path) /\ j - 1 \notin Bad
      BY <1>1, <2>1, <2>2, <2>5
    <3>2. tree(path, TRUE)[j]
            = UNION {Joined(id, path[j], TRUE) : id \in tree(path, TRUE)[j - 1]}
      BY <3>1, TreeUnfolds, Zenon
    <3>3. PICK id \in tree(path, TRUE)[j - 1] : x \in Joined(id, path[j], TRUE)
      BY <2>3, <3>2, Zenon
    <3>4. Reached(id, j - 1)  BY <3>1, <3>3, Zenon DEF Strays
    <3>5. PICK k \in 0..(j - 1) : From(id, j - 1, k)  BY <3>4 DEF Reached
    <3>6. CASE x \in Children(id, path[j])
      <4>1. x \in DOMAIN bundles /\ bundles[x].name = path[j] /\ bundles[x].parent = id
        BY <3>6 DEF Children
      <4>2. k \in 0..j /\ k + 1 \in 1..j  BY <3>1
      <4>3. SubSeq(path, k + 1, j) = Append(SubSeq(path, k + 1, j - 1), path[j])
        BY <3>1, <4>2, SubSeqGrows
      <4>4. BundlePath[x] = Append(BundlePath[id], path[j])
        BY <4>1, BundlePathStep, Zenon
      <4>5. BundlePath[id] = SubSeq(path, k + 1, j - 1)  BY <3>5 DEF From
      <4>6. BundlePath[x] = SubSeq(path, k + 1, j)  BY <4>3, <4>4, <4>5, Zenon
      <4>7. From(x, j, k)  BY <3>5, <4>6 DEF From
      <4>8. x \in 0..Len(bundles)  BY <1>1, <4>1
      <4>. QED  BY <2>3, <4>2, <4>7, <4>8 DEF Reached
    <3>7. CASE x \notin Children(id, path[j])
      <4>1. x = NULL  BY <3>3, <3>7 DEF Joined
      <4>2. SubSeq(path, j + 1, j) = <<>>
        <5>1. j \in Int /\ j + 1 \in Int /\ j < j + 1  BY <3>1
        <5>. QED  BY <5>1, SubSeqEmpty
      <4>3. SubSeq(path, 1, j) \in Seq(Names) /\ SubSeq(path, 1, j) # <<>>
        <5>1. 1 \in 1..j  BY <3>1
        <5>2. /\ path[j] \in Names /\ SubSeq(path, 1, j - 1) \in Seq(Names)
              /\ SubSeq(path, 1, j) = Append(SubSeq(path, 1, j - 1), path[j])
          BY <3>1, <5>1, SubSeqGrows
        <5>3. /\ Append(SubSeq(path, 1, j - 1), path[j]) \in Seq(Names)
              /\ Append(SubSeq(path, 1, j - 1), path[j]) # <<>>
          BY <5>2, AppendProperties
        <5>. QED  BY <5>2, <5>3, Zenon
      <4>4. ASSUME NEW b \in 0..Len(bundles), BundlePath[b] = SubSeq(path, 1, j)
            PROVE  FALSE
        <5>1. tree(path, TRUE)[j] = {b}  BY <3>1, <4>4, LeftTreeFollowsPath, Zenon
        <5>2. b = NULL  BY <2>3, <4>1, <5>1, Zenon
        <5>. QED  BY <4>3, <4>4, <5>2, BundlePathStep
      <4>5. bundle_id_from_path(SubSeq(path, 1, j)) = Invalid
        <5>1. /\ \A b \in 0..Len(bundles) :
                   bundle_id_from_path(SubSeq(path, 1, j)) = b
                     <=> BundlePath[b] = SubSeq(path, 1, j)
              /\ bundle_id_from_path(SubSeq(path, 1, j)) \in 0..Len(bundles) \cup {Invalid}
          BY <4>3, BundleFound, Zenon
        <5>. QED  BY <4>4, <5>1
      <4>6. From(x, j, j)  BY <4>1, <4>2, <4>5, BundlePathStep, Zenon DEF From
      <4>7. j \in 0..j  BY <3>1
      <4>. QED  BY <1>1, <2>3, <4>1, <4>6, <4>7 DEF Reached
    <3>. QED  BY <3>6, <3>7
  <2>. QED  BY <2>4, <2>5
<1>3. Reached(r, n)  BY <1>2, Zenon DEF Strays
<1>. QED  BY <1>3 DEF Reached, From
(* A category's own path, and what it is made of.                          *)
LEMMA CategoryTyped ==
  ASSUME CatalogueInv, NEW c \in DOMAIN categories
  PROVE  /\ c \in Nat /\ c # NULL /\ categories[c].name \in Names
         /\ categories[c].bundle \in 0..Len(bundles)
         /\ BundlePath[categories[c].bundle] \in Seq(Names)
<1>1. Len(categories) \in Nat /\ DOMAIN categories = 1..Len(categories)
  BY DEF CatalogueInv
<1>2. categories[c] \in [name : Names, bundle : Nat]
  BY <1>1, ElementOfSeq, Zenon DEF CatalogueInv
<1>3. categories[c].bundle \in 0..Len(bundles)  BY DEF CatalogueInv
<1>. QED  BY <1>1, <1>2, <1>3, BundlePathTyped DEF NULL

(* A category is found by its own path.                                    *)
LEMMA CategoryFound ==
  ASSUME CatalogueInv, NEW c \in DOMAIN categories,
         NEW q \in Seq(Names), NEW m \in Names,
         BundlePath[categories[c].bundle] = q, categories[c].name = m
  PROVE  category_id_from_path(Append(q, m)) = c
<1>. DEFINE path == Append(q, m)
            found == {d \in DOMAIN categories :
                        /\ categories[d].name = path[Len(path)]
                        /\ categories[d].bundle \in tree(path, TRUE)[Len(path) - 1]}
<1>1. /\ path \in Seq(Names) /\ path # <<>> /\ Len(path) = Len(q) + 1
      /\ path[Len(path)] = m /\ Len(q) \in Nat
  BY AppendProperties, LenProperties
<1>2. SubSeq(path, 1, Len(q)) = q
  <2>1. \A i \in 1..Len(q) : path[i] = q[i]  BY AppendProperties
  <2>. HIDE DEF path
  <2>. QED  BY <1>1, <2>1
<1>. HIDE DEF path
<1>3. Len(q) \in 0..Len(path) /\ Len(path) - 1 = Len(q)  BY <1>1
<1>4. categories[c].bundle \in 0..Len(bundles)  BY CategoryTyped
<1>5. tree(path, TRUE)[Len(q)] = {categories[c].bundle}
  <2>1. path \in Seq(Names) /\ BundlePath[categories[c].bundle] = SubSeq(path, 1, Len(q))
    BY <1>1, <1>2
  <2>2. \A n \in 0..Len(path), b \in 0..Len(bundles) :
          BundlePath[b] = SubSeq(path, 1, n) => tree(path, TRUE)[n] = {b}
    BY <2>1, LeftTreeFollowsPath, Zenon
  <2>. DEFINE d == categories[c].bundle
              T == tree(path, TRUE)
  <2>3. d \in 0..Len(bundles) /\ BundlePath[d] = SubSeq(path, 1, Len(q))
    BY <1>4, <2>1
  <2>4. \A b \in 0..Len(bundles) :
          BundlePath[b] = SubSeq(path, 1, Len(q)) => T[Len(q)] = {b}
    BY <1>3, <2>2, Zenon
  <2>. HIDE DEF d, T
  <2>5. T[Len(q)] = {d}  BY <2>3, <2>4
  <2>. QED  BY <2>5, Zenon DEF d, T
<1>6. found = {c}
  <2>1. found = {d \in DOMAIN categories :
                   categories[d].name = m /\ categories[d].bundle \in {categories[c].bundle}}
    BY <1>1, <1>3, <1>5, Zenon
  <2>. HIDE DEF found
  <2>. QED  BY <2>1 DEF CatalogueInv
<1>7. category_id_from_path(path) = First(found)
  BY <1>1, Zenon DEF category_id_from_path
<1>. HIDE DEF found
<1>8. First({c}) = c
  <2>1. {c} \in SUBSET Nat  BY CategoryTyped
  <2>2. First({c}) \in {c}  BY <2>1, FirstChooses, Zenon
  <2>. QED  BY <2>2
<1>. QED  BY <1>6, <1>7, <1>8 DEF path

(* Whatever category a path leads to, its own path is the end of it, after *)
(* nothing or after the path of no bundle.                                 *)
LEMMA CategoryOrigin ==
  ASSUME CatalogueInv, NEW path \in Seq(Names), category_id_from_path(path) # Invalid
  PROVE  /\ category_id_from_path(path) \in DOMAIN categories
         /\ \E k \in 0..(Len(path) - 1) :
              /\ SubSeq(path, k + 1, Len(path)) = CategoryPath(category_id_from_path(path))
              /\ k = 0 \/ bundle_id_from_path(SubSeq(path, 1, k)) = Invalid
<1>. DEFINE c == category_id_from_path(path)
            found == {d \in DOMAIN categories :
                        /\ categories[d].name = path[Len(path)]
                        /\ categories[d].bundle \in tree(path, TRUE)[Len(path) - 1]}
<1>1. path # <<>> /\ c = First(found)
  BY Zenon DEF category_id_from_path
<1>2. c # Invalid  OBVIOUS
<1>3. Len(path) \in Nat /\ Len(path) \in 1..Len(path) /\ Len(path) - 1 \in 0..Len(path)
  BY <1>1, EmptySeq, LenProperties
<1>4. c \in found
  <2>1. DOMAIN categories \in SUBSET Nat  BY CategoryTyped
  <2>2. found \in SUBSET Nat  BY <2>1, Zenon
  <2>. HIDE DEF c, found
  <2>. QED  BY <1>1, <1>2, <2>2, FirstChooses
<1>. HIDE DEF c
<1>5. /\ c \in DOMAIN categories /\ categories[c].name = path[Len(path)]
      /\ categories[c].bundle \in tree(path, TRUE)[Len(path) - 1]
  BY <1>4, Zenon
<1>6. PICK k \in 0..(Len(path) - 1) :
           /\ BundlePath[categories[c].bundle] = SubSeq(path, k + 1, Len(path) - 1)
           /\ k = 0 \/ bundle_id_from_path(SubSeq(path, 1, k)) = Invalid
  BY <1>3, <1>5, LeftTreeOrigin, Zenon
<1>7. SubSeq(path, k + 1, Len(path))
        = Append(SubSeq(path, k + 1, Len(path) - 1), path[Len(path)])
  <2>1. k + 1 \in 1..Len(path)  BY <1>3
  <2>. QED  BY <1>3, <2>1, SubSeqGrows, Zenon
<1>8. SubSeq(path, k + 1, Len(path)) = CategoryPath(c)
  BY <1>5, <1>6, <1>7, Zenon DEF CategoryPath
<1>. QED  BY <1>5, <1>6, <1>8, Zenon DEF c

(* Every catalogue that the unique indexes and foreign keys allow resolves *)
(* its paths.                                                              *)
LEMMA CatalogueResolves ==
  ASSUME CatalogueInv
  PROVE  PathsResolve
<1>1. ASSUME NEW path \in Paths  PROVE path \in Seq(Names)
  <2>1. PICK n \in 0..MaxDepth : path \in [1..n -> Names]  BY DEF Paths
  <2>2. n \in Nat  BY NewsAssumption
  <2>. QED  BY <2>1, <2>2
<1>2. \A path \in Paths, b \in 0..Len(bundles) :
        bundle_id_from_path(path) = b <=> BundlePath[b] = path
  BY <1>1, BundleFound
<1>3. \A c \in DOMAIN categories : category_id_from_path(CategoryPath(c)) = c
  BY CategoryTyped, CategoryFound DEF CategoryPath
<1>4. ASSUME NEW path \in Paths,
             category_id_from_path(path) # Invalid,
             path # CategoryPath(category_id_from_path(path))
      PROVE  \E k \in 1..(Len(path) - 1) :
               /\ SubSeq(path, k + 1, Len(path)) = CategoryPath(category_id_from_path(path))
               /\ bundle_id_from_path(SubSeq(path, 1, k)) = Invalid
  <2>1. path \in Seq(Names)  BY <1>1
  <2>2. PICK k \in 0..(Len(path) - 1) :
              /\ SubSeq(path, k + 1, Len(path)) = CategoryPath(category_id_from_path(path))
              /\ k = 0 \/ bundle_id_from_path(SubSeq(path, 1, k)) = Invalid
    BY <1>4, <2>1, CategoryOrigin
  <2>3. k # 0
    <3>1. SubSeq(path, 1, Len(path)) = path  BY <2>1, SubSeqFull
    <3>2. ASSUME k = 0  PROVE k + 1 = 1  BY <3>2
    <3>. QED  BY <1>4, <2>2, <3>1, <3>2, Zenon
  <2>4. k \in 1..(Len(path) - 1)
    <3>1. Len(path) \in Nat  BY <2>1, LenProperties
    <3>. QED  BY <2>3, <3>1
  <2>. QED  BY <2>2, <2>3, <2>4
<1>5. ASSUME NEW path \in Paths, NEW n \in handle_category_list(path).listed
      PROVE  \/ bundle_id_from_path(Append(path, n)) # Invalid
             \/ category_id_from_path(Append(path, n)) # Invalid
  <2>. DEFINE id == bundle_id_from_path(path)
  <2>1. path \in Seq(Names)  BY <1>1
  <2>2. id # Invalid /\ n \in BundleNames(id) \cup CategoryNames(id)
    BY <1>5 DEF handle_category_list, handle_list
  <2>3. id \in 0..Len(bundles) /\ BundlePath[id] = path
    BY <2>1, <2>2, BundleFound
  <2>. HIDE DEF id
  <2>4. CASE n \in BundleNames(id)
    <3>1. PICK b \in DOMAIN bundles : bundles[b].parent = id /\ bundles[b].name = n
      BY <2>4 DEF BundleNames
    <3>2. BundlePath[b] = Append(path, n)  BY <2>3, <3>1, BundlePathStep, Zenon
    <3>3. b \in 0..Len(bundles) /\ n \in Names /\ b # Invalid
      BY <3>1, BundleTyped DEF Invalid
    <3>4. Append(path, n) \in Seq(Names)  BY <2>1, <3>3, AppendProperties
    <3>5. \A q \in Seq(Names) : bundle_id_from_path(q) = b <=> BundlePath[b] = q
      BY <3>3, BundleFound
    <3>. QED  BY <3>2, <3>3, <3>4, <3>5, Zenon
  <2>5. CASE n \in CategoryNames(id)
    <3>1. PICK c \in DOMAIN categories : categories[c].bundle = id /\ categories[c].name = n
      BY <2>5 DEF CategoryNames
    <3>2. n \in Names /\ c # Invalid  BY <3>1, CategoryTyped DEF Invalid
    <3>3. category_id_from_path(Append(path, n)) = c
      BY <2>1, <2>3, <3>1, <3>2, CategoryFound
    <3>. QED  BY <3>2, <3>3
  <2>. QED  BY <2>2, <2>4, <2>5
<1>. QED  BY <1>2, <1>3, <1>4, <1>5 DEF PathsResolve
----------------------------------------------------------------------------
(* The inductive invariant.                                                *)

ArticleRow == [category : Nat, prev : Nat, next : Nat, posted_at : Nat]

PostRow ==
  [at : {"idle", "located", "read", "inserted", "linked"}, category : Nat,
   last : Nat, id : Nat, posted_at : Nat, stale : BOOLEAN]

NewsTyped ==
  /\ backend \in {"sqlite", "postgres"}
  /\ next_id \in Nat \ {0}
  /\ clock \in Nat
  /\ articles \in [DOMAIN articles -> ArticleRow]
  /\ DOMAIN articles \subseteq 1..(next_id - 1)
  /\ post \in [Posters -> PostRow]
  /\ acked \subseteq DOMAIN articles

(* A committed article is in a category; its links stay in that category,  *)
(* back to an older one, and forward to one that links back.               *)
RowsInv ==
  \A a \in DOMAIN articles :
    /\ articles[a].category \in DOMAIN categories
    /\ articles[a].posted_at <= clock
    /\ articles[a].prev # NULL =>
         /\ articles[a].prev \in RootArticles(articles[a].category)
         /\ articles[a].prev < a
         /\ articles[articles[a].prev].posted_at <= articles[a].posted_at
         /\ articles[articles[a].prev].next # NULL
    /\ articles[a].next # NULL =>
         /\ articles[a].next \in RootArticles(articles[a].category)
         /\ articles[articles[a].next].prev = a

(* What an open post has read still holds of the committed rows, and the   *)
(* id it has been given is its own: on SQLite, the next one, so that only  *)
(* one post at a time writes.                                              *)
PostInv(p) ==
  /\ post[p].at # "idle" => post[p].category \in DOMAIN categories
  /\ post[p].at \in {"read", "inserted", "linked"} =>
       post[p].last \in RootArticles(post[p].category) \cup {NULL}
  /\ p \in Writing =>
       /\ post[p].id \notin DOMAIN articles
       /\ post[p].last < post[p].id
       /\ post[p].posted_at <= clock
       /\ post[p].last # NULL => articles[post[p].last].posted_at <= post[p].posted_at
       /\ IF backend = "sqlite" THEN post[p].id = next_id ELSE post[p].id < next_id
       /\ \A q \in Writing : post[q].id = post[p].id => q = p
  /\ backend = "sqlite" /\ (p \in Writing \/ (post[p].at = "read" /\ ~post[p].stale)) =>
       \A a \in RootArticles(post[p].category) : a <= post[p].last

PostsInv == \A p \in Posters : PostInv(p)

(* On SQLite no article of the category lies between one and its prev or   *)
(* its next.                                                               *)
OrderInv ==
  backend = "sqlite" =>
    \A a, b \in DOMAIN articles :
      articles[a].category = articles[b].category /\ b < a =>
        /\ b <= articles[a].prev
        /\ articles[b].next # NULL /\ articles[b].next <= a

NewsInv ==
  /\ CatalogueInv
  /\ NewsTyped
  /\ RowsInv
  /\ PostsInv
  /\ OrderInv

(* The greatest of a bounded set of naturals.                              *)
LEMMA MaxOf ==
  ASSUME NEW n \in Nat, NEW S \in SUBSET (0..n), S # {}
  PROVE  Max(S) \in S /\ \A x \in S : x <= Max(S)
<1>. DEFINE T == {k \in 0..n : n - k \in S}
<1>1. \A x \in S : n - x \in T  OBVIOUS
<1>2. T \in SUBSET Nat /\ T # {}
  <2>1. PICK x \in S : TRUE  BY Zenon
  <2>2. n - x \in T  BY <1>1
  <2>3. T \in SUBSET Nat  OBVIOUS
  <2>. HIDE DEF T
  <2>. QED  BY <2>2, <2>3
<1>3. PICK k \in T : \A j \in T : k <= j
  <2>. HIDE DEF T
  <2>. QED  BY <1>2, LeastElement
<1>4. n - k \in S /\ \A x \in S : x <= n - k  BY <1>1, <1>3
<1>. QED  BY <1>4, Zenon DEF Max

(* The first state.                                                        *)
LEMMA NewsInvInit == NewsInit => NewsInv
<1>. SUFFICES ASSUME NewsInit  PROVE NewsInv  OBVIOUS
<1>1. CatalogueInv  BY DEF NewsInit, CatalogueInv
<1>2. NewsTyped
  <2>1. DOMAIN articles = {} /\ articles \in [{} -> ArticleRow]  BY DEF NewsInit
  <2>2. NoPost \in PostRow  BY DEF NoPost, PostRow, NULL
  <2>. QED  BY <2>1, <2>2 DEF NewsInit, NewsTyped
<1>3. RowsInv /\ OrderInv  BY DEF NewsInit, RowsInv, OrderInv
<1>4. PostsInv
  BY DEF NewsInit, PostsInv, PostInv, Writing, NoPost
<1>. QED  BY <1>1, <1>2, <1>3, <1>4 DEF NewsInv

(* What the invariant says of the rows does not depend on the posts.       *)
LEMMA RowsKept ==
  ASSUME RowsInv, OrderInv, UNCHANGED <<backend, articles, clock>>,
         \A c \in DOMAIN categories : c \in (DOMAIN categories)'
  PROVE  RowsInv' /\ OrderInv'
BY DEF RowsInv, OrderInv, RootArticles

(* A commit to the catalogue overtakes the open posts.                     *)
LEMMA PostsOvertaken ==
  ASSUME NewsTyped, PostsInv, post' = Overtake(post),
         UNCHANGED <<backend, articles, next_id, clock, acked>>,
         \A c \in DOMAIN categories : c \in (DOMAIN categories)'
  PROVE  NewsTyped' /\ PostsInv'
<1>1. ASSUME NEW p \in Posters
      PROVE  /\ post'[p].at = post[p].at /\ post'[p].category = post[p].category
             /\ post'[p].last = post[p].last /\ post'[p].id = post[p].id
             /\ post'[p].posted_at = post[p].posted_at
             /\ backend = "sqlite" /\ post[p].at # "idle" => post'[p].stale
             /\ post'[p] \in PostRow
  BY Zenon DEF NewsTyped, Overtake, PostRow
<1>2. NewsTyped'
  <2>1. post' \in [Posters -> PostRow]  BY <1>1 DEF Overtake
  <2>. QED  BY <2>1 DEF NewsTyped
<1>3. Writing' = Writing  BY <1>1 DEF Writing
<1>4. PostsInv'
  <2>. SUFFICES ASSUME NEW p \in Posters  PROVE PostInv(p)'  BY DEF PostsInv
  <2>1. PostInv(p)  BY DEF PostsInv
  <2>2. \A k : RootArticles(k)' = RootArticles(k)  BY DEF RootArticles
  <2>3. \A q \in Writing : q \in Posters  BY DEF Writing
  <2>. QED  BY <1>1, <1>3, <2>1, <2>2, <2>3 DEF PostInv, RootArticles
<1>. QED  BY <1>2, <1>4
(* The two statements that extend the catalogue keep its indexes.          *)
LEMMA CreateKeeps ==
  ASSUME NewsInv, NEW name \in Names, NEW parent \in {NULL} \cup DOMAIN bundles,
         create_bundle(name, parent) \/ create_category(name, parent)
  PROVE  NewsInv'
<1>1. CatalogueInv /\ NewsTyped /\ RowsInv /\ PostsInv /\ OrderInv  BY DEF NewsInv
<1>2. /\ DOMAIN bundles = 1..Len(bundles) /\ DOMAIN categories = 1..Len(categories)
      /\ Len(bundles) \in Nat /\ Len(categories) \in Nat
      /\ parent \in 0..Len(bundles)
  BY <1>1 DEF CatalogueInv, NULL
<1>3. CASE create_bundle(name, parent)
  <2>1. /\ bundles' = Append(bundles, NewBundle(name, parent))
        /\ post' = Overtake(post) /\ Children(parent, name) = {}
        /\ UNCHANGED <<backend, categories, articles, next_id, clock, acked>>
    BY <1>3 DEF create_bundle
  <2>2. NewBundle(name, parent) \in [name : Names, parent : Nat]
    BY <1>2 DEF NewBundle
  <2>3. /\ bundles' \in Seq([name : Names, parent : Nat]) /\ Len(bundles') = Len(bundles) + 1
        /\ \A b \in 1..Len(bundles) : bundles'[b] = bundles[b]
        /\ bundles'[Len(bundles) + 1].name = name
        /\ bundles'[Len(bundles) + 1].parent = parent
        /\ DOMAIN bundles' = 1..(Len(bundles) + 1)
    <3>1. bundles \in Seq([name : Names, parent : Nat])  BY <1>1 DEF CatalogueInv
    <3>2. /\ bundles' \in Seq([name : Names, parent : Nat])
          /\ Len(bundles') = Len(bundles) + 1
          /\ \A b \in 1..Len(bundles) : bundles'[b] = bundles[b]
          /\ bundles'[Len(bundles) + 1] = NewBundle(name, parent)
      BY <2>1, <2>2, <3>1, AppendProperties
    <3>. QED  BY <1>2, <3>2 DEF NewBundle
  <2>4. \A b \in DOMAIN bundles : ~(bundles[b].name = name /\ bundles[b].parent = parent)
    BY <2>1 DEF Children
  <2>5. CatalogueInv'
    <3>1. ASSUME NEW b \in DOMAIN bundles'  PROVE bundles'[b].parent < b
      <4>1. CASE b \in DOMAIN bundles  BY <1>1, <1>2, <2>3, <4>1 DEF CatalogueInv
      <4>2. CASE b = Len(bundles) + 1  BY <1>2, <2>3, <4>2
      <4>. QED  BY <1>2, <2>3, <4>1, <4>2
    <3>2. \A b, d \in DOMAIN bundles' :
            bundles'[b].name = bundles'[d].name /\ bundles'[b].parent = bundles'[d].parent
            => b = d
      <4>. SUFFICES ASSUME NEW b \in DOMAIN bundles', NEW d \in DOMAIN bundles',
                           bundles'[b].name = bundles'[d].name,
                           bundles'[b].parent = bundles'[d].parent
                    PROVE  b = d
        OBVIOUS
      <4>1. /\ b \in DOMAIN bundles \/ b = Len(bundles) + 1
            /\ d \in DOMAIN bundles \/ d = Len(bundles) + 1
        BY <1>2, <2>3
      <4>. QED  BY <1>1, <1>2, <2>3, <2>4, <4>1, ZenonT(40) DEF CatalogueInv
    <3>3. \A c \in DOMAIN categories : categories[c].bundle \in 0..(Len(bundles) + 1)
      BY <1>1, <1>2 DEF CatalogueInv
    <3>. QED  BY <1>1, <2>1, <2>3, <3>1, <3>2, <3>3, Zenon DEF CatalogueInv
  <2>6. RowsInv' /\ OrderInv' /\ NewsTyped' /\ PostsInv'
    BY <1>1, <2>1, RowsKept, PostsOvertaken
  <2>. QED  BY <2>5, <2>6 DEF NewsInv
<1>4. CASE create_category(name, parent)
  <2>1. /\ categories' = Append(categories, NewCategory(name, parent))
        /\ post' = Overtake(post) /\ name \notin CategoryNames(parent)
        /\ UNCHANGED <<backend, bundles, articles, next_id, clock, acked>>
    BY <1>4 DEF create_category
  <2>2. NewCategory(name, parent) \in [name : Names, bundle : Nat]
    BY <1>2 DEF NewCategory
  <2>3. /\ categories' \in Seq([name : Names, bundle : Nat])
        /\ Len(categories') = Len(categories) + 1
        /\ \A c \in 1..Len(categories) : categories'[c] = categories[c]
        /\ categories'[Len(categories) + 1].name = name
        /\ categories'[Len(categories) + 1].bundle = parent
        /\ DOMAIN categories' = 1..(Len(categories) + 1)
    <3>1. categories \in Seq([name : Names, bundle : Nat])  BY <1>1 DEF CatalogueInv
    <3>2. /\ categories' \in Seq([name : Names, bundle : Nat])
          /\ Len(categories') = Len(categories) + 1
          /\ \A c \in 1..Len(categories) : categories'[c] = categories[c]
          /\ categories'[Len(categories) + 1] = NewCategory(name, parent)
      BY <2>1, <2>2, <3>1, AppendProperties
    <3>. QED  BY <1>2, <3>2 DEF NewCategory
  <2>4. \A c \in DOMAIN categories :
          ~(categories[c].name = name /\ categories[c].bundle = parent)
    BY <2>1 DEF CategoryNames
  <2>5. CatalogueInv'
    <3>1. ASSUME NEW c \in DOMAIN categories'
          PROVE  categories'[c].bundle \in 0..Len(bundles)
      <4>1. CASE c \in DOMAIN categories  BY <1>1, <1>2, <2>3, <4>1, SMTT(30) DEF CatalogueInv
      <4>2. CASE c = Len(categories) + 1  BY <1>2, <2>3, <4>2
      <4>. QED  BY <1>2, <2>3, <4>1, <4>2
    <3>2. \A c, d \in DOMAIN categories' :
            categories'[c].name = categories'[d].name
              /\ categories'[c].bundle = categories'[d].bundle => c = d
      <4>. SUFFICES ASSUME NEW c \in DOMAIN categories', NEW d \in DOMAIN categories',
                           categories'[c].name = categories'[d].name,
                           categories'[c].bundle = categories'[d].bundle
                    PROVE  c = d
        OBVIOUS
      <4>1. /\ c \in DOMAIN categories \/ c = Len(categories) + 1
            /\ d \in DOMAIN categories \/ d = Len(categories) + 1
        BY <1>2, <2>3
      <4>. QED  BY <1>1, <1>2, <2>3, <2>4, <4>1, Zenon DEF CatalogueInv
    <3>. QED  BY <1>1, <2>1, <2>3, <3>1, <3>2, Zenon DEF CatalogueInv
  <2>6. \A c \in DOMAIN categories : c \in (DOMAIN categories)'  BY <1>2, <2>3
  <2>7. RowsInv' /\ OrderInv' /\ NewsTyped' /\ PostsInv'
    BY <1>1, <2>1, <2>6, RowsKept, PostsOvertaken
  <2>. QED  BY <2>5, <2>7 DEF NewsInv
<1>. QED  BY <1>3, <1>4
(* A statement that only moves one post on keeps what holds of the others, *)
(* unless it takes an id.                                                  *)
LEMMA OnePostMoves ==
  ASSUME NewsInv, NEW p \in Posters, NEW row \in PostRow,
         post' = [post EXCEPT ![p] = row],
         UNCHANGED <<backend, bundles, categories, articles, next_id, clock, acked>>,
         row.at \in {"inserted", "linked"} => p \in Writing /\ row.id = post[p].id,
         PostInv(p)'
  PROVE  NewsInv'
<1>1. CatalogueInv /\ NewsTyped /\ RowsInv /\ PostsInv /\ OrderInv  BY DEF NewsInv
<1>2. CatalogueInv' /\ RowsInv' /\ OrderInv'
  BY <1>1, RowsKept DEF CatalogueInv
<1>3. NewsTyped'  BY <1>1 DEF NewsTyped
<1>4. post'[p] = row /\ \A q \in Posters \ {p} : post'[q] = post[q]
  BY <1>1 DEF NewsTyped
<1>5. \A q \in Writing' : q \in Writing /\ post'[q].id = post[q].id
  BY <1>4, SMTT(30) DEF Writing
<1>6. ASSUME NEW q \in Posters \ {p}  PROVE PostInv(q)'
  <2>1. PostInv(q)  BY <1>1 DEF PostsInv
  <2>2. q \in Writing <=> q \in Writing'  BY <1>4 DEF Writing
  <2>. QED  BY <1>4, <1>5, <2>1, <2>2 DEF PostInv, RootArticles
<1>7. PostsInv'  BY <1>6 DEF PostsInv
<1>. QED  BY <1>2, <1>3, <1>7 DEF NewsInv

(* Opening a post.                                                         *)
LEMMA OpenKeeps ==
  ASSUME NewsInv, NEW p \in Posters, NEW path \in Paths, process_post_article(p, path)
  PROVE  NewsInv'
<1>. DEFINE row == [NoPost EXCEPT !.at = "located", !.category = category_id_from_path(path)]
<1>1. CatalogueInv /\ NewsTyped  BY DEF NewsInv
<1>2. path \in Seq(Names)
  <2>1. PICK n \in 0..MaxDepth : path \in [1..n -> Names]  BY DEF Paths
  <2>2. n \in Nat  BY NewsAssumption
  <2>. QED  BY <2>1, <2>2
<1>3. category_id_from_path(path) \in DOMAIN categories
  BY <1>1, <1>2, CategoryOrigin DEF process_post_article
<1>4. category_id_from_path(path) \in Nat  BY <1>1, <1>3, CategoryTyped
<1>5. /\ row.at = "located" /\ row.category = category_id_from_path(path)
      /\ row \in PostRow
  BY <1>4, Zenon DEF NoPost, PostRow, NULL
<1>6. /\ post' = [post EXCEPT ![p] = row]
      /\ UNCHANGED <<backend, bundles, categories, articles, next_id, clock, acked>>
  BY DEF process_post_article
<1>7. post'[p] = row  BY <1>1, <1>6 DEF NewsTyped
<1>. HIDE DEF row
<1>8. PostInv(p)'  BY <1>3, <1>5, <1>6, <1>7 DEF PostInv, Writing
<1>. QED  BY <1>5, <1>6, <1>8, OnePostMoves, Zenon

(* Reading the last article of the category.                               *)
LEMMA ReadKeeps ==
  ASSUME NewsInv, NEW p \in Posters, get_last_root_article_id(p)
  PROVE  NewsInv'
<1>. DEFINE last == LastRootArticle(post[p].category)
            row == [post[p] EXCEPT !.at = "read", !.last = last]
            seen == RootArticles(post[p].category) \cup {NULL}
<1>1. NewsTyped /\ PostInv(p)  BY DEF NewsInv, PostsInv
<1>2. last \in seen /\ \A a \in seen : a <= last
  <2>1. next_id \in Nat /\ seen \in SUBSET (0..next_id) /\ seen # {}
    BY <1>1 DEF NewsTyped, RootArticles, NULL
  <2>2. last = Max(seen)  BY DEF LastRootArticle
  <2>. HIDE DEF seen, last
  <2>. QED  BY <2>1, <2>2, MaxOf
<1>3. last \in Nat  BY <1>1, <1>2 DEF NewsTyped, RootArticles, NULL
<1>. HIDE DEF last
<1>4. post[p] \in PostRow  BY <1>1 DEF NewsTyped
<1>5. /\ row.at = "read" /\ row.last = last /\ row.category = post[p].category
      /\ row \in PostRow
  BY <1>3, <1>4, Zenon DEF PostRow
<1>6. /\ post' = [post EXCEPT ![p] = row] /\ post[p].at = "located"
      /\ UNCHANGED <<backend, bundles, categories, articles, next_id, clock, acked>>
  BY <1>1, Zenon DEF get_last_root_article_id, last, NewsTyped
<1>7. post'[p] = row  BY <1>1, <1>6 DEF NewsTyped
<1>. HIDE DEF row
<1>8. PostInv(p)'
  BY <1>1, <1>2, <1>5, <1>6, <1>7 DEF PostInv, Writing, RootArticles
<1>. QED  BY <1>5, <1>6, <1>8, OnePostMoves, Zenon

(* Taking the row lock of the last article.                                *)
LEMMA LinkKeeps ==
  ASSUME NewsInv, NEW p \in Posters, link_prev_to_new(p)
  PROVE  NewsInv'
<1>. DEFINE row == [post[p] EXCEPT !.at = "linked"]
<1>1. NewsTyped /\ PostInv(p)  BY DEF NewsInv, PostsInv
<1>4. post[p] \in PostRow  BY <1>1 DEF NewsTyped
<1>5. /\ row.at = "linked" /\ row.last = post[p].last /\ row.category = post[p].category
      /\ row.id = post[p].id /\ row.posted_at = post[p].posted_at
      /\ row \in PostRow
  BY <1>4 DEF PostRow
<1>6. /\ post' = [post EXCEPT ![p] = row] /\ post[p].at = "inserted"
      /\ UNCHANGED <<backend, bundles, categories, articles, next_id, clock, acked>>
  BY <1>1 DEF link_prev_to_new, NewsTyped
<1>7. post'[p] = row /\ \A q \in Posters \ {p} : post'[q] = post[q]
  BY <1>1, <1>6 DEF NewsTyped
<1>. HIDE DEF row
<1>8. p \in Writing /\ Writing' = Writing  BY <1>5, <1>6, <1>7 DEF Writing
<1>9. \A q \in Writing : q \in Posters  BY DEF Writing
<1>10. PostInv(p)'
  BY <1>1, <1>5, <1>6, <1>7, <1>8, <1>9 DEF PostInv, RootArticles
<1>. QED  BY <1>5, <1>6, <1>8, <1>10, OnePostMoves, Zenon

(* Giving up, for whatever reason.                                         *)
LEMMA RollbackKeeps ==
  ASSUME NewsInv, NEW p \in Posters, Rollback(p)
  PROVE  NewsInv'
<1>1. NoPost \in PostRow /\ NoPost.at = "idle"  BY DEF NoPost, PostRow, NULL
<1>2. post'[p] = NoPost  BY DEF Rollback, NewsInv, NewsTyped
<1>3. PostInv(p)'  BY <1>1, <1>2 DEF PostInv, Writing
<1>. QED  BY <1>1, <1>3, OnePostMoves, Zenon DEF Rollback
(* Inserting the row takes an id that no other post has.                   *)
LEMMA InsertKeeps ==
  ASSUME NewsInv, NEW p \in Posters, insert_new_article(p)
  PROVE  NewsInv'
<1>. DEFINE row == [post[p] EXCEPT !.at = IF post[p].last = NULL THEN "linked" ELSE "inserted",
                                   !.id = next_id, !.posted_at = clock']
<1>1. CatalogueInv /\ NewsTyped /\ RowsInv /\ PostsInv /\ OrderInv  BY DEF NewsInv
<1>2. PostInv(p) /\ post[p] \in PostRow  BY <1>1 DEF PostsInv, NewsTyped
<1>3. /\ post[p].at = "read" /\ MayWrite(p)
      /\ next_id' = IF backend = "postgres" THEN next_id + 1 ELSE next_id
      /\ UNCHANGED <<backend, bundles, categories, articles, acked>>
  BY DEF insert_new_article
<1>4. clock \in Nat /\ clock' \in Nat /\ clock <= clock'
  BY <1>1, NewsAssumption DEF insert_new_article, NewsTyped
<1>5. next_id \in Nat \ {0} /\ next_id' \in Nat \ {0} /\ next_id <= next_id'
  BY <1>1, <1>3 DEF NewsTyped
<1>6. /\ row.at \in {"inserted", "linked"} /\ row.last = post[p].last
      /\ row.category = post[p].category /\ row.id = next_id /\ row.posted_at = clock'
      /\ row \in PostRow
  BY <1>2, <1>4, <1>5, Zenon DEF PostRow
<1>7. post' = [post EXCEPT ![p] = row]
  BY <1>1, Zenon DEF insert_new_article, NewsTyped
<1>8. post'[p] = row /\ \A q \in Posters \ {p} : post'[q] = post[q]
  BY <1>1, <1>7 DEF NewsTyped
<1>9. NewsTyped'
  <2>1. post' \in [Posters -> PostRow]  BY <1>1, <1>6, <1>7 DEF NewsTyped
  <2>2. DOMAIN articles \subseteq 1..(next_id' - 1)
    <3>1. ASSUME NEW a \in DOMAIN articles  PROVE a \in 1..(next_id' - 1)
      <4>1. a \in Nat /\ 1 <= a /\ a < next_id  BY <1>1, <1>5 DEF NewsTyped
      <4>2. a < next_id'  BY <1>5, <4>1
      <4>. QED  BY <1>5, <4>1, <4>2
    <3>. QED  BY <3>1
  <2>. HIDE DEF row
  <2>. QED  BY <1>1, <1>3, <1>4, <1>5, <2>1, <2>2 DEF NewsTyped
<1>. HIDE DEF row
<1>10. CatalogueInv'  BY <1>1, <1>3 DEF CatalogueInv
<1>11. OrderInv'  BY <1>1, <1>3 DEF OrderInv
<1>12. \A a \in DOMAIN articles : articles[a].posted_at \in Nat /\ a \in Nat /\ a < next_id
  BY <1>1, <1>5 DEF NewsTyped, ArticleRow
<1>13. RowsInv'  BY <1>1, <1>3, <1>4, <1>12 DEF RowsInv, RootArticles
<1>14. /\ p \in Writing' /\ Writing' = Writing \cup {p}
       /\ backend = "sqlite" => Writing = {}
  BY <1>3, <1>6, <1>8 DEF Writing, MayWrite
<1>15. \A q \in Writing : q \in Posters /\ q # p  BY <1>3 DEF Writing
<1>16. ASSUME NEW q \in Writing  PROVE post[q].id < next_id /\ post'[q] = post[q]
  <2>1. PostInv(q) /\ q \in Posters \ {p}  BY <1>1, <1>15 DEF PostsInv
  <2>. QED  BY <1>8, <1>14, <2>1 DEF PostInv
<1>17. PostInv(p)'
  <2>1. post[p].last \in RootArticles(post[p].category) \cup {NULL}
    BY <1>2, <1>3 DEF PostInv
  <2>2. next_id \notin DOMAIN articles /\ post[p].last < next_id
    BY <1>5, <1>12, <2>1 DEF RootArticles, NULL
  <2>3. post[p].last # NULL => articles[post[p].last].posted_at <= clock'
    <3>1. ASSUME post[p].last # NULL
          PROVE  post[p].last \in DOMAIN articles /\ articles[post[p].last].posted_at <= clock
      BY <1>1, <2>1, <3>1 DEF RootArticles, RowsInv
    <3>. QED  BY <1>4, <1>12, <3>1
  <2>4. \A q \in Writing' : post'[q].id = post'[p].id => q = p
    <3>1. \A q \in Writing : post[q].id \in Nat  BY <1>1, <1>15 DEF NewsTyped, PostRow
    <3>. QED  BY <1>5, <1>6, <1>8, <1>14, <1>16, <3>1
  <2>5. backend = "sqlite" => \A a \in RootArticles(post[p].category) : a <= post[p].last
    <3>1. backend = "sqlite" => ~post[p].stale  BY <1>3 DEF MayWrite
    <3>. QED  BY <1>2, <1>3, <3>1 DEF PostInv
  <2>6. IF backend = "sqlite" THEN next_id = next_id' ELSE next_id < next_id'
    BY <1>1, <1>3, <1>5 DEF NewsTyped
  <2>7. post[p].category \in DOMAIN categories  BY <1>2, <1>3, SMTT(30) DEF PostInv
  <2>. QED  BY <1>3, <1>4, <1>6, <1>8, <2>1, <2>2, <2>3, <2>4, <2>5, <2>6, <2>7, SMTT(30)
            DEF PostInv, RootArticles
<1>18. ASSUME NEW q \in Posters \ {p}  PROVE PostInv(q)'
  <2>1. PostInv(q) /\ post'[q] = post[q] /\ post[q] \in PostRow
    BY <1>1, <1>8 DEF PostsInv, NewsTyped
  <2>2. q \in Writing' <=> q \in Writing  BY <1>14
  <2>3. ASSUME q \in Writing
        PROVE  /\ backend # "sqlite" /\ post[q].id < next_id'
               /\ \A r \in Writing' : post'[r].id = post[q].id => r = q
               /\ post[q].posted_at <= clock'
    <3>1. post[q].id \in Nat /\ post[q].posted_at \in Nat  BY <2>1 DEF PostRow
    <3>2. post[q].posted_at <= clock /\ \A r \in Writing : post[r].id = post[q].id => r = q
      BY <2>1, <2>3 DEF PostInv
    <3>3. post[q].id < next_id  BY <2>3, <1>16
    <3>4. post[q].id < next_id' /\ post[q].posted_at <= clock' /\ post[q].id # next_id
      BY <1>4, <1>5, <3>1, <3>2, <3>3
    <3>. QED  BY <1>6, <1>8, <1>14, <1>16, <2>3, <3>2, <3>4
  <2>. QED  BY <1>3, <2>1, <2>2, <2>3 DEF PostInv, RootArticles
<1>19. PostsInv'  BY <1>17, <1>18 DEF PostsInv
<1>. QED  BY <1>9, <1>10, <1>11, <1>13, <1>19 DEF NewsInv

(* What a commit does to the rows.                                         *)
LEMMA CommitWrites ==
  ASSUME NewsInv, NEW p \in Posters, NEW answered \in BOOLEAN, Commit(p, answered)
  PROVE  /\ post[p].id \in Nat \ {0} /\ post[p].id \notin DOMAIN articles
         /\ post[p].last \in RootArticles(post[p].category) \cup {NULL}
         /\ DOMAIN articles' = DOMAIN articles \cup {post[p].id}
         /\ articles' \in [DOMAIN articles' -> ArticleRow]
         /\ articles'[post[p].id] = NewRow(p)
         /\ \A a \in DOMAIN articles :
              /\ articles'[a] = [articles[a] EXCEPT !.next = articles'[a].next]
              /\ articles'[a].next = IF a = post[p].last THEN post[p].id ELSE articles[a].next
              /\ articles'[a].category = articles[a].category
              /\ articles'[a].prev = articles[a].prev
              /\ articles'[a].posted_at = articles[a].posted_at
<1>1. NewsTyped /\ PostInv(p) /\ p \in Writing /\ articles' = Written(p)
      /\ post[p].at = "linked"
  BY DEF NewsInv, PostsInv, Commit, Writing
<1>2. post[p] \in PostRow  BY <1>1 DEF NewsTyped
<1>3. /\ post[p].id \in Nat \ {0} /\ post[p].id \notin DOMAIN articles
      /\ post[p].last \in RootArticles(post[p].category) \cup {NULL}
  BY <1>1, <1>2 DEF PostInv, PostRow
<1>4. NewRow(p) \in ArticleRow  BY <1>2 DEF NewRow, ArticleRow, PostRow, NULL
<1>5. /\ DOMAIN articles' = DOMAIN articles \cup {post[p].id}
      /\ articles'[post[p].id] = NewRow(p)
  BY <1>1, Zenon DEF Written
<1>6. ASSUME NEW a \in DOMAIN articles
      PROVE  /\ articles'[a] \in ArticleRow
             /\ articles'[a] = [articles[a] EXCEPT !.next = articles'[a].next]
             /\ articles'[a].next = IF a = post[p].last THEN post[p].id ELSE articles[a].next
             /\ articles'[a].category = articles[a].category
             /\ articles'[a].prev = articles[a].prev
             /\ articles'[a].posted_at = articles[a].posted_at
  <2>1. articles[a] \in ArticleRow /\ a # post[p].id  BY <1>1, <1>3 DEF NewsTyped
  <2>2. articles'[a] = IF a = post[p].last THEN [articles[a] EXCEPT !.next = post[p].id]
                       ELSE articles[a]
    BY <1>1, <2>1, Zenon DEF Written
  <2>. QED  BY <1>3, <2>1, <2>2 DEF ArticleRow
<1>7. articles' \in [DOMAIN articles' -> ArticleRow]
  <2>1. \A a \in DOMAIN articles' : articles'[a] \in ArticleRow  BY <1>4, <1>5, <1>6
  <2>. QED  BY <1>1, <2>1 DEF Written
<1>. QED  BY <1>3, <1>5, <1>6, <1>7

(* Committing keeps the links, the other posts and, on SQLite, the order.  *)
LEMMA CommitKeeps ==
  ASSUME NewsInv, NEW p \in Posters, NEW answered \in BOOLEAN, Commit(p, answered)
  PROVE  NewsInv'
<1>. DEFINE id == post[p].id
            last == post[p].last
            cat == post[p].category
<1>1. CatalogueInv /\ NewsTyped /\ RowsInv /\ PostsInv /\ OrderInv  BY DEF NewsInv
<1>2. PostInv(p) /\ post[p] \in PostRow /\ p \in Writing
  BY <1>1 DEF PostsInv, NewsTyped, Commit, Writing
<1>3. /\ next_id' = IF backend = "postgres" THEN next_id ELSE id + 1
      /\ acked' = IF answered THEN acked \cup {id} ELSE acked
      /\ post' = [Overtake(post) EXCEPT ![p] = NoPost]
      /\ UNCHANGED <<backend, bundles, categories, clock>>
  BY DEF Commit
<1>4. /\ id \in Nat \ {0} /\ id \notin DOMAIN articles
      /\ last \in RootArticles(cat) \cup {NULL}
      /\ DOMAIN articles' = DOMAIN articles \cup {id}
      /\ articles' \in [DOMAIN articles' -> ArticleRow]
      /\ articles'[id] = NewRow(p)
      /\ \A a \in DOMAIN articles :
           /\ articles'[a].next = IF a = last THEN id ELSE articles[a].next
           /\ articles'[a].category = articles[a].category
           /\ articles'[a].prev = articles[a].prev
           /\ articles'[a].posted_at = articles[a].posted_at
  <2>1. /\ id \in Nat \ {0} /\ id \notin DOMAIN articles
        /\ last \in RootArticles(cat) \cup {NULL}
        /\ DOMAIN articles' = DOMAIN articles \cup {id}
        /\ articles' \in [DOMAIN articles' -> ArticleRow]
        /\ articles'[id] = NewRow(p)
    BY CommitWrites, Zenon
  <2>2. ASSUME NEW a \in DOMAIN articles
        PROVE  /\ articles'[a].next = IF a = last THEN id ELSE articles[a].next
               /\ articles'[a].category = articles[a].category
               /\ articles'[a].prev = articles[a].prev
               /\ articles'[a].posted_at = articles[a].posted_at
    BY CommitWrites, Zenon
  <2>. QED  BY <2>1, <2>2, Zenon
<1>5. /\ articles'[id].category = cat /\ articles'[id].prev = last
      /\ articles'[id].next = NULL /\ articles'[id].posted_at = post[p].posted_at
  BY <1>4 DEF NewRow
<1>6. /\ last < id /\ cat \in DOMAIN categories /\ post[p].posted_at <= clock
      /\ last # NULL => articles[last].posted_at <= post[p].posted_at
      /\ IF backend = "sqlite" THEN id = next_id ELSE id < next_id
      /\ backend = "sqlite" => \A a \in RootArticles(cat) : a <= last
      /\ \A q \in Writing : post[q].id = id => q = p
  BY <1>2 DEF PostInv, Writing
<1>7. /\ next_id \in Nat \ {0} /\ clock \in Nat /\ last \in Nat
      /\ backend \in {"sqlite", "postgres"}
      /\ \A a \in DOMAIN articles : a \in Nat \ {0} /\ a < next_id
  BY <1>1, <1>2 DEF NewsTyped, PostRow
<1>8. ASSUME NEW q \in Posters \ {p}
      PROVE  /\ post'[q].at = post[q].at /\ post'[q].category = post[q].category
             /\ post'[q].last = post[q].last /\ post'[q].id = post[q].id
             /\ post'[q].posted_at = post[q].posted_at
             /\ backend = "sqlite" /\ post[q].at # "idle" => post'[q].stale
             /\ post'[q] \in PostRow
  BY <1>1, <1>3, Zenon DEF NewsTyped, Overtake, PostRow
<1>9. NoPost \in PostRow /\ NoPost.at = "idle" /\ post'[p] = NoPost
  BY <1>3 DEF NoPost, PostRow, NULL, Overtake
<1>10. post' \in [Posters -> PostRow]
  BY <1>3, <1>8, <1>9 DEF Overtake
<1>. HIDE DEF id, last, cat
<1>11. NewsTyped'
  <2>1. next_id' \in Nat \ {0}  BY <1>3, <1>4, <1>7
  <2>2. DOMAIN articles' \subseteq 1..(next_id' - 1)
    <3>1. \A a \in DOMAIN articles \cup {id} : a \in Nat \ {0} /\ a < next_id'
      BY <1>3, <1>4, <1>6, <1>7
    <3>. QED  BY <1>4, <2>1, <3>1
  <2>3. acked' \subseteq DOMAIN articles'  BY <1>1, <1>3, <1>4, SMTT(30) DEF NewsTyped
  <2>. QED  BY <1>1, <1>3, <1>4, <1>10, <2>1, <2>2, <2>3 DEF NewsTyped
<1>12. CatalogueInv'  BY <1>1, <1>3 DEF CatalogueInv
<1>13. RowsInv'
  <2>1. ASSUME NEW a \in DOMAIN articles
        PROVE  /\ articles'[a].category \in DOMAIN categories'
               /\ articles'[a].posted_at <= clock'
               /\ articles'[a].prev # NULL =>
                    /\ articles'[a].prev \in DOMAIN articles'
                    /\ articles'[articles'[a].prev].category = articles'[a].category
                    /\ articles'[a].prev < a
                    /\ articles'[articles'[a].prev].posted_at <= articles'[a].posted_at
                    /\ articles'[articles'[a].prev].next # NULL
               /\ articles'[a].next # NULL =>
                    /\ articles'[a].next \in DOMAIN articles'
                    /\ articles'[articles'[a].next].category = articles'[a].category
                    /\ articles'[articles'[a].next].prev = a
    <3>1. /\ articles[a].category \in DOMAIN categories /\ articles[a].posted_at <= clock
          /\ articles[a].prev # NULL =>
               /\ articles[a].prev \in DOMAIN articles
               /\ articles[articles[a].prev].category = articles[a].category
               /\ articles[a].prev < a
               /\ articles[articles[a].prev].posted_at <= articles[a].posted_at
               /\ articles[articles[a].prev].next # NULL
          /\ articles[a].next # NULL =>
               /\ articles[a].next \in DOMAIN articles
               /\ articles[articles[a].next].category = articles[a].category
               /\ articles[articles[a].next].prev = a
      BY <1>1 DEF RowsInv, RootArticles
    <3>2. a = last => articles[a].category = cat  BY <1>4, <1>7 DEF RootArticles, NULL
    <3>. QED  BY <1>3, <1>4, <1>5, <3>1, <3>2, SMTT(30) DEF NULL
  <2>2. last # NULL => last \in DOMAIN articles /\ articles[last].category = cat
    BY <1>4 DEF RootArticles
  <2>. QED  BY <1>3, <1>4, <1>5, <1>6, <2>1, <2>2 DEF RowsInv, RootArticles, NULL
<1>14. OrderInv'
  <2>. SUFFICES ASSUME backend = "sqlite",
                       NEW a \in DOMAIN articles', NEW b \in DOMAIN articles',
                       articles'[a].category = articles'[b].category, b < a
                PROVE  /\ b <= articles'[a].prev
                       /\ articles'[b].next # NULL /\ articles'[b].next <= a
    BY <1>3 DEF OrderInv
  <2>1. id = next_id /\ \A x \in RootArticles(cat) : x <= last  BY <1>6
  <2>2. b \in DOMAIN articles /\ b \in Nat  BY <1>4, <1>7, <2>1, SMTT(30)
  <2>3. \A x, y \in DOMAIN articles :
          articles[x].category = articles[y].category /\ y < x =>
            /\ y <= articles[x].prev /\ articles[y].next # NULL /\ articles[y].next <= x
    BY <1>1 DEF OrderInv
  <2>4. articles[b].next \in Nat  BY <1>1, <2>2, SMTT(30) DEF NewsTyped, ArticleRow
  <2>5. CASE a = id
    <3>1. b \in RootArticles(cat)  BY <1>4, <1>5, <2>2, <2>5 DEF RootArticles
    <3>2. b <= last  BY <2>1, <3>1
    <3>3. CASE b = last
      BY <1>4, <1>5, <2>2, <2>5, <3>2, <3>3 DEF NULL
    <3>4. CASE b # last
      <4>1. last \in DOMAIN articles /\ articles[last].category = articles[b].category
            /\ b < last
        BY <1>4, <1>7, <2>2, <3>1, <3>2, <3>4, SMTT(30) DEF RootArticles, NULL
      <4>2. articles[b].next # NULL /\ articles[b].next <= last  BY <2>2, <2>3, <4>1
      <4>. QED  BY <1>4, <1>5, <1>6, <1>7, <2>2, <2>4, <2>5, <3>2, <3>4, <4>2, SMTT(30)
    <3>. QED  BY <3>3, <3>4
  <2>6. CASE a # id
    <3>1. a \in DOMAIN articles /\ articles[a].category = articles[b].category
      BY <1>4, <2>2, <2>6
    <3>2. b # last
      <4>1. ASSUME b = last  PROVE a <= last
        <5>1. a \in RootArticles(cat)
          BY <1>4, <1>7, <2>2, <3>1, <4>1 DEF RootArticles, NULL
        <5>. QED  BY <2>1, <5>1
      <4>. QED  BY <1>7, <2>2, <3>1, <4>1
    <3>. QED  BY <1>4, <2>2, <2>3, <3>1, <3>2
  <2>. QED  BY <2>5, <2>6, SMTT(30)
<1>15. Writing' = Writing \ {p}  BY <1>8, <1>9, SMTT(30) DEF Writing
<1>16. ASSUME NEW q \in Posters \ {p}  PROVE PostInv(q)'
  <2>1. PostInv(q)  BY <1>1 DEF PostsInv
  <2>2. post[q].at # "idle" => post[q].category \in DOMAIN categories
    BY <2>1 DEF PostInv
  <2>3. ASSUME post[q].at \in {"read", "inserted", "linked"}
        PROVE  post[q].last = NULL \/ (/\ post[q].last \in DOMAIN articles'
                                       /\ articles'[post[q].last].category = post[q].category)
    <3>1. post[q].last \in RootArticles(post[q].category) \cup {NULL}
      BY <2>1, <2>3 DEF PostInv
    <3>. QED  BY <1>4, <3>1 DEF RootArticles
  <2>4. ASSUME q \in Writing
        PROVE  /\ backend # "sqlite" /\ post[q].id \notin DOMAIN articles'
               /\ post[q].last # NULL =>
                    articles'[post[q].last].posted_at <= post[q].posted_at
    <3>1. post[q].id # id  BY <1>6, <2>4
    <3>2. backend # "sqlite"  BY <1>6, <2>1, <2>4, <3>1 DEF PostInv
    <3>3. post[q].id \notin DOMAIN articles'  BY <1>4, <2>1, <2>4, <3>1 DEF PostInv
    <3>4. post[q].at \in {"read", "inserted", "linked"}  BY <2>4 DEF Writing
    <3>5. post[q].last \in RootArticles(post[q].category) \cup {NULL}
      BY <2>1, <3>4 DEF PostInv
    <3>6. post[q].last # NULL => articles[post[q].last].posted_at <= post[q].posted_at
      BY <2>1, <2>4 DEF PostInv
    <3>. QED  BY <1>4, <3>2, <3>3, <3>5, <3>6 DEF RootArticles
  <2>5. \A r \in Writing : r \in Posters  BY <1>15 DEF Writing
  <2>6. q \in Writing' <=> q \in Writing  BY <1>15, SMTT(30)
  <2>7. q \in Writing' =>
          /\ post'[q].id \notin DOMAIN articles'
          /\ post'[q].last < post'[q].id
          /\ post'[q].posted_at <= clock'
          /\ post'[q].last # NULL => articles'[post'[q].last].posted_at <= post'[q].posted_at
          /\ IF backend' = "sqlite" THEN post'[q].id = next_id' ELSE post'[q].id < next_id'
          /\ \A r \in Writing' : post'[r].id = post'[q].id => r = q
    BY <1>3, <1>7, <1>8, <1>15, <2>1, <2>4, <2>5, <2>6, SMTT(30) DEF PostInv
  <2>8. /\ post'[q].at # "idle" => post'[q].category \in DOMAIN categories'
        /\ post'[q].at \in {"read", "inserted", "linked"} =>
             post'[q].last \in RootArticles(post[q].category)' \cup {NULL}
    BY <1>3, <1>8, <2>2, <2>3, SMTT(30) DEF RootArticles
  <2>9. ~(backend' = "sqlite" /\ (q \in Writing' \/ (post'[q].at = "read" /\ ~post'[q].stale)))
    BY <1>3, <1>8, <2>4, <2>6, SMTT(30)
  <2>. QED  BY <2>7, <2>8, <2>9 DEF PostInv
<1>17. PostInv(p)'  BY <1>9, <1>15 DEF PostInv
<1>18. PostsInv'  BY <1>16, <1>17 DEF PostsInv
<1>. QED  BY <1>11, <1>12, <1>13, <1>14, <1>18 DEF NewsInv
(* No statement of any post, and no change to the catalogue, breaks the    *)
(* invariant.                                                              *)
LEMMA NewsInvStep == NewsInv /\ [NewsNext]_newsVars => NewsInv'
<1>. SUFFICES ASSUME NewsInv, [NewsNext]_newsVars  PROVE NewsInv'  OBVIOUS
<1>1. ASSUME NEW name \in Names, NEW parent \in {NULL} \cup DOMAIN bundles,
             create_bundle(name, parent) \/ create_category(name, parent)
      PROVE  NewsInv'
  BY <1>1, CreateKeeps
<1>2. ASSUME NEW p \in Posters, \E path \in Paths : process_post_article(p, path)
      PROVE  NewsInv'
  BY <1>2, OpenKeeps
<1>3. ASSUME NEW p \in Posters, Step(p)  PROVE NewsInv'
  BY <1>3, ReadKeeps, InsertKeeps, LinkKeeps, CommitKeeps, RollbackKeeps DEF Step, Busy
<1>4. ASSUME NEW p \in Posters, Fail(p)  PROVE NewsInv'
  BY <1>4, RollbackKeeps, SMTT(30) DEF Fail
<1>5. CASE UNCHANGED newsVars
  BY <1>5 DEF newsVars, NewsInv, CatalogueInv, NewsTyped, RowsInv, PostsInv, PostInv, OrderInv,
              Writing, RootArticles
<1>. QED  BY <1>1, <1>2, <1>3, <1>4, <1>5 DEF NewsNext

(* The rows, the open posts and the catalogue stay consistent.             *)
THEOREM NewsConsistent == NewsSpec => []NewsInv
<1>. QED  BY NewsInvInit, NewsInvStep, PTL DEF NewsSpec

----------------------------------------------------------------------------
(* What follows from it.                                                   *)

(* Every path resolves as PathsResolve says: bundle_id_from_path finds     *)
(* exactly the bundle of a path, category_id_from_path falls back to the   *)
(* root only where a prefix names no bundle, and every name listed at a    *)
(* path can be opened there.                                               *)
THEOREM PathsAlwaysResolve == NewsSpec => []PathsResolve
<1>1. NewsInv => PathsResolve  BY CatalogueResolves DEF NewsInv
<1>. QED  BY <1>1, NewsConsistent, PTL

(* The links shown by handle_article_data lead to articles of the same     *)
(* category, on either database and whatever posts interleave.             *)
THEOREM LinksAlwaysLead == NewsSpec => []LinksLead
<1>1. ASSUME NewsInv  PROVE LinksLead
  <2>. SUFFICES ASSUME NEW a \in DOMAIN articles,
                       NEW shown \in handle_article_data(CategoryPath(articles[a].category), a)
                PROVE  LET path == CategoryPath(articles[a].category) IN
                       /\ shown.prev # NULL =>
                            /\ shown.prev < a
                            /\ \E r \in handle_article_data(path, shown.prev) :
                                 r.date <= shown.date /\ r.next # NULL
                       /\ shown.next # NULL =>
                            \E r \in handle_article_data(path, shown.next) : r.prev = a
    BY DEF LinksLead
  <2>. DEFINE path == CategoryPath(articles[a].category)
              k == category_id_from_path(path)
  <2>1. /\ k # Invalid /\ a \in RootArticles(k)
        /\ shown = article_to_params(articles[a])
    BY DEF handle_article_data, get_article
  <2>2. ASSUME NEW b \in RootArticles(k)
        PROVE  article_to_params(articles[b]) \in handle_article_data(path, b)
    BY <2>1 DEF handle_article_data, get_article
  <2>. HIDE DEF path, k
  <2>3. /\ shown.prev = articles[a].prev /\ shown.next = articles[a].next
        /\ shown.date = articles[a].posted_at /\ articles[a].category = k
    BY <2>1 DEF article_to_params, RootArticles
  <2>4. /\ articles[a].prev # NULL =>
             /\ articles[a].prev \in RootArticles(k)
             /\ articles[a].prev < a
             /\ articles[articles[a].prev].posted_at <= articles[a].posted_at
             /\ articles[articles[a].prev].next # NULL
        /\ articles[a].next # NULL =>
             /\ articles[a].next \in RootArticles(k)
             /\ articles[articles[a].next].prev = a
    BY <1>1, <2>3 DEF NewsInv, RowsInv
  <2>5. \A b : /\ article_to_params(articles[b]).date = articles[b].posted_at
               /\ article_to_params(articles[b]).prev = articles[b].prev
               /\ article_to_params(articles[b]).next = articles[b].next
    BY DEF article_to_params
  <2>6. shown.prev # NULL =>
          /\ shown.prev < a
          /\ \E r \in handle_article_data(path, shown.prev) :
               r.date <= shown.date /\ r.next # NULL
    BY <2>2, <2>3, <2>4, <2>5
  <2>7. shown.next # NULL => \E r \in handle_article_data(path, shown.next) : r.prev = a
    BY <2>2, <2>3, <2>4, <2>5
  <2>. QED  BY <2>6, <2>7 DEF path
<1>. QED  BY <1>1, NewsConsistent, PTL

(* On SQLite, concurrent posts leave one list per category.                *)
THEOREM SqliteAlwaysKeepsOneList == NewsSpec => []SqliteKeepsOneList
<1>1. ASSUME NewsInv  PROVE SqliteKeepsOneList
  <2>. SUFFICES ASSUME backend = "sqlite", NEW a \in DOMAIN articles
                PROVE  LET siblings == RootArticles(articles[a].category)
                           older == {b \in siblings : b < a}
                           newer == {b \in siblings : b > a}
                       IN  /\ articles[a].prev = Max(older \cup {NULL})
                           /\ articles[a].next = IF newer = {} THEN NULL ELSE Min(newer)
    BY Zenon DEF SqliteKeepsOneList, OneList
  <2>. DEFINE siblings == RootArticles(articles[a].category)
              older == {b \in siblings : b < a}
              newer == {b \in siblings : b > a}
  <2>1. NewsTyped /\ RowsInv /\ OrderInv  BY <1>1 DEF NewsInv
  <2>2. \A b \in DOMAIN articles :
          /\ b \in Nat \ {0} /\ articles[b].prev \in Nat /\ articles[b].next \in Nat
          /\ b \in siblings <=> articles[b].category = articles[a].category
    BY <2>1 DEF NewsTyped, ArticleRow, RootArticles
  <2>3. siblings \subseteq DOMAIN articles  BY DEF RootArticles
  <2>4. /\ articles[a].prev # NULL => articles[a].prev \in siblings /\ articles[a].prev < a
        /\ articles[a].next # NULL =>
             articles[a].next \in siblings /\ articles[articles[a].next].prev = a
    BY <2>1 DEF RowsInv
  <2>5. \A b \in siblings :
          /\ b < a => b <= articles[a].prev
          /\ a < b => articles[a].next # NULL /\ articles[a].next <= b
    BY <2>1, <2>2, <2>3 DEF OrderInv
  <2>6. articles[a].prev = Max(older \cup {NULL})
    <3>. DEFINE S == older \cup {NULL}
    <3>1. articles[a].prev \in S /\ \A x \in S : x \in Nat /\ x <= articles[a].prev
      BY <2>2, <2>3, <2>4, <2>5 DEF NULL
    <3>. HIDE DEF S
    <3>2. \A x, y \in S : x \in Nat /\ y \in Nat /\ (x <= y /\ y <= x => x = y)  BY <3>1
    <3>3. Max(S) \in S /\ \A y \in S : Max(S) >= y
      <4>1. \E x \in S : \A y \in S : x >= y  BY <3>1
      <4>. QED  BY <4>1 DEF Max
    <3>4. articles[a].prev <= Max(S) /\ Max(S) <= articles[a].prev  BY <3>1, <3>3
    <3>. QED  BY <3>1, <3>2, <3>3, <3>4 DEF S
  <2>7. articles[a].next # NULL => articles[a].next \in newer
    <3>1. ASSUME articles[a].next # NULL  PROVE a < articles[a].next
      <4>1. articles[a].next \in DOMAIN articles /\ articles[articles[a].next].prev = a
        BY <2>3, <2>4, <3>1
      <4>2. articles[articles[a].next].prev # NULL  BY <2>2, <4>1 DEF NULL
      <4>. QED  BY <2>1, <4>1, <4>2 DEF RowsInv
    <3>. QED  BY <2>2, <2>3, <2>4, <3>1
  <2>8. articles[a].next = IF newer = {} THEN NULL ELSE Min(newer)
    <3>1. \A x \in newer : x \in Nat /\ articles[a].next # NULL /\ articles[a].next <= x
      BY <2>2, <2>3, <2>5
    <3>2. articles[a].next \in Nat  BY <2>2
    <3>. HIDE DEF newer
    <3>3. CASE newer = {}  BY <2>7, <3>3
    <3>4. CASE newer # {}
      <4>1. articles[a].next \in newer  BY <2>7, <3>1, <3>4
      <4>2. \E x \in newer : \A y \in newer : x <= y  BY <3>1, <4>1
      <4>3. Min(newer) \in newer /\ \A y \in newer : Min(newer) <= y  BY <4>2 DEF Min
      <4>4. Min(newer) \in Nat /\ Min(newer) <= articles[a].next
            /\ articles[a].next <= Min(newer)
        BY <3>1, <4>1, <4>3
      <4>. QED  BY <3>2, <3>4, <4>4
    <3>. QED  BY <3>3, <3>4
  <2>. QED  BY <2>6, <2>8
<1>. QED  BY <1>1, NewsConsistent, PTL

(* A post answered with its id is listed under its category from then on.  *)
THEOREM AnsweredPostsAlwaysListed == NewsSpec => []AnsweredPostsListed
<1>1. ASSUME NewsInv  PROVE AnsweredPostsListed
  <2>. SUFFICES ASSUME NEW id \in acked
                PROVE  /\ id \in DOMAIN articles
                       /\ id \in handle_article_titles(
                                   CategoryPath(articles[id].category)).listed
    BY DEF AnsweredPostsListed
  <2>. DEFINE c == articles[id].category
  <2>1. id \in DOMAIN articles  BY <1>1 DEF NewsInv, NewsTyped
  <2>2. c \in DOMAIN categories  BY <1>1, <2>1 DEF NewsInv, RowsInv
  <2>3. PathsResolve /\ CatalogueInv  BY <1>1, CatalogueResolves DEF NewsInv
  <2>4. category_id_from_path(CategoryPath(c)) = c /\ c # Invalid
    BY <2>2, <2>3, CategoryTyped DEF PathsResolve, Invalid
  <2>5. id \in RootArticles(c)  BY <2>1 DEF RootArticles
  <2>. HIDE DEF c
  <2>6. handle_article_titles(CategoryPath(c)).listed = RootArticles(c)
    BY <2>4 DEF handle_article_titles, handle_list, list_article_titles
  <2>. QED  BY <2>1, <2>5, <2>6 DEF c
<1>. QED  BY <1>1, NewsConsistent, PTL

(* A committed article keeps its row but for the next link, which on       *)
(* SQLite is set once and never changes.                                   *)
THEOREM ArticlesAlwaysKeepTheirPlace == NewsSpec => ArticlesKeepTheirPlace
<1>. DEFINE Kept == \A a \in DOMAIN articles :
                      /\ a \in DOMAIN articles'
                      /\ articles'[a] = [articles[a] EXCEPT !.next = articles'[a].next]
                      /\ \/ articles'[a].next = articles[a].next
                         \/ articles[a].next = NULL
                         \/ backend = "postgres" /\ articles'[a].next # NULL
<1>1. ASSUME NewsInv, UNCHANGED articles  PROVE Kept
  <2>. SUFFICES ASSUME NEW a \in DOMAIN articles
                PROVE  articles[a] = [articles[a] EXCEPT !.next = articles[a].next]
    BY <1>1
  <2>1. articles[a] \in ArticleRow  BY <1>1 DEF NewsInv, NewsTyped
  <2>. QED  BY <2>1 DEF ArticleRow
<1>2. ASSUME NewsInv, NEW p \in Posters, NEW answered \in BOOLEAN, Commit(p, answered)
      PROVE  Kept
  <2>. SUFFICES ASSUME NEW a \in DOMAIN articles, articles'[a].next # articles[a].next
                PROVE  \/ articles[a].next = NULL
                       \/ backend = "postgres" /\ articles'[a].next # NULL
    BY <1>2, CommitWrites, Zenon
  <2>1. a = post[p].last /\ articles'[a].next = post[p].id /\ post[p].id # NULL
    BY <1>2, CommitWrites, ZenonT(40) DEF NULL
  <2>2. CASE backend = "postgres"  BY <2>1, <2>2
  <2>3. CASE backend = "sqlite"
    <3>1. NewsTyped /\ RowsInv /\ PostInv(p) /\ p \in Writing
      BY <1>2 DEF NewsInv, PostsInv, Commit, Writing
    <3>2. \A x \in RootArticles(post[p].category) : x <= a
      BY <2>1, <2>3, <3>1 DEF PostInv
    <3>3. articles[a].category = post[p].category
      <4>1. a \in RootArticles(post[p].category) \cup {NULL}
        BY <2>1, <3>1 DEF PostInv, Writing
      <4>2. a # NULL  BY <3>1 DEF NewsTyped, NULL
      <4>. QED  BY <4>1, <4>2 DEF RootArticles
    <3>4. ASSUME articles[a].next # NULL  PROVE FALSE
      <4>. DEFINE n == articles[a].next
      <4>1. n \in RootArticles(articles[a].category) /\ articles[n].prev = a
        BY <3>1, <3>4 DEF RowsInv
      <4>2. n \in DOMAIN articles  BY <4>1 DEF RootArticles
      <4>3. n \in Nat /\ a \in Nat \ {0}  BY <3>1, <4>2 DEF NewsTyped
      <4>. HIDE DEF n
      <4>4. a < n  BY <3>1, <4>1, <4>2, <4>3 DEF RowsInv, NULL
      <4>5. n <= a  BY <3>2, <3>3, <4>1
      <4>. QED  BY <4>3, <4>4, <4>5
    <3>. QED  BY <3>4
  <2>. QED  BY <1>2, <2>2, <2>3 DEF NewsInv, NewsTyped
<1>3. NewsInv /\ [NewsNext]_newsVars => [Kept]_newsVars
  <2>. SUFFICES ASSUME NewsInv, NewsNext  PROVE Kept  OBVIOUS
  <2>. HIDE DEF Kept
  <2>1. ASSUME NEW p \in Posters, Step(p)  PROVE Kept
    BY <1>1, <1>2, <2>1 DEF Step, get_last_root_article_id, insert_new_article, Busy, Rollback,
                            link_prev_to_new
  <2>2. ASSUME NEW p \in Posters, NEW path \in Paths, process_post_article(p, path)
        PROVE  Kept
    BY <1>1, <2>2 DEF process_post_article
  <2>3. ASSUME NEW p \in Posters, Fail(p)  PROVE Kept
    BY <1>1, <2>3 DEF Fail, Rollback
  <2>4. ASSUME NEW name, NEW parent,
               create_bundle(name, parent) \/ create_category(name, parent)
        PROVE  Kept
    BY <1>1, <2>4 DEF create_bundle, create_category
  <2>. QED  BY <2>1, <2>2, <2>3, <2>4 DEF NewsNext
<1>4. ArticlesKeepTheirPlace <=> [][Kept]_newsVars  BY DEF ArticlesKeepTheirPlace
<1>. HIDE DEF Kept
<1>. QED  BY <1>3, <1>4, NewsConsistent, PTL DEF NewsSpec
=============================================================================
