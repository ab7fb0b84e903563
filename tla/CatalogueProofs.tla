-------------------------- MODULE CatalogueProofs --------------------------
(* Theorems about the back office: the types of its rows, one default        *)
(* variant per product however updates overlap, and for requests in turn the *)
(* tree of categories, the derived stock and the images of variants.         *)
EXTENDS Catalogue, FiniteSetTheorems, WellFoundedInduction, TLAPS

-----------------------------------------------------------------------------
(* Finite sets.  A claim about every finite set is proved of a smallest set  *)
(* that it fails for, so that no theorem with a predicate as its parameter   *)
(* is needed.                                                                *)

\* Of some finite sets there is one that contains no other.
LEMMA SmallestSet ==
  ASSUME NEW S, IsFiniteSet(S), NEW B, B \subseteq SUBSET S, B # {}
  PROVE  \E T \in B : \A U \in B : U \subseteq T => U = T
<1>1. IsWellFoundedOn(StrictSubsetOrdering(S), SUBSET S)
  BY FS_StrictSubsetOrderingWellFounded, FS_FiniteSubsetsOfFinite
<1>2. PICK T \in B : \A U \in B : ~(<<U, T>> \in StrictSubsetOrdering(S))
  BY <1>1, WFMin
<1> QED BY <1>2 DEF StrictSubsetOrdering

\* There are different ids for new rows, if there are enough.
LEMMA EnoughIds ==
  ASSUME NEW S, NEW T, IsFiniteSet(S), IsFiniteSet(T), Cardinality(T) >= Cardinality(S)
  PROVE  \E f \in [S -> T] : \A i, j \in S : i # j => f[i] # f[j]
<1>1. /\ Cardinality(S) \in Nat /\ ExistsBijection(1..Cardinality(S), S)
      /\ Cardinality(T) \in Nat /\ ExistsBijection(1..Cardinality(T), T)
  BY FS_CardinalityType
<1>2. PICK s \in [1..Cardinality(S) -> S] :
        \A x \in S : \E n \in 1..Cardinality(S) : s[n] = x
  BY <1>1 DEF ExistsBijection, Bijection, Surjection
<1>3. PICK t \in [1..Cardinality(T) -> T] :
        \A m, n \in 1..Cardinality(T) : t[m] = t[n] => m = n
  BY <1>1 DEF ExistsBijection, Bijection, Injection, IsInjective
<1> DEFINE at(x) == CHOOSE n \in 1..Cardinality(S) : s[n] = x
           f == [x \in S |-> t[at(x)]]
<1>4. \A x \in S : at(x) \in 1..Cardinality(S) /\ s[at(x)] = x
  BY <1>2
<1>5. 1..Cardinality(S) \subseteq 1..Cardinality(T)
  BY <1>1
<1>6. f \in [S -> T]
  BY <1>3, <1>4, <1>5
<1>7. \A i, j \in S : i # j => f[i] # f[j]
  BY <1>3, <1>4, <1>5
<1> QED BY <1>6, <1>7

-----------------------------------------------------------------------------
(* The recursion by which a sum is defined has one solution. *)

First(s) == CHOOSE x \in s : TRUE
Sums(f, S, g) ==
  g = [s \in SUBSET S |-> IF s = {} THEN 0 ELSE f[First(s)] + g[s \ {First(s)}]]

Below(g, T) == [s \in SUBSET T |-> g[s]]

LEMMA SumsOfSubsets ==
  ASSUME NEW f, NEW S, NEW T \in SUBSET S, NEW g, Sums(f, S, g)
  PROVE  Sums(f, T, Below(g, T))
BY DEF Sums, First, Below

\* On a set whose proper subsets have one solution each.
LEMMA SumsAbove ==
  ASSUME NEW f, NEW S,
         \A T \in SUBSET S : T # S => \E g : Sums(f, T, g) /\ \A h : Sums(f, T, h) => h = g
  PROVE  \E g : Sums(f, S, g) /\ \A h : Sums(f, S, h) => h = g
<1> DEFINE G(T) == CHOOSE g : Sums(f, T, g)
           sum(s) == IF s = {} THEN 0 ELSE f[First(s)] + G(s \ {First(s)})[s \ {First(s)}]
           g == [s \in SUBSET S |-> sum(s)]
<1>1. \A T \in SUBSET S : T # S => Sums(f, T, G(T)) /\ \A h : Sums(f, T, h) => h = G(T)
  OBVIOUS
<1>2. ASSUME NEW s \in SUBSET S, s # {} PROVE First(s) \in s /\ s \ {First(s)} \in SUBSET S /\ s \ {First(s)} # S
  BY <1>2 DEF First
<1>3. ASSUME NEW T \in SUBSET S, T # S, NEW s \in SUBSET T PROVE G(T)[s] = G(s)[s]
  <2> HIDE DEF G
  <2>1. Sums(f, s, Below(G(T), s))
    BY <1>1, <1>3, SumsOfSubsets
  <2>2. G(s) = Below(G(T), s)
    BY <1>1, <1>3, <2>1
  <2> QED BY <2>2 DEF Below
<1>4. ASSUME NEW T \in SUBSET S, T # S PROVE G(T)[T] = sum(T)
  <2>1. G(T)[T] = IF T = {} THEN 0 ELSE f[First(T)] + G(T)[T \ {First(T)}]
    <3> HIDE DEF G
    <3> QED BY <1>1, <1>4 DEF Sums
  <2>2. T # {} => G(T)[T \ {First(T)}] = G(T \ {First(T)})[T \ {First(T)}]
    <3> HIDE DEF G
    <3> QED BY <1>2, <1>3, <1>4
  <2> HIDE DEF G
  <2> QED BY <2>1, <2>2
<1>5. Sums(f, S, g)
  <2>1. ASSUME NEW s \in SUBSET S, s # {} PROVE G(s \ {First(s)})[s \ {First(s)}] = g[s \ {First(s)}]
    <3> HIDE DEF G, sum
    <3> QED BY <1>2, <1>4, <2>1
  <2> HIDE DEF G
  <2> QED BY <2>1 DEF Sums
<1>6. ASSUME NEW h, Sums(f, S, h) PROVE h = g
  <2>1. ASSUME NEW s \in SUBSET S, s # {} PROVE h[s \ {First(s)}] = G(s \ {First(s)})[s \ {First(s)}]
    <3> DEFINE t == s \ {First(s)}
    <3>1. t \in SUBSET S /\ t # S
      BY <1>2, <2>1
    <3> HIDE DEF t, G
    <3>2. Sums(f, t, Below(h, t))
      BY <1>6, <3>1, SumsOfSubsets
    <3>3. G(t) = Below(h, t)
      BY <1>1, <3>1, <3>2
    <3>4. G(t)[t] = h[t]
      BY <3>3 DEF Below
    <3> QED BY <3>4 DEF t
  <2>2. h = [s \in SUBSET S |-> IF s = {} THEN 0 ELSE f[First(s)] + h[s \ {First(s)}]]
    BY <1>6 DEF Sums
  <2> HIDE DEF G
  <2>3. \A s \in SUBSET S : h[s] = sum(s)
    BY <2>1, <2>2
  <2> HIDE DEF sum
  <2> QED BY <2>2, <2>3
<1> HIDE DEF g
<1> QED BY <1>5, <1>6

LEMMA SumsExist ==
  ASSUME NEW f, NEW S, IsFiniteSet(S)
  PROVE  \E g : Sums(f, S, g) /\ \A h : Sums(f, S, h) => h = g
<1> DEFINE One(T) == \E g : Sums(f, T, g) /\ \A h : Sums(f, T, h) => h = g
           B == {T \in SUBSET S : ~One(T)}
<1> SUFFICES ASSUME B # {} PROVE FALSE
  OBVIOUS
<1>1. PICK T \in B : \A U \in B : U \subseteq T => U = T
  <2> HIDE DEF One
  <2>1. B \subseteq SUBSET S
    OBVIOUS
  <2> HIDE DEF B
  <2> QED BY <2>1, SmallestSet
<1>2. \A U \in SUBSET T : U # T => One(U)
  <2> HIDE DEF One
  <2> QED BY <1>1
<1>3. One(T)
  BY <1>2, SumsAbove
<1> QED BY <1>3

-----------------------------------------------------------------------------
(* Sums *)

\* A sum is the value of one of its members and the sum of the others.
LEMMA SumUnrolled ==
  ASSUME NEW f, NEW S, IsFiniteSet(S)
  PROVE  SumFunctionOnSet(f, S) =
           IF S = {} THEN 0 ELSE f[First(S)] + SumFunctionOnSet(f, S \ {First(S)})
<1> DEFINE G(T) == CHOOSE g : Sums(f, T, g)
<1>1. \A T \in SUBSET S : Sums(f, T, G(T)) /\ \A h : Sums(f, T, h) => h = G(T)
  BY SumsExist, FS_Subset
<1>2. \A T : SumFunctionOnSet(f, T) = G(T)[T]
  BY DEF SumFunctionOnSet, FoldFunctionOnSet, MapThenFoldSet, Sums, First
<1> HIDE DEF G
<1>3. G(S)[S] = IF S = {} THEN 0 ELSE f[First(S)] + G(S)[S \ {First(S)}]
  BY <1>1 DEF Sums
<1>4. G(S)[S \ {First(S)}] = G(S \ {First(S)})[S \ {First(S)}]
  <2> DEFINE t == S \ {First(S)}
  <2>1. t \in SUBSET S
    OBVIOUS
  <2> HIDE DEF t
  <2>2. Sums(f, t, Below(G(S), t))
    BY <1>1, <2>1, SumsOfSubsets
  <2>3. G(t) = Below(G(S), t)
    BY <1>1, <2>1, <2>2
  <2>4. G(t)[t] = G(S)[t]
    BY <2>3 DEF Below
  <2> QED BY <2>4 DEF t
<1> QED BY <1>2, <1>3, <1>4

LEMMA SumEmpty ==
  ASSUME NEW f PROVE SumFunctionOnSet(f, {}) = 0
BY SumUnrolled, FS_EmptySet

\* The sum is of the values, whatever else the functions have.
LEMMA SumSame ==
  ASSUME NEW f, NEW g, NEW S, IsFiniteSet(S), \A x \in S : f[x] = g[x]
  PROVE  SumFunctionOnSet(f, S) = SumFunctionOnSet(g, S)
<1> DEFINE same(T) == SumFunctionOnSet(f, T) = SumFunctionOnSet(g, T)
           B == {T \in SUBSET S : ~same(T)}
<1> SUFFICES ASSUME B # {} PROVE FALSE
  OBVIOUS
<1>1. PICK T \in B : \A U \in B : U \subseteq T => U = T
  <2> HIDE DEF same
  <2>1. B \subseteq SUBSET S
    OBVIOUS
  <2> HIDE DEF B
  <2> QED BY <2>1, SmallestSet
<1> DEFINE U == T \ {First(T)}
<1>2. T \in SUBSET S /\ U \in SUBSET S /\ ~same(T)
  OBVIOUS
<1>3. IsFiniteSet(T)
  BY <1>2, FS_Subset
<1>4. T # {} /\ First(T) \in T
  <2>1. T # {}
    BY <1>2, SumEmpty
  <2> QED BY <2>1 DEF First
<1>5. same(U)
  BY <1>1, <1>2, <1>4
<1>6. f[First(T)] = g[First(T)]
  BY <1>2, <1>4
<1> HIDE DEF U, B
<1>7. /\ SumFunctionOnSet(f, T) = f[First(T)] + SumFunctionOnSet(f, U)
      /\ SumFunctionOnSet(g, T) = g[First(T)] + SumFunctionOnSet(g, U)
  BY <1>3, <1>4, SumUnrolled DEF U
<1> QED BY <1>2, <1>5, <1>6, <1>7

LEMMA SumFits ==
  ASSUME NEW Z \in {Nat, Int}, NEW f, NEW S, IsFiniteSet(S), \A x \in S : f[x] \in Z
  PROVE  SumFunctionOnSet(f, S) \in Z
<1>0. 0 \in Z /\ \A m, n \in Z : m + n \in Z
  <2>1. CASE Z = Nat
    BY <2>1
  <2>2. CASE Z = Int
    BY <2>2
  <2> QED BY <2>1, <2>2
<1> DEFINE fits(T) == SumFunctionOnSet(f, T) \in Z
           B == {T \in SUBSET S : ~fits(T)}
<1> SUFFICES ASSUME B # {} PROVE FALSE
  OBVIOUS
<1>1. PICK T \in B : \A U \in B : U \subseteq T => U = T
  <2> HIDE DEF fits
  <2>1. B \subseteq SUBSET S
    OBVIOUS
  <2> HIDE DEF B
  <2> QED BY <2>1, SmallestSet
<1> DEFINE U == T \ {First(T)}
<1>2. T \in SUBSET S /\ U \in SUBSET S /\ ~fits(T)
  OBVIOUS
<1>3. IsFiniteSet(T)
  BY <1>2, FS_Subset
<1>4. T # {} /\ First(T) \in T
  <2>1. T # {}
    BY <1>0, <1>2, SumEmpty
  <2> QED BY <2>1 DEF First
<1>5. fits(U)
  BY <1>1, <1>2, <1>4
<1>6. f[First(T)] \in Z
  BY <1>2, <1>4
<1> HIDE DEF U, B
<1>7. SumFunctionOnSet(f, T) = f[First(T)] + SumFunctionOnSet(f, U)
  BY <1>3, <1>4, SumUnrolled DEF U
<1> QED BY <1>0, <1>2, <1>5, <1>6, <1>7

\* Any member may be taken out of the sum, not only the one that is first.
LEMMA SumWithout ==
  ASSUME NEW f, NEW S, IsFiniteSet(S), \A x \in S : f[x] \in Int, NEW x \in S
  PROVE  SumFunctionOnSet(f, S) = f[x] + SumFunctionOnSet(f, S \ {x})
<1> DEFINE splits(T) == \A y \in T : SumFunctionOnSet(f, T) = f[y] + SumFunctionOnSet(f, T \ {y})
           B == {T \in SUBSET S : ~splits(T)}
<1> SUFFICES ASSUME B # {} PROVE FALSE
  OBVIOUS
<1>1. PICK T \in B : \A U \in B : U \subseteq T => U = T
  <2> HIDE DEF splits
  <2>1. B \subseteq SUBSET S
    OBVIOUS
  <2> HIDE DEF B
  <2> QED BY <2>1, SmallestSet
<1>2. T \in SUBSET S /\ ~splits(T)
  BY <1>1
<1>3. PICK y \in T : SumFunctionOnSet(f, T) # f[y] + SumFunctionOnSet(f, T \ {y})
  BY <1>2
<1> DEFINE z == First(T)
<1>4. z \in T
  BY <1>3 DEF First
<1>5. \A U \in SUBSET T : U # T => splits(U)
  BY <1>1, <1>2
<1>6. splits(T \ {y}) /\ splits(T \ {z})
  <2> HIDE DEF splits
  <2> QED BY <1>4, <1>5
<1>7. \A U \in SUBSET T : IsFiniteSet(U) /\ SumFunctionOnSet(f, U) \in Int
  <2>1. \A U \in SUBSET T : IsFiniteSet(U) /\ \A u \in U : f[u] \in Int
    BY <1>2, FS_Subset
  <2> QED BY <2>1, SumFits
<1>8. SumFunctionOnSet(f, T) = f[z] + SumFunctionOnSet(f, T \ {z})
  BY <1>4, <1>7, SumUnrolled
<1>9. y # z
  BY <1>3, <1>8
<1>10. /\ SumFunctionOnSet(f, T \ {z}) = f[y] + SumFunctionOnSet(f, (T \ {z}) \ {y})
       /\ SumFunctionOnSet(f, T \ {y}) = f[z] + SumFunctionOnSet(f, (T \ {y}) \ {z})
  BY <1>4, <1>6, <1>9
<1>11. (T \ {z}) \ {y} = (T \ {y}) \ {z} /\ (T \ {y}) \ {z} \in SUBSET T
  OBVIOUS
<1>12. f[y] \in Int /\ f[z] \in Int /\ SumFunctionOnSet(f, (T \ {y}) \ {z}) \in Int
  BY <1>2, <1>4, <1>7, <1>11
<1> DEFINE rest == SumFunctionOnSet(f, (T \ {y}) \ {z})
<1>13. /\ SumFunctionOnSet(f, T \ {z}) = f[y] + rest
       /\ SumFunctionOnSet(f, T \ {y}) = f[z] + rest
       /\ rest \in Int
  BY <1>10, <1>11, <1>12
<1> HIDE DEF z, B, splits, rest
<1> QED BY <1>3, <1>8, <1>12, <1>13

\* The sum of the values stays when each moves to a place of its own.
LEMMA SumMoved ==
  ASSUME NEW f, NEW g, NEW S, NEW T, IsFiniteSet(S), IsFiniteSet(T), NEW h \in [S -> T],
         \A x, y \in S : h[x] = h[y] => x = y,
         \A x \in S : f[x] \in Int /\ g[h[x]] = f[x]
  PROVE  SumFunctionOnSet(f, S) = SumFunctionOnSet(g, {h[x] : x \in S})
<1> DEFINE image(A) == {h[x] : x \in A}
           same(A) == SumFunctionOnSet(f, A) = SumFunctionOnSet(g, image(A))
           B == {A \in SUBSET S : ~same(A)}
<1> SUFFICES ASSUME B # {} PROVE FALSE
  OBVIOUS
<1>1. PICK A \in B : \A U \in B : U \subseteq A => U = A
  <2> HIDE DEF same
  <2>1. B \subseteq SUBSET S
    OBVIOUS
  <2> HIDE DEF B
  <2> QED BY <2>1, SmallestSet
<1>2. A \in SUBSET S /\ ~same(A)
  BY <1>1
<1>3. A # {}
  BY <1>2, SumEmpty
<1>4. PICK x \in A : TRUE
  BY <1>3
<1> DEFINE U == A \ {x}
<1>5. same(U)
  BY <1>1, <1>2
<1>6. image(A) \ {h[x]} = image(U) /\ h[x] \in image(A)
  BY <1>2
<1>7. IsFiniteSet(A) /\ IsFiniteSet(image(A))
  <2>1. image(A) \subseteq T
    BY <1>2
  <2> QED BY <1>2, <2>1, FS_Subset
<1>8. (\A y \in A : f[y] \in Int) /\ (\A z \in image(A) : g[z] \in Int) /\ g[h[x]] = f[x]
  BY <1>2
<1> HIDE DEF image, B
<1>9. SumFunctionOnSet(f, A) = f[x] + SumFunctionOnSet(f, U)
  BY <1>7, <1>8, SumWithout
<1>10. SumFunctionOnSet(g, image(A)) = g[h[x]] + SumFunctionOnSet(g, image(A) \ {h[x]})
  BY <1>6, <1>7, <1>8, SumWithout
<1> HIDE DEF U
<1> QED BY <1>2, <1>5, <1>6, <1>8, <1>9, <1>10

-----------------------------------------------------------------------------
(* Files and forms *)

LEMMA UrlsMove ==
  ASSUME NEW at \in Namespaces
  PROVE  /\ \A u \in Url : Relocated(u, at) \in Url
         /\ \A u \in Urls : Relocated(u, at) \in Urls
         /\ \A S \in SUBSET Url : Move(S, at) \in SUBSET Url
<1>1. \A u \in Url : Relocated(u, at) \in Url
  BY DEF Relocated, Url
<1>2. Relocated(NoUrl, at) \in Urls
  BY DEF Relocated, NoUrl, Urls, Url
<1> QED BY <1>1, <1>2 DEF Urls, Move

LEMMA FilesMove ==
  ASSUME NEW at \in Namespaces, NEW S \in SUBSET Urls, files \subseteq Url, MoveFiles(S, at)
  PROVE  files' \subseteq Url
BY UrlsMove DEF MoveFiles

LEMMA InputsMove ==
  ASSUME NEW input \in Seq(VariantInput)
  PROVE  /\ Moved(input) \in Seq(VariantInput)
         /\ DOMAIN Moved(input) = DOMAIN input
         /\ \A i \in DOMAIN input : /\ Moved(input)[i].id = input[i].id
                                    /\ Moved(input)[i].stock = input[i].stock
                                    /\ Moved(input)[i].isDefault = input[i].isDefault
                                    /\ Moved(input)[i].images = Move(input[i].images, "products")
<1>1. Len(input) \in Nat /\ DOMAIN input = 1..Len(input) /\ \A i \in DOMAIN input : input[i] \in VariantInput
  OBVIOUS
<1>2. \A i \in DOMAIN input :
        /\ [input[i] EXCEPT !.images = Move(@, "products")] \in VariantInput
        /\ [input[i] EXCEPT !.images = Move(@, "products")].images = Move(input[i].images, "products")
  BY <1>1, UrlsMove DEF VariantInput, Namespaces
<1> QED BY <1>1, <1>2 DEF Moved, VariantInput

LEMMA InputUrls ==
  ASSUME NEW input \in Seq(VariantInput)
  PROVE  InputImages(input) \in SUBSET Urls
<1>1. \A i \in DOMAIN input : input[i] \in VariantInput
  OBVIOUS
<1>2. \A i \in DOMAIN input : input[i].images \subseteq Url
  BY <1>1 DEF VariantInput
<1> QED BY <1>2 DEF InputImages, Urls

LEMMA DefaultGiven ==
  ASSUME NEW input \in Seq(VariantInput)
  PROVE  /\ WithDefault(input) \in Seq(VariantInput)
         /\ DOMAIN WithDefault(input) = DOMAIN input
         /\ \A i \in DOMAIN input : /\ WithDefault(input)[i].id = input[i].id
                                    /\ WithDefault(input)[i].stock = input[i].stock
                                    /\ WithDefault(input)[i].images = input[i].images
<1>1. Len(input) \in Nat /\ DOMAIN input = 1..Len(input) /\ \A i \in DOMAIN input : input[i] \in VariantInput
  OBVIOUS
<1>2. \A i \in DOMAIN input : [input[i] EXCEPT !.isDefault = (i = 1)] \in VariantInput
  BY <1>1 DEF VariantInput
<1>3. CASE \E i \in DOMAIN input : input[i].isDefault
  BY <1>3 DEF WithDefault
<1>4. CASE ~ \E i \in DOMAIN input : input[i].isDefault
  <2>1. WithDefault(input) = [i \in DOMAIN input |-> [input[i] EXCEPT !.isDefault = (i = 1)]]
    BY <1>4 DEF WithDefault
  <2>2. WithDefault(input) \in Seq(VariantInput)
    BY <1>1, <1>2, <2>1
  <2> QED BY <1>1, <2>1, <2>2 DEF VariantInput
<1> QED BY <1>3, <1>4

LEMMA FormsFit ==
  ASSUME NEW g \in Galleries, NEW u \in Primaries, NEW n \in Stocks, NEW vs \in VariantLists,
         NEW c \in Shelves \cup {Nobody}, NEW own \in BOOLEAN
  PROVE  FormOf(g, u, n, vs, c, own) \in Form
<1>1. /\ g \in SUBSET Url /\ u \in Urls /\ n \in Int /\ vs \in Seq(VariantInput) /\ c \in Categories \cup {Nobody}
  BY FormsAssumption
<1>2. (own \/ g # {} \/ u # NoUrl \/ n >= 0 \/ c # Nobody \/ vs = <<>>) \in BOOLEAN
  OBVIOUS
<1> QED BY <1>1, <1>2 DEF FormOf, Form

LEMMA NoFormFits == NoForm \in Form
BY DEF NoForm, Form, Urls, NoUrl

LEMMA NoWorkFits == NoWork \in Work
BY NoFormFits, CatalogueAssumption DEF NoWork, Work, AdminPC, Urls

\* Of the entries of a form that are of one variant, one is the last.
LEMMA LastIsSent ==
  ASSUME NEW input \in Seq(VariantInput), NEW S \in SUBSET DOMAIN input, S # {}
  PROVE  LastOf(S) \in S /\ \A j \in S : j <= LastOf(S)
<1>1. DOMAIN input = 1..Len(input) /\ Len(input) \in Nat /\ S \subseteq 1..Len(input)
  OBVIOUS
<1>2. IsFiniteSet(S)
  <2>1. IsFiniteSet(1..Len(input))
    BY <1>1, FS_Interval
  <2> QED BY <1>1, <2>1, FS_Subset
<1> DEFINE Later(i) == {j \in S : j > i}
<1>3. PICK i \in S : \A k \in S : Later(k) \subseteq Later(i) => Later(k) = Later(i)
  <2> DEFINE B == {Later(i) : i \in S}
  <2>1. B \subseteq SUBSET S /\ B # {}
    OBVIOUS
  <2> HIDE DEF Later
  <2>2. PICK T \in B : \A U \in B : U \subseteq T => U = T
    <3> HIDE DEF B
    <3> QED BY <1>2, <2>1, SmallestSet
  <2> QED BY <2>2
<1>4. \A j \in S : j <= i
  <2> SUFFICES ASSUME NEW j \in S, j > i PROVE FALSE
    BY <1>1
  <2>1. Later(j) \subseteq Later(i) /\ j \in Later(i) /\ j \notin Later(j)
    BY <1>1
  <2> QED BY <1>3, <2>1
<1> QED BY <1>4 DEF LastOf

\* There are ids for the rows that a form adds.
LEMMA IdsAreFree ==
  ASSUME NEW input \in Seq(VariantInput), Enough(input)
  PROVE  /\ NewIds(input) \in [Unnamed(input) -> FreeVariants]
         /\ \A i, j \in Unnamed(input) : i # j => NewIds(input)[i] # NewIds(input)[j]
         /\ \A i \in DOMAIN input :
              IF i \in Unnamed(input) THEN IdOf(input, i) = NewIds(input)[i] /\ IdOf(input, i) \in FreeVariants
              ELSE IdOf(input, i) = input[i].id /\ input[i].id \in VariantIds
<1>1. IsFiniteSet(Unnamed(input)) /\ IsFiniteSet(FreeVariants)
  <2>1. DOMAIN input = 1..Len(input) /\ Len(input) \in Nat
    OBVIOUS
  <2>2. IsFiniteSet(DOMAIN input)
    BY <2>1, FS_Interval
  <2> QED BY <2>2, FS_Subset, CatalogueAssumption DEF Unnamed, FreeVariants
<1>2. /\ Cardinality(Unnamed(input)) \in Nat /\ Cardinality(FreeVariants) \in Nat
      /\ Cardinality(FreeVariants) >= Cardinality(Unnamed(input))
  BY <1>1, FS_CardinalityType DEF Enough
<1>3. PICK f \in [Unnamed(input) -> FreeVariants] :
        \A i, j \in Unnamed(input) : i # j => f[i] # f[j]
  BY <1>1, <1>2, EnoughIds
<1>4. f \in Injection(Unnamed(input), FreeVariants)
  BY <1>3 DEF Injection, IsInjective
<1>5. NewIds(input) \in Injection(Unnamed(input), FreeVariants)
  BY <1>4 DEF NewIds
<1>6. /\ NewIds(input) \in [Unnamed(input) -> FreeVariants]
      /\ \A i, j \in Unnamed(input) : i # j => NewIds(input)[i] # NewIds(input)[j]
  BY <1>5 DEF Injection, IsInjective
<1>7. \A i \in DOMAIN input : input[i].id \in VariantIds \cup {Nobody}
  <2>1. \A i \in DOMAIN input : input[i] \in VariantInput
    OBVIOUS
  <2> QED BY <2>1 DEF VariantInput
<1> QED BY <1>6, <1>7 DEF IdOf, Unnamed

-----------------------------------------------------------------------------
(* Types *)

LEMMA ImagesAreUrls ==
  ASSUME CatalogueTypeOK
  PROVE  /\ \A c \in Categories : categories[c].image \in Urls
         /\ \A p \in Products : VariantImages(p) \in SUBSET Url /\ UrlsOf(p) \in SUBSET Url
<1>1. \A v \in VariantIds : variants[v].images \in SUBSET Url
  BY DEF CatalogueTypeOK, VariantRow
<1>2. \A p \in Products : VariantImages(p) \in SUBSET Url
  BY <1>1 DEF VariantImages, VariantsOf
<1>3. \A p \in Products : products[p].images \in SUBSET Url /\ products[p].primary \in Urls
  BY DEF CatalogueTypeOK, ProductRow
<1>4. \A p \in Products : UrlsOf(p) \in SUBSET Url
  BY <1>2, <1>3 DEF UrlsOf, Urls
<1> QED BY <1>2, <1>4 DEF CatalogueTypeOK, CategoryRow

LEMMA SellsNothing == NoCategory \in CategoryRow /\ NoProduct \in ProductRow /\ NoVariant \in VariantRow
BY DEF NoCategory, CategoryRow, NoProduct, ProductRow, NoVariant, VariantRow, RowState, Urls, NoUrl

LEMMA BecomeTyped ==
  ASSUME CatalogueTypeOK, NEW a \in Admins, NEW work \in Work, Become(a, work)
  PROVE  admin' \in [Admins -> Work]
BY DEF CatalogueTypeOK, Become

LEMMA FinishTyped == ASSUME CatalogueTypeOK, NEW a \in Admins, Finish(a) PROVE admin' \in [Admins -> Work]
BY NoWorkFits, BecomeTyped DEF Finish

LEMMA StepTyped ==
  ASSUME CatalogueTypeOK, NEW a \in Admins, NEW pc \in AdminPC, Step(a, pc)
  PROVE  admin' \in [Admins -> Work]
<1>1. admin[a] \in Work
  BY DEF CatalogueTypeOK
<1>2. [admin[a] EXCEPT !.pc = pc] \in Work
  BY <1>1 DEF Work
<1> QED BY <1>2, BecomeTyped DEF Step

LEMMA TreeRequestTyped ==
  ASSUME CatalogueTypeOK, NEW a \in Admins, TreeRequest(a)
  PROVE  CatalogueTypeOK'
<1>1. NoWork \in Work /\ NoUrl \in Urls
  BY NoWorkFits DEF Urls
<1>2. Offered \subseteq Urls
  BY <1>1, ImagesAreUrls DEF Offered, CatalogueTypeOK, Urls
<1>3. ASSUME NEW c \in Categories, NEW parent \in Categories \cup {Nobody}, NEW image \in Offered,
             CreateCategory(a, c, parent, image)
      PROVE  CatalogueTypeOK'
  <2>1. [NoWork EXCEPT !.pc = "cat_image", !.category = c, !.parent = parent,
                       !.image = image, !.sets = TRUE] \in Work
    BY ZenonT(30), <1>1, <1>2 DEF Work, AdminPC
  <2> QED BY <1>3, <2>1, BecomeTyped DEF CreateCategory, Begin, CatalogueTypeOK
<1>4. ASSUME NEW c \in Categories, NEW moves \in BOOLEAN, NEW parent \in Categories \cup {Nobody},
             NEW sets \in BOOLEAN, NEW image \in Urls, UpdateCategory(a, c, moves, parent, sets, image)
      PROVE  CatalogueTypeOK'
  <2> DEFINE walk == IF moves /\ parent # Nobody THEN WalkFrom(parent) ELSE Nobody
             before == {categories[c].image} \ {NoUrl}
  <2>1. walk \in Categories \cup {Nobody}
    BY DEF WalkFrom, CatalogueTypeOK, CategoryRow
  <2>2. before \in SUBSET Url
    BY ImagesAreUrls DEF Urls
  <2> HIDE DEF walk, before
  <2>3. [NoWork EXCEPT !.pc = "cat_walk", !.category = c, !.moves = moves, !.parent = parent,
                       !.walk = walk, !.sets = sets, !.image = image, !.before = before] \in Work
    <3> DEFINE u == [NoWork EXCEPT !.pc = "cat_walk", !.category = c, !.moves = moves, !.parent = parent]
    <3>1. u \in Work
      BY ZenonT(60), <1>1 DEF Work, AdminPC
    <3> HIDE DEF u
    <3>2. [u EXCEPT !.walk = walk, !.sets = sets, !.image = image, !.before = before] \in Work
      BY ZenonT(30), <2>1, <2>2, <3>1 DEF Work
    <3> QED BY <3>2 DEF u
  <2>4. Become(a, [NoWork EXCEPT
           !.pc = "cat_walk", !.category = c, !.moves = moves, !.parent = parent,
           !.walk = walk, !.sets = sets, !.image = image, !.before = before])
    BY <1>4 DEF UpdateCategory, Begin, walk, before
  <2> QED BY <1>4, <2>3, <2>4, BecomeTyped DEF UpdateCategory, CatalogueTypeOK
<1>5. ASSUME NEW c \in Categories, NEW permanent \in BOOLEAN, DeleteCategory(a, c, permanent)
      PROVE  CatalogueTypeOK'
  <2>1. [NoWork EXCEPT !.pc = "del_descendants", !.category = c,
                       !.group = {c}, !.level = {c}, !.permanent = permanent] \in Work
    BY ZenonT(60), <1>1 DEF Work, AdminPC
  <2> QED BY <1>5, <2>1, BecomeTyped DEF DeleteCategory, Begin, CatalogueTypeOK
<1> QED BY <1>1, <1>2, <1>3, <1>4, <1>5 DEF TreeRequest

LEMMA RowEdited ==
  ASSUME NEW w \in Work, NEW row \in CategoryRow
  PROVE  EditedRow(w, row) \in CategoryRow
<1>1. \A parent \in Categories \cup {Nobody}, image \in Urls :
        [row EXCEPT !.parent = parent, !.image = image] \in CategoryRow
  BY DEF CategoryRow
<1>2. /\ (IF w.moves THEN w.parent ELSE row.parent) \in Categories \cup {Nobody}
      /\ (IF w.sets THEN w.image ELSE row.image) \in Urls
  BY DEF Work, CategoryRow
<1> QED BY <1>1, <1>2 DEF EditedRow

LEMMA TreeStepTyped ==
  ASSUME CatalogueTypeOK, NEW a \in Admins, TreeStep(a)
  PROVE  CatalogueTypeOK'
<1> DEFINE w == admin[a]
<1>1. w \in Work /\ admin \in [Admins -> Work]
  BY DEF CatalogueTypeOK
<1>2. CASE CategoryImage(a)
  <2>1. files' \subseteq Url
    <3>1. {w.image} \in SUBSET Urls
      BY <1>1 DEF Work
    <3> QED BY <1>2, <3>1, FilesMove DEF CategoryImage, CatalogueTypeOK, Namespaces
  <2>2. Relocated(w.image, "categories") \in Urls
    BY <1>1, UrlsMove DEF Work, Namespaces
  <2>3. admin' \in [Admins -> Work]
    <3> DEFINE pc == IF categories[w.category].state = "none" THEN "cat_create" ELSE "cat_update"
    <3>1. pc \in AdminPC
      BY DEF AdminPC
    <3>2. Become(a, [w EXCEPT !.pc = pc, !.image = Relocated(w.image, "categories")])
      BY <1>2 DEF CategoryImage
    <3> HIDE DEF pc, w
    <3>3. [w EXCEPT !.pc = pc, !.image = Relocated(w.image, "categories")] \in Work
      BY <1>1, <2>2, <3>1 DEF Work
    <3> QED BY <3>2, <3>3, BecomeTyped
  <2> QED BY <1>2, <2>1, <2>3 DEF CategoryImage, CatalogueTypeOK
<1>3. CASE CreateCategoryRow(a)
  <2>1. categories' \in [Categories -> CategoryRow]
    <3>1. [state |-> "live", parent |-> w.parent, image |-> w.image] \in CategoryRow
      BY <1>1 DEF Work, CategoryRow, RowState
    <3> QED BY <1>3, <3>1 DEF CreateCategoryRow, CatalogueTypeOK
  <2> QED BY <1>3, <2>1, FinishTyped DEF CreateCategoryRow, CatalogueTypeOK
<1>4. CASE WalkUp(a)
  <2>1. w.walk # Nobody => categories[w.walk].parent \in Categories \cup {Nobody}
    BY <1>1 DEF Work, CatalogueTypeOK, CategoryRow
  <2>2. w.walk # Nobody => [w EXCEPT !.walk = categories[w.walk].parent] \in Work
    BY <1>1, <2>1 DEF Work
  <2>3. admin' \in [Admins -> Work]
    BY <1>4, <2>2, FinishTyped, StepTyped, BecomeTyped DEF WalkUp, AdminPC
  <2> QED BY <1>4, <2>3 DEF WalkUp, CatalogueTypeOK
<1>5. CASE UpdateCategoryRow(a)
  <2>1. categories' \in [Categories -> CategoryRow]
    <3>1. categories \in [Categories -> CategoryRow]
      BY DEF CatalogueTypeOK
    <3>2. \A row \in CategoryRow : EditedRow(w, row) \in CategoryRow
      <4> HIDE DEF w
      <4> QED BY <1>1, RowEdited
    <3> QED BY <1>5, <3>1, <3>2 DEF UpdateCategoryRow
  <2>2. admin' \in [Admins -> Work]
    <3> DEFINE garbage == IF w.sets THEN w.before \ {w.image} ELSE {}
    <3>1. garbage \in SUBSET Url
      BY <1>1 DEF Work
    <3>2. Finish(a) \/ Become(a, [w EXCEPT !.pc = "files", !.garbage = garbage])
      BY <1>5 DEF UpdateCategoryRow
    <3> HIDE DEF garbage, w
    <3>3. [w EXCEPT !.pc = "files", !.garbage = garbage] \in Work
      BY ZenonT(60), <1>1, <3>1 DEF Work, AdminPC
    <3> QED BY <3>2, <3>3, BecomeTyped, FinishTyped
  <2> QED BY <1>5, <2>1, <2>2 DEF UpdateCategoryRow, CatalogueTypeOK
<1>6. CASE RefuseCategory(a)
  BY <1>6, FinishTyped DEF RefuseCategory, CatalogueTypeOK
<1>7. CASE FindDescendants(a)
  <2> DEFINE found == (IF w.permanent THEN Children(w.level) ELSE LiveChildren(w.level)) \ w.group
  <2>1. found \subseteq Categories
    BY DEF Children, LiveChildren
  <2> HIDE DEF found
  <2> DEFINE pc == IF NextLevel(found) = {} THEN "del_products" ELSE w.pc
  <2>2. pc \in AdminPC
    BY <1>1 DEF Work, AdminPC
  <2>3. Become(a, [w EXCEPT !.pc = pc, !.group = @ \cup found, !.level = NextLevel(found)])
    BY <1>7 DEF FindDescendants, found
  <2> HIDE DEF pc, w
  <2>4. [w EXCEPT !.pc = pc, !.group = @ \cup found, !.level = NextLevel(found)] \in Work
    BY <1>1, <2>1, <2>2 DEF Work, NextLevel
  <2>5. admin' \in [Admins -> Work]
    BY <2>3, <2>4, BecomeTyped
  <2> QED BY <1>7, <2>5 DEF FindDescendants, CatalogueTypeOK
<1>8. ASSUME NEW S PROVE Gone(S) \in [VariantIds -> VariantRow]
  BY SellsNothing DEF Gone, CatalogueTypeOK
<1>9. CASE DeleteProductsOf(a)
  <2>1. products' \in [Products -> ProductRow]
    <3>1. \A p \in Products : [products[p] EXCEPT !.state = "deleted"] \in ProductRow
      BY DEF CatalogueTypeOK, ProductRow, RowState
    <3> QED BY <1>9, <3>1, SellsNothing DEF DeleteProductsOf, CatalogueTypeOK
  <2>2. variants' \in [VariantIds -> VariantRow]
    BY <1>8, <1>9 DEF DeleteProductsOf, CatalogueTypeOK
  <2> QED BY <1>9, <2>1, <2>2, StepTyped DEF DeleteProductsOf, CatalogueTypeOK, AdminPC
<1>10. CASE CategoryImages(a)
  <2> DEFINE S == {categories[c].image : c \in w.group \cap Categories} \ {NoUrl}
  <2>1. S \in SUBSET Url
    BY ImagesAreUrls DEF Urls
  <2> HIDE DEF S
  <2> DEFINE pc == IF w.permanent THEN "del_detach" ELSE "del_categories"
  <2>2. pc \in AdminPC
    BY DEF AdminPC
  <2>4. Become(a, [w EXCEPT !.pc = pc, !.garbage = S])
    BY <1>10 DEF CategoryImages, S
  <2> HIDE DEF pc, w
  <2>5. [w EXCEPT !.pc = pc, !.garbage = S] \in Work
    BY <1>1, <2>1, <2>2 DEF Work
  <2>3. admin' \in [Admins -> Work]
    BY <2>4, <2>5, BecomeTyped
  <2> QED BY <1>10, <2>3 DEF CategoryImages, CatalogueTypeOK
<1>11. CASE Detach(a)
  <2>1. categories' \in [Categories -> CategoryRow]
    BY <1>11 DEF Detach, CatalogueTypeOK, CategoryRow
  <2> QED BY <1>11, <2>1, StepTyped DEF Detach, CatalogueTypeOK, AdminPC
<1>12. CASE DeleteCategories(a)
  <2>1. categories' \in [Categories -> CategoryRow]
    <3>1. \A c \in Categories : /\ [categories[c] EXCEPT !.state = "deleted"] \in CategoryRow
                                /\ [categories[c] EXCEPT !.parent = Nobody] \in CategoryRow
      BY DEF CatalogueTypeOK, CategoryRow, RowState
    <3>2. \/ categories' = [c \in Categories |->
               IF c \in w.group THEN NoCategory
               ELSE IF categories[c].parent \in w.group THEN [categories[c] EXCEPT !.parent = Nobody]
               ELSE categories[c]]
          \/ categories' = [c \in Categories |->
               IF c \in w.group /\ categories[c].state # "none"
               THEN [categories[c] EXCEPT !.state = "deleted"] ELSE categories[c]]
      BY <1>12 DEF DeleteCategories
    <3>3. \A c \in Categories : categories[c] \in CategoryRow
      BY DEF CatalogueTypeOK
    <3> QED BY <3>1, <3>2, <3>3, SellsNothing
  <2>2. products' \in [Products -> ProductRow]
    BY <1>12, SellsNothing DEF DeleteCategories, CatalogueTypeOK
  <2>3. variants' \in [VariantIds -> VariantRow]
    BY <1>8, <1>12 DEF DeleteCategories, CatalogueTypeOK
  <2> QED BY <1>12, <2>1, <2>2, <2>3, StepTyped DEF DeleteCategories, CatalogueTypeOK, AdminPC
<1> QED BY <1>2, <1>3, <1>4, <1>5, <1>6, <1>7, <1>9, <1>10, <1>11, <1>12 DEF TreeStep

LEMMA UnitsFit ==
  ASSUME NEW Z \in {Nat, Int}, NEW rows, NEW S, IsFiniteSet(S), \A x \in S : rows[x].stock \in Z
  PROVE  Units(rows, S) \in Z
<1> DEFINE f == [x \in S |-> rows[x].stock]
<1>1. \A x \in S : f[x] \in Z
  OBVIOUS
<1> HIDE DEF f
<1>2. SumFunctionOnSet(f, S) \in Z
  BY <1>1, SumFits
<1> QED BY <1>2 DEF Units, f

LEMMA FormUnits ==
  ASSUME NEW input \in Seq(VariantInput)
  PROVE  UnitsIn(input) \in Int
<1>1. DOMAIN input = 1..Len(input) /\ Len(input) \in Nat /\ \A i \in DOMAIN input : input[i] \in VariantInput
  OBVIOUS
<1>2. IsFiniteSet(DOMAIN input)
  BY <1>1, FS_Interval
<1>3. \A i \in DOMAIN input : input[i].stock \in Int
  BY <1>1, CatalogueAssumption DEF VariantInput
<1> QED BY <1>2, <1>3, UnitsFit DEF UnitsIn

LEMMA RowsFit ==
  ASSUME NEW input \in Seq(VariantInput), NEW p \in Products \cup {Nobody}, NEW rows \in [VariantIds -> VariantRow]
  PROVE  Written(p, input, rows) \in [VariantIds -> VariantRow]
<1> DEFINE sent(v) == {i \in DOMAIN input : IdOf(input, i) = v}
           owner(v) == IF rows[v].product = Nobody THEN p ELSE rows[v].product
<1>1. \A i \in DOMAIN input : input[i] \in VariantInput
  OBVIOUS
<1>2. \A i \in DOMAIN input, o \in Products \cup {Nobody} : RowFor(o, input[i]) \in VariantRow
  BY <1>1, CatalogueAssumption DEF VariantInput, VariantRow, RowFor
<1>3. \A v \in VariantIds : owner(v) \in Products \cup {Nobody}
  BY DEF VariantRow
<1>4. \A v \in VariantIds : sent(v) # {} => LastOf(sent(v)) \in DOMAIN input
  BY LastIsSent
<1>5. Written(p, input, rows) =
        [v \in VariantIds |-> IF sent(v) = {} THEN rows[v] ELSE RowFor(owner(v), input[LastOf(sent(v))])]
  BY DEF Written
<1> HIDE DEF sent, owner
<1> QED BY <1>2, <1>3, <1>4, <1>5

LEMMA FormEdited ==
  ASSUME NEW w \in Work, NEW pc \in AdminPC
  PROVE  /\ \A S \in SUBSET Url : [w EXCEPT !.pc = pc, !.form.images = S] \in Work
         /\ \A u \in Urls : [w EXCEPT !.pc = pc, !.form.primary = u] \in Work
         /\ \A vs \in Seq(VariantInput) : [w EXCEPT !.pc = pc, !.form.variants = vs] \in Work
         /\ \A n \in Int : [w EXCEPT !.pc = pc, !.form.stock = n] \in Work
         /\ \A n \in Int, own \in BOOLEAN : [w EXCEPT !.form.stock = n, !.form.own = own] \in Work
         /\ \A S \in SUBSET VariantIds : [w EXCEPT !.pc = pc, !.doomed = S] \in Work
<1>1. w.form \in Form /\ \A f \in Form : [w EXCEPT !.pc = pc, !.form = f] \in Work /\ [w EXCEPT !.form = f] \in Work
  BY ZenonT(30) DEF Work
<1>2. /\ \A S \in SUBSET Url : [w.form EXCEPT !.images = S] \in Form
      /\ \A u \in Urls : [w.form EXCEPT !.primary = u] \in Form
      /\ \A vs \in Seq(VariantInput) : [w.form EXCEPT !.variants = vs] \in Form
      /\ \A n \in Int : [w.form EXCEPT !.stock = n] \in Form
      /\ \A n \in Int, own \in BOOLEAN : [w.form EXCEPT !.stock = n, !.own = own] \in Form
  BY <1>1 DEF Form
<1>3. \A S \in SUBSET VariantIds : [w EXCEPT !.pc = pc, !.doomed = S] \in Work
  BY ZenonT(30) DEF Work
<1>4. \A n \in Int, own \in BOOLEAN : [w EXCEPT !.form.stock = n, !.form.own = own] \in Work
  BY <1>1, <1>2
<1>5. \A n \in Int : [w EXCEPT !.pc = pc, !.form.stock = n] \in Work
  BY <1>1, <1>2
<1> QED BY <1>1, <1>2, <1>3, <1>4, <1>5

LEMMA PrimaryFits ==
  ASSUME NEW f \in Form, NEW u \in PrimaryOf([f EXCEPT !.primary = Relocated(@, "products")])
  PROVE  u \in Urls
<1>1. f.primary \in Urls /\ f.images \in SUBSET Url
  BY DEF Form
<1>2. Relocated(f.primary, "products") \in Urls
  BY <1>1, UrlsMove DEF Namespaces
<1> QED BY <1>1, <1>2 DEF PrimaryOf, Form, Urls

LEMMA ProductRequestTyped ==
  ASSUME CatalogueTypeOK, NEW a \in Admins, ProductRequest(a)
  PROVE  CatalogueTypeOK'
<1>1. NoWork \in Work
  BY NoWorkFits
<1>2. ASSUME NEW p \in Products, NEW c \in Categories, NEW form \in Form, CreateProduct(a, p, c, form)
      PROVE  CatalogueTypeOK'
  <2>1. [NoWork EXCEPT !.pc = "create_images", !.product = p, !.category = c, !.form = form] \in Work
    BY ZenonT(30), <1>1 DEF Work, AdminPC
  <2> QED BY <1>2, <2>1, BecomeTyped DEF CreateProduct, Begin, CatalogueTypeOK
<1>3. ASSUME NEW p \in Products, NEW form \in Form, UpdateProduct(a, p, form)
      PROVE  CatalogueTypeOK'
  <2>1. products[p].images \in SUBSET Url /\ VariantImages(p) \in SUBSET Url
    BY ImagesAreUrls DEF CatalogueTypeOK, ProductRow
  <2>2. [NoWork EXCEPT !.pc = "update_check", !.product = p, !.form = form,
                       !.before = products[p].images, !.kept = VariantImages(p)] \in Work
    BY ZenonT(30), <1>1, <2>1 DEF Work, AdminPC
  <2> QED BY <1>3, <2>2, BecomeTyped DEF UpdateProduct, Begin, CatalogueTypeOK
<1>4. ASSUME NEW p \in Products, NEW v \in VariantIds \cup {Nobody}, NEW n \in 0..MaxUnits, UpdateStock(a, p, v, n)
      PROVE  CatalogueTypeOK'
  <2>1. [NoWork EXCEPT !.pc = "stock_sum", !.product = p, !.units = <<v, n>>] \in Work
    BY ZenonT(30), <1>1 DEF Work, AdminPC
  <2> QED BY <1>4, <2>1, BecomeTyped DEF UpdateStock, Begin, CatalogueTypeOK
<1>6. ASSUME NEW S \in SUBSET Products, NEW permanent \in BOOLEAN, DeleteProducts(a, S, permanent)
      PROVE  CatalogueTypeOK'
  <2> DEFINE garbage == UNION {UrlsOf(p) : p \in S}
  <2>1. garbage \in SUBSET Url
    BY ImagesAreUrls
  <2> HIDE DEF garbage
  <2>2. [NoWork EXCEPT !.pc = "remove_save", !.group = S, !.permanent = permanent, !.garbage = garbage] \in Work
    BY ZenonT(30), <1>1, <2>1 DEF Work, AdminPC
  <2>3. Begin(a, [NoWork EXCEPT !.pc = "remove_save", !.group = S, !.permanent = permanent, !.garbage = garbage])
    BY <1>6 DEF DeleteProducts, garbage
  <2> QED BY <1>6, <2>2, <2>3, BecomeTyped DEF DeleteProducts, Begin, CatalogueTypeOK
<1>7. Owns \subseteq BOOLEAN
  BY FormsAssumption
<1> QED BY <1>2, <1>3, <1>4, <1>6, <1>7, FormsFit DEF ProductRequest

LEMMA RowsAfterFit ==
  ASSUME CatalogueTypeOK, NEW p \in Products \cup {Nobody}, NEW f \in Form, NEW S \in SUBSET VariantIds
  PROVE  /\ RowsAfter(p, f, S) \in [VariantIds -> VariantRow] /\ StockAfter(p, f, S) \in Int
         /\ LET rows == RowsAfter(p, f, S) IN Units(rows, {v \in VariantIds : rows[v].product = p}) \in Nat
<1> DEFINE others == [v \in VariantIds |-> IF v \in S THEN NoVariant ELSE variants[v]]
           rows == RowsAfter(p, f, S)
           now == {v \in VariantIds : rows[v].product = p}
<1>1. f.variants \in Seq(VariantInput) /\ f.stock \in Int
  BY DEF Form
<1>2. others \in [VariantIds -> VariantRow]
  BY SellsNothing DEF CatalogueTypeOK
<1>3. rows = Written(p, f.variants, others)
  BY DEF RowsAfter
<1> HIDE DEF others, rows
<1>4. rows \in [VariantIds -> VariantRow]
  BY <1>1, <1>2, <1>3, RowsFit
<1>5. Units(rows, now) \in Nat
  <2>1. IsFiniteSet(now)
    BY FS_Subset, CatalogueAssumption
  <2>2. \A v \in now : rows[v].stock \in Nat
    BY <1>4 DEF VariantRow
  <2> HIDE DEF now
  <2> QED BY <2>1, <2>2, UnitsFit
<1>6. StockAfter(p, f, S) \in {Units(rows, now), f.stock}
  BY DEF StockAfter, rows
<1> QED BY <1>1, <1>4, <1>5, <1>6 DEF rows

LEMMA EditedFits ==
  ASSUME CatalogueTypeOK, NEW p \in Products, NEW f \in Form, NEW n \in Int
  PROVE  EditedProduct(p, f, n) \in ProductRow
<1>1. /\ f.images \in SUBSET Url /\ f.primary \in Urls /\ f.category \in Categories \cup {Nobody}
      /\ products[p] \in ProductRow
  BY DEF Form, CatalogueTypeOK
<1>2. \A m \in Int, S \in SUBSET Url, u \in Urls, c \in Categories \cup {Nobody} :
        [products[p] EXCEPT !.stock = m, !.images = S, !.primary = u, !.category = c] \in ProductRow
  BY <1>1 DEF ProductRow
<1> DEFINE stock == IF n >= 0 THEN n ELSE products[p].stock
           images == IF f.hasImages THEN f.images ELSE products[p].images
           primary == IF f.primary # NoUrl THEN f.primary ELSE products[p].primary
           category == IF f.category # Nobody THEN f.category ELSE products[p].category
<1>3. stock \in Int /\ images \in SUBSET Url /\ primary \in Urls /\ category \in Categories \cup {Nobody}
  BY <1>1 DEF ProductRow
<1>4. EditedProduct(p, f, n) =
        [products[p] EXCEPT !.stock = stock, !.images = images, !.primary = primary, !.category = category]
  BY Zenon DEF EditedProduct
<1> HIDE DEF stock, images, primary, category
<1>5. [products[p] EXCEPT !.stock = stock, !.images = images, !.primary = primary, !.category = category] \in ProductRow
  BY <1>2, <1>3, ZenonT(30)
<1> QED BY <1>4, <1>5, Zenon

LEMMA DroppedAre == ASSUME NEW p, NEW f PROVE Dropped(p, f) \in SUBSET VariantIds
BY DEF Dropped, VariantsOf

LEMMA CreateTyped ==
  ASSUME CatalogueTypeOK, NEW a \in Admins, CreateImages(a) \/ CreatePrimary(a) \/ RefuseProduct(a) \/ CheckNewProduct(a)
           \/ CreateVariants(a) \/ CreateSave(a)
  PROVE  CatalogueTypeOK'
<1> DEFINE w == admin[a]
           f == w.form
<1>1. /\ w \in Work /\ f \in Form /\ admin \in [Admins -> Work]
      /\ f.images \in SUBSET Url /\ f.primary \in Urls /\ f.variants \in Seq(VariantInput) /\ f.stock \in Int
      /\ "products" \in Namespaces
  BY DEF CatalogueTypeOK, Work, Form, Namespaces
<1>2. CASE CreateImages(a)
  <2> DEFINE urls == IF f.images # {} THEN f.images ELSE {f.primary} \ {NoUrl}
  <2>1. urls \in SUBSET Url
    BY <1>1 DEF Urls
  <2>2. /\ MoveFiles(urls, "products")
        /\ Become(a, [w EXCEPT !.pc = "create_primary", !.form.images = Move(urls, "products")])
    BY <1>2 DEF CreateImages
  <2> HIDE DEF urls
  <2>3. files' \subseteq Url
    BY <1>1, <2>1, <2>2, FilesMove DEF CatalogueTypeOK, Urls
  <2>4. Move(urls, "products") \in SUBSET Url
    BY <1>1, <2>1, UrlsMove
  <2>5. admin' \in [Admins -> Work]
    <3> HIDE DEF w
    <3>1. [w EXCEPT !.pc = "create_primary", !.form.images = Move(urls, "products")] \in Work
      BY <1>1, <2>4, FormEdited DEF AdminPC
    <3> QED BY <2>2, <3>1, BecomeTyped
  <2> QED BY <1>2, <2>3, <2>5 DEF CreateImages, CatalogueTypeOK
<1>3. CASE CreatePrimary(a)
  <2>1. PICK u \in PrimaryOf([f EXCEPT !.primary = Relocated(@, "products")]) :
          Become(a, [w EXCEPT !.pc = "create_check", !.form.primary = u])
    BY <1>3 DEF CreatePrimary
  <2>2. u \in Urls
    BY <1>1, PrimaryFits
  <2>3. files' \subseteq Url
    BY <1>1, <1>3, FilesMove DEF CreatePrimary, CatalogueTypeOK
  <2>4. admin' \in [Admins -> Work]
    <3> HIDE DEF w
    <3>1. [w EXCEPT !.pc = "create_check", !.form.primary = u] \in Work
      BY <1>1, <2>2, FormEdited DEF AdminPC
    <3> QED BY <2>1, <3>1, BecomeTyped
  <2> QED BY <1>3, <2>3, <2>4 DEF CreatePrimary, CatalogueTypeOK
<1>4. CASE RefuseProduct(a)
  BY <1>4, FinishTyped DEF RefuseProduct, CatalogueTypeOK
<1>5. CASE CheckNewProduct(a)
  BY <1>5, FinishTyped, StepTyped DEF CheckNewProduct, CatalogueTypeOK, AdminPC
<1>6. CASE CreateVariants(a)
  <2>1. CASE TwoDefaults(f.variants)
    BY <1>6, <2>1, FinishTyped DEF CreateVariants, CatalogueTypeOK
  <2>2. CASE ~TwoDefaults(f.variants)
    <3>1. /\ MoveFiles(InputImages(f.variants), "products")
          /\ Become(a, [w EXCEPT !.pc = "create_save", !.form.variants = Moved(WithDefault(f.variants))])
      BY <1>6, <2>2 DEF CreateVariants
    <3>2. files' \subseteq Url
      BY <1>1, <3>1, FilesMove, InputUrls DEF CatalogueTypeOK
    <3>3. Moved(WithDefault(f.variants)) \in Seq(VariantInput)
      BY <1>1, DefaultGiven, InputsMove
    <3>4. admin' \in [Admins -> Work]
      <4> HIDE DEF w
      <4>1. [w EXCEPT !.pc = "create_save", !.form.variants = Moved(WithDefault(f.variants))] \in Work
        BY <1>1, <3>3, FormEdited DEF AdminPC
      <4> QED BY <3>1, <4>1, BecomeTyped
    <3> QED BY <1>6, <3>2, <3>4 DEF CreateVariants, CatalogueTypeOK
  <2> QED BY <2>1, <2>2
<1>7. CASE CreateSave(a)
  <2> DEFINE stock == IF f.variants # <<>> THEN UnitsIn(f.variants) ELSE IF f.stock < 0 THEN 0 ELSE f.stock
             row == [state |-> "live", category |-> w.category, stock |-> stock,
                     images |-> f.images, primary |-> f.primary]
  <2>1. stock \in Int
    BY <1>1, FormUnits
  <2>2. \/ UNCHANGED <<products, variants>>
        \/ /\ products' = [products EXCEPT ![w.product] = row]
           /\ variants' = Written(w.product, f.variants, variants)
    BY <1>7 DEF CreateSave
  <2> HIDE DEF stock
  <2>3. row \in ProductRow
    BY <1>1, <2>1 DEF Work, ProductRow, RowState
  <2> HIDE DEF row
  <2>4. products' \in [Products -> ProductRow]
    BY <2>2, <2>3 DEF CatalogueTypeOK
  <2>5. variants' \in [VariantIds -> VariantRow]
    BY <1>1, <2>2, RowsFit DEF CatalogueTypeOK, Work
  <2> QED BY <1>7, <2>4, <2>5, FinishTyped DEF CreateSave, CatalogueTypeOK
<1> QED BY <1>2, <1>3, <1>4, <1>5, <1>6, <1>7

LEMMA UpdateTyped ==
  ASSUME CatalogueTypeOK, NEW a \in Admins,
         CheckUpdate(a) \/ UpdateVariants(a) \/ UpdateImages(a) \/ UpdatePrimary(a) \/ UpdateSave(a)
         \/ TakeRows(a) \/ SumRows(a) \/ CommitRows(a)
  PROVE  CatalogueTypeOK'
<1> DEFINE w == admin[a]
           f == w.form
<1>1. /\ w \in Work /\ f \in Form /\ admin \in [Admins -> Work]
      /\ f.images \in SUBSET Url /\ f.primary \in Urls /\ f.variants \in Seq(VariantInput) /\ f.stock \in Int
      /\ "products" \in Namespaces
  BY DEF CatalogueTypeOK, Work, Form, Namespaces
<1>2. CASE CheckUpdate(a)
  BY <1>2, FinishTyped, StepTyped DEF CheckUpdate, CatalogueTypeOK, AdminPC
<1>3. CASE UpdateVariants(a)
  <2>1. /\ MoveFiles(InputImages(f.variants), "products")
        /\ Become(a, [w EXCEPT !.pc = "update_images", !.form.variants = Moved(WithDefault(f.variants))])
    BY <1>3 DEF UpdateVariants
  <2>2. files' \subseteq Url
    BY <1>1, <2>1, FilesMove, InputUrls DEF CatalogueTypeOK
  <2>3. Moved(WithDefault(f.variants)) \in Seq(VariantInput)
    BY <1>1, DefaultGiven, InputsMove
  <2>4. admin' \in [Admins -> Work]
    <3> HIDE DEF w
    <3>1. [w EXCEPT !.pc = "update_images", !.form.variants = Moved(WithDefault(f.variants))] \in Work
      BY <1>1, <2>3, FormEdited DEF AdminPC
    <3> QED BY <2>1, <3>1, BecomeTyped
  <2> QED BY <1>3, <2>2, <2>4 DEF UpdateVariants, CatalogueTypeOK
<1>4. CASE UpdateImages(a)
  <2> DEFINE moved == Move(f.images, "products")
             garbage == IF f.hasImages THEN (w.before \ moved) \ StillShown(w) ELSE {}
  <2>1. /\ MoveFiles(f.images, "products")
        /\ Become(a, [w EXCEPT !.pc = "update_primary", !.form.images = moved, !.garbage = garbage])
    BY <1>4 DEF UpdateImages
  <2>2. files' \subseteq Url
    BY <1>1, <2>1, FilesMove DEF CatalogueTypeOK, Urls
  <2>3. moved \in SUBSET Url /\ garbage \in SUBSET Url
    BY <1>1, UrlsMove DEF Work
  <2> HIDE DEF moved, garbage, w
  <2>4. [w EXCEPT !.pc = "update_primary", !.form.images = moved] \in Work
    BY <1>1, <2>3, FormEdited DEF AdminPC
  <2>5. [w EXCEPT !.pc = "update_primary", !.form.images = moved, !.garbage = garbage] \in Work
    <3> DEFINE u == [w EXCEPT !.pc = "update_primary", !.form.images = moved]
    <3>1. u \in Work
      BY <2>4
    <3> HIDE DEF u
    <3>2. [u EXCEPT !.garbage = garbage] \in Work
      BY <2>3, <3>1 DEF Work
    <3> QED BY <3>2 DEF u
  <2>6. admin' \in [Admins -> Work]
    BY <2>1, <2>5, BecomeTyped
  <2> QED BY <1>4, <2>2, <2>6 DEF UpdateImages, CatalogueTypeOK
<1>5. CASE UpdatePrimary(a)
  <2>1. PICK u \in PrimaryOf([f EXCEPT !.primary = Relocated(@, "products")]) :
          Become(a, [w EXCEPT !.pc = "update_save", !.form.primary = u])
    BY <1>5 DEF UpdatePrimary
  <2>2. u \in Urls
    BY <1>1, PrimaryFits
  <2>3. files' \subseteq Url
    BY <1>1, <1>5, FilesMove DEF UpdatePrimary, CatalogueTypeOK
  <2>4. admin' \in [Admins -> Work]
    <3> HIDE DEF w
    <3>1. [w EXCEPT !.pc = "update_save", !.form.primary = u] \in Work
      BY <1>1, <2>2, FormEdited DEF AdminPC
    <3> QED BY <2>1, <3>1, BecomeTyped
  <2> QED BY <1>5, <2>3, <2>4 DEF UpdatePrimary, CatalogueTypeOK
<1>6. ASSUME NEW S \in SUBSET VariantIds, NEW n \in Int,
             UNCHANGED <<products, variants>> \/
               (/\ variants' = RowsAfter(w.product, f, S)
                /\ products' = [products EXCEPT ![w.product] = EditedProduct(w.product, f, n)])
      PROVE  products' \in [Products -> ProductRow] /\ variants' \in [VariantIds -> VariantRow]
  <2>1. \A p \in Products : EditedProduct(p, f, n) \in ProductRow
    BY <1>1, EditedFits
  <2>2. w.product \in Products \cup {Nobody}
    BY <1>1 DEF Work
  <2>3. RowsAfter(w.product, f, S) \in [VariantIds -> VariantRow]
    BY <1>1, <2>2, RowsAfterFit
  <2>4. /\ variants' = variants \/ variants' = RowsAfter(w.product, f, S)
        /\ products' = products \/ products' = [products EXCEPT ![w.product] = EditedProduct(w.product, f, n)]
    BY <1>6
  <2> HIDE DEF w, f
  <2> QED BY <2>1, <2>2, <2>3, <2>4 DEF CatalogueTypeOK
<1>7. CASE UpdateSave(a)
  <2> DEFINE S == Dropped(w.product, f)
             n == StockAfter(w.product, f, S)
  <2>1. S \in SUBSET VariantIds /\ w.product \in Products \cup {Nobody}
    BY <1>1, DroppedAre DEF Work
  <2> HIDE DEF S
  <2>2. n \in Int
    BY <1>1, <2>1, RowsAfterFit
  <2>3. UNCHANGED <<products, variants>> \/
          (/\ variants' = RowsAfter(w.product, f, S)
           /\ products' = [products EXCEPT ![w.product] = EditedProduct(w.product, f, n)])
    BY <1>7 DEF UpdateSave, S
  <2> HIDE DEF n
  <2>4. products' \in [Products -> ProductRow] /\ variants' \in [VariantIds -> VariantRow]
    BY <1>6, <2>1, <2>2, <2>3
  <2>5. (Finish(a) \/ Step(a, "files")) /\ UNCHANGED <<files, categories>>
    BY <1>7 DEF UpdateSave
  <2> QED BY <2>4, <2>5, FinishTyped, StepTyped DEF CatalogueTypeOK, AdminPC
<1>8. CASE TakeRows(a)
  <2> DEFINE S == Dropped(w.product, f)
  <2>1. S \in SUBSET VariantIds
    BY DroppedAre
  <2>2. /\ Finish(a) \/ Become(a, [w EXCEPT !.pc = "update_sum", !.doomed = S])
        /\ UNCHANGED <<files, categories, products, variants>>
    BY <1>8 DEF TakeRows
  <2> HIDE DEF S, w
  <2>3. [w EXCEPT !.pc = "update_sum", !.doomed = S] \in Work
    BY <1>1, <2>1, FormEdited DEF AdminPC
  <2> QED BY <2>2, <2>3, FinishTyped, BecomeTyped DEF CatalogueTypeOK
<1>9. CASE SumRows(a)
  <2> DEFINE n == StockAfter(w.product, f, w.doomed)
  <2>1. w.doomed \in SUBSET VariantIds /\ w.product \in Products \cup {Nobody}
    BY <1>1 DEF Work
  <2>2. n \in Int
    BY <1>1, <2>1, RowsAfterFit
  <2>3. /\ Become(a, [w EXCEPT !.pc = "update_commit", !.form.stock = n])
        /\ UNCHANGED <<files, categories, products, variants>>
    BY <1>9 DEF SumRows
  <2> HIDE DEF n, w
  <2>4. [w EXCEPT !.pc = "update_commit", !.form.stock = n] \in Work
    BY <1>1, <2>2, FormEdited DEF AdminPC
  <2> QED BY <2>3, <2>4, BecomeTyped DEF CatalogueTypeOK
<1>10. CASE CommitRows(a)
  <2>1. w.doomed \in SUBSET VariantIds
    BY <1>1 DEF Work
  <2>2. /\ variants' = RowsAfter(w.product, f, w.doomed)
        /\ products' = [products EXCEPT ![w.product] = EditedProduct(w.product, f, f.stock)]
    BY <1>10 DEF CommitRows
  <2>3. products' \in [Products -> ProductRow] /\ variants' \in [VariantIds -> VariantRow]
    BY <1>1, <1>6, <2>1, <2>2
  <2>4. Step(a, "files") /\ UNCHANGED <<files, categories>>
    BY <1>10 DEF CommitRows
  <2> QED BY <2>3, <2>4, StepTyped DEF CatalogueTypeOK, AdminPC
<1> QED BY <1>2, <1>3, <1>4, <1>5, <1>7, <1>8, <1>9, <1>10

LEMMA StockTyped ==
  ASSUME CatalogueTypeOK, NEW a \in Admins, RemoveSave(a) \/ SumStock(a) \/ CommitStock(a) \/ CleanUp(a)
  PROVE  CatalogueTypeOK'
<1> DEFINE w == admin[a]
<1>1. /\ w \in Work /\ w.form \in Form /\ w.form.stock \in Int
      /\ w.units[1] \in VariantIds \cup {Nobody} /\ w.units[2] \in 0..MaxUnits
  BY DEF CatalogueTypeOK, Work, Form
<1>2. CASE RemoveSave(a)
  <2>1. \A p \in Products : products[p] \in ProductRow /\ [products[p] EXCEPT !.state = "deleted"] \in ProductRow
    BY DEF CatalogueTypeOK, ProductRow, RowState
  <2>2. products' \in [Products -> ProductRow]
    BY <1>2, <2>1, SellsNothing DEF RemoveSave
  <2>3. variants' \in [VariantIds -> VariantRow]
    BY <1>2, SellsNothing DEF RemoveSave, CatalogueTypeOK
  <2> QED BY <1>2, <2>2, <2>3, StepTyped DEF RemoveSave, CatalogueTypeOK, AdminPC
<1>3. CASE SumStock(a)
  <2> DEFINE own == VariantsOf(w.product) # {} \/ w.units[1] = Nobody
  <2>1. DerivedStock(w) \in Int
    <3> DEFINE S == VariantsOf(w.product) \ {w.units[1]}
    <3>1. IsFiniteSet(S)
      BY FS_Subset, CatalogueAssumption DEF VariantsOf
    <3>2. \A v \in S : variants[v].stock \in Int
      BY DEF VariantsOf, CatalogueTypeOK, VariantRow
    <3>3. Units(variants, S) \in Int
      <4> HIDE DEF S
      <4> QED BY <3>1, <3>2, UnitsFit
    <3>4. w.units[2] \in Int
      BY <1>1, CatalogueAssumption
    <3>5. \/ DerivedStock(w) = w.units[2]
          \/ DerivedStock(w) = Units(variants, S) + w.units[2]
          \/ DerivedStock(w) = Units(variants, S) + 0
      BY DEF DerivedStock
    <3> HIDE DEF w, S
    <3> QED BY <3>3, <3>4, <3>5
  <2>2. Become(a, [w EXCEPT !.form.stock = DerivedStock(w), !.form.own = own])
    BY <1>3 DEF SumStock
  <2>3. [w EXCEPT !.form.stock = DerivedStock(w), !.form.own = own] \in Work
    <3> HIDE DEF w
    <3> QED BY <1>1, <2>1, FormEdited DEF AdminPC
  <2> QED BY <1>3, <2>2, <2>3, BecomeTyped DEF SumStock, CatalogueTypeOK
<1>4. CASE CommitStock(a)
  <2>1. \A row \in VariantRow : [row EXCEPT !.stock = w.units[2]] \in VariantRow
    BY <1>1, CatalogueAssumption DEF VariantRow
  <2>2. \A row \in ProductRow : [row EXCEPT !.stock = w.form.stock] \in ProductRow
    BY <1>1 DEF ProductRow
  <2>3. /\ products' = products \/ products' = [products EXCEPT ![w.product].stock = w.form.stock]
        /\ variants' = variants \/ variants' = [variants EXCEPT ![w.units[1]].stock = w.units[2]]
        /\ Finish(a) /\ UNCHANGED <<files, categories>>
    BY <1>4 DEF CommitStock
  <2> QED BY <2>1, <2>2, <2>3, FinishTyped DEF CatalogueTypeOK
<1>5. CASE CleanUp(a)
  BY <1>5, FinishTyped DEF CleanUp, DeleteFiles, CatalogueTypeOK
<1> QED BY <1>2, <1>3, <1>4, <1>5

LEMMA OthersTyped ==
  ASSUME CatalogueTypeOK,
         \/ \E v \in VariantIds : SellVariant(v)
         \/ \E image \in Images, at \in Namespaces : Upload(image, at)
  PROVE  CatalogueTypeOK'
<1>1. ASSUME NEW v \in VariantIds, SellVariant(v) PROVE CatalogueTypeOK'
  <2>1. variants[v] \in VariantRow
    BY DEF CatalogueTypeOK
  <2>2. PICK n \in Nat : n = variants[v].stock - 1
    BY <1>1, <2>1 DEF VariantRow, SellVariant
  <2>3. [variants[v] EXCEPT !.stock = n] \in VariantRow
    BY <2>1 DEF VariantRow
  <2>4. variants' = [variants EXCEPT ![v] = [variants[v] EXCEPT !.stock = n]]
    BY <1>1, <2>2 DEF SellVariant
  <2> QED BY <1>1, <2>3, <2>4 DEF SellVariant, CatalogueTypeOK
<1>2. ASSUME NEW image \in Images, NEW at \in Namespaces, Upload(image, at) PROVE CatalogueTypeOK'
  BY <1>2 DEF Upload, CatalogueTypeOK, Url
<1> QED BY <1>1, <1>2

LEMMA CatalogueTyped ==
  ASSUME CatalogueTypeOK, [CatalogueNext]_catalogueVars
  PROVE  CatalogueTypeOK'
<1>1. CASE UNCHANGED catalogueVars
  BY <1>1 DEF catalogueVars, CatalogueTypeOK
<1>2. CASE CatalogueNext
  BY <1>2, TreeRequestTyped, TreeStepTyped, ProductRequestTyped, CreateTyped, UpdateTyped, StockTyped, OthersTyped
     DEF CatalogueNext, ProductNext, ProductStep
<1> QED BY <1>1, <1>2

LEMMA CatalogueStartsTyped == ASSUME CatalogueInit PROVE CatalogueTypeOK
BY NoWorkFits, SellsNothing DEF CatalogueInit, CatalogueTypeOK

\* Every row, file and request of the back office has its type, whatever
\* requests overlap.
THEOREM CatalogueTypes == CatalogueSpec => []CatalogueTypeOK
<1>1. CatalogueInit => CatalogueTypeOK
  BY CatalogueStartsTyped
<1>2. CatalogueTypeOK /\ [CatalogueNext]_catalogueVars => CatalogueTypeOK'
  BY CatalogueTyped
<1> QED BY <1>1, <1>2, PTL DEF CatalogueSpec

-----------------------------------------------------------------------------
(* One default variant, however updates of a product overlap: a form that    *)
(* waits to be saved names a variant once and has one default, and a product *)
(* that is being made has no rows and nobody else's attention.               *)

Creating == {"create_images", "create_primary", "create_check", "create_variants", "create_save"}
Splitting == {"update_sum", "update_commit"}
Updating == {"update_check", "update_variants", "update_images", "update_primary", "update_save"} \cup Splitting

NamedOnce(vs) == \A i, j \in DOMAIN vs : vs[i].id = vs[j].id => i = j \/ vs[i].id = Nobody
OneChosen(vs) ==
  vs = <<>> \/ \E i \in DOMAIN vs : vs[i].isDefault /\ \A j \in DOMAIN vs : vs[j].isDefault => j = i

\* What the requests of a back office look like: a form names a variant once,
\* and a product's request its own variants.
PlainForms == "foreign" \notin CatalogueOps /\ \A vs \in VariantLists : NamedOnce(vs)
\* Every update says something of the product itself.
OwnForms == Owns \subseteq {TRUE}
OneAtATime == \A a, b \in Admins : a = b
\* Updates of a product do not overlap: its row keeps them apart, or there is one.
Serial == OwnForms \/ OneAtATime

FormSound(w) ==
  /\ w.pc \in Creating \cup Updating => w.product \in Products /\ (PlainForms => NamedOnce(w.form.variants))
  /\ w.pc \in Creating \cup Updating /\ w.pc # "update_commit" => w.form.stock \in Stocks
  /\ w.pc \in Creating => Named(w.form) = {}
  /\ w.pc = "update_variants" => ~TwoDefaults(w.form.variants)
  /\ w.pc \in {"create_save", "update_images", "update_primary", "update_save"} \cup Splitting => OneChosen(w.form.variants)
  /\ w.pc \in Updating => (w.form.own \/ w.form.variants # <<>>) /\ (OwnForms => w.form.own)
  /\ w.pc \in Splitting => ~w.form.own
  /\ w.pc \in Updating /\ Shelves \subseteq {Nobody} => w.form.category = Nobody

FormsAreSound == \A a \in Admins : FormSound(admin[a])
MadeByOne ==
  \A a \in Admins : admin[a].pc \in Creating =>
    /\ products[admin[a].product].state = "none"
    /\ \A b \in Admins : b # a => admin[b].product # admin[a].product
FormsInv == CatalogueTypeOK /\ FormsAreSound /\ MadeByOne

RowsHaveProducts ==
  \A v \in VariantIds : variants[v].product # Nobody => products[variants[v].product].state # "none"
OneDefault(p) ==
  VariantsOf(p) # {} => \E v \in VariantsOf(p) :
    variants[v].isDefault /\ \A u \in VariantsOf(p) : variants[u].isDefault => u = v
\* A variant that an update names is the product's, or gone.
NamesTheirs ==
  \A a \in Admins : admin[a].pc \in Updating =>
    \A v \in Named(admin[a].form) : variants[v].product \in {admin[a].product, Nobody}
\* What a transaction has written, it finds at its end.
SplitSound(w) ==
  w.pc \in Splitting => /\ products[w.product].state # "none" /\ Named(w.form) \subseteq VariantsOf(w.product)
                        /\ w.doomed = Dropped(w.product, w.form)

DefaultsInv ==
  /\ FormsInv /\ RowsHaveProducts /\ NamesTheirs /\ \A a \in Admins : SplitSound(admin[a])
  /\ \A p \in Products : OneDefault(p)

\* The rows of a form `vs` of product p, once they are written.
FormRows(p, vs, after) ==
  /\ \A i, j \in DOMAIN vs : IdOf(vs, i) = IdOf(vs, j) => i = j
  /\ \A i \in DOMAIN vs : IdOf(vs, i) \in VariantIds /\ after[IdOf(vs, i)] = RowFor(p, vs[i])
  /\ \A v \in VariantIds :
       /\ after[v].product = p => /\ variants[v].product = p \/ (variants[v].product = Nobody /\ v \notin Known)
                                  /\ \E i \in DOMAIN vs : IdOf(vs, i) = v
       /\ variants[v].product = p => after[v].product \in {p, Nobody}
       /\ variants[v].product # p /\ after[v].product # p => after[v] = variants[v]

LEMMA FormWritten ==
  ASSUME CatalogueTypeOK, NEW p \in Products, NEW vs \in Seq(VariantInput), Enough(vs), NamedOnce(vs),
         NEW rows \in [VariantIds -> VariantRow],
         \A i \in DOMAIN vs : vs[i].id \in VariantsOf(p) \cup {Nobody},
         \A v \in VariantIds :
           /\ rows[v].product = p => \E i \in DOMAIN vs : vs[i].id = v
           /\ variants[v].product = p => rows[v].product \in {p, Nobody}
           /\ variants[v].product # p => rows[v] = variants[v]
  PROVE  FormRows(p, vs, Written(p, vs, rows))
<1>1. p # Nobody /\ Nobody \notin VariantIds
  BY CatalogueAssumption
<1>2. \A i \in DOMAIN vs :
        IF i \in Unnamed(vs) THEN IdOf(vs, i) = NewIds(vs)[i] /\ IdOf(vs, i) \in FreeVariants
        ELSE IdOf(vs, i) = vs[i].id /\ IdOf(vs, i) \in VariantsOf(p)
  BY ZenonT(30), IdsAreFree DEF Unnamed
<1>3. \A i \in DOMAIN vs :
        LET v == IdOf(vs, i) IN
        /\ v \in VariantIds /\ rows[v].product \in {p, Nobody}
        /\ variants[v].product = p \/ (variants[v].product = Nobody /\ v \notin Known)
  BY <1>1, <1>2 DEF FreeVariants, VariantsOf
<1>4. ASSUME NEW i \in DOMAIN vs, NEW j \in DOMAIN vs, IdOf(vs, i) = IdOf(vs, j) PROVE i = j
  <2>1. CASE i \in Unnamed(vs) /\ j \in Unnamed(vs)
    BY <1>2, <1>4, <2>1, IdsAreFree
  <2>2. CASE i \notin Unnamed(vs) /\ j \notin Unnamed(vs)
    BY <1>2, <1>4, <2>2 DEF NamedOnce, Unnamed
  <2>3. CASE (i \in Unnamed(vs)) # (j \in Unnamed(vs))
    BY <1>1, <1>2, <1>4, <2>3 DEF FreeVariants, VariantsOf
  <2> QED BY <2>1, <2>2, <2>3
<1> DEFINE after == Written(p, vs, rows)
           sent(v) == {i \in DOMAIN vs : IdOf(vs, i) = v}
<1>5. \A v \in VariantIds :
        after[v] = IF sent(v) = {} THEN rows[v]
                   ELSE RowFor(IF rows[v].product = Nobody THEN p ELSE rows[v].product, vs[LastOf(sent(v))])
  BY DEF Written
<1>6. \A i \in DOMAIN vs : LastOf(sent(IdOf(vs, i))) = i
  <2> SUFFICES ASSUME NEW i \in DOMAIN vs PROVE LastOf(sent(IdOf(vs, i))) = i
    OBVIOUS
  <2>1. sent(IdOf(vs, i)) = {i} /\ {i} \in SUBSET DOMAIN vs /\ {i} # {}
    BY <1>4
  <2>2. LastOf({i}) \in {i}
    BY <2>1, LastIsSent
  <2> QED BY <2>1, <2>2
<1>7. \A i \in DOMAIN vs : sent(IdOf(vs, i)) # {}
  OBVIOUS
<1> HIDE DEF after
<1>8. \A i \in DOMAIN vs : after[IdOf(vs, i)] = RowFor(p, vs[i])
  <2> SUFFICES ASSUME NEW i \in DOMAIN vs PROVE after[IdOf(vs, i)] = RowFor(p, vs[i])
    OBVIOUS
  <2>1. PICK v \in VariantIds : v = IdOf(vs, i)
    BY <1>3
  <2>2. /\ rows[v].product \in {p, Nobody} /\ LastOf(sent(v)) = i /\ sent(v) # {}
        /\ after[v] = RowFor(IF rows[v].product = Nobody THEN p ELSE rows[v].product, vs[LastOf(sent(v))])
    BY <1>3, <1>5, <1>6, <1>7, <2>1
  <2> QED BY <2>1, <2>2
<1>9. \A v \in VariantIds : \/ after[v] = rows[v] /\ \A i \in DOMAIN vs : IdOf(vs, i) # v
                            \/ \E i \in DOMAIN vs : IdOf(vs, i) = v /\ after[v].product = p
  <2> SUFFICES ASSUME NEW v \in VariantIds
               PROVE  \/ after[v] = rows[v] /\ \A i \in DOMAIN vs : IdOf(vs, i) # v
                      \/ \E i \in DOMAIN vs : IdOf(vs, i) = v /\ after[v].product = p
    OBVIOUS
  <2>1. CASE sent(v) = {}
    BY <1>5, <2>1
  <2>2. CASE sent(v) # {}
    <3>1. PICK i \in DOMAIN vs : IdOf(vs, i) = v
      BY <2>2
    <3>2. after[IdOf(vs, i)] = RowFor(p, vs[i]) /\ RowFor(p, vs[i]).product = p
      BY <1>8 DEF RowFor
    <3> QED BY <3>1, <3>2
  <2> QED BY <2>1, <2>2
<1>10. \A v \in VariantIds : after[v].product = p => \E i \in DOMAIN vs : IdOf(vs, i) = v
  <2>1. \A i \in DOMAIN vs : vs[i].id # Nobody => IdOf(vs, i) = vs[i].id
    BY DEF IdOf
  <2> QED BY <1>1, <1>9, <2>1
<1> HIDE DEF sent
<1>11. \A v \in VariantIds :
       /\ after[v].product = p => /\ variants[v].product = p \/ (variants[v].product = Nobody /\ v \notin Known)
                                  /\ \E i \in DOMAIN vs : IdOf(vs, i) = v
       /\ variants[v].product = p => after[v].product \in {p, Nobody}
       /\ variants[v].product # p /\ after[v].product # p => after[v] = variants[v]
  BY <1>3, <1>9, <1>10
<1> QED BY <1>3, <1>4, <1>8, <1>11 DEF FormRows, after

ProductsStay(S) ==
  \A p \in Products : p \notin S /\ products[p].state # "none" => products'[p].state # "none"

\* What a step does to the rows of variants: some products lose theirs, or one
\* product has those of a form.
LosesRows ==
  \E S : /\ ProductsStay(S)
         /\ \A v \in VariantIds :
              IF variants[v].product \in S THEN variants'[v].product = Nobody
              ELSE variants'[v].product = variants[v].product /\ variants'[v].isDefault = variants[v].isDefault
WritesRows ==
  \E p \in Products, vs \in Seq(VariantInput) :
    /\ FormRows(p, vs, variants') /\ OneChosen(vs)
    /\ products'[p].state # "none" /\ ProductsStay({})

RowAction(a) ==
  \/ CreateSave(a) \/ UpdateSave(a) \/ CommitRows(a) \/ RemoveSave(a) \/ CommitStock(a)
  \/ DeleteProductsOf(a) \/ DeleteCategories(a)

LEMMA RowActions ==
  ASSUME [CatalogueNext]_catalogueVars
  PROVE  \/ UNCHANGED <<products, variants>>
         \/ \E a \in Admins : RowAction(a)
         \/ \E v \in VariantIds : SellVariant(v)
<1>1. ASSUME NEW a \in Admins, TreeRequest(a) PROVE UNCHANGED <<products, variants>>
  BY <1>1 DEF TreeRequest, CreateCategory, UpdateCategory, DeleteCategory
<1>2. ASSUME NEW a \in Admins, TreeStep(a) PROVE UNCHANGED <<products, variants>> \/ RowAction(a)
  <2>1. ASSUME CategoryImage(a) \/ CreateCategoryRow(a) \/ WalkUp(a) \/ UpdateCategoryRow(a) \/ RefuseCategory(a)
        PROVE  UNCHANGED <<products, variants>>
    BY <2>1 DEF CategoryImage, CreateCategoryRow, WalkUp, UpdateCategoryRow, RefuseCategory
  <2>2. ASSUME FindDescendants(a) \/ CategoryImages(a) \/ Detach(a) PROVE UNCHANGED <<products, variants>>
    BY <2>2 DEF FindDescendants, CategoryImages, Detach
  <2> QED BY <1>2, <2>1, <2>2 DEF TreeStep, RowAction
<1>3. ASSUME NEW a \in Admins, ProductRequest(a) PROVE UNCHANGED <<products, variants>> \/ RowAction(a)
  <2>1. ASSUME NEW p, NEW c, NEW form, CreateProduct(a, p, c, form) \/ UpdateProduct(a, p, form)
        PROVE  UNCHANGED <<products, variants>>
    BY <2>1 DEF CreateProduct, UpdateProduct
  <2>2. ASSUME NEW p, NEW v, NEW n, UpdateStock(a, p, v, n) PROVE UNCHANGED <<products, variants>>
    BY <2>2 DEF UpdateStock
  <2>3. ASSUME NEW S, NEW permanent, DeleteProducts(a, S, permanent) PROVE UNCHANGED <<products, variants>>
    BY <2>3 DEF DeleteProducts
  <2> QED BY <1>3, <2>1, <2>2, <2>3 DEF ProductRequest, RowAction
<1>4. ASSUME NEW a \in Admins, ProductStep(a) PROVE UNCHANGED <<products, variants>> \/ RowAction(a)
  <2>1. ASSUME CreateImages(a) \/ CreatePrimary(a) \/ RefuseProduct(a) \/ CheckNewProduct(a) \/ CreateVariants(a)
        PROVE  UNCHANGED <<products, variants>>
    BY <2>1 DEF CreateImages, CreatePrimary, RefuseProduct, CheckNewProduct, CreateVariants
  <2>2. ASSUME CheckUpdate(a) \/ UpdateVariants(a) \/ UpdateImages(a) \/ UpdatePrimary(a) \/ SumStock(a)
        PROVE  UNCHANGED <<products, variants>>
    BY <2>2 DEF CheckUpdate, UpdateVariants, UpdateImages, UpdatePrimary, SumStock
  <2>3. ASSUME TakeRows(a) \/ SumRows(a) PROVE UNCHANGED <<products, variants>>
    BY <2>3 DEF TakeRows, SumRows
  <2> QED BY <1>4, <2>1, <2>2, <2>3 DEF ProductStep, RowAction
<1>5. ASSUME NEW a \in Admins, CleanUp(a) PROVE UNCHANGED <<products, variants>>
  BY <1>5 DEF CleanUp
<1>6. ASSUME NEW image \in Images, NEW at \in Namespaces, Upload(image, at) PROVE UNCHANGED <<products, variants>>
  BY <1>6 DEF Upload
<1>7. CASE UNCHANGED catalogueVars
  BY <1>7 DEF catalogueVars
<1>8. CASE CatalogueNext
  BY <1>1, <1>2, <1>3, <1>4, <1>5, <1>6, <1>8 DEF CatalogueNext, ProductNext
<1> QED BY <1>7, <1>8

\* Rows that keep their product and their mark.
LEMMA RowsKept ==
  ASSUME ProductsStay({}),
         \A v \in VariantIds : variants'[v].product = variants[v].product /\ variants'[v].isDefault = variants[v].isDefault
  PROVE  LosesRows
<1> DEFINE lost(S) ==
      \A v \in VariantIds :
        IF variants[v].product \in S THEN variants'[v].product = Nobody
        ELSE variants'[v].product = variants[v].product /\ variants'[v].isDefault = variants[v].isDefault
<1>1. lost({})
  OBVIOUS
<1>2. \E S : ProductsStay(S) /\ lost(S)
  <2> HIDE DEF lost
  <2> QED BY <1>1
<1> QED BY <1>2 DEF LosesRows

LEMMA RowsStand == ASSUME UNCHANGED <<products, variants>> PROVE LosesRows
<1>1. ProductsStay({})
  BY DEF ProductsStay
<1> QED BY <1>1, RowsKept

LEMMA CreateSaveRows ==
  ASSUME PlainForms, CatalogueTypeOK, FormsAreSound, MadeByOne, RowsHaveProducts, NEW a \in Admins, CreateSave(a),
         ~UNCHANGED <<products, variants>>
  PROVE  LET p == admin[a].product  f == admin[a].form IN
         /\ p \in Products /\ f.variants \in Seq(VariantInput) /\ OneChosen(f.variants)
         /\ f.stock \in Stocks /\ FormRows(p, f.variants, variants')
         /\ products[p].state = "none" /\ products'[p].state = "live"
         /\ f.variants # <<>> => products'[p].stock = UnitsIn(f.variants)
         /\ \A q \in Products : q # p => products'[q] = products[q]
<1> DEFINE w == admin[a]
           p == w.product
           vs == w.form.variants
<1>1. /\ w.pc = "create_save" /\ p \in Products /\ NamedOnce(vs) /\ Named(w.form) = {} /\ OneChosen(vs)
      /\ Enough(vs) /\ products[p].state = "none" /\ w.form.stock \in Stocks
  BY DEF CreateSave, At, FormsAreSound, FormSound, Creating, MadeByOne
<1>2. vs \in Seq(VariantInput) /\ products \in [Products -> ProductRow] /\ variants \in [VariantIds -> VariantRow]
  BY DEF CatalogueTypeOK, Work, Form
<1>3. VariantsOf(p) = {}
  BY <1>1, CatalogueAssumption DEF RowsHaveProducts, VariantsOf
<1>4. \A i \in DOMAIN vs : vs[i].id = Nobody
  BY <1>1 DEF Named
<1>5. FormRows(p, vs, Written(p, vs, variants))
  <2> HIDE DEF w
  <2> QED BY <1>1, <1>2, <1>3, <1>4, FormWritten DEF VariantsOf
<1>6. variants' = Written(p, vs, variants)
  BY DEF CreateSave
<1>7. /\ products'[p].state = "live" /\ \A q \in Products : q # p => products'[q] = products[q]
      /\ vs # <<>> => products'[p].stock = UnitsIn(vs)
  BY <1>1, <1>2 DEF CreateSave
<1> QED BY <1>1, <1>2, <1>5, <1>6, <1>7

LEMMA CreateSaveWrites ==
  ASSUME PlainForms, CatalogueTypeOK, FormsAreSound, MadeByOne, RowsHaveProducts, NEW a \in Admins, CreateSave(a)
  PROVE  LosesRows \/ WritesRows
<1>1. CASE UNCHANGED <<products, variants>>
  BY <1>1, RowsStand
<1>2. CASE ~UNCHANGED <<products, variants>>
  <2> DEFINE p == admin[a].product
             vs == admin[a].form.variants
  <2>1. /\ p \in Products /\ vs \in Seq(VariantInput) /\ OneChosen(vs) /\ FormRows(p, vs, variants')
        /\ products[p].state = "none" /\ products'[p].state = "live"
        /\ \A q \in Products : q # p => products'[q] = products[q]
    BY <1>2, CreateSaveRows
  <2>2. ProductsStay({})
    BY <2>1 DEF ProductsStay
  <2> HIDE DEF p, vs
  <2> QED BY <2>1, <2>2 DEF WritesRows
<1> QED BY <1>1, <1>2

\* The rows that an update writes, when it names the product's own variants.
LEMMA SavedRows ==
  ASSUME CatalogueTypeOK, NEW p \in Products, NEW f \in Form, NamedOnce(f.variants), Enough(f.variants),
         Named(f) \subseteq VariantsOf(p)
  PROVE  /\ f.variants # <<>> => FormRows(p, f.variants, RowsAfter(p, f, Dropped(p, f)))
         /\ f.variants = <<>> => RowsAfter(p, f, Dropped(p, f)) = variants
<1> DEFINE vs == f.variants
           others == [v \in VariantIds |-> IF v \in Dropped(p, f) THEN NoVariant ELSE variants[v]]
<1>1. vs \in Seq(VariantInput) /\ variants \in [VariantIds -> VariantRow]
  BY DEF CatalogueTypeOK, Form
<1>2. RowsAfter(p, f, Dropped(p, f)) = Written(p, vs, others)
  BY DEF RowsAfter
<1>3. others \in [VariantIds -> VariantRow]
  BY <1>1, SellsNothing
<1>4. CASE vs = <<>>
  <2>1. others = variants
    BY <1>1, <1>4 DEF Dropped
  <2>2. Written(p, <<>>, variants) = variants
    BY <1>1 DEF Written
  <2> HIDE DEF others
  <2> QED BY <1>2, <1>4, <2>1, <2>2
<1>5. CASE vs # <<>>
  <2>1. \A i \in DOMAIN vs : vs[i].id \in VariantsOf(p) \cup {Nobody}
    BY DEF Named
  <2>2. \A v \in VariantIds :
          /\ others[v].product = p => \E i \in DOMAIN vs : vs[i].id = v
          /\ variants[v].product = p => others[v].product \in {p, Nobody}
          /\ variants[v].product # p => others[v] = variants[v]
    <3>1. \A v \in VariantIds : v \in Dropped(p, f) <=> variants[v].product = p /\ v \notin Named(f)
      BY <1>5 DEF Dropped, VariantsOf
    <3>2. NoVariant.product = Nobody /\ p # Nobody
      BY CatalogueAssumption DEF NoVariant
    <3>3. \A v \in Named(f) : \E i \in DOMAIN vs : vs[i].id = v
      BY DEF Named
    <3> QED BY <3>1, <3>2, <3>3
  <2> HIDE DEF others
  <2>3. FormRows(p, vs, Written(p, vs, others))
    BY <1>1, <1>3, <2>1, <2>2, FormWritten
  <2> QED BY <1>2, <1>5, <2>3
<1> QED BY <1>4, <1>5

\* Whether an update holds the product's row or not.
LEMMA UpdateSaveRows ==
  ASSUME PlainForms, CatalogueTypeOK, FormsAreSound, NamesTheirs, NEW a \in Admins, SplitSound(admin[a]),
         UpdateSave(a) \/ CommitRows(a), ~UNCHANGED <<products, variants>> \/ Step(a, "files")
  PROVE  LET p == admin[a].product  f == admin[a].form
             n == IF UpdateSave(a) THEN StockAfter(p, f, Dropped(p, f)) ELSE f.stock
         IN
         /\ p \in Products /\ f \in Form /\ f.variants \in Seq(VariantInput) /\ OneChosen(f.variants)
         /\ UpdateSave(a) => f.stock \in Stocks
         /\ products[p].state # "none" /\ products' = [products EXCEPT ![p] = EditedProduct(p, f, n)]
         /\ variants' = RowsAfter(p, f, Dropped(p, f))
         /\ f.variants # <<>> => FormRows(p, f.variants, variants')
         /\ f.variants = <<>> => variants' = variants
<1> DEFINE w == admin[a]
           f == w.form
           p == w.product
           vs == f.variants
           n == IF UpdateSave(a) THEN StockAfter(p, f, Dropped(p, f)) ELSE f.stock
<1>1. /\ p \in Products /\ NamedOnce(vs) /\ OneChosen(vs) /\ Enough(vs)
      /\ UpdateSave(a) => f.stock \in Stocks
  BY DEF UpdateSave, CommitRows, At, FormsAreSound, FormSound, Updating, Splitting
<1>2. f \in Form /\ vs \in Seq(VariantInput)
  BY DEF CatalogueTypeOK, Work, Form
<1>3. /\ products[p].state # "none" /\ Named(f) \subseteq VariantsOf(p)
      /\ variants' = RowsAfter(p, f, Dropped(p, f)) /\ products' = [products EXCEPT ![p] = EditedProduct(p, f, n)]
  <2>1. CASE UpdateSave(a)
    <3>1. ~(Finish(a) /\ Step(a, "files"))
      BY DEF CatalogueTypeOK, Finish, Step, Become, NoWork, Work
    <3>2. /\ ~Fails(p, f) /\ variants' = RowsAfter(p, f, Dropped(p, f))
          /\ products' = [products EXCEPT ![p] = EditedProduct(p, f, StockAfter(p, f, Dropped(p, f)))]
      BY <2>1, <3>1 DEF UpdateSave
    <3>3. w.pc \in Updating
      BY <2>1 DEF UpdateSave, At, Updating
    <3>4. Named(f) \subseteq VariantIds
      <4>1. \A i \in DOMAIN vs : vs[i] \in VariantInput
        BY <1>2
      <4> QED BY <4>1 DEF VariantInput, Named
    <3>5. products[p].state # "none" /\ \A v \in Named(f) : variants[v].product = p
      BY <3>2, <3>3 DEF Fails, NamesTheirs
    <3> QED BY <2>1, <3>2, <3>4, <3>5 DEF VariantsOf
  <2>2. CASE CommitRows(a) /\ ~UpdateSave(a)
    <3>1. w.pc \in Splitting
      BY <2>2 DEF CommitRows, At, Splitting
    <3> QED BY <2>2, <3>1 DEF SplitSound, CommitRows
  <2> QED BY <2>1, <2>2
<1> HIDE DEF n
<1>4. /\ vs # <<>> => FormRows(p, vs, RowsAfter(p, f, Dropped(p, f)))
      /\ vs = <<>> => RowsAfter(p, f, Dropped(p, f)) = variants
  <2> HIDE DEF w
  <2> QED BY <1>1, <1>2, <1>3, SavedRows
<1> QED BY <1>1, <1>2, <1>3, <1>4 DEF n

LEMMA UpdateSaveWrites ==
  ASSUME PlainForms, CatalogueTypeOK, FormsAreSound, NamesTheirs, NEW a \in Admins, SplitSound(admin[a]),
         UpdateSave(a) \/ CommitRows(a)
  PROVE  LosesRows \/ WritesRows
<1> DEFINE f == admin[a].form
           p == admin[a].product
           vs == f.variants
<1>1. CASE UNCHANGED <<products, variants>>
  BY <1>1, RowsStand
<1>2. CASE ~UNCHANGED <<products, variants>>
  <2>1. /\ p \in Products /\ vs \in Seq(VariantInput) /\ OneChosen(vs) /\ products[p].state # "none"
        /\ \E n : products' = [products EXCEPT ![p] = EditedProduct(p, f, n)]
        /\ vs # <<>> => FormRows(p, vs, variants')
        /\ vs = <<>> => variants' = variants
    BY <1>2, UpdateSaveRows
  <2>2. \A n : EditedProduct(p, f, n).state = products[p].state
    <3>1. products[p] \in ProductRow
      BY <2>1 DEF CatalogueTypeOK
    <3> QED BY <3>1 DEF EditedProduct, ProductRow
  <2>3. ProductsStay({}) /\ products'[p].state # "none"
    <3> HIDE DEF p, f
    <3> QED BY <2>1, <2>2 DEF ProductsStay, CatalogueTypeOK
  <2>4. CASE vs = <<>>
    BY <2>1, <2>3, <2>4, RowsKept
  <2>5. CASE vs # <<>>
    <3> HIDE DEF p, vs
    <3> QED BY <2>1, <2>3, <2>5 DEF WritesRows
  <2> QED BY <2>4, <2>5
<1> QED BY <1>1, <1>2

LEMMA OtherRowActions ==
  ASSUME CatalogueTypeOK, NEW a \in Admins, RemoveSave(a) \/ DeleteProductsOf(a) \/ DeleteCategories(a)
  PROVE  LosesRows
<1> DEFINE w == admin[a]
           lost(S) == \A v \in VariantIds :
             IF variants[v].product \in S THEN variants'[v].product = Nobody
             ELSE variants'[v].product = variants[v].product /\ variants'[v].isDefault = variants[v].isDefault
<1>1. variants \in [VariantIds -> VariantRow] /\ products \in [Products -> ProductRow]
  BY DEF CatalogueTypeOK
<1>2. ASSUME NEW S, variants' = Gone(S) PROVE lost(S)
  BY <1>2 DEF Gone, NoVariant
<1>3. ASSUME variants' = variants PROVE lost({})
  BY <1>3
<1>4. \A S : ProductsStay(S) /\ lost(S) => LosesRows
  BY DEF LosesRows
<1> HIDE DEF lost
<1>5. CASE RemoveSave(a)
  <2>1. CASE w.permanent
    <3>1. variants' = Gone(w.group)
      BY <1>5, <2>1 DEF RemoveSave, Gone
    <3>2. ProductsStay(w.group)
      BY <1>5 DEF RemoveSave, ProductsStay
    <3> QED BY <1>2, <1>4, <3>1, <3>2
  <2>2. CASE ~w.permanent
    <3>1. variants' = variants
      BY <1>5, <2>2 DEF RemoveSave
    <3>2. \A p \in Products : products'[p] = products[p] \/ products'[p] = [products[p] EXCEPT !.state = "deleted"]
      BY <1>5, <2>2 DEF RemoveSave
    <3>3. ProductsStay({})
      BY <1>1, <3>2 DEF ProductsStay, ProductRow
    <3> QED BY <1>3, <1>4, <3>1, <3>3
  <2> QED BY <2>1, <2>2
<1>6. CASE DeleteProductsOf(a)
  <2> DEFINE inside == {p \in Products : products[p].state # "none" /\ products[p].category \in w.group}
  <2>1. CASE w.permanent
    <3>1. variants' = Gone(inside) /\ \A p \in Products : p \notin inside => products'[p] = products[p]
      BY <1>6, <2>1 DEF DeleteProductsOf
    <3> HIDE DEF inside
    <3>2. ProductsStay(inside)
      BY <3>1 DEF ProductsStay
    <3> QED BY <1>2, <1>4, <3>1, <3>2
  <2>2. CASE ~w.permanent
    <3>1. variants' = variants
      BY <1>6, <2>2 DEF DeleteProductsOf
    <3>2. \A p \in Products : products'[p] = products[p] \/ products'[p] = [products[p] EXCEPT !.state = "deleted"]
      BY <1>6, <2>2 DEF DeleteProductsOf
    <3>3. ProductsStay({})
      BY <1>1, <3>2 DEF ProductsStay, ProductRow
    <3> QED BY <1>3, <1>4, <3>1, <3>3
  <2> QED BY <2>1, <2>2
<1>7. CASE DeleteCategories(a)
  <2> DEFINE inside == {p \in Products : products[p].category \in w.group}
  <2>1. CASE w.permanent
    <3>1. variants' = Gone(inside) /\ \A p \in Products : p \notin inside => products'[p] = products[p]
      BY <1>7, <2>1 DEF DeleteCategories
    <3> HIDE DEF inside
    <3>2. ProductsStay(inside)
      BY <3>1 DEF ProductsStay
    <3> QED BY <1>2, <1>4, <3>1, <3>2
  <2>2. CASE ~w.permanent
    BY <1>7, <2>2, RowsStand DEF DeleteCategories
  <2> QED BY <2>1, <2>2
<1> QED BY <1>5, <1>6, <1>7

LEMMA StockActions ==
  ASSUME CatalogueTypeOK, (\E a \in Admins : CommitStock(a)) \/ \E v \in VariantIds : SellVariant(v)
  PROVE  LosesRows
<1>1. variants \in [VariantIds -> VariantRow] /\ products \in [Products -> ProductRow]
  BY DEF CatalogueTypeOK
<1>2. \A row \in VariantRow : \A n : /\ [row EXCEPT !.stock = n].product = row.product
                                     /\ [row EXCEPT !.stock = n].isDefault = row.isDefault
  BY DEF VariantRow
<1>3. \A row \in ProductRow : \A n : [row EXCEPT !.stock = n].state = row.state
  BY DEF ProductRow
<1>4. ASSUME NEW a \in Admins, CommitStock(a) PROVE LosesRows
  <2>1. /\ variants' = variants \/ variants' = [variants EXCEPT ![admin[a].units[1]].stock = admin[a].units[2]]
        /\ products' = products \/ products' = [products EXCEPT ![admin[a].product].stock = admin[a].form.stock]
    BY <1>4 DEF CommitStock
  <2>2. ProductsStay({})
    <3>1. CASE products' = products
      BY <3>1 DEF ProductsStay
    <3>2. CASE products' = [products EXCEPT ![admin[a].product].stock = admin[a].form.stock]
      BY <1>1, <1>3, <3>2 DEF ProductsStay
    <3> QED BY <2>1, <3>1, <3>2
  <2>3. \A v \in VariantIds : variants'[v].product = variants[v].product /\ variants'[v].isDefault = variants[v].isDefault
    <3>1. CASE variants' = [variants EXCEPT ![admin[a].units[1]].stock = admin[a].units[2]]
      BY <1>1, <1>2, <3>1
    <3> QED BY <2>1, <3>1
  <2> QED BY <2>2, <2>3, RowsKept
<1>5. ASSUME NEW v \in VariantIds, SellVariant(v) PROVE LosesRows
  <2>1. variants' = [variants EXCEPT ![v].stock = @ - 1] /\ products' = products
    BY <1>5 DEF SellVariant
  <2>2. ProductsStay({})
    BY <2>1 DEF ProductsStay
  <2>3. \A u \in VariantIds : variants'[u].product = variants[u].product /\ variants'[u].isDefault = variants[u].isDefault
    BY <1>1, <1>2, <2>1
  <2> QED BY <2>2, <2>3, RowsKept
<1> QED BY <1>4, <1>5

LEMMA RowsSteps ==
  ASSUME PlainForms, CatalogueTypeOK, FormsAreSound, MadeByOne, RowsHaveProducts, NamesTheirs,
         \A a \in Admins : SplitSound(admin[a]), [CatalogueNext]_catalogueVars
  PROVE  LosesRows \/ WritesRows
<1>1. ASSUME NEW a \in Admins, RowAction(a) PROVE LosesRows \/ WritesRows
  BY <1>1, CreateSaveWrites, UpdateSaveWrites, OtherRowActions, StockActions DEF RowAction
<1> QED BY <1>1, RowActions, RowsStand, StockActions

\* A variant that a form names is not given to another product.
LEMMA NamedStay ==
  ASSUME CatalogueTypeOK, LosesRows \/ WritesRows, NEW v \in VariantIds, v \in Known
  PROVE  variants'[v].product \in {variants[v].product, Nobody}
<1>1. CASE LosesRows
  BY <1>1 DEF LosesRows
<1>2. CASE WritesRows
  BY <1>2 DEF WritesRows, FormRows
<1> QED BY <1>1, <1>2

\* Rows that a step leaves, drops or writes are those of products, and each
\* product keeps its one default.
LEMMA DefaultsStay ==
  ASSUME CatalogueTypeOK, CatalogueTypeOK', RowsHaveProducts, \A p \in Products : OneDefault(p), LosesRows \/ WritesRows
  PROVE  RowsHaveProducts' /\ \A p \in Products : OneDefault(p)'
<1>1. /\ \A v \in VariantIds : variants[v].product \in Products \cup {Nobody}
      /\ \A v \in VariantIds : variants'[v].product \in Products \cup {Nobody}
      /\ Nobody \notin Products
  BY CatalogueAssumption DEF CatalogueTypeOK, VariantRow
<1>2. CASE LosesRows
  <2>1. PICK S : /\ ProductsStay(S)
                 /\ \A v \in VariantIds :
                      IF variants[v].product \in S THEN variants'[v].product = Nobody
                      ELSE variants'[v].product = variants[v].product /\ variants'[v].isDefault = variants[v].isDefault
    BY <1>2 DEF LosesRows
  <2>2. RowsHaveProducts'
    BY <1>1, <2>1 DEF RowsHaveProducts, ProductsStay
  <2>3. ASSUME NEW p \in Products PROVE OneDefault(p)'
    <3>1. p \in S => VariantsOf(p)' = {}
      BY <1>1, <2>1 DEF VariantsOf
    <3>2. p \notin S => VariantsOf(p)' = VariantsOf(p)
      BY <1>1, <2>1 DEF VariantsOf
    <3>3. p \notin S => \A v \in VariantsOf(p) : variants'[v].isDefault = variants[v].isDefault
      BY <2>1 DEF VariantsOf
    <3> QED BY <3>1, <3>2, <3>3 DEF OneDefault
  <2> QED BY <2>2, <2>3
<1>3. CASE WritesRows
  <2>1. PICK p \in Products, vs \in Seq(VariantInput) :
          /\ FormRows(p, vs, variants') /\ OneChosen(vs)
          /\ products'[p].state # "none" /\ ProductsStay({})
    BY <1>3 DEF WritesRows
  <2>2. RowsHaveProducts'
    BY <1>1, <2>1 DEF RowsHaveProducts, ProductsStay, FormRows
  <2>3. ASSUME NEW q \in Products, q # p PROVE OneDefault(q)'
    <3>1. VariantsOf(q)' = VariantsOf(q) /\ \A v \in VariantsOf(q) : variants'[v] = variants[v]
      BY <1>1, <2>1, <2>3 DEF VariantsOf, FormRows
    <3> QED BY <3>1 DEF OneDefault
  <2>4. OneDefault(p)'
    <3>1. \A v \in VariantIds : variants'[v].product = p => \E i \in DOMAIN vs : IdOf(vs, i) = v
      BY <2>1 DEF FormRows
    <3>2. \A i \in DOMAIN vs : /\ IdOf(vs, i) \in VariantIds /\ variants'[IdOf(vs, i)].product = p
                               /\ variants'[IdOf(vs, i)].isDefault = vs[i].isDefault
      <4>1. \A i \in DOMAIN vs : IdOf(vs, i) \in VariantIds /\ variants'[IdOf(vs, i)] = RowFor(p, vs[i])
        BY <2>1 DEF FormRows
      <4>2. \A i \in DOMAIN vs : RowFor(p, vs[i]).product = p /\ RowFor(p, vs[i]).isDefault = vs[i].isDefault
        BY DEF RowFor
      <4> QED BY <4>1, <4>2
    <3>3. CASE vs = <<>>
      BY <3>1, <3>3 DEF OneDefault, VariantsOf
    <3>4. CASE vs # <<>>
      <4>1. PICK i \in DOMAIN vs : vs[i].isDefault /\ \A j \in DOMAIN vs : vs[j].isDefault => j = i
        BY <2>1, <3>4 DEF OneChosen
      <4>2. IdOf(vs, i) \in VariantsOf(p)' /\ variants'[IdOf(vs, i)].isDefault
        BY <3>2, <4>1 DEF VariantsOf
      <4>3. ASSUME NEW u \in VariantsOf(p)', variants'[u].isDefault PROVE u = IdOf(vs, i)
        <5>1. PICK j \in DOMAIN vs : IdOf(vs, j) = u
          BY <3>1 DEF VariantsOf
        <5> QED BY <3>2, <4>1, <4>3, <5>1
      <4> QED BY <4>2, <4>3 DEF OneDefault
    <3> QED BY <3>3, <3>4
  <2> QED BY <2>2, <2>3, <2>4
<1> QED BY <1>2, <1>3

\* A stock update takes a variant of a product, and later the sum.
Summing(a, work) ==
  work.pc = "stock_sum" =>
    \/ /\ work.product \in Products /\ work.form.stock < 0
       /\ "foreign" \in CatalogueOps \/ work.units[1] \in VariantsOf(work.product) \cup {Nobody}
    \/ /\ admin[a].pc = "stock_sum" /\ work.product = admin[a].product /\ work.units = admin[a].units
       /\ work.form.stock = DerivedStock(admin[a])
       /\ work.form.own = (VariantsOf(work.product) # {} \/ work.units[1] = Nobody)

OnTree == {"cat_walk", "cat_image", "cat_create", "cat_update",
           "del_descendants", "del_products", "del_images", "del_detach", "del_categories"}

\* Where a request has no product.
Unproduced == OnTree \cup {"idle", "remove_save"}
UpdateTurn(a) ==
  \/ \E p \in Products, form \in Form : UpdateProduct(a, p, form)
  \/ CheckUpdate(a) \/ UpdateVariants(a) \/ UpdateImages(a) \/ UpdatePrimary(a) \/ TakeRows(a) \/ SumRows(a)
Goes(a, work) ==
  work.pc \in Unproduced \cup {"files"} =>
    \/ work.product = Nobody
    \/ /\ work.product = admin[a].product
       /\ admin[a].pc \in Unproduced \/ UpdateSave(a) \/ CommitRows(a)
\* An update keeps to the variants that it has named.
Names(a, work) ==
  work.pc \in Updating =>
    \/ /\ admin[a].pc \in Updating /\ work.product = admin[a].product
       /\ Named(work.form) \subseteq Named(admin[a].form)
    \/ "foreign" \in CatalogueOps \/ Named(work.form) \subseteq VariantsOf(work.product)

\* What a request turns to: it goes on with its product, leaves it, takes one
\* that is on sale, or makes one that nobody else has.
Turn(a, work) ==
  /\ \/ work.product = admin[a].product /\ (work.pc \in Creating => admin[a].pc \in Creating)
     \/ work.product = Nobody /\ work.pc \notin Creating
     \/ work.product \in Products /\ LiveProduct(work.product) /\ work.pc \notin Creating
     \/ /\ "create" \in CatalogueOps
        /\ work.product \in Products /\ products[work.product].state = "none"
        /\ \A b \in Admins : admin[b].product # work.product
  /\ Summing(a, work)
  /\ work.pc \in OnTree => TreeRequest(a) \/ TreeStep(a)
  /\ Goes(a, work) /\ (work.pc \in Updating => UpdateTurn(a)) /\ Names(a, work)
  /\ work.pc \in Splitting => TakeRows(a) \/ SumRows(a)
Turns(a) == \E work : Become(a, work) /\ FormSound(work) /\ Turn(a, work)

LEMMA Elsewhere ==
  ASSUME NEW a \in Admins, NEW work, Become(a, work), work.pc \notin Creating \cup Updating, Summing(a, work),
         work.pc \in OnTree => TreeRequest(a) \/ TreeStep(a), Goes(a, work),
         \/ work.product \in {admin[a].product, Nobody}
         \/ work.product \in Products /\ LiveProduct(work.product)
  PROVE  Turns(a)
<1>1. FormSound(work)
  BY DEF FormSound, Creating, Updating, Splitting
<1>2. Turn(a, work)
  BY DEF Turn, Names, Updating, Splitting
<1> QED BY <1>1, <1>2 DEF Turns

LEMMA FinishTurns == ASSUME NEW a \in Admins, Finish(a) PROVE Turns(a)
BY Elsewhere DEF Finish, NoWork, Creating, Updating, Splitting, Goes, OnTree, Summing

LEMMA StepTurns ==
  ASSUME CatalogueTypeOK, NEW a \in Admins, NEW pc \in AdminPC \ (Creating \cup Updating \cup {"stock_sum"}), Step(a, pc),
         pc \in OnTree => TreeRequest(a) \/ TreeStep(a), admin[a].pc \in Unproduced \/ UpdateSave(a) \/ CommitRows(a)
  PROVE  Turns(a)
<1>1. admin[a] \in Work
  BY DEF CatalogueTypeOK
<1>2. [admin[a] EXCEPT !.pc = pc].pc = pc /\ [admin[a] EXCEPT !.pc = pc].product = admin[a].product
  BY <1>1 DEF Work
<1> QED BY <1>2, Elsewhere DEF Step, Summing, Goes, AdminPC

LEMMA TreeActionsApart ==
  ASSUME NEW a \in Admins, TreeRequest(a) \/ TreeStep(a)
  PROVE  admin[a].pc \in OnTree \cup {"idle"}
<1>1. TreeRequest(a) => admin[a].pc = "idle"
  BY ZenonT(30) DEF TreeRequest, CreateCategory, UpdateCategory, DeleteCategory, Begin, At
<1>2. CategoryImage(a) \/ CreateCategoryRow(a) \/ WalkUp(a) \/ UpdateCategoryRow(a) \/ RefuseCategory(a) => admin[a].pc \in OnTree
  BY DEF CategoryImage, CreateCategoryRow, WalkUp, UpdateCategoryRow, RefuseCategory, At, OnTree
<1>3. FindDescendants(a) \/ DeleteProductsOf(a) \/ CategoryImages(a) \/ Detach(a) \/ DeleteCategories(a) => admin[a].pc \in OnTree
  BY DEF FindDescendants, DeleteProductsOf, CategoryImages, Detach, DeleteCategories, At, OnTree
<1> QED BY <1>1, <1>2, <1>3 DEF TreeStep

LEMMA TreeTurns ==
  ASSUME CatalogueTypeOK, NEW a \in Admins, TreeRequest(a) \/ TreeStep(a)
  PROVE  Turns(a)
<1> DEFINE w == admin[a]
<1>1. w \in Work
  BY DEF CatalogueTypeOK
<1>0. w.pc \in Unproduced
  BY TreeActionsApart DEF Unproduced
<1>2. ASSUME NEW c, NEW parent, NEW image, CreateCategory(a, c, parent, image) PROVE Turns(a)
  <2> DEFINE work == [NoWork EXCEPT !.pc = "cat_image", !.category = c, !.parent = parent,
                                    !.image = image, !.sets = TRUE]
  <2>1. work.pc = "cat_image" /\ work.product = Nobody
    BY DEF NoWork
  <2>2. Become(a, work)
    BY <1>2 DEF CreateCategory, Begin
  <2> HIDE DEF work
  <2> QED BY <2>1, <2>2, <1>0, Elsewhere DEF Creating, Updating, Splitting, Goes, Unproduced, OnTree, Summing
<1>3. ASSUME NEW c, NEW moves, NEW parent, NEW sets, NEW image, UpdateCategory(a, c, moves, parent, sets, image)
      PROVE  Turns(a)
  <2> DEFINE walk == IF moves /\ parent # Nobody THEN WalkFrom(parent) ELSE Nobody
             work == [NoWork EXCEPT
               !.pc = "cat_walk", !.category = c, !.moves = moves, !.parent = parent,
               !.walk = walk, !.sets = sets, !.image = image, !.before = {categories[c].image} \ {NoUrl}]
  <2>1. work.pc = "cat_walk" /\ work.product = Nobody
    BY DEF NoWork
  <2>2. Become(a, work)
    BY <1>3 DEF UpdateCategory, Begin
  <2> HIDE DEF work
  <2> QED BY <2>1, <2>2, <1>0, Elsewhere DEF Creating, Updating, Splitting, Goes, Unproduced, OnTree, Summing
<1>4. ASSUME NEW c, NEW permanent, DeleteCategory(a, c, permanent) PROVE Turns(a)
  <2> DEFINE work == [NoWork EXCEPT !.pc = "del_descendants", !.category = c,
                                    !.group = {c}, !.level = {c}, !.permanent = permanent]
  <2>1. work.pc = "del_descendants" /\ work.product = Nobody
    BY DEF NoWork
  <2>2. Become(a, work)
    BY <1>4 DEF DeleteCategory, Begin
  <2> HIDE DEF work
  <2> QED BY <2>1, <2>2, <1>0, Elsewhere DEF Creating, Updating, Splitting, Goes, Unproduced, OnTree, Summing
<1>5. CASE CategoryImage(a)
  <2> DEFINE pc == IF categories[w.category].state = "none" THEN "cat_create" ELSE "cat_update"
             work == [w EXCEPT !.pc = pc, !.image = Relocated(w.image, "categories")]
  <2>1. work.pc = pc /\ work.product = w.product
    BY <1>1 DEF Work
  <2>2. Become(a, work)
    BY <1>5 DEF CategoryImage
  <2>3. pc \notin Creating \cup Updating /\ pc # "stock_sum"
    BY DEF Creating, Updating, Splitting
  <2> HIDE DEF work, pc
  <2> QED BY <2>1, <2>2, <2>3, <1>0, Elsewhere DEF Summing, Goes, Unproduced, OnTree, Creating, Updating, Splitting
<1>6. CASE CreateCategoryRow(a) \/ RefuseCategory(a)
  BY <1>6, FinishTurns DEF CreateCategoryRow, RefuseCategory
<1>7. CASE WalkUp(a)
  <2> DEFINE work == [w EXCEPT !.walk = categories[w.walk].parent]
  <2>1. work.pc = w.pc /\ work.product = w.product
    BY <1>1 DEF Work
  <2>2. \/ Finish(a) \/ Become(a, work) \/ Step(a, "cat_image") \/ Step(a, "cat_update")
    BY <1>7 DEF WalkUp
  <2>3. w.pc = "cat_walk"
    BY <1>7 DEF WalkUp, At
  <2>4. \A pc \in {"cat_image", "cat_update"} : pc \in AdminPC \ (Creating \cup Updating \cup {"stock_sum"})
    BY DEF Creating, Updating, Splitting, AdminPC
  <2>5. Step(a, "cat_image") \/ Step(a, "cat_update") => Turns(a)
    BY <2>4, <1>0, StepTurns
  <2> HIDE DEF work
  <2>6. Become(a, work) => Turns(a)
    BY <2>1, <2>3, <1>0, Elsewhere DEF Creating, Updating, Splitting, Goes, Unproduced, OnTree, Summing
  <2> QED BY <2>2, <2>5, <2>6, FinishTurns
<1>8. CASE UpdateCategoryRow(a)
  <2> DEFINE work == [w EXCEPT !.pc = "files", !.garbage = IF w.sets THEN w.before \ {w.image} ELSE {}]
  <2>1. work.pc = "files" /\ work.product = w.product
    BY <1>1 DEF Work
  <2>2. Finish(a) \/ Become(a, work)
    BY <1>8 DEF UpdateCategoryRow
  <2> HIDE DEF work
  <2>3. Become(a, work) => Turns(a)
    BY <2>1, <1>0, Elsewhere DEF Creating, Updating, Splitting, Goes, Unproduced, OnTree, Summing
  <2> QED BY <2>2, <2>3, FinishTurns
<1>9. CASE FindDescendants(a)
  <2> DEFINE found == (IF w.permanent THEN Children(w.level) ELSE LiveChildren(w.level)) \ w.group
             work == [w EXCEPT !.pc = IF NextLevel(found) = {} THEN "del_products" ELSE @,
                               !.group = @ \cup found, !.level = NextLevel(found)]
  <2>1. work.pc \in {"del_products", w.pc} /\ work.product = w.product
    BY <1>1 DEF Work
  <2>2. Become(a, work) /\ w.pc = "del_descendants"
    BY <1>9 DEF FindDescendants, At
  <2> HIDE DEF work
  <2> QED BY <2>1, <2>2, <1>0, Elsewhere DEF Creating, Updating, Splitting, Goes, Unproduced, OnTree, Summing
<1>10. CASE CategoryImages(a)
  <2> DEFINE S == {categories[c].image : c \in w.group \cap Categories} \ {NoUrl}
             work == [w EXCEPT !.pc = IF w.permanent THEN "del_detach" ELSE "del_categories", !.garbage = S]
  <2>1. work.pc \in {"del_detach", "del_categories"} /\ work.product = w.product
    BY <1>1 DEF Work
  <2>2. Become(a, work)
    BY <1>10 DEF CategoryImages
  <2> HIDE DEF work
  <2> QED BY <2>1, <2>2, <1>0, Elsewhere DEF Creating, Updating, Splitting, Goes, Unproduced, OnTree, Summing
<1>11. CASE DeleteProductsOf(a) \/ Detach(a) \/ DeleteCategories(a)
  BY <1>11, <1>0, StepTurns DEF DeleteProductsOf, Detach, DeleteCategories, Creating, Updating, Splitting, AdminPC
<1> QED BY <1>2, <1>3, <1>4, <1>5, <1>6, <1>7, <1>8, <1>9, <1>10, <1>11 DEF TreeRequest, TreeStep

LEMMA ProductRequestTurns ==
  ASSUME CatalogueTypeOK, NEW a \in Admins, ProductRequest(a)
  PROVE  Turns(a)
<1> DEFINE Sent(form) ==
      /\ form \in Form /\ (PlainForms => NamedOnce(form.variants)) /\ form.stock \in Stocks
      /\ (form.own \/ form.variants # <<>>) /\ (OwnForms => form.own)
      /\ Shelves \subseteq {Nobody} => form.category = Nobody
<1>1. NoWork \in Work
  BY NoWorkFits
<1>2. ASSUME NEW p \in Products, NEW c, NEW form, Sent(form), CreateProduct(a, p, c, form)
      PROVE  Turns(a)
  <2> DEFINE work == [NoWork EXCEPT !.pc = "create_images", !.product = p, !.category = c, !.form = form]
  <2>1. work.pc = "create_images" /\ work.product = p /\ work.form = form
    BY DEF NoWork
  <2>2. /\ "create" \in CatalogueOps /\ Become(a, work) /\ Named(form) = {}
        /\ products[p].state = "none" /\ \A b \in Admins : admin[b].product # p
    BY <1>2 DEF CreateProduct, Begin
  <2> HIDE DEF work
  <2>3. FormSound(work)
    BY <1>2, <2>1, <2>2 DEF FormSound, Creating, Updating, Splitting
  <2>4. Turn(a, work)
    BY <2>1, <2>2 DEF Turn, Goes, Unproduced, OnTree, Summing, Updating, Splitting, Names
  <2> QED BY <2>2, <2>3, <2>4 DEF Turns
<1>3. ASSUME NEW p \in Products, NEW form, Sent(form), UpdateProduct(a, p, form)
      PROVE  Turns(a)
  <2> DEFINE work == [NoWork EXCEPT !.pc = "update_check", !.product = p, !.form = form,
                             !.before = products[p].images, !.kept = VariantImages(p)]
  <2>1. work.pc = "update_check" /\ work.product = p /\ work.form = form
    BY DEF NoWork
  <2>2. Become(a, work) /\ LiveProduct(p) /\ ("foreign" \in CatalogueOps \/ Named(form) \subseteq VariantsOf(p))
    BY <1>3 DEF UpdateProduct, Begin
  <2> HIDE DEF work
  <2>3. FormSound(work)
    BY <1>3, <2>1 DEF FormSound, Creating, Updating, Splitting
  <2>4. Turn(a, work)
    BY <1>3, <2>1, <2>2 DEF Turn, Goes, Unproduced, OnTree, Summing, Creating, UpdateTurn, Splitting, Names
  <2> QED BY <2>2, <2>3, <2>4 DEF Turns
<1>4. ASSUME NEW p \in Products, NEW v, NEW n, UpdateStock(a, p, v, n) PROVE Turns(a)
  <2> DEFINE work == [NoWork EXCEPT !.pc = "stock_sum", !.product = p, !.units = <<v, n>>]
  <2>1. /\ work.pc = "stock_sum" /\ work.product = p
        /\ work.units[1] = v /\ work.form.stock = -1
    BY DEF NoWork, NoForm
  <2>2. Become(a, work) /\ LiveProduct(p) /\ ("foreign" \in CatalogueOps \/ v \in VariantsOf(p) \cup {Nobody})
    BY <1>4 DEF UpdateStock, Begin
  <2> HIDE DEF work
  <2>3. Summing(a, work)
    BY <2>1, <2>2 DEF Summing
  <2> QED BY <2>1, <2>2, <2>3, Elsewhere DEF Creating, Updating, Splitting, Goes, Unproduced, OnTree
<1>5. ASSUME NEW S, NEW permanent, DeleteProducts(a, S, permanent) PROVE Turns(a)
  <2> DEFINE work == [NoWork EXCEPT !.pc = "remove_save", !.group = S, !.permanent = permanent,
                             !.garbage = UNION {UrlsOf(p) : p \in S}]
  <2>1. work.pc = "remove_save" /\ work.product = Nobody
    BY DEF NoWork
  <2>2. Become(a, work)
    BY <1>5 DEF DeleteProducts, Begin
  <2> HIDE DEF work
  <2> QED BY <2>1, <2>2, Elsewhere DEF Creating, Updating, Splitting, Goes, Unproduced, OnTree, Summing
<1>6. \A g \in Galleries, u \in Primaries, n \in Stocks, vs \in VariantLists, c \in Shelves \cup {Nobody}, own \in BOOLEAN :
        (OwnForms => own) /\ (Shelves \subseteq {Nobody} => c = Nobody) => Sent(FormOf(g, u, n, vs, c, own))
  <2> SUFFICES ASSUME NEW g \in Galleries, NEW u \in Primaries, NEW n \in Stocks, NEW vs \in VariantLists,
                      NEW c \in Shelves \cup {Nobody}, NEW own \in BOOLEAN,
                      OwnForms => own, Shelves \subseteq {Nobody} => c = Nobody
               PROVE  Sent(FormOf(g, u, n, vs, c, own))
    OBVIOUS
  <2>1. FormOf(g, u, n, vs, c, own) \in Form
    BY FormsFit
  <2>2. LET f == FormOf(g, u, n, vs, c, own) IN
        /\ f.variants = vs /\ f.stock = n /\ f.category = c
        /\ (own => f.own) /\ (f.own \/ vs # <<>>)
    BY DEF FormOf
  <2>3. PlainForms => NamedOnce(vs)
    BY DEF PlainForms
  <2> QED BY <2>1, <2>2, <2>3
<1> HIDE DEF Sent
<1>7. \A c \in Shelves, own \in Owns : own \in BOOLEAN /\ (OwnForms => own) /\ (Shelves \subseteq {Nobody} => c = Nobody)
  BY FormsAssumption DEF OwnForms
<1>8. \A g \in Galleries, u \in Primaries, n \in Stocks, vs \in VariantLists : Sent(FormOf(g, u, n, vs, Nobody, TRUE))
  BY <1>6
<1>9. \A g \in Galleries, u \in Primaries, n \in Stocks, vs \in VariantLists, c \in Shelves, own \in Owns :
        Sent(FormOf(g, u, n, vs, c, own))
  BY <1>6, <1>7
<1>10. CASE \E p \in Products, c \in Categories, g \in Galleries, u \in Primaries, n \in Stocks, vs \in VariantLists :
              CreateProduct(a, p, c, FormOf(g, u, n, vs, Nobody, TRUE))
  BY <1>2, <1>8, <1>10
<1>11. CASE \E p \in Products, g \in Galleries, u \in Primaries, n \in Stocks, vs \in VariantLists, c \in Shelves, own \in Owns :
              UpdateProduct(a, p, FormOf(g, u, n, vs, c, own))
  BY <1>3, <1>9, <1>11
<1> QED BY <1>4, <1>5, <1>10, <1>11 DEF ProductRequest

\* A form whose variants are normalised is refused or has one default.
LEMMA NormalisedForms ==
  ASSUME NEW input \in Seq(VariantInput), ~TwoDefaults(input)
  PROVE  LET vs == Moved(WithDefault(input)) IN
         /\ NamedOnce(input) => NamedOnce(vs)
         /\ OneChosen(vs) /\ (input # <<>> => vs # <<>>)
         /\ \A i \in DOMAIN vs : i \in DOMAIN input /\ vs[i].id = input[i].id
<1> DEFINE chosen == WithDefault(input)
           vs == Moved(chosen)
<1>1. /\ chosen \in Seq(VariantInput) /\ DOMAIN chosen = DOMAIN input
      /\ \A i \in DOMAIN input : chosen[i].id = input[i].id
  BY DefaultGiven
<1>2. OneChosen(chosen)
  <2>1. CASE \E i \in DOMAIN input : input[i].isDefault
    BY <2>1 DEF OneChosen, WithDefault, TwoDefaults
  <2>2. CASE ~ \E i \in DOMAIN input : input[i].isDefault
    <3>1. chosen = [i \in DOMAIN input |-> [input[i] EXCEPT !.isDefault = (i = 1)]]
      BY <2>2 DEF WithDefault
    <3>2. DOMAIN input = 1..Len(input) /\ Len(input) \in Nat /\ \A i \in DOMAIN input : input[i] \in VariantInput
      OBVIOUS
    <3>3. \A i \in DOMAIN input : chosen[i].isDefault = (i = 1)
      BY <3>1, <3>2 DEF VariantInput
    <3>4. input # <<>> => 1 \in DOMAIN input
      BY <3>2
    <3>5. input = <<>> => chosen = <<>>
      BY <3>1
    <3> HIDE DEF chosen
    <3> QED BY <1>1, <3>3, <3>4, <3>5 DEF OneChosen
  <2> QED BY <2>1, <2>2
<1> HIDE DEF chosen
<1>3. /\ DOMAIN vs = DOMAIN input
      /\ \A i \in DOMAIN input : vs[i].id = input[i].id /\ vs[i].isDefault = chosen[i].isDefault
  BY <1>1, InputsMove
<1>4. OneChosen(vs)
  <2>1. chosen = <<>> => vs = <<>>
    BY DEF Moved
  <2> HIDE DEF vs
  <2> QED BY <1>1, <1>2, <1>3, <2>1 DEF OneChosen
<1>5. NamedOnce(input) => NamedOnce(vs)
  <2> HIDE DEF vs
  <2> QED BY <1>3 DEF NamedOnce
<1>6. input # <<>> => vs # <<>>
  <2> HIDE DEF vs
  <2> QED BY <1>3
<1> QED BY <1>3, <1>4, <1>5, <1>6 DEF chosen

LEMMA ProductStepTurns ==
  ASSUME CatalogueTypeOK, FormsAreSound, NEW a \in Admins, ProductStep(a) \/ CleanUp(a)
  PROVE  Turns(a)
<1> DEFINE w == admin[a]
           f == w.form
<1> DEFINE Same(g) == g.variants = f.variants /\ g.stock = f.stock /\ g.own = f.own /\ g.category = f.category
<1>1. w \in Work /\ f \in Form /\ f.variants \in Seq(VariantInput) /\ FormSound(w)
  BY DEF CatalogueTypeOK, Work, Form, FormsAreSound
<1>2. CASE RefuseProduct(a) \/ CreateSave(a) \/ CommitStock(a) \/ CleanUp(a)
  BY <1>2, FinishTurns DEF RefuseProduct, CreateSave, CommitStock, CleanUp
<1>3. CASE RemoveSave(a) \/ UpdateSave(a) \/ CommitRows(a)
  <2>1. CASE RemoveSave(a)
    <3>1. w.pc \in Unproduced /\ Step(a, "files")
      BY <2>1 DEF RemoveSave, At, Unproduced
    <3> QED BY <3>1, StepTurns DEF AdminPC, OnTree, Creating, Updating, Splitting
  <2>2. CASE UpdateSave(a) \/ CommitRows(a)
    <3>1. Finish(a) \/ Step(a, "files")
      BY <2>2 DEF UpdateSave, CommitRows
    <3> QED BY <2>2, <3>1, FinishTurns, StepTurns DEF AdminPC, OnTree, Creating, Updating, Splitting
  <2> QED BY <1>3, <2>1, <2>2
<1>4. CASE CreateImages(a)
  <2> DEFINE urls == IF f.images # {} THEN f.images ELSE {f.primary} \ {NoUrl}
             work == [w EXCEPT !.pc = "create_primary", !.form.images = Move(urls, "products")]
  <2>1. work.pc = "create_primary" /\ work.product = w.product /\ Same(work.form)
    BY <1>1 DEF Work, Form
  <2>2. Become(a, work) /\ w.pc = "create_images"
    BY <1>4 DEF CreateImages, At
  <2> HIDE DEF work
  <2>3. FormSound(work)
    BY <1>1, <2>1, <2>2 DEF FormSound, Creating, Updating, Splitting, Named
  <2>4. Turn(a, work)
    BY <2>1, <2>2 DEF Turn, Goes, Unproduced, OnTree, Summing, Creating, Updating, Splitting, UpdateTurn, Names, Named
  <2> QED BY <2>2, <2>3, <2>4 DEF Turns
<1>5. CASE CreatePrimary(a) \/ UpdatePrimary(a)
  <2> DEFINE edit(pc, u) == [w EXCEPT !.pc = pc, !.form.primary = u]
  <2>1. \/ w.pc = "create_primary" /\ \E u : Become(a, edit("create_check", u))
        \/ w.pc = "update_primary" /\ UpdatePrimary(a) /\ \E u : Become(a, edit("update_save", u))
    BY <1>5 DEF CreatePrimary, UpdatePrimary, At
  <2> DEFINE pc == IF w.pc = "create_primary" THEN "create_check" ELSE "update_save"
  <2>2. w.pc \in {"create_primary", "update_primary"} /\ \E u : Become(a, edit(pc, u))
    <3>1. CASE w.pc = "create_primary"
      BY <2>1, <3>1
    <3>2. CASE w.pc # "create_primary"
      BY <2>1, <3>2
    <3> QED BY <3>1, <3>2
  <2> PICK u : Become(a, edit(pc, u))
    BY <2>2
  <2> DEFINE work == edit(pc, u)
  <2>3. work.pc = pc /\ work.product = w.product /\ Same(work.form)
    BY <1>1 DEF Work, Form
  <2>4. Become(a, work)
    OBVIOUS
  <2> HIDE DEF work
  <2>5. FormSound(work)
    BY <1>1, <2>2, <2>3 DEF FormSound, Creating, Updating, Splitting, Named
  <2>6. Turn(a, work)
    BY <2>1, <2>2, <2>3 DEF Turn, Goes, Unproduced, OnTree, Summing, Creating, Updating, Splitting, UpdateTurn, Names, Named
  <2> QED BY <2>4, <2>5, <2>6 DEF Turns
<1>6. CASE CheckNewProduct(a)
  <2> DEFINE work == [w EXCEPT !.pc = "create_variants"]
  <2>1. work.pc = "create_variants" /\ work.product = w.product /\ work.form = f
    BY <1>1 DEF Work
  <2>2. (Finish(a) \/ Become(a, work)) /\ w.pc = "create_check"
    BY <1>6 DEF CheckNewProduct, Step, At
  <2> HIDE DEF work
  <2>3. FormSound(work)
    BY <1>1, <2>1, <2>2 DEF FormSound, Creating, Updating, Splitting
  <2>4. Turn(a, work)
    BY <2>1, <2>2 DEF Turn, Goes, Unproduced, OnTree, Summing, Creating, Updating, Splitting, UpdateTurn, Names, Named
  <2> QED BY <2>2, <2>3, <2>4, FinishTurns DEF Turns
<1>7. CASE CheckUpdate(a)
  <2> DEFINE work == [w EXCEPT !.pc = "update_variants"]
  <2>1. work.pc = "update_variants" /\ work.product = w.product /\ work.form = f
    BY <1>1 DEF Work
  <2>2. (Finish(a) \/ (Become(a, work) /\ ~TwoDefaults(f.variants))) /\ w.pc = "update_check"
    BY <1>7 DEF CheckUpdate, Step, At
  <2> HIDE DEF work
  <2>3. ~TwoDefaults(f.variants) => FormSound(work)
    BY <1>1, <2>1, <2>2 DEF FormSound, Creating, Updating, Splitting
  <2>4. Turn(a, work)
    BY <1>7, <2>1, <2>2 DEF Turn, Goes, Unproduced, OnTree, Summing, Creating, Updating, Splitting, UpdateTurn, Names, Named
  <2> QED BY <2>2, <2>3, <2>4, FinishTurns DEF Turns
<1>8. CASE CreateVariants(a) \/ UpdateVariants(a)
  <2> DEFINE vs == Moved(WithDefault(f.variants))
             create == [w EXCEPT !.pc = "create_save", !.form.variants = vs]
             update == [w EXCEPT !.pc = "update_images", !.form.variants = vs]
             Given(g) == g.variants = vs /\ g.stock = f.stock /\ g.own = f.own /\ g.category = f.category
  <2>1. /\ create.pc = "create_save" /\ create.product = w.product /\ Given(create.form)
        /\ update.pc = "update_images" /\ update.product = w.product /\ Given(update.form)
    BY <1>1 DEF Work, Form
  <2>2. /\ \/ Finish(a)
           \/ Become(a, create) /\ w.pc = "create_variants" /\ ~TwoDefaults(f.variants)
           \/ Become(a, update) /\ w.pc = "update_variants" /\ UpdateVariants(a)
    BY <1>8 DEF CreateVariants, UpdateVariants, At
  <2> HIDE DEF create, update
  <2>3. ASSUME w.pc \in {"create_variants", "update_variants"}, ~TwoDefaults(f.variants)
        PROVE  /\ (NamedOnce(f.variants) => NamedOnce(vs)) /\ OneChosen(vs)
               /\ \A i \in DOMAIN vs : i \in DOMAIN f.variants /\ vs[i].id = f.variants[i].id
               /\ f.variants # <<>> => vs # <<>>
    BY <1>1, <2>3, NormalisedForms
  <2> HIDE DEF vs
  <2>4. CASE Finish(a)
    BY <2>4, FinishTurns
  <2>5. CASE Become(a, create) /\ w.pc = "create_variants" /\ ~TwoDefaults(f.variants)
    <3>0. Named(f) = {} /\ Named(create.form) = {}
      <4>1. Named(f) = {}
        BY <1>1, <2>5 DEF FormSound, Creating
      <4> QED BY <2>1, <2>3, <2>5, <4>1 DEF Named
    <3>1. FormSound(create)
      BY <1>1, <2>1, <2>3, <2>5, <3>0 DEF FormSound, Creating, Updating, Splitting
    <3>2. Turn(a, create)
      BY <2>1, <2>5 DEF Turn, Goes, Unproduced, OnTree, Summing, Creating, Updating, Splitting, UpdateTurn, Names, Named
    <3> QED BY <2>5, <3>1, <3>2 DEF Turns
  <2>6. CASE Become(a, update) /\ w.pc = "update_variants" /\ UpdateVariants(a)
    <3>1. ~TwoDefaults(f.variants)
      BY <1>1, <2>6 DEF FormSound
    <3>2. FormSound(update)
      BY <1>1, <2>1, <2>3, <2>6, <3>1 DEF FormSound, Creating, Updating, Splitting
    <3>3. Named(update.form) \subseteq Named(f)
      BY <2>1, <2>3, <2>6, <3>1 DEF Named
    <3>4. Turn(a, update)
      BY <2>1, <2>6, <3>3 DEF Turn, Goes, Unproduced, OnTree, Summing, Creating, Updating, Splitting, UpdateTurn, Names
    <3> QED BY <2>6, <3>2, <3>4 DEF Turns
  <2> QED BY <2>2, <2>4, <2>5, <2>6
<1>9. CASE UpdateImages(a)
  <2> DEFINE moved == Move(f.images, "products")
             garbage == IF f.hasImages THEN (w.before \ moved) \ StillShown(w) ELSE {}
             work == [w EXCEPT !.pc = "update_primary", !.form.images = moved, !.garbage = garbage]
  <2>1. work.pc = "update_primary" /\ work.product = w.product /\ Same(work.form)
    BY <1>1 DEF Work, Form
  <2>2. Become(a, work) /\ w.pc = "update_images"
    BY <1>9 DEF UpdateImages, At
  <2> HIDE DEF work
  <2>3. FormSound(work)
    BY <1>1, <2>1, <2>2 DEF FormSound, Creating, Updating, Splitting
  <2>4. Turn(a, work)
    BY <1>9, <2>1, <2>2 DEF Turn, Goes, Unproduced, OnTree, Summing, Creating, Updating, Splitting, UpdateTurn, Names, Named
  <2> QED BY <2>2, <2>3, <2>4 DEF Turns
<1>10. CASE SumStock(a)
  <2> DEFINE sum == DerivedStock(w)
             own == VariantsOf(w.product) # {} \/ w.units[1] = Nobody
             work == [w EXCEPT !.form.stock = sum, !.form.own = own]
  <2>1. /\ work.pc = w.pc /\ work.product = w.product
        /\ work.units = w.units /\ work.form.stock = sum /\ work.form.own = own
    BY <1>1 DEF Work, Form
  <2>2. Become(a, work) /\ w.pc = "stock_sum"
    BY <1>10 DEF SumStock, At
  <2> HIDE DEF work
  <2> QED BY <2>1, <2>2, Elsewhere DEF Creating, Updating, Splitting, Goes, Unproduced, OnTree, Summing
<1>11. CASE TakeRows(a)
  <2> DEFINE doomed == Dropped(w.product, f)
             work == [w EXCEPT !.pc = "update_sum", !.doomed = doomed]
  <2>1. work.pc = "update_sum" /\ work.product = w.product /\ work.form = f
    BY <1>1 DEF Work
  <2>2. (Finish(a) \/ Become(a, work)) /\ w.pc = "update_save" /\ ~f.own
    BY <1>11 DEF TakeRows, At
  <2> HIDE DEF work
  <2>3. FormSound(work)
    BY <1>1, <2>1, <2>2 DEF FormSound, Creating, Updating, Splitting
  <2>4. Turn(a, work)
    BY <1>11, <2>1, <2>2 DEF Turn, Goes, Unproduced, OnTree, Summing, Creating, Updating, Splitting, UpdateTurn, Names
  <2> QED BY <2>2, <2>3, <2>4, FinishTurns DEF Turns
<1>12. CASE SumRows(a)
  <2> DEFINE sum == StockAfter(w.product, f, w.doomed)
             work == [w EXCEPT !.pc = "update_commit", !.form.stock = sum]
  <2>1. /\ work.pc = "update_commit" /\ work.product = w.product /\ work.form.variants = f.variants
        /\ work.form.own = f.own /\ work.form.category = f.category
    BY <1>1 DEF Work, Form
  <2>2. Become(a, work) /\ w.pc = "update_sum"
    BY <1>12 DEF SumRows, At
  <2> HIDE DEF work
  <2>3. FormSound(work)
    BY <1>1, <2>1, <2>2 DEF FormSound, Creating, Updating, Splitting
  <2>4. Turn(a, work)
    BY <1>12, <2>1, <2>2 DEF Turn, Goes, Unproduced, OnTree, Summing, Creating, Updating, Splitting, UpdateTurn, Names, Named
  <2> QED BY <2>2, <2>3, <2>4 DEF Turns
<1> QED BY <1>2, <1>3, <1>4, <1>5, <1>6, <1>7, <1>8, <1>9, <1>10, <1>11, <1>12 DEF ProductStep

LEMMA SomebodyTurns ==
  ASSUME CatalogueTypeOK, FormsAreSound, CatalogueNext
  PROVE  \/ UNCHANGED admin /\ (UNCHANGED <<products, variants>> \/ \E v \in VariantIds : SellVariant(v))
         \/ \E a \in Admins : Turns(a)
<1>1. ASSUME NEW v, SellVariant(v) PROVE UNCHANGED admin
  BY <1>1 DEF SellVariant
<1>2. ASSUME NEW image, NEW at, Upload(image, at) PROVE UNCHANGED <<admin, products, variants>>
  BY <1>2 DEF Upload
<1> QED BY <1>1, <1>2, TreeTurns, ProductRequestTurns, ProductStepTurns DEF CatalogueNext, ProductNext

\* A product comes to be in the step that saves it.
LEMMA ProductIsBorn ==
  ASSUME CatalogueTypeOK, FormsAreSound, MadeByOne, CatalogueNext, NEW p \in Products,
         products[p].state = "none", products'[p].state # "none"
  PROVE  \E a \in Admins : admin[a].pc = "create_save" /\ admin[a].product = p /\ Finish(a)
<1>1. products \in [Products -> ProductRow]
  BY DEF CatalogueTypeOK
<1>2. \A row \in ProductRow : \A n : [row EXCEPT !.stock = n].state = row.state
  BY DEF ProductRow
<1>3. PICK a \in Admins : RowAction(a)
  <2>1. \A v : SellVariant(v) => products' = products
    BY DEF SellVariant
  <2> QED BY <2>1, RowActions
<1>4. CASE CreateSave(a)
  <2>1. p = admin[a].product
    BY <1>1, <1>4 DEF CreateSave
  <2> QED BY <1>4, <2>1 DEF CreateSave, At
<1>5. CASE UpdateSave(a) \/ CommitRows(a)
  <2>1. \E f, n : products' = [products EXCEPT ![admin[a].product] = EditedProduct(admin[a].product, f, n)]
    BY <1>5 DEF UpdateSave, CommitRows
  <2>2. \A f, n : EditedProduct(p, f, n).state = products[p].state
    BY <1>1 DEF EditedProduct, ProductRow
  <2> QED BY <1>1, <2>1, <2>2
<1>6. CASE RemoveSave(a)
  BY <1>6 DEF RemoveSave, LiveProduct, NoProduct
<1>7. CASE CommitStock(a)
  <2>1. products' = products \/ products' = [products EXCEPT ![admin[a].product].stock = admin[a].form.stock]
    BY <1>7 DEF CommitStock
  <2>2. CASE products' = [products EXCEPT ![admin[a].product].stock = admin[a].form.stock]
    BY <1>1, <1>2, <2>2
  <2> QED BY <2>1, <2>2
<1>8. CASE DeleteProductsOf(a)
  BY <1>8 DEF DeleteProductsOf
<1>9. CASE DeleteCategories(a)
  BY <1>9 DEF DeleteCategories, NoProduct
<1> QED BY <1>3, <1>4, <1>5, <1>6, <1>7, <1>8, <1>9 DEF RowAction

LEMMA MakersStayAlone ==
  ASSUME CatalogueTypeOK, FormsAreSound, MadeByOne, CatalogueNext
  PROVE  FormsAreSound' /\ MadeByOne'
<1>1. /\ admin \in [Admins -> Work] /\ \A a \in Admins : admin[a].pc \in Creating => admin[a].product \in Products
      /\ Nobody \notin Products
  BY CatalogueAssumption DEF CatalogueTypeOK, FormsAreSound, FormSound
<1>2. CASE UNCHANGED admin
  <2>1. FormsAreSound'
    BY <1>2 DEF FormsAreSound, FormSound
  <2>2. ASSUME NEW a \in Admins, admin'[a].pc \in Creating
        PROVE  /\ products'[admin'[a].product].state = "none"
               /\ \A b \in Admins : b # a => admin'[b].product # admin'[a].product
    <3>1. products[admin[a].product].state = "none" /\ admin[a].product \in Products
      BY <1>1, <1>2, <2>2 DEF MadeByOne
    <3>2. \A b \in Admins : ~(admin[b].pc = "create_save" /\ Finish(b))
      BY <1>1, <1>2 DEF Finish, Become, NoWork
    <3>3. products'[admin[a].product].state = "none"
      BY <3>1, <3>2, ProductIsBorn
    <3> QED BY <1>2, <2>2, <3>3 DEF MadeByOne
  <2> QED BY <2>1, <2>2 DEF MadeByOne
<1>3. ASSUME NEW a \in Admins, Turns(a) PROVE FormsAreSound' /\ MadeByOne'
  <2>1. PICK work : Become(a, work) /\ FormSound(work) /\ Turn(a, work)
    BY <1>3 DEF Turns
  <2>2. admin'[a] = work /\ \A b \in Admins : b # a => admin'[b] = admin[b]
    BY <1>1, <2>1 DEF Become
  <2>3. FormsAreSound'
    BY <2>1, <2>2 DEF FormsAreSound, FormSound
  <2>4. ASSUME NEW b \in Admins, admin[b].pc = "create_save", Finish(b) PROVE a = b /\ work.pc = "idle"
    <3>1. admin'[b] = NoWork /\ NoWork.pc = "idle"
      BY <1>1, <2>4 DEF Finish, Become, NoWork
    <3> QED BY <2>2, <2>4, <3>1
  <2>5. ASSUME NEW b \in Admins, admin'[b].pc \in Creating
        PROVE  /\ products'[admin'[b].product].state = "none"
               /\ \A c \in Admins : c # b => admin'[c].product # admin'[b].product
    <3>1. CASE b # a
      <4>1. /\ admin'[b] = admin[b] /\ admin[b].product \in Products /\ products[admin[b].product].state = "none"
            /\ \A c \in Admins : c # b => admin[c].product # admin[b].product
        BY <1>1, <2>2, <2>5, <3>1 DEF MadeByOne
      <4>2. work.product # admin[b].product
        BY <1>1, <2>1, <3>1, <4>1 DEF Turn, Goes, Unproduced, OnTree, Summing, LiveProduct
      <4>3. products'[admin[b].product].state = "none"
        <5>1. \A c \in Admins : ~(admin[c].pc = "create_save" /\ admin[c].product = admin[b].product /\ Finish(c))
          BY <2>4, <3>1, <4>1
        <5> QED BY <4>1, <5>1, ProductIsBorn
      <4> QED BY <2>2, <4>1, <4>2, <4>3
    <3>2. CASE b = a
      <4>1. /\ work.product \in Products /\ products[work.product].state = "none"
            /\ \A c \in Admins : c # a => admin[c].product # work.product
        <5>1. work.pc \in Creating /\ work.product \in Products
          BY <2>1, <2>2, <2>5, <3>2 DEF FormSound
        <5>2. CASE work.product = admin[a].product /\ admin[a].pc \in Creating
          BY <5>1, <5>2 DEF MadeByOne
        <5> QED BY <1>1, <2>1, <5>1, <5>2 DEF Turn, Goes, Unproduced, OnTree, Summing
      <4>2. products'[work.product].state = "none"
        <5>1. work.pc # "idle"
          BY <2>2, <2>5, <3>2 DEF Creating
        <5>2. \A c \in Admins : ~(admin[c].pc = "create_save" /\ admin[c].product = work.product /\ Finish(c))
          BY <2>4, <5>1
        <5> QED BY <4>1, <5>2, ProductIsBorn
      <4> QED BY <2>2, <3>2, <4>1, <4>2
    <3> QED BY <3>1, <3>2
  <2> QED BY <2>3, <2>5 DEF MadeByOne
<1> QED BY <1>2, <1>3, SomebodyTurns

\* Nothing is being done, and no product has variants.
Blank == (\A a \in Admins : admin[a] = NoWork) /\ \A v \in VariantIds : variants[v].product = Nobody

LEMMA CatalogueStartsBlank == ASSUME CatalogueInit PROVE Blank
BY DEF CatalogueInit, NoVariant, Blank

LEMMA FormsStart == ASSUME CatalogueTypeOK, Blank PROVE FormsInv
<1>1. \A a \in Admins : admin[a] = NoWork /\ NoWork.pc = "idle"
  BY DEF Blank, NoWork
<1> QED BY <1>1 DEF FormsInv, FormsAreSound, FormSound, MadeByOne, Creating, Updating, Splitting

LEMMA FormsStep == ASSUME FormsInv, [CatalogueNext]_catalogueVars PROVE FormsInv'
<1>1. CatalogueTypeOK'
  BY CatalogueTyped DEF FormsInv
<1>2. CASE UNCHANGED catalogueVars
  <2>1. FormsAreSound' /\ MadeByOne'
    BY <1>2 DEF catalogueVars, FormsInv, FormsAreSound, MadeByOne, FormSound
  <2> QED BY <1>1, <2>1 DEF FormsInv
<1>3. CASE CatalogueNext
  BY <1>1, <1>3, MakersStayAlone DEF FormsInv
<1> QED BY <1>2, <1>3

LEMMA NoRows == ASSUME Blank PROVE \A p \in Products : VariantsOf(p) = {}
BY CatalogueAssumption DEF Blank, VariantsOf

LEMMA DefaultsStart == ASSUME CatalogueTypeOK, Blank PROVE DefaultsInv
<1>1. \A a \in Admins : admin[a] = NoWork /\ NoWork.pc = "idle"
  BY DEF Blank, NoWork
<1>2. NamesTheirs /\ \A a \in Admins : SplitSound(admin[a])
  BY <1>1 DEF NamesTheirs, SplitSound, Updating, Splitting
<1>3. RowsHaveProducts
  BY DEF Blank, RowsHaveProducts
<1> QED BY <1>2, <1>3, FormsStart, NoRows DEF DefaultsInv, OneDefault

LEMMA NamesStep ==
  ASSUME PlainForms, CatalogueTypeOK, FormsAreSound, NamesTheirs, CatalogueNext, LosesRows \/ WritesRows
  PROVE  NamesTheirs'
<1> SUFFICES ASSUME NEW a \in Admins, admin'[a].pc \in Updating, NEW v, v \in Named(admin'[a].form)
             PROVE  variants'[v].product \in {admin'[a].product, Nobody}
  <2>1. \A a \in Admins : Named(admin[a].form)' = Named(admin'[a].form)
    BY DEF Named
  <2> QED BY <2>1 DEF NamesTheirs
<1>1. admin \in [Admins -> Work] /\ admin' \in [Admins -> Work]
  BY CatalogueTyped DEF CatalogueTypeOK
<1>2. v \in VariantIds
  <2>1. admin'[a].form \in Form
    BY <1>1 DEF Work
  <2>2. \A i \in DOMAIN admin'[a].form.variants : admin'[a].form.variants[i] \in VariantInput
    BY <2>1 DEF Form
  <2> QED BY <2>2 DEF Named, VariantInput
<1>3. ASSUME admin[a].pc \in Updating, v \in Named(admin[a].form), admin'[a].product = admin[a].product
      PROVE  variants'[v].product \in {admin'[a].product, Nobody}
  <2>1. v \in Known /\ variants[v].product \in {admin[a].product, Nobody}
    BY <1>3 DEF Known, NamesTheirs
  <2> QED BY <1>2, <1>3, <2>1, NamedStay
<1>4. CASE admin'[a] = admin[a]
  BY <1>3, <1>4
<1>5. CASE \E b \in Admins : Turns(b)
  <2>0. PICK b \in Admins : Turns(b)
    BY <1>5
  <2>1. PICK work : Become(b, work) /\ Turn(b, work)
    BY <2>0 DEF Turns
  <2>2. CASE b # a
    <3>1. admin'[a] = admin[a]
      BY <1>1, <2>1, <2>2 DEF Become
    <3> QED BY <1>4, <3>1
  <2>3. CASE b = a
    <3>1. admin'[a] = work /\ work.pc \in Updating
      BY <1>1, <2>1, <2>3 DEF Become
    <3>2. CASE admin[a].pc \in Updating /\ work.product = admin[a].product /\ Named(work.form) \subseteq Named(admin[a].form)
      BY <1>3, <3>1, <3>2
    <3>3. CASE Named(work.form) \subseteq VariantsOf(work.product) /\ UpdateTurn(a)
      <4>1. UNCHANGED variants
        BY <3>3 DEF UpdateTurn, UpdateProduct, CheckUpdate, UpdateVariants, UpdateImages, UpdatePrimary, TakeRows, SumRows
      <4> QED BY <3>1, <3>3, <4>1 DEF VariantsOf
    <3> QED BY <2>1, <2>3, <3>1, <3>2, <3>3 DEF Turn, Names, PlainForms
  <2> QED BY <2>2, <2>3
<1> QED BY <1>4, <1>5, SomebodyTurns

LEMMA SplitsStep ==
  ASSUME PlainForms, Serial, FormsInv, FormsInv', NamesTheirs, \A a \in Admins : SplitSound(admin[a]), CatalogueNext
  PROVE  \A a \in Admins : SplitSound(admin[a])'
<1>1. CASE OwnForms
  BY <1>1 DEF FormsInv, FormsAreSound, FormSound, SplitSound, Updating
<1>2. CASE OneAtATime
  <2> SUFFICES ASSUME NEW a \in Admins, admin'[a].pc \in Splitting PROVE SplitSound(admin[a])'
    BY DEF SplitSound
  <2>1. /\ admin \in [Admins -> Work] /\ admin[a] \in Work /\ FormsAreSound /\ SplitSound(admin[a])
        /\ variants \in [VariantIds -> VariantRow]
    BY DEF FormsInv, CatalogueTypeOK
  <2>2. ASSUME \A v \in VariantIds : variants'[v].product = variants[v].product, UNCHANGED products,
               NEW w, admin'[a] = w, products[w.product].state # "none",
               Named(w.form) \subseteq VariantsOf(w.product), w.doomed = Dropped(w.product, w.form)
        PROVE  SplitSound(admin[a])'
    <3>1. VariantsOf(w.product)' = VariantsOf(w.product)
      BY <2>2 DEF VariantsOf
    <3>2. Named(admin[a].form)' = Named(w.form) /\ VariantsOf(admin[a].product)' = VariantsOf(w.product)
      BY <2>2, <3>1 DEF Named, VariantsOf
    <3>3. Dropped(admin[a].product, admin[a].form)' = Dropped(w.product, w.form)
      BY <2>2, <3>2 DEF Dropped
    <3> QED BY <2>2, <3>2, <3>3 DEF SplitSound
  <2>3. CASE UNCHANGED admin /\ (UNCHANGED <<products, variants>> \/ \E v \in VariantIds : SellVariant(v))
    <3>1. \A v \in VariantIds : variants'[v].product = variants[v].product
      <4>1. CASE UNCHANGED variants
        BY <4>1
      <4>2. ASSUME NEW u \in VariantIds, SellVariant(u) PROVE \A v \in VariantIds : variants'[v].product = variants[v].product
        <5>1. variants' = [variants EXCEPT ![u].stock = @ - 1]
          BY <4>2 DEF SellVariant
        <5> QED BY <2>1, <5>1 DEF VariantRow
      <4> QED BY <2>3, <4>1, <4>2
    <3>2. UNCHANGED products
      BY <2>3 DEF SellVariant
    <3> QED BY <2>1, <2>2, <2>3, <3>1, <3>2 DEF SplitSound
  <2>4. CASE Turns(a)
    <3>1. PICK work : Become(a, work) /\ Turn(a, work)
      BY <2>4 DEF Turns
    <3>2. admin'[a] = work /\ (TakeRows(a) \/ SumRows(a))
      BY <2>1, <3>1 DEF Become, Turn
    <3>3. CASE TakeRows(a)
      <4> DEFINE p == admin[a].product
                 f == admin[a].form
                 next == [admin[a] EXCEPT !.pc = "update_sum", !.doomed = Dropped(p, f)]
      <4>1. ~Finish(a)
        <5>1. Finish(a) => admin'[a].pc = "idle"
          BY <2>1 DEF Finish, Become, NoWork
        <5> QED BY <5>1 DEF Splitting
      <4>2. ~Fails(p, f) /\ admin'[a] = next /\ UNCHANGED <<products, variants>> /\ admin[a].pc \in Updating
        BY <2>1, <3>3, <4>1 DEF TakeRows, Become, At, Updating
      <4>3. next.product = p /\ next.form = f /\ next.doomed = Dropped(p, f)
        BY <2>1 DEF Work
      <4>4. \A v \in Named(f) : v \in VariantIds
        <5>1. f \in Form
          BY <2>1 DEF Work
        <5>2. \A i \in DOMAIN f.variants : f.variants[i] \in VariantInput
          BY <5>1 DEF Form
        <5> QED BY <5>2 DEF Named, VariantInput
      <4>5. products[p].state # "none" /\ Named(f) \subseteq VariantsOf(p)
        BY <4>2, <4>4 DEF Fails, NamesTheirs, VariantsOf
      <4> HIDE DEF next, p, f
      <4>6. PICK w : w = next
        OBVIOUS
      <4> QED BY <2>2, <4>2, <4>3, <4>5, <4>6
    <3>4. CASE SumRows(a)
      <4> DEFINE sum == StockAfter(admin[a].product, admin[a].form, admin[a].doomed)
                 next == [admin[a] EXCEPT !.pc = "update_commit", !.form.stock = sum]
      <4>1. admin'[a] = next /\ UNCHANGED <<products, variants>> /\ admin[a].pc \in Splitting
        BY <2>1, <3>4 DEF SumRows, Become, At, Splitting
      <4>2. next.product = admin[a].product /\ next.form.variants = admin[a].form.variants /\ next.doomed = admin[a].doomed
        BY <2>1 DEF Work, Form
      <4> HIDE DEF next
      <4>3. Named(next.form) = Named(admin[a].form) /\ Dropped(next.product, next.form) = Dropped(admin[a].product, admin[a].form)
        BY <4>2 DEF Named, Dropped
      <4>4. PICK w : w = next
        OBVIOUS
      <4> QED BY <2>1, <2>2, <4>1, <4>2, <4>3, <4>4 DEF SplitSound
    <3> QED BY <3>2, <3>3, <3>4
  <2>5. \A b \in Admins : b = a
    BY <1>2 DEF OneAtATime
  <2> QED BY <2>1, <2>3, <2>4, <2>5, SomebodyTurns DEF FormsInv
<1> QED BY <1>1, <1>2 DEF Serial

LEMMA DefaultsStep ==
  ASSUME PlainForms, Serial, DefaultsInv, [CatalogueNext]_catalogueVars PROVE DefaultsInv'
<1>1. FormsInv'
  BY FormsStep DEF DefaultsInv
<1>2. CASE UNCHANGED catalogueVars
  <2>1. RowsHaveProducts' /\ \A p \in Products : OneDefault(p)'
    BY <1>2 DEF catalogueVars, DefaultsInv, RowsHaveProducts, OneDefault, VariantsOf
  <2>2. NamesTheirs'
    BY <1>2 DEF catalogueVars, DefaultsInv, NamesTheirs, Named
  <2>3. ASSUME NEW a \in Admins PROVE SplitSound(admin[a])'
    <3>1. /\ SplitSound(admin[a]) /\ Named(admin[a].form)' = Named(admin[a].form)
          /\ VariantsOf(admin[a].product)' = VariantsOf(admin[a].product)
      BY <1>2 DEF catalogueVars, DefaultsInv, Named, VariantsOf
    <3>2. Dropped(admin[a].product, admin[a].form)' = Dropped(admin[a].product, admin[a].form)
      BY <1>2, <3>1 DEF catalogueVars, Dropped
    <3> QED BY <1>2, <3>1, <3>2 DEF catalogueVars, SplitSound
  <2> QED BY <1>1, <2>1, <2>2, <2>3 DEF DefaultsInv
<1>3. CASE CatalogueNext
  <2>1. LosesRows \/ WritesRows
    BY RowsSteps DEF DefaultsInv, FormsInv
  <2>2. RowsHaveProducts' /\ \A p \in Products : OneDefault(p)'
    BY <1>1, <2>1, DefaultsStay DEF DefaultsInv, FormsInv
  <2>3. NamesTheirs'
    BY <1>3, <2>1, NamesStep DEF DefaultsInv, FormsInv
  <2>4. \A a \in Admins : SplitSound(admin[a])'
    BY <1>1, <1>3, SplitsStep DEF DefaultsInv
  <2> QED BY <1>1, <2>2, <2>3, <2>4 DEF DefaultsInv
<1> QED BY <1>2, <1>3

LEMMA DefaultsMeanOne == ASSUME DefaultsInv PROVE OneDefaultVariant
<1> SUFFICES ASSUME NEW p \in Products, VariantsOf(p) # {}
             PROVE  Cardinality({v \in VariantsOf(p) : variants[v].isDefault}) = 1
  BY DEF OneDefaultVariant
<1>1. PICK v \in VariantsOf(p) : variants[v].isDefault /\ \A u \in VariantsOf(p) : variants[u].isDefault => u = v
  BY DEF DefaultsInv, OneDefault
<1>2. {u \in VariantsOf(p) : variants[u].isDefault} = {v}
  BY <1>1
<1> QED BY <1>2, FS_Singleton

\* However requests to change products overlap, with each other, with deletions
\* and with sales, a product that has variants has exactly one default: if every
\* update writes the product's own row, or if requests take turns; and if none
\* names a variant twice, or one of another product.
THEOREM OneDefaultHolds ==
  ASSUME PlainForms, Serial PROVE CatalogueSpec => []OneDefaultVariant
<1>1. CatalogueInit => DefaultsInv
  BY DefaultsStart, CatalogueStartsTyped, CatalogueStartsBlank
<1>2. DefaultsInv /\ [CatalogueNext]_catalogueVars => DefaultsInv'
  BY DefaultsStep
<1>3. DefaultsInv => OneDefaultVariant
  BY DefaultsMeanOne
<1> QED BY <1>1, <1>2, <1>3, PTL DEF CatalogueSpec

-----------------------------------------------------------------------------
(* Requests in turn keep a product's stock the sum of its variants', if no   *)
(* form and no sale sets either of them alone.                               *)

NoSales == "sale" \notin CatalogueOps /\ \A n \in Stocks : n < 0

StocksDerived == \A p \in Products : VariantsOf(p) # {} => products[p].stock = UnitsOf(p)
\* A stock update in progress has its variant, and the sum once it is taken; so
\* has an update that holds the variants only.
SumInHand(w) ==
  /\ w.pc = "stock_sum" =>
       /\ w.product \in Products /\ w.units[1] \in VariantsOf(w.product) \cup {Nobody}
       /\ w.form.stock >= 0 => w.form.stock = DerivedStock(w) /\ w.form.own
  /\ w.pc = "update_commit" => w.form.stock = StockAfter(w.product, w.form, w.doomed)

StockInv == DefaultsInv /\ StocksDerived /\ \A a \in Admins : SumInHand(admin[a])

LEMMA UnitsSame ==
  ASSUME NEW f, NEW g, NEW S, IsFiniteSet(S), \A x \in S : f[x].stock = g[x].stock
  PROVE  Units(f, S) = Units(g, S)
<1> DEFINE F == [x \in S |-> f[x].stock]
           G == [x \in S |-> g[x].stock]
<1>1. \A x \in S : F[x] = G[x]
  OBVIOUS
<1> HIDE DEF F, G
<1>2. SumFunctionOnSet(F, S) = SumFunctionOnSet(G, S)
  BY <1>1, SumSame
<1> QED BY <1>2 DEF Units, F, G

LEMMA VariantsAreFinite == ASSUME NEW p PROVE IsFiniteSet(VariantsOf(p)) /\ IsFiniteSet(VariantsOf(p)')
<1>1. VariantsOf(p) \subseteq VariantIds /\ VariantsOf(p)' \subseteq VariantIds
  BY DEF VariantsOf
<1> QED BY <1>1, FS_Subset, CatalogueAssumption

\* A step adds a product up anew, or lets its rows be.
AddedUp(p) == VariantsOf(p)' # {} => products'[p].stock = UnitsOf(p)'
RowsLetBe(p) ==
  \A v \in VariantIds :
    /\ variants'[v].product = p <=> variants[v].product = p
    /\ variants[v].product = p => variants'[v].stock = variants[v].stock
LetBe(p) == RowsLetBe(p) /\ (products'[p].stock = products[p].stock \/ VariantsOf(p) = {})

LEMMA StocksStay ==
  ASSUME StocksDerived, \A p \in Products : AddedUp(p) \/ LetBe(p)
  PROVE  StocksDerived'
<1> SUFFICES ASSUME NEW p \in Products, VariantsOf(p)' # {} PROVE products'[p].stock = UnitsOf(p)'
  BY DEF StocksDerived
<1>1. CASE AddedUp(p)
  BY <1>1 DEF AddedUp
<1>2. CASE LetBe(p)
  <2>1. VariantsOf(p)' = VariantsOf(p) /\ \A v \in VariantsOf(p) : variants'[v].stock = variants[v].stock
    BY <1>2 DEF VariantsOf, LetBe, RowsLetBe
  <2>2. products'[p].stock = products[p].stock /\ products[p].stock = UnitsOf(p)
    BY <1>2, <2>1 DEF StocksDerived, LetBe
  <2>3. Units(variants', VariantsOf(p)) = Units(variants, VariantsOf(p))
    BY <2>1, UnitsSame, VariantsAreFinite
  <2> QED BY <2>1, <2>2, <2>3 DEF UnitsOf
<1> QED BY <1>1, <1>2

LEMMA RowsStandLetBe == ASSUME NEW p \in Products, UNCHANGED variants PROVE RowsLetBe(p)
BY DEF RowsLetBe

\* The units of a form are those of the rows it is written to.
LEMMA FormAdded ==
  ASSUME NEW p \in Products, NEW vs \in Seq(VariantInput), FormRows(p, vs, variants')
  PROVE  UnitsIn(vs) = UnitsOf(p)'
<1> DEFINE h == [i \in DOMAIN vs |-> IdOf(vs, i)]
           F == [i \in DOMAIN vs |-> vs[i].stock]
           G == [v \in VariantIds |-> variants'[v].stock]
<1>0. \A i \in DOMAIN vs : /\ IdOf(vs, i) \in VariantIds /\ variants'[IdOf(vs, i)].product = p
                           /\ variants'[IdOf(vs, i)].stock = vs[i].stock
  <2>1. \A i \in DOMAIN vs : IdOf(vs, i) \in VariantIds /\ variants'[IdOf(vs, i)] = RowFor(p, vs[i])
    BY DEF FormRows
  <2>2. \A i \in DOMAIN vs : RowFor(p, vs[i]).product = p /\ RowFor(p, vs[i]).stock = vs[i].stock
    BY DEF RowFor
  <2> QED BY <2>1, <2>2
<1>1. h \in [DOMAIN vs -> VariantIds] /\ \A i, j \in DOMAIN vs : h[i] = h[j] => i = j
  BY DEF FormRows
<1>2. \A i \in DOMAIN vs : F[i] \in Int /\ G[h[i]] = F[i]
  <2>1. \A i \in DOMAIN vs : vs[i] \in VariantInput
    OBVIOUS
  <2>2. \A i \in DOMAIN vs : vs[i].stock \in Int
    BY <2>1, CatalogueAssumption DEF VariantInput
  <2> QED BY <1>0, <2>2
<1>3. IsFiniteSet(DOMAIN vs)
  <2>1. DOMAIN vs = 1..Len(vs) /\ Len(vs) \in Nat
    OBVIOUS
  <2> QED BY <2>1, FS_Interval
<1>4. {h[i] : i \in DOMAIN vs} = VariantsOf(p)'
  <2>1. \A v \in VariantIds : variants'[v].product = p => \E i \in DOMAIN vs : IdOf(vs, i) = v
    BY DEF FormRows
  <2> QED BY <1>0, <2>1 DEF VariantsOf
<1> HIDE DEF h
<1>5. SumFunctionOnSet(F, DOMAIN vs) = SumFunctionOnSet(G, VariantsOf(p)')
  <2> HIDE DEF F, G
  <2> QED BY <1>1, <1>2, <1>3, <1>4, SumMoved, CatalogueAssumption
<1>6. SumFunctionOnSet(G, VariantsOf(p)') = UnitsOf(p)'
  <2> DEFINE K == [v \in VariantsOf(p)' |-> variants'[v].stock]
  <2>1. \A v \in VariantsOf(p)' : G[v] = K[v]
    BY DEF VariantsOf
  <2> HIDE DEF G, K
  <2>2. SumFunctionOnSet(G, VariantsOf(p)') = SumFunctionOnSet(K, VariantsOf(p)')
    BY <2>1, SumSame, VariantsAreFinite
  <2> QED BY <2>2 DEF K, UnitsOf, Units
<1> QED BY <1>5, <1>6 DEF UnitsIn, Units

\* The rows of a form stand apart from those of other products.
LEMMA OthersStand ==
  ASSUME CatalogueTypeOK, NEW p \in Products, NEW vs, FormRows(p, vs, variants'), NEW q \in Products, q # p
  PROVE  RowsLetBe(q)
<1>1. Nobody \notin Products
  BY CatalogueAssumption
<1> QED BY <1>1 DEF FormRows, RowsLetBe

LEMMA SavesDerive ==
  ASSUME PlainForms, DefaultsInv, StocksDerived, NoSales, NEW a \in Admins, SumInHand(admin[a]),
         CreateSave(a) \/ UpdateSave(a) \/ CommitRows(a)
  PROVE  StocksDerived'
<1> PICK p, f, vs : p = admin[a].product /\ f = admin[a].form /\ vs = f.variants
  OBVIOUS
<1>1. CASE UNCHANGED <<products, variants>>
  <2>1. \A q \in Products : LetBe(q)
    BY <1>1, RowsStandLetBe DEF LetBe
  <2> QED BY <2>1, StocksStay
<1>2. CASE ~UNCHANGED <<products, variants>> /\ CreateSave(a)
  <2>1. /\ p \in Products /\ vs \in Seq(VariantInput) /\ FormRows(p, vs, variants')
        /\ vs # <<>> => products'[p].stock = UnitsIn(vs)
        /\ \A q \in Products : q # p => products'[q] = products[q]
    BY <1>2, CreateSaveRows DEF DefaultsInv, FormsInv
  <2>2. vs = <<>> => VariantsOf(p)' = {}
    BY <2>1 DEF FormRows, VariantsOf
  <2>3. UnitsIn(vs) = UnitsOf(p)'
    BY <2>1, FormAdded
  <2>4. AddedUp(p)
    BY <2>1, <2>2, <2>3 DEF AddedUp
  <2>5. \A q \in Products : q # p => RowsLetBe(q)
    BY <2>1, OthersStand DEF DefaultsInv, FormsInv
  <2>6. \A q \in Products : q # p => LetBe(q)
    BY <2>1, <2>5 DEF LetBe
  <2> QED BY <2>4, <2>6, StocksStay
<1>3. CASE ~UNCHANGED <<products, variants>> /\ (UpdateSave(a) \/ CommitRows(a))
  <2> DEFINE n == IF UpdateSave(a) THEN StockAfter(p, f, Dropped(p, f)) ELSE f.stock
  <2>0. DefaultsInv /\ CatalogueTypeOK /\ FormsAreSound /\ FormSound(admin[a]) /\ SplitSound(admin[a]) /\ NamesTheirs
    BY DEF DefaultsInv, FormsInv, FormsAreSound
  <2>1. /\ p \in Products /\ f \in Form /\ vs \in Seq(VariantInput) /\ (UpdateSave(a) => f.stock \in Stocks)
        /\ products' = [products EXCEPT ![p] = EditedProduct(p, f, n)]
        /\ variants' = RowsAfter(p, f, Dropped(p, f))
        /\ vs # <<>> => FormRows(p, vs, variants')
        /\ vs = <<>> => variants' = variants
    BY <1>3, <2>0, UpdateSaveRows
  <2>2. n = StockAfter(p, f, Dropped(p, f)) /\ (vs = <<>> => UpdateSave(a))
    <3>1. CASE UpdateSave(a)
      BY <3>1
    <3>2. CASE CommitRows(a) /\ ~UpdateSave(a)
      <4>1. admin[a].pc = "update_commit"
        BY <3>2 DEF CommitRows, At
      <4> QED BY <2>0, <3>2, <4>1 DEF SumInHand, SplitSound, Splitting, FormSound, Updating
    <3> QED BY <1>3, <3>1, <3>2
  <2> HIDE DEF n
  <2>3. /\ products \in [Products -> ProductRow]
        /\ products'[p].stock = IF n >= 0 THEN n ELSE products[p].stock
        /\ \A q \in Products : q # p => products'[q] = products[q]
    <3>1. products \in [Products -> ProductRow] /\ products[p] \in ProductRow
      BY <2>0, <2>1 DEF CatalogueTypeOK
    <3>2. EditedProduct(p, f, n).stock = IF n >= 0 THEN n ELSE products[p].stock
      BY <3>1 DEF EditedProduct, ProductRow
    <3> QED BY <2>1, <3>1, <3>2
  <2>4. CASE vs = <<>>
    <3>1. n = f.stock
      BY <2>2, <2>4 DEF StockAfter
    <3>2. f.stock \in Int /\ f.stock < 0
      BY <2>1, <2>2, <2>4, FormsAssumption DEF NoSales
    <3>3. products'[p].stock = products[p].stock
      BY <2>3, <3>1, <3>2
    <3>4. \A q \in Products : LetBe(q)
      BY <2>1, <2>3, <2>4, <3>3, RowsStandLetBe DEF LetBe
    <3> QED BY <3>4, StocksStay
  <2>5. CASE vs # <<>>
    <3>1. VariantsOf(p)' = {v \in VariantIds : RowsAfter(p, f, Dropped(p, f))[v].product = p}
      BY <2>1 DEF VariantsOf
    <3>2. VariantsOf(p)' # {} => products'[p].stock = UnitsOf(p)'
      <4>1. VariantsOf(p)' # {} => n = Units(RowsAfter(p, f, Dropped(p, f)), VariantsOf(p)')
        BY <2>2, <2>5, <3>1 DEF StockAfter
      <4>2. Units(RowsAfter(p, f, Dropped(p, f)), VariantsOf(p)') \in Nat
        BY <2>0, <2>1, <3>1, RowsAfterFit, DroppedAre
      <4>3. UnitsOf(p)' = Units(variants', VariantsOf(p)')
        BY DEF UnitsOf
      <4> QED BY <2>1, <2>3, <4>1, <4>2, <4>3
    <3>3. \A q \in Products : q # p => RowsLetBe(q)
      BY <2>0, <2>1, <2>5, OthersStand
    <3>4. AddedUp(p) /\ \A q \in Products : q # p => LetBe(q)
      BY <2>3, <3>2, <3>3 DEF AddedUp, LetBe
    <3> QED BY <3>4, StocksStay
  <2> QED BY <2>4, <2>5
<1> QED BY <1>1, <1>2, <1>3

LEMMA GoneDerive ==
  ASSUME StocksDerived, Nobody \notin Products, NEW S, variants' = Gone(S),
         \A p \in Products : p \notin S => products'[p].stock = products[p].stock
  PROVE  StocksDerived'
<1>1. \A p \in Products : p \in S => VariantsOf(p)' = {}
  BY DEF Gone, NoVariant, VariantsOf
<1>2. \A p \in Products : p \notin S => RowsLetBe(p)
  BY DEF Gone, NoVariant, RowsLetBe
<1> QED BY <1>1, <1>2, StocksStay DEF AddedUp, LetBe

LEMMA RemovalsDerive ==
  ASSUME CatalogueTypeOK, StocksDerived, NEW a \in Admins, RemoveSave(a) \/ DeleteProductsOf(a) \/ DeleteCategories(a)
  PROVE  StocksDerived'
<1> DEFINE w == admin[a]
<1>1. products \in [Products -> ProductRow] /\ Nobody \notin Products
  BY CatalogueAssumption DEF CatalogueTypeOK
<1>2. ASSUME variants' = variants,
             \A p \in Products : products'[p] = products[p] \/ products'[p] = [products[p] EXCEPT !.state = "deleted"]
      PROVE  StocksDerived'
  <2>1. \A p \in Products : products'[p].stock = products[p].stock
    BY <1>1, <1>2 DEF ProductRow
  <2>2. \A p \in Products : LetBe(p)
    BY <1>2, <2>1, RowsStandLetBe DEF LetBe
  <2> QED BY <2>2, StocksStay
<1>3. CASE RemoveSave(a)
  <2>1. CASE w.permanent
    <3>1. variants' = Gone(w.group) /\ \A p \in Products : p \notin w.group => products'[p] = products[p]
      BY <1>3, <2>1 DEF RemoveSave, Gone
    <3> QED BY <1>1, <3>1, GoneDerive
  <2>2. CASE ~w.permanent
    BY <1>2, <1>3, <2>2 DEF RemoveSave
  <2> QED BY <2>1, <2>2
<1>4. CASE DeleteProductsOf(a)
  <2> DEFINE inside == {p \in Products : products[p].state # "none" /\ products[p].category \in w.group}
  <2>1. CASE w.permanent
    <3>1. variants' = Gone(inside) /\ \A p \in Products : p \notin inside => products'[p] = products[p]
      BY <1>4, <2>1 DEF DeleteProductsOf
    <3> HIDE DEF inside
    <3> QED BY <1>1, <3>1, GoneDerive
  <2>2. CASE ~w.permanent
    BY <1>2, <1>4, <2>2 DEF DeleteProductsOf
  <2> QED BY <2>1, <2>2
<1>5. CASE DeleteCategories(a)
  <2> DEFINE inside == {p \in Products : products[p].category \in w.group}
  <2>1. CASE w.permanent
    <3>1. variants' = Gone(inside) /\ \A p \in Products : p \notin inside => products'[p] = products[p]
      BY <1>5, <2>1 DEF DeleteCategories
    <3> HIDE DEF inside
    <3> QED BY <1>1, <3>1, GoneDerive
  <2>2. CASE ~w.permanent
    BY <1>2, <1>5, <2>2 DEF DeleteCategories
  <2> QED BY <2>1, <2>2
<1> QED BY <1>3, <1>4, <1>5

\* The sum that was taken is that of the rows once the variant's is written.
LEMMA CommitDerives ==
  ASSUME CatalogueTypeOK, StocksDerived, NEW a \in Admins, SumInHand(admin[a]), CommitStock(a)
  PROVE  StocksDerived'
<1> PICK w, p, v, n : w = admin[a] /\ p = w.product /\ v = w.units[1] /\ n = w.units[2]
  OBVIOUS
<1>1. p \in Products /\ v \in VariantsOf(p) \cup {Nobody} /\ w.form.stock = DerivedStock(w) /\ w.form.own
  BY DEF CommitStock, SumInHand, At
<1>2. /\ variants \in [VariantIds -> VariantRow] /\ products \in [Products -> ProductRow]
      /\ w \in Work /\ Nobody \notin VariantIds
  BY <1>1, CatalogueAssumption DEF CatalogueTypeOK
<1>3. n \in Int
  <2>1. w.units \in (VariantIds \cup {Nobody}) \X (0..MaxUnits)
    BY <1>2 DEF Work
  <2> QED BY <2>1, CatalogueAssumption
<1>4. CASE UNCHANGED <<products, variants>>
  <2>1. \A q \in Products : LetBe(q)
    BY <1>4, RowsStandLetBe DEF LetBe
  <2> QED BY <2>1, StocksStay
<1>5. ASSUME products' = [products EXCEPT ![p].stock = w.form.stock]
      PROVE  products'[p].stock = w.form.stock /\ \A q \in Products : q # p => products'[q] = products[q]
  BY <1>1, <1>2, <1>5 DEF ProductRow
<1>6. CASE v = Nobody /\ variants' = variants /\ products' = [products EXCEPT ![p].stock = w.form.stock]
  <2>1. VariantsOf(p)' = VariantsOf(p) /\ v \notin VariantsOf(p) /\ UnitsOf(p)' = Units(variants, VariantsOf(p))
    BY <1>2, <1>6 DEF VariantsOf, UnitsOf
  <2>2. VariantsOf(p) # {} => products'[p].stock = Units(variants, VariantsOf(p))
    <3>1. VariantsOf(p) \ {v} = VariantsOf(p)
      BY <2>1
    <3>2. Units(variants, VariantsOf(p)) \in Nat
      <4>1. \A x \in VariantsOf(p) : variants[x].stock \in Nat
        BY <1>2 DEF VariantRow, VariantsOf
      <4> QED BY <4>1, UnitsFit, VariantsAreFinite
    <3>3. VariantsOf(p) # {} => DerivedStock(w) = Units(variants, VariantsOf(p)) + 0
      BY <2>1, <3>1 DEF DerivedStock
    <3> QED BY <1>1, <1>5, <1>6, <3>2, <3>3
  <2>3. \A q \in Products : RowsLetBe(q)
    BY <1>6, RowsStandLetBe
  <2> QED BY <1>5, <1>6, <2>1, <2>2, <2>3, StocksStay DEF AddedUp, LetBe
<1>7. CASE /\ v # Nobody /\ variants' = [variants EXCEPT ![v].stock = n]
           /\ products' = [products EXCEPT ![p].stock = w.form.stock]
  <2>1. v \in VariantsOf(p) /\ v \in VariantIds
    BY <1>1, <1>7 DEF VariantsOf
  <2>2. /\ variants'[v].stock = n /\ \A u \in VariantIds : variants'[u].product = variants[u].product
        /\ \A u \in VariantIds : u # v => variants'[u].stock = variants[u].stock
    BY <1>2, <1>7, <2>1 DEF VariantRow
  <2>3. VariantsOf(p)' = VariantsOf(p)
    BY <2>2 DEF VariantsOf
  <2>4. UnitsOf(p)' = n + Units(variants, VariantsOf(p) \ {v})
    <3> DEFINE F == [x \in VariantsOf(p) |-> variants'[x].stock]
               G == [x \in VariantsOf(p) \ {v} |-> variants[x].stock]
    <3>1. \A x \in VariantsOf(p) : F[x] \in Int
      <4>1. \A x \in VariantsOf(p) : x \in VariantIds
        BY DEF VariantsOf
      <4>2. \A x \in VariantIds : variants[x].stock \in Int
        BY <1>2 DEF VariantRow
      <4> QED BY <1>3, <2>2, <4>1, <4>2
    <3>2. F[v] = n /\ \A x \in VariantsOf(p) \ {v} : F[x] = G[x]
      BY <2>1, <2>2 DEF VariantsOf
    <3> HIDE DEF F, G
    <3>3. SumFunctionOnSet(F, VariantsOf(p)) = n + SumFunctionOnSet(F, VariantsOf(p) \ {v})
      BY <2>1, <3>1, <3>2, SumWithout, VariantsAreFinite
    <3>4. SumFunctionOnSet(F, VariantsOf(p) \ {v}) = SumFunctionOnSet(G, VariantsOf(p) \ {v})
      <4>1. IsFiniteSet(VariantsOf(p) \ {v})
        BY VariantsAreFinite, FS_Subset
      <4> QED BY <3>2, <4>1, SumSame
    <3> QED BY <2>3, <3>3, <3>4 DEF UnitsOf, Units, F, G
  <2>5. Units(variants, VariantsOf(p) \ {v}) \in Nat
    <3>1. IsFiniteSet(VariantsOf(p) \ {v})
      BY VariantsAreFinite, FS_Subset
    <3>2. \A x \in VariantsOf(p) \ {v} : variants[x].stock \in Nat
      BY <1>2 DEF VariantRow, VariantsOf
    <3> QED BY <3>1, <3>2, UnitsFit
  <2>6. products'[p].stock = UnitsOf(p)'
    <3>1. DerivedStock(w) = Units(variants, VariantsOf(p) \ {v}) + n
      BY <2>1 DEF DerivedStock
    <3> QED BY <1>1, <1>3, <1>5, <1>7, <2>4, <2>5, <3>1
  <2>7. \A q \in Products : q # p => RowsLetBe(q)
    BY <2>1, <2>2 DEF VariantsOf, RowsLetBe
  <2> QED BY <1>5, <1>7, <2>6, <2>7, StocksStay DEF AddedUp, LetBe
<1> QED BY <1>1, <1>4, <1>6, <1>7 DEF CommitStock

Adding == {"stock_sum", "update_commit"}

\* No step that writes rows leaves a sum in hand.
LEMMA NoSumBehind ==
  ASSUME NEW a \in Admins, RowAction(a), CatalogueTypeOK
  PROVE  admin'[a].pc \notin Adding
<1>1. admin \in [Admins -> Work] /\ admin[a] \in Work
  BY DEF CatalogueTypeOK
<1>2. Finish(a) => admin'[a].pc \notin Adding
  BY <1>1 DEF Finish, Become, NoWork, Adding
<1>3. ASSUME NEW pc, Step(a, pc) PROVE admin'[a].pc = pc
  BY <1>1, <1>3 DEF Step, Become, Work
<1>4. CASE CreateSave(a) \/ CommitStock(a)
  BY <1>2, <1>4 DEF CreateSave, CommitStock
<1>5. CASE UpdateSave(a) \/ CommitRows(a)
  <2>1. Finish(a) \/ Step(a, "files")
    BY <1>5 DEF UpdateSave, CommitRows
  <2> QED BY <1>2, <1>3, <2>1 DEF Adding
<1>6. CASE RemoveSave(a) \/ DeleteProductsOf(a) \/ DeleteCategories(a)
  <2>1. Step(a, "files") \/ Step(a, "del_images")
    BY <1>6 DEF RemoveSave, DeleteProductsOf, DeleteCategories
  <2> QED BY <1>3, <2>1 DEF Adding
<1> QED BY <1>4, <1>5, <1>6 DEF RowAction

\* While the rows stand, and nobody names others, a sum taken again is the same.
LEMMA SumsAgain ==
  ASSUME UNCHANGED variants, Known' = Known, NEW a, NEW w, admin'[a] = w
  PROVE  StockAfter(admin[a].product, admin[a].form, admin[a].doomed)' = StockAfter(w.product, w.form, w.doomed)
<1>1. FreeVariants' = FreeVariants
  BY DEF FreeVariants
<1>2. RowsAfter(admin[a].product, admin[a].form, admin[a].doomed)' = RowsAfter(w.product, w.form, w.doomed)
  BY <1>1 DEF RowsAfter, Written, IdOf, NewIds, Unnamed
<1> QED BY <1>2 DEF StockAfter, Units

LEMMA SumStaysInHand ==
  ASSUME CatalogueTypeOK, FormsAreSound, OneAtATime, NoSales, PlainForms, \A a \in Admins : SumInHand(admin[a]), CatalogueNext
  PROVE  \A a \in Admins : SumInHand(admin[a])'
<1> SUFFICES ASSUME NEW a \in Admins, admin'[a].pc \in Adding PROVE SumInHand(admin[a])'
  BY DEF SumInHand, Adding
<1>1. admin \in [Admins -> Work] /\ admin[a] \in Work /\ SumInHand(admin[a]) /\ \A b \in Admins : b = a
  BY DEF CatalogueTypeOK, OneAtATime
<1>2. UNCHANGED <<products, variants>>
  <2>1. \A v : ~SellVariant(v)
    BY DEF SellVariant, NoSales
  <2> QED BY <1>1, <2>1, RowActions, NoSumBehind
<1>3. \A q : VariantsOf(q)' = VariantsOf(q)
  BY <1>2 DEF VariantsOf
<1>4. CASE UNCHANGED admin
  <2>1. DerivedStock(admin[a])' = DerivedStock(admin[a])
    BY <1>2, <1>4 DEF DerivedStock, VariantsOf
  <2>2. VariantsOf(admin[a].product)' = VariantsOf(admin[a].product)
    BY <1>2, <1>4 DEF VariantsOf
  <2>3. PICK w : w = admin[a] /\ admin'[a] = w
    BY <1>4
  <2>4. StockAfter(admin[a].product, admin[a].form, admin[a].doomed)' = StockAfter(w.product, w.form, w.doomed)
    <3>1. Known' = Known
      BY <1>4 DEF Known, Named
    <3> QED BY <1>2, <2>3, <3>1, SumsAgain
  <2> QED BY <1>1, <1>4, <2>4, <2>1, <2>2, <2>3 DEF SumInHand
<1>5. CASE Turns(a) /\ admin'[a].pc = "stock_sum"
  <2>1. PICK work : Become(a, work) /\ Summing(a, work)
    BY <1>5 DEF Turns, Turn
  <2>2. admin'[a] = work /\ work.pc = "stock_sum" /\ work \in Work
    <3>1. admin' \in [Admins -> Work]
      BY CatalogueTyped DEF CatalogueTypeOK
    <3> QED BY <1>1, <1>5, <2>1, <3>1 DEF Become
  <2>3. \/ /\ work.product \in Products /\ work.units[1] \in VariantsOf(work.product) \cup {Nobody}
           /\ work.form.stock < 0
        \/ /\ admin[a].pc = "stock_sum" /\ work.product = admin[a].product /\ work.units = admin[a].units
           /\ work.form.stock = DerivedStock(admin[a])
           /\ work.form.own = (VariantsOf(work.product) # {} \/ work.units[1] = Nobody)
    BY <2>1, <2>2 DEF Summing, PlainForms
  <2>4. work.product \in Products /\ work.units[1] \in VariantsOf(work.product) \cup {Nobody}
    BY <1>1, <2>3 DEF SumInHand
  <2>5. /\ VariantsOf(admin[a].product)' = VariantsOf(work.product)
        /\ DerivedStock(admin[a])' = DerivedStock(work)
    BY <1>2, <2>2 DEF DerivedStock, VariantsOf
  <2>6. work.form.stock >= 0 => work.form.stock = DerivedStock(work) /\ work.form.own
    <3>1. work.form.stock \in Int
      BY <2>2 DEF Work, Form
    <3>2. CASE work.form.stock < 0
      BY <3>1, <3>2
    <3>3. CASE /\ work.product = admin[a].product /\ work.units = admin[a].units
               /\ work.form.stock = DerivedStock(admin[a])
               /\ work.form.own = (VariantsOf(work.product) # {} \/ work.units[1] = Nobody)
      <4>1. DerivedStock(work) = DerivedStock(admin[a])
        BY <3>3 DEF DerivedStock
      <4> QED BY <2>4, <3>3, <4>1
    <3> QED BY <2>3, <3>2, <3>3
  <2> QED BY <2>2, <2>4, <2>5, <2>6 DEF SumInHand
<1>6. CASE Turns(a) /\ admin'[a].pc = "update_commit"
  <2>1. PICK work : Become(a, work) /\ Turn(a, work)
    BY <1>6 DEF Turns
  <2>2. admin'[a] = work /\ work.pc \in Splitting
    BY <1>1, <1>6, <2>1 DEF Become, Splitting
  <2>3. SumRows(a)
    <3>1. ASSUME NEW d, Become(a, [admin[a] EXCEPT !.pc = "update_sum", !.doomed = d]) PROVE admin'[a].pc = "update_sum"
      BY <1>1, <3>1 DEF Become, Work
    <3>2. Finish(a) => admin'[a].pc = "idle"
      BY <1>1 DEF Finish, Become, NoWork
    <3>3. ~TakeRows(a)
      BY <1>6, <3>1, <3>2 DEF TakeRows
    <3> QED BY <2>1, <2>2, <3>3 DEF Turn
  <2> DEFINE p == admin[a].product
             f == admin[a].form
             d == admin[a].doomed
             n == StockAfter(p, f, d)
             next == [admin[a] EXCEPT !.pc = "update_commit", !.form.stock = n]
  <2>4. admin' = [admin EXCEPT ![a] = next]
    BY <2>3 DEF SumRows, Become
  <2>5. next.product = p /\ next.form = [f EXCEPT !.stock = n] /\ next.doomed = d /\ next.units = admin[a].units
    BY <1>1 DEF Work
  <2>6. f \in Form
    BY <1>1 DEF Work
  <2> HIDE DEF n, next
  <2>7. next.form.variants = f.variants /\ next.form.stock = n
    BY <2>5, <2>6 DEF Form
  <2>8. admin'[a] = next
    BY <1>1, <2>4
  <2>9. Known' = Known
    <3>1. admin'[a].form.variants = admin[a].form.variants /\ admin'[a].units = admin[a].units
      BY <2>5, <2>7, <2>8
    <3>2. Named(admin[a].form)' = Named(admin[a].form)
      BY <3>1 DEF Named
    <3>3. Known = Named(admin[a].form) \cup {admin[a].units[1]}
      BY <1>1 DEF Known
    <3>4. Known' = Named(admin[a].form)' \cup {admin'[a].units[1]}
      BY <1>1 DEF Known
    <3> QED BY <3>1, <3>2, <3>3, <3>4
  <2>10. PICK w : w = next
    OBVIOUS
  <2>11. StockAfter(admin[a].product, admin[a].form, admin[a].doomed)' = StockAfter(w.product, w.form, w.doomed)
    BY <1>2, <2>8, <2>9, <2>10, SumsAgain
  <2>12. StockAfter(p, w.form, d) = n
    <3>1. RowsAfter(p, w.form, d) = RowsAfter(p, f, d)
      BY <2>7, <2>10 DEF RowsAfter
    <3> QED BY <2>7, <2>10, <3>1 DEF StockAfter, n
  <2>13. w.product = p /\ w.doomed = d /\ w.form.stock = n /\ admin'[a] = w
    BY <2>5, <2>7, <2>8, <2>10
  <2> HIDE DEF p, f, d
  <2> QED BY <1>6, <2>11, <2>12, <2>13 DEF SumInHand
<1> QED BY <1>1, <1>4, <1>5, <1>6, SomebodyTurns DEF Adding

LEMMA StockStep ==
  ASSUME OneAtATime, NoSales, PlainForms, StockInv, [CatalogueNext]_catalogueVars
  PROVE  StockInv'
<1>1. /\ DefaultsInv /\ StocksDerived /\ CatalogueTypeOK /\ FormsAreSound
      /\ \A a \in Admins : SumInHand(admin[a])
  BY DEF StockInv, DefaultsInv, FormsInv
<1>2. DefaultsInv'
  BY <1>1, DefaultsStep DEF Serial
<1>3. CASE UNCHANGED catalogueVars
  <2>1. StocksDerived'
    BY <1>1, <1>3 DEF catalogueVars, StocksDerived, UnitsOf, VariantsOf
  <2>2. ASSUME NEW a \in Admins PROVE SumInHand(admin[a])'
    <3>1. /\ DerivedStock(admin[a])' = DerivedStock(admin[a])
          /\ VariantsOf(admin[a].product)' = VariantsOf(admin[a].product)
      BY <1>3 DEF catalogueVars, DerivedStock, VariantsOf
    <3>2. PICK w : w = admin[a] /\ admin'[a] = w
      BY <1>3 DEF catalogueVars
    <3>3. StockAfter(admin[a].product, admin[a].form, admin[a].doomed)' = StockAfter(w.product, w.form, w.doomed)
      <4>1. Known' = Known
        BY <1>3 DEF catalogueVars, Known, Named
      <4> QED BY <1>3, <3>2, <4>1, SumsAgain DEF catalogueVars
    <3> QED BY <3>3, <1>1, <1>3, <3>1, <3>2 DEF catalogueVars, SumInHand
  <2> QED BY <1>2, <2>1, <2>2 DEF StockInv
<1>4. CASE CatalogueNext
  <2>1. \A a \in Admins : SumInHand(admin[a])'
    BY <1>1, <1>4, SumStaysInHand
  <2>2. StocksDerived'
    <3>1. CASE UNCHANGED <<products, variants>>
      <4>1. \A p \in Products : LetBe(p)
        BY <3>1, RowsStandLetBe DEF LetBe
      <4> QED BY <1>1, <4>1, StocksStay
    <3>2. ASSUME NEW a \in Admins, RowAction(a) PROVE StocksDerived'
      BY <1>1, <3>2, SavesDerive, RemovalsDerive, CommitDerives DEF RowAction
    <3>3. \A v : ~SellVariant(v)
      BY DEF SellVariant, NoSales
    <3> QED BY <1>4, <3>1, <3>2, <3>3, RowActions
  <2> QED BY <1>2, <2>1, <2>2 DEF StockInv
<1> QED BY <1>3, <1>4

LEMMA StockStart == ASSUME CatalogueTypeOK, Blank PROVE StockInv
<1>1. \A a \in Admins : SumInHand(admin[a])
  BY DEF Blank, SumInHand, NoWork
<1> QED BY <1>1, DefaultsStart, NoRows DEF StockInv, StocksDerived

\* However many products, variants and units: one request at a time, for the
\* product's own variants and each of them once, and with no sale in between, a
\* product that has variants has the sum of their stock.
THEOREM StockDerivedInTurn ==
  ASSUME OneAtATime, NoSales, PlainForms PROVE CatalogueSpec => []StockIsDerived
<1>1. CatalogueInit => StockInv
  BY StockStart, CatalogueStartsTyped, CatalogueStartsBlank
<1>2. StockInv /\ [CatalogueNext]_catalogueVars => StockInv'
  BY StockStep
<1>3. StockInv => StockIsDerived
  BY DEF StockInv, StocksDerived, StockIsDerived
<1> QED BY <1>1, <1>2, <1>3, PTL DEF CatalogueSpec

-----------------------------------------------------------------------------
(* The tree of categories, requests in turn.  A category that moves is shown *)
(* not to be above its new parent by the ancestors that were walked; one     *)
(* that goes takes what is on sale below it along, by the rows gathered.     *)

RowsRefer ==
  \A c \in Categories : categories[c].parent # Nobody =>
    categories[c].state # "none" /\ categories[categories[c].parent].state # "none"
LiveUnder ==
  \A c \in Categories : LiveCategory(c) =>
    categories[c].parent = Nobody \/ LiveCategory(categories[c].parent)
TreeRows == RowsRefer /\ NoCircularHierarchy /\ LiveUnder

\* Rows from `q` upwards, without `c`, as far as `q` and up to `top`.
Ancestry(U, q, c, top) ==
  q \in U /\ c \notin U /\ \A x \in U : categories[x].parent \in U \cup {top}

\* A category that is to be made, or to move.
Placed(w) ==
  /\ w.category \in Categories
  /\ w.parent # Nobody => LiveCategory(w.parent)
  /\ w.pc = "cat_create" => categories[w.category].state = "none"
  /\ w.pc = "cat_image" => categories[w.category].state # "deleted"
  /\ w.pc \in {"cat_walk", "cat_update"} => LiveCategory(w.category)
  /\ w.pc # "cat_walk" => w.walk = Nobody
  /\ w.moves /\ w.parent # Nobody =>
       \E U \in SUBSET Categories : Ancestry(U, w.parent, w.category, w.walk)
\* A category that is to go, with what hangs from it.
Gathered(w) ==
  /\ w.pc # "del_descendants" => w.level = {}
  /\ ~w.permanent => \A c \in Categories :
       LiveCategory(c) /\ categories[c].parent \in w.group \ w.level => c \in w.group
TreeWork(w) ==
  /\ w.pc \in {"cat_walk", "cat_image", "cat_create", "cat_update"} => Placed(w)
  /\ w.pc \in {"del_descendants", "del_products", "del_images", "del_detach", "del_categories"} => Gathered(w)

TreeInv == FormsInv /\ TreeRows /\ \A a \in Admins : TreeWork(admin[a])

\* What a step does to the rows of categories.
OthersSame(c) == \A x \in Categories : x # c => categories'[x] = categories[x]
AddsCategory ==
  \E c \in Categories, q \in Categories \cup {Nobody} :
    /\ categories[c].state = "none" /\ categories'[c].state = "live" /\ categories'[c].parent = q
    /\ q # Nobody => LiveCategory(q)
    /\ OthersSame(c)
MovesCategory ==
  \E c \in Categories, q \in Categories \cup {Nobody} :
    /\ LiveCategory(c) /\ categories'[c].state = "live" /\ categories'[c].parent = q
    /\ q # Nobody => LiveCategory(q) /\ \E U \in SUBSET Categories : Ancestry(U, q, c, Nobody)
    /\ OthersSame(c)
DropsCategories ==
  /\ \A c \in Categories : categories'[c].parent \in {categories[c].parent, Nobody}
  /\ RowsRefer' /\ LiveUnder'

Closed(S) == S \in SUBSET Categories /\ S # {} /\ \A c \in S : categories[c].parent \in S

LEMMA NoneClosed == NoCircularHierarchy <=> \A S \in SUBSET Categories : ~Closed(S)
BY DEF NoCircularHierarchy, Closed

LEMMA NoneClosedNext == NoCircularHierarchy' <=> \A S \in SUBSET Categories : ~Closed(S)'
BY DEF NoCircularHierarchy, Closed

LEMMA TreeRowsStay ==
  ASSUME CatalogueTypeOK, CatalogueTypeOK', TreeRows, AddsCategory \/ MovesCategory \/ DropsCategories
  PROVE  TreeRows'
<1>1. /\ \A c \in Categories : categories[c].parent \in Categories \cup {Nobody}
      /\ \A c \in Categories : categories'[c].parent \in Categories \cup {Nobody}
      /\ Nobody \notin Categories
  BY CatalogueAssumption DEF CatalogueTypeOK, CategoryRow
<1>2. RowsRefer /\ LiveUnder /\ \A S \in SUBSET Categories : ~Closed(S)
  BY NoneClosed DEF TreeRows
<1>3. CASE AddsCategory
  <2>1. PICK c \in Categories, q \in Categories \cup {Nobody} :
          /\ categories[c].state = "none" /\ categories'[c].state = "live" /\ categories'[c].parent = q
          /\ q # Nobody => LiveCategory(q)
          /\ OthersSame(c)
    BY <1>3 DEF AddsCategory
  <2>2. q # c /\ \A x \in Categories : categories[x].parent # c
    BY <1>1, <1>2, <2>1 DEF RowsRefer, LiveCategory
  <2>3. RowsRefer'
    BY <1>1, <1>2, <2>1, <2>2 DEF RowsRefer, LiveCategory, OthersSame
  <2>4. LiveUnder'
    BY <1>1, <1>2, <2>1, <2>2 DEF LiveUnder, LiveCategory, OthersSame
  <2>5. ASSUME NEW S \in SUBSET Categories, Closed(S)' PROVE FALSE
    <3>1. S # {} /\ \A x \in S : categories'[x].parent \in S
      BY <2>5 DEF Closed
    <3>2. \A x \in S \ {c} : categories[x].parent \in S \ {c}
      BY <2>1, <2>2, <3>1 DEF OthersSame
    <3>3. S \ {c} # {}
      BY <1>1, <2>1, <2>2, <3>1
    <3> QED BY <1>2, <3>2, <3>3 DEF Closed
  <2> QED BY <2>3, <2>4, <2>5, NoneClosedNext DEF TreeRows
<1>4. CASE MovesCategory
  <2>1. PICK c \in Categories, q \in Categories \cup {Nobody} :
          /\ LiveCategory(c) /\ categories'[c].state = "live" /\ categories'[c].parent = q
          /\ q # Nobody => LiveCategory(q) /\ \E U \in SUBSET Categories : Ancestry(U, q, c, Nobody)
          /\ OthersSame(c)
    BY <1>4 DEF MovesCategory
  <2>2. \A x \in Categories : categories'[x].state = categories[x].state
    BY <2>1 DEF OthersSame, LiveCategory
  <2>3. RowsRefer'
    BY <1>1, <1>2, <2>1, <2>2 DEF RowsRefer, LiveCategory, OthersSame
  <2>4. LiveUnder'
    BY <1>1, <1>2, <2>1, <2>2 DEF LiveUnder, LiveCategory, OthersSame
  <2>5. ASSUME NEW S \in SUBSET Categories, Closed(S)' PROVE FALSE
    <3>1. S # {} /\ \A x \in S : categories'[x].parent \in S
      BY <2>5 DEF Closed
    <3>2. \A x \in S : x # c => categories[x].parent \in S
      BY <2>1, <3>1 DEF OthersSame
    <3>3. CASE c \notin S
      BY <1>2, <3>1, <3>2, <3>3 DEF Closed
    <3>4. CASE c \in S
      <4>1. q \in S /\ q # Nobody
        BY <1>1, <2>1, <3>1, <3>4
      <4>2. PICK U \in SUBSET Categories : Ancestry(U, q, c, Nobody)
        BY <2>1, <4>1
      <4>3. q \in S \cap U /\ \A x \in S \cap U : categories[x].parent \in S \cap U
        BY <1>1, <3>2, <4>1, <4>2 DEF Ancestry
      <4> QED BY <1>2, <4>3 DEF Closed
    <3> QED BY <3>3, <3>4
  <2> QED BY <2>3, <2>4, <2>5, NoneClosedNext DEF TreeRows
<1>5. CASE DropsCategories
  <2>1. RowsRefer' /\ LiveUnder' /\ \A c \in Categories : categories'[c].parent \in {categories[c].parent, Nobody}
    BY <1>5 DEF DropsCategories
  <2>2. ASSUME NEW S \in SUBSET Categories, Closed(S)' PROVE FALSE
    <3>1. S # {} /\ \A x \in S : categories'[x].parent \in S
      BY <2>2 DEF Closed
    <3>2. \A x \in S : categories[x].parent \in S
      BY <1>1, <2>1, <3>1
    <3> QED BY <1>2, <3>1, <3>2 DEF Closed
  <2> QED BY <2>1, <2>2, NoneClosedNext DEF TreeRows
<1> QED BY <1>3, <1>4, <1>5

LEMMA TreeRowsSame ==
  ASSUME TreeRows, UNCHANGED categories
  PROVE  DropsCategories
BY DEF TreeRows, DropsCategories, RowsRefer, LiveUnder, LiveCategory

\* A step writes the rows of categories as its work says.
LEMMA CategoriesChange ==
  ASSUME CatalogueTypeOK, TreeRows, NEW a \in Admins, TreeWork(admin[a]), TreeStep(a)
  PROVE  AddsCategory \/ MovesCategory \/ DropsCategories
<1> DEFINE w == admin[a]
           c0 == w.category
<1>1. /\ categories \in [Categories -> CategoryRow] /\ w \in Work
      /\ \A c \in Categories : categories[c].parent \in Categories \cup {Nobody}
      /\ Nobody \notin Categories /\ w.parent \in Categories \cup {Nobody}
  BY CatalogueAssumption DEF CatalogueTypeOK, CategoryRow, Work
<1>2. RowsRefer /\ LiveUnder
  BY DEF TreeRows
<1>3. CASE UNCHANGED categories
  BY <1>3, TreeRowsSame
<1>4. CASE CreateCategoryRow(a) /\ categories' # categories
  <2>1. /\ w.pc = "cat_create" /\ c0 \in Categories /\ categories[c0].state = "none"
        /\ w.parent # Nobody => LiveCategory(w.parent)
    BY <1>4 DEF CreateCategoryRow, At, TreeWork, Placed
  <2>2. categories' = [categories EXCEPT ![c0] = [state |-> "live", parent |-> w.parent, image |-> w.image]]
    BY <1>4 DEF CreateCategoryRow
  <2> HIDE DEF w, c0
  <2>3. categories'[c0].state = "live" /\ categories'[c0].parent = w.parent /\ OthersSame(c0)
    BY <1>1, <2>1, <2>2 DEF OthersSame
  <2> QED BY <1>1, <2>1, <2>3 DEF AddsCategory
<1>5. CASE UpdateCategoryRow(a) /\ categories' # categories
  <2>1. w.pc = "cat_update" /\ Placed(w) /\ c0 \in Categories /\ LiveCategory(c0)
    BY <1>5 DEF UpdateCategoryRow, At, TreeWork, Placed
  <2>2. categories' = [categories EXCEPT ![c0] = EditedRow(w, categories[c0])]
    BY <1>1, <1>5, <2>1 DEF UpdateCategoryRow
  <2>3. /\ EditedRow(w, categories[c0]).state = categories[c0].state
        /\ EditedRow(w, categories[c0]).parent = IF w.moves THEN w.parent ELSE categories[c0].parent
    <3>1. categories[c0] \in CategoryRow
      BY <1>1, <2>1
    <3> QED BY <3>1 DEF EditedRow, CategoryRow
  <2> HIDE DEF w, c0
  <2>4. /\ categories'[c0].state = "live" /\ OthersSame(c0)
        /\ categories'[c0].parent = IF w.moves THEN w.parent ELSE categories[c0].parent
    BY <1>1, <2>1, <2>2, <2>3 DEF OthersSame, LiveCategory
  <2>5. CASE w.moves
    <3>1. w.parent # Nobody => LiveCategory(w.parent) /\ \E U \in SUBSET Categories : Ancestry(U, w.parent, c0, Nobody)
      BY <2>1, <2>5 DEF Placed, c0
    <3> QED BY <1>1, <2>1, <2>4, <2>5, <3>1 DEF MovesCategory
  <2>6. CASE ~w.moves
    <3>1. \A c \in Categories : categories'[c].parent = categories[c].parent /\ categories'[c].state = categories[c].state
      BY <2>1, <2>4, <2>6 DEF OthersSame, LiveCategory
    <3> QED BY <1>1, <1>2, <3>1 DEF DropsCategories, RowsRefer, LiveUnder, LiveCategory
  <2> QED BY <2>5, <2>6
<1>6. CASE Detach(a)
  <2>1. \A c \in Categories : categories'[c] \in {categories[c], [categories[c] EXCEPT !.parent = Nobody]}
    BY <1>6 DEF Detach
  <2>2. \A c \in Categories : /\ categories'[c].parent \in {categories[c].parent, Nobody}
                              /\ categories'[c].state = categories[c].state
    <3> SUFFICES ASSUME NEW c \in Categories
                 PROVE  categories'[c].parent \in {categories[c].parent, Nobody} /\ categories'[c].state = categories[c].state
      OBVIOUS
    <3>1. categories[c] \in CategoryRow
      BY <1>1
    <3>2. CASE categories'[c] = categories[c]
      BY <3>2
    <3>3. CASE categories'[c] = [categories[c] EXCEPT !.parent = Nobody]
      BY <3>1, <3>3 DEF CategoryRow
    <3> QED BY <2>1, <3>2, <3>3
  <2> QED BY <1>1, <1>2, <2>2 DEF DropsCategories, RowsRefer, LiveUnder, LiveCategory
<1>7. CASE DeleteCategories(a) /\ w.permanent
  <2>1. \A c \in Categories : categories'[c] =
               IF c \in w.group THEN NoCategory
               ELSE IF categories[c].parent \in w.group THEN [categories[c] EXCEPT !.parent = Nobody]
               ELSE categories[c]
    BY <1>7 DEF DeleteCategories
  <2>2. \A c \in Categories : c \in w.group => categories'[c].parent = Nobody /\ categories'[c].state = "none"
    <3>1. \A c \in Categories : c \in w.group => categories'[c] = NoCategory
      BY <2>1
    <3>2. NoCategory.parent = Nobody /\ NoCategory.state = "none"
      BY DEF NoCategory
    <3> QED BY <3>1, <3>2
  <2>3. \A c \in Categories : c \notin w.group =>
          /\ categories'[c].state = categories[c].state
          /\ categories'[c].parent = IF categories[c].parent \in w.group THEN Nobody ELSE categories[c].parent
    <3> SUFFICES ASSUME NEW c \in Categories, c \notin w.group
                 PROVE  /\ categories'[c].state = categories[c].state
                        /\ categories'[c].parent = IF categories[c].parent \in w.group THEN Nobody ELSE categories[c].parent
      OBVIOUS
    <3>1. categories[c] \in CategoryRow
      BY <1>1
    <3>2. CASE categories[c].parent \in w.group
      <4>1. categories'[c] = [categories[c] EXCEPT !.parent = Nobody]
        BY <2>1, <3>2
      <4> QED BY <3>1, <3>2, <4>1 DEF CategoryRow
    <3>3. CASE categories[c].parent \notin w.group
      BY <2>1, <3>3
    <3> QED BY <3>2, <3>3
  <2> HIDE DEF w
  <2> QED BY <1>1, <1>2, <2>2, <2>3 DEF DropsCategories, RowsRefer, LiveUnder, LiveCategory
<1>8. CASE DeleteCategories(a) /\ ~w.permanent
  <2>1. \A c \in Categories : categories'[c] =
               IF c \in w.group /\ categories[c].state # "none"
               THEN [categories[c] EXCEPT !.state = "deleted"] ELSE categories[c]
    BY <1>8 DEF DeleteCategories
  <2>3. \A c \in Categories :
          /\ categories'[c].parent = categories[c].parent
          /\ categories'[c].state = IF c \in w.group /\ categories[c].state # "none" THEN "deleted" ELSE categories[c].state
    <3> SUFFICES ASSUME NEW c \in Categories
                 PROVE  /\ categories'[c].parent = categories[c].parent
                        /\ categories'[c].state = IF c \in w.group /\ categories[c].state # "none" THEN "deleted" ELSE categories[c].state
      OBVIOUS
    <3>1. categories[c] \in CategoryRow
      BY <1>1
    <3>2. CASE c \in w.group /\ categories[c].state # "none"
      <4>1. categories'[c] = [categories[c] EXCEPT !.state = "deleted"]
        BY <2>1, <3>2
      <4> QED BY <3>1, <3>2, <4>1 DEF CategoryRow
    <3>3. CASE ~(c \in w.group /\ categories[c].state # "none")
      BY <2>1, <3>3
    <3> QED BY <3>2, <3>3
  <2>4. \A c \in Categories : LiveCategory(c) /\ categories[c].parent \in w.group => c \in w.group
    BY <1>8 DEF DeleteCategories, At, TreeWork, Gathered
  <2> HIDE DEF w
  <2>5. RowsRefer'
    BY <1>1, <1>2, <2>3 DEF RowsRefer
  <2>6. LiveUnder'
    BY <1>1, <1>2, <2>3, <2>4 DEF LiveUnder, LiveCategory
  <2> QED BY <2>3, <2>5, <2>6 DEF DropsCategories
<1>9. CASE CategoryImage(a) \/ WalkUp(a) \/ RefuseCategory(a) \/ FindDescendants(a) \/ DeleteProductsOf(a) \/ CategoryImages(a)
  BY <1>3, <1>9 DEF CategoryImage, WalkUp, RefuseCategory, FindDescendants, DeleteProductsOf, CategoryImages
<1> QED BY <1>3, <1>4, <1>5, <1>6, <1>7, <1>8, <1>9 DEF TreeStep

\* Elsewhere than in its steps, the tree is neither written nor worked on.
LEMMA TreeLetAlone ==
  ASSUME [CatalogueNext]_catalogueVars, \A a \in Admins : ~TreeStep(a)
  PROVE  UNCHANGED categories
<1>1. ASSUME NEW a \in Admins, TreeRequest(a) PROVE UNCHANGED categories
  BY <1>1 DEF TreeRequest, CreateCategory, UpdateCategory, DeleteCategory
<1>2. ASSUME NEW a \in Admins, ProductRequest(a) PROVE UNCHANGED categories
  <2>1. ASSUME NEW p, NEW c, NEW form, CreateProduct(a, p, c, form) \/ UpdateProduct(a, p, form)
        PROVE  UNCHANGED categories
    BY <2>1 DEF CreateProduct, UpdateProduct
  <2>2. ASSUME NEW p, NEW v, NEW n, UpdateStock(a, p, v, n) PROVE UNCHANGED categories
    BY <2>2 DEF UpdateStock
  <2>3. ASSUME NEW S, NEW permanent, DeleteProducts(a, S, permanent) PROVE UNCHANGED categories
    BY <2>3 DEF DeleteProducts
  <2> QED BY <1>2, <2>1, <2>2, <2>3 DEF ProductRequest
<1>3. ASSUME NEW a \in Admins, ProductStep(a) PROVE UNCHANGED categories
  <2>1. ASSUME CreateImages(a) \/ CreatePrimary(a) \/ RefuseProduct(a) \/ CheckNewProduct(a) \/ CreateVariants(a) \/ CreateSave(a)
        PROVE  UNCHANGED categories
    BY <2>1 DEF CreateImages, CreatePrimary, RefuseProduct, CheckNewProduct, CreateVariants, CreateSave
  <2>2. ASSUME CheckUpdate(a) \/ UpdateVariants(a) \/ UpdateImages(a) \/ UpdatePrimary(a) \/ UpdateSave(a)
        PROVE  UNCHANGED categories
    BY <2>2 DEF CheckUpdate, UpdateVariants, UpdateImages, UpdatePrimary, UpdateSave
  <2>3. ASSUME TakeRows(a) \/ SumRows(a) \/ CommitRows(a) PROVE UNCHANGED categories
    BY <2>3 DEF TakeRows, SumRows, CommitRows
  <2>4. ASSUME RemoveSave(a) \/ SumStock(a) \/ CommitStock(a) PROVE UNCHANGED categories
    BY <2>4 DEF RemoveSave, SumStock, CommitStock
  <2> QED BY <1>3, <2>1, <2>2, <2>3, <2>4 DEF ProductStep
<1>4. ASSUME NEW a \in Admins, CleanUp(a) PROVE UNCHANGED categories
  BY <1>4 DEF CleanUp
<1>5. ASSUME NEW v, SellVariant(v) PROVE UNCHANGED categories
  BY <1>5 DEF SellVariant
<1>6. ASSUME NEW image, NEW at, Upload(image, at) PROVE UNCHANGED categories
  BY <1>6 DEF Upload
<1>7. CASE UNCHANGED catalogueVars
  BY <1>7 DEF catalogueVars
<1>8. CASE CatalogueNext
  BY <1>1, <1>2, <1>3, <1>4, <1>5, <1>6, <1>8 DEF CatalogueNext, ProductNext
<1> QED BY <1>7, <1>8

Emptying == {"del_images", "del_detach", "del_categories"}

\* What a request on the tree turns to, over the rows as they are.
LEMMA TreeRequestSound ==
  ASSUME CatalogueTypeOK, NEW a \in Admins, TreeRequest(a)
  PROVE  \E work : Become(a, work) /\ TreeWork(work) /\ work.pc \notin Emptying
<1>1. /\ \A c \in Categories : categories[c].parent \in Categories \cup {Nobody}
      /\ Nobody \notin Categories
  BY CatalogueAssumption DEF CatalogueTypeOK, CategoryRow
<1>2. ASSUME NEW c \in Categories, NEW parent \in Categories \cup {Nobody}, NEW image, CreateCategory(a, c, parent, image)
      PROVE  \E work : Become(a, work) /\ TreeWork(work) /\ work.pc \notin Emptying
  <2> DEFINE work == [NoWork EXCEPT !.pc = "cat_image", !.category = c, !.parent = parent,
                                    !.image = image, !.sets = TRUE]
  <2>1. work.pc = "cat_image" /\ work.category = c /\ work.parent = parent /\ work.moves = FALSE /\ work.walk = Nobody
    BY DEF NoWork
  <2>2. /\ Become(a, work) /\ categories[c].state = "none"
        /\ parent # Nobody => LiveCategory(parent)
    BY <1>2 DEF CreateCategory, Begin
  <2> HIDE DEF work
  <2>3. TreeWork(work)
    BY <2>1, <2>2 DEF TreeWork, Placed
  <2> QED BY <2>1, <2>2, <2>3 DEF Emptying
<1>3. ASSUME NEW c \in Categories, NEW moves \in BOOLEAN, NEW parent \in Categories \cup {Nobody}, NEW sets, NEW image,
             UpdateCategory(a, c, moves, parent, sets, image), moves \/ parent = Nobody
      PROVE  \E work : Become(a, work) /\ TreeWork(work) /\ work.pc \notin Emptying
  <2> DEFINE walk == IF moves /\ parent # Nobody THEN WalkFrom(parent) ELSE Nobody
             work == [NoWork EXCEPT
               !.pc = "cat_walk", !.category = c, !.moves = moves, !.parent = parent,
               !.walk = walk, !.sets = sets, !.image = image, !.before = {categories[c].image} \ {NoUrl}]
  <2>1. work.pc = "cat_walk" /\ work.category = c /\ work.parent = parent /\ work.moves = moves /\ work.walk = walk
    BY DEF NoWork
  <2>2. /\ Become(a, work) /\ LiveCategory(c)
        /\ parent # Nobody => parent # c /\ LiveCategory(parent)
    BY <1>3 DEF UpdateCategory, Begin
  <2>3. moves /\ parent # Nobody => Ancestry({parent}, parent, c, walk)
    BY <2>2 DEF Ancestry, WalkFrom
  <2> HIDE DEF work, walk
  <2>4. moves /\ parent # Nobody => \E U \in SUBSET Categories : Ancestry(U, parent, c, walk)
    BY <1>1, <2>3
  <2>5. TreeWork(work)
    BY <2>1, <2>2, <2>4 DEF TreeWork, Placed
  <2> QED BY <2>1, <2>2, <2>5 DEF Emptying
<1>4. ASSUME NEW c \in Categories, NEW permanent \in BOOLEAN, DeleteCategory(a, c, permanent)
      PROVE  \E work : Become(a, work) /\ TreeWork(work) /\ work.pc \notin Emptying
  <2> DEFINE work == [NoWork EXCEPT !.pc = "del_descendants", !.category = c,
                                    !.group = {c}, !.level = {c}, !.permanent = permanent]
  <2>1. work.pc = "del_descendants" /\ work.group = {c} /\ work.level = {c}
    BY DEF NoWork
  <2>2. Become(a, work)
    BY <1>4 DEF DeleteCategory, Begin
  <2> HIDE DEF work
  <2>3. TreeWork(work)
    BY <2>1 DEF TreeWork, Gathered
  <2> QED BY <2>1, <2>2, <2>3 DEF Emptying
<1> QED BY <1>2, <1>3, <1>4 DEF TreeRequest

LEMMA FinishSound == TreeWork(NoWork)
BY DEF TreeWork, NoWork

LEMMA TreeStepSound ==
  ASSUME CatalogueTypeOK, NEW a \in Admins, TreeWork(admin[a]), TreeStep(a)
  PROVE  \/ \E work : Become(a, work) /\ work.pc \notin OnTree
         \/ Step(a, "del_categories") /\ Detach(a)
         \/ /\ UNCHANGED categories
            /\ \E work : /\ Become(a, work) /\ TreeWork(work)
                         /\ work.pc \in Emptying => DeleteProductsOf(a) \/ CategoryImages(a)
<1> PICK w : w = admin[a]
  OBVIOUS
<1>1. /\ w \in Work /\ TreeWork(w) /\ Nobody \notin Categories
      /\ \A c \in Categories : categories[c].parent \in Categories \cup {Nobody}
  BY CatalogueAssumption DEF CatalogueTypeOK, CategoryRow
<1>2. Finish(a) => \E work : Become(a, work) /\ work.pc \notin OnTree
  <2>1. NoWork.pc \notin OnTree
    BY DEF NoWork, OnTree
  <2> QED BY <2>1 DEF Finish
<1>3. Step(a, "files") => \E work : Become(a, work) /\ work.pc \notin OnTree
  <2>1. [w EXCEPT !.pc = "files"].pc \notin OnTree
    BY <1>1 DEF Work, OnTree
  <2> QED BY <2>1 DEF Step
<1>4. CASE CreateCategoryRow(a) \/ RefuseCategory(a)
  BY <1>2, <1>4 DEF CreateCategoryRow, RefuseCategory
<1>5. CASE DeleteCategories(a)
  BY <1>3, <1>5 DEF DeleteCategories
<1>6. CASE UpdateCategoryRow(a)
  <2> DEFINE work == [w EXCEPT !.pc = "files", !.garbage = IF w.sets THEN w.before \ {w.image} ELSE {}]
  <2>1. work.pc \notin OnTree
    BY <1>1 DEF Work, OnTree
  <2>2. Finish(a) \/ Become(a, work)
    BY <1>6 DEF UpdateCategoryRow
  <2> HIDE DEF work
  <2> QED BY <1>2, <2>1, <2>2
<1>7. CASE Detach(a)
  BY <1>7 DEF Detach
<1>8. CASE CategoryImage(a)
  <2> DEFINE pc == IF categories[w.category].state = "none" THEN "cat_create" ELSE "cat_update"
             work == [w EXCEPT !.pc = pc, !.image = Relocated(w.image, "categories")]
  <2>1. /\ work.pc = pc /\ work.category = w.category /\ work.parent = w.parent
        /\ work.moves = w.moves /\ work.walk = w.walk
    BY <1>1 DEF Work
  <2>2. Become(a, work) /\ w.pc = "cat_image" /\ UNCHANGED categories
    BY <1>8 DEF CategoryImage, At
  <2>3. Placed(w) /\ categories[w.category].state \in RowState
    <3>1. Placed(w)
      BY <1>1, <2>2 DEF TreeWork
    <3> QED BY <3>1 DEF Placed, CatalogueTypeOK, CategoryRow
  <2> HIDE DEF work
  <2>4. Placed(work)
    BY <2>1, <2>2, <2>3 DEF Placed, LiveCategory, RowState
  <2>5. TreeWork(work)
    BY <2>1, <2>4 DEF TreeWork
  <2> QED BY <2>1, <2>2, <2>5 DEF Emptying
<1>9. CASE WalkUp(a)
  <2>1. w.pc = "cat_walk" /\ UNCHANGED categories /\ Placed(w)
    BY <1>1, <1>9 DEF WalkUp, At, TreeWork
  <2>2. CASE w.walk = Nobody
    <3> DEFINE pc == IF w.sets THEN "cat_image" ELSE "cat_update"
               work == [w EXCEPT !.pc = pc]
    <3>1. /\ work.pc = pc /\ work.category = w.category /\ work.parent = w.parent
          /\ work.moves = w.moves /\ work.walk = w.walk
      BY <1>1 DEF Work
    <3>2. Become(a, work)
      BY <1>9, <2>2 DEF WalkUp, Step
    <3> HIDE DEF work
    <3>3. Placed(work)
      BY <2>1, <2>2, <3>1 DEF Placed, LiveCategory
    <3>4. TreeWork(work)
      BY <3>1, <3>3 DEF TreeWork
    <3> QED BY <2>1, <3>1, <3>2, <3>4 DEF Emptying
  <2>3. CASE w.walk # Nobody /\ w.walk = w.category
    BY <1>2, <1>9, <2>3 DEF WalkUp
  <2>4. CASE w.walk # Nobody /\ w.walk # w.category
    <3> DEFINE next == categories[w.walk].parent
               work == [w EXCEPT !.walk = next]
    <3>1. /\ work.pc = w.pc /\ work.category = w.category /\ work.parent = w.parent
          /\ work.moves = w.moves /\ work.walk = next
      BY <1>1 DEF Work
    <3>2. Become(a, work)
      BY <1>9, <2>4 DEF WalkUp
    <3>3. w.walk \in Categories
      BY <1>1, <2>4 DEF Work
    <3>4. ASSUME NEW U \in SUBSET Categories, Ancestry(U, w.parent, w.category, w.walk)
          PROVE  \E V \in SUBSET Categories : Ancestry(V, w.parent, w.category, next)
      <4>1. Ancestry(U \cup {w.walk}, w.parent, w.category, next)
        BY <2>4, <3>4 DEF Ancestry
      <4>2. U \cup {w.walk} \in SUBSET Categories
        BY <3>3
      <4> HIDE DEF next
      <4> QED BY <4>1, <4>2
    <3> HIDE DEF work, next
    <3>5. Placed(work)
      BY <2>1, <3>1, <3>4 DEF Placed
    <3>6. TreeWork(work)
      BY <2>1, <3>1, <3>5 DEF TreeWork
    <3> QED BY <2>1, <3>1, <3>2, <3>6 DEF Emptying
  <2> QED BY <2>2, <2>3, <2>4
<1>10. CASE FindDescendants(a)
  <2> DEFINE found == (IF w.permanent THEN Children(w.level) ELSE LiveChildren(w.level)) \ w.group
             pc == IF NextLevel(found) = {} THEN "del_products" ELSE w.pc
             work == [w EXCEPT !.pc = pc, !.group = @ \cup found, !.level = NextLevel(found)]
  <2>1. /\ work.pc = pc /\ work.permanent = w.permanent
        /\ work.group = w.group \cup found /\ work.level = found
    BY <1>1 DEF Work, NextLevel
  <2>2. Become(a, work) /\ w.pc = "del_descendants" /\ UNCHANGED categories
    BY <1>10 DEF FindDescendants, At
  <2>3. Gathered(w)
    BY <1>1, <2>2 DEF TreeWork
  <2>4. ~w.permanent => \A c \in Categories :
          LiveCategory(c) /\ categories[c].parent \in w.level => c \in w.group \cup found
    BY DEF LiveChildren, Children, LiveCategory
  <2>5. pc # "del_descendants" => found = {}
    BY <2>2 DEF NextLevel
  <2>6. pc \in {"del_products", "del_descendants"}
    BY <2>2
  <2> HIDE DEF work, found, pc
  <2>7. Gathered(work)
    BY <2>1, <2>3, <2>4, <2>5 DEF Gathered
  <2>8. TreeWork(work)
    BY <2>1, <2>6, <2>7 DEF TreeWork
  <2> QED BY <2>1, <2>2, <2>6, <2>8 DEF Emptying
<1>11. CASE DeleteProductsOf(a) \/ CategoryImages(a)
  <2>1. \E work : /\ Become(a, work) /\ work.pc \in {"del_images", "del_detach", "del_categories"}
                  /\ work.permanent = w.permanent /\ work.group = w.group /\ work.level = w.level
    <3>1. CASE DeleteProductsOf(a)
      <4> DEFINE work == [w EXCEPT !.pc = "del_images"]
      <4>1. /\ work.pc = "del_images"
            /\ work.permanent = w.permanent /\ work.group = w.group /\ work.level = w.level
        BY <1>1 DEF Work
      <4>2. Become(a, work)
        BY <3>1 DEF DeleteProductsOf, Step
      <4> HIDE DEF work
      <4> QED BY <4>1, <4>2
    <3>2. CASE CategoryImages(a)
      <4> DEFINE S == {categories[c].image : c \in w.group \cap Categories} \ {NoUrl}
                 work == [w EXCEPT !.pc = IF w.permanent THEN "del_detach" ELSE "del_categories", !.garbage = S]
      <4>1. /\ work.pc \in {"del_detach", "del_categories"}
            /\ work.permanent = w.permanent /\ work.group = w.group /\ work.level = w.level
        BY <1>1 DEF Work
      <4>2. Become(a, work)
        BY <3>2 DEF CategoryImages
      <4> HIDE DEF work
      <4> QED BY <4>1, <4>2
    <3> QED BY <1>11, <3>1, <3>2
  <2>2. UNCHANGED categories /\ w.pc \in {"del_products", "del_images"}
    BY <1>11 DEF DeleteProductsOf, CategoryImages, At
  <2>3. Gathered(w)
    BY <1>1, <2>2 DEF TreeWork
  <2>4. PICK work : /\ Become(a, work) /\ work.pc \in {"del_images", "del_detach", "del_categories"}
                    /\ work.permanent = w.permanent /\ work.group = w.group /\ work.level = w.level
    BY <2>1
  <2>5. TreeWork(work)
    BY <2>2, <2>3, <2>4 DEF TreeWork, Gathered
  <2> QED BY <1>11, <2>2, <2>4, <2>5
<1> QED BY <1>4, <1>5, <1>6, <1>7, <1>8, <1>9, <1>10, <1>11 DEF TreeStep

LEMMA TreeWorkStays ==
  ASSUME OneAtATime, FormsInv, \A a \in Admins : TreeWork(admin[a]), [CatalogueNext]_catalogueVars
  PROVE  \A a \in Admins : TreeWork(admin[a])'
<1> SUFFICES ASSUME NEW a \in Admins PROVE TreeWork(admin[a])'
  OBVIOUS
<1>1. CatalogueTypeOK /\ FormsAreSound /\ admin \in [Admins -> Work] /\ TreeWork(admin[a]) /\ \A b \in Admins : b = a
  BY DEF FormsInv, CatalogueTypeOK, OneAtATime
<1>2. ASSUME NEW work, Become(a, work), UNCHANGED categories, TreeWork(work) PROVE TreeWork(admin[a])'
  <2>1. admin'[a] = work
    BY <1>1, <1>2 DEF Become
  <2> QED BY <1>2, <2>1 DEF TreeWork, Placed, Gathered, Ancestry, LiveCategory
<1>3. ASSUME NEW work, Become(a, work), work.pc \notin OnTree PROVE TreeWork(admin[a])'
  <2>1. admin'[a] = work
    BY <1>1, <1>3 DEF Become
  <2> QED BY <1>3, <2>1 DEF TreeWork, OnTree
<1>4. CASE UNCHANGED <<categories, admin>>
  BY <1>1, <1>4 DEF TreeWork, Placed, Gathered, Ancestry, LiveCategory
<1>5. CASE TreeStep(a)
  <2>1. CASE Step(a, "del_categories") /\ Detach(a)
    <3>1. PICK w \in Work : w = admin[a]
      BY <1>1
    <3>2. /\ admin'[a].pc = "del_categories" /\ admin'[a].permanent = w.permanent
          /\ admin'[a].group = w.group /\ admin'[a].level = w.level
      BY <1>1, <2>1, <3>1 DEF Step, Become, Work
    <3>3. \A c \in Categories : LiveCategory(c)' /\ categories'[c].parent # Nobody
                                => LiveCategory(c) /\ categories'[c].parent = categories[c].parent
      <4> SUFFICES ASSUME NEW c \in Categories, LiveCategory(c)', categories'[c].parent # Nobody
                   PROVE  LiveCategory(c) /\ categories'[c].parent = categories[c].parent
        OBVIOUS
      <4>1. categories[c] \in CategoryRow
        BY <1>1 DEF CatalogueTypeOK
      <4>2. categories'[c] = IF c \in admin[a].group THEN [categories[c] EXCEPT !.parent = Nobody] ELSE categories[c]
        BY <2>1 DEF Detach
      <4>3. [categories[c] EXCEPT !.parent = Nobody].parent = Nobody
        BY <4>1 DEF CategoryRow
      <4>4. categories'[c] = categories[c]
        BY <4>2, <4>3
      <4> QED BY <4>4 DEF LiveCategory
    <3>4. Gathered(w) /\ w.pc = "del_detach" /\ Nobody \notin w.group
      <4>1. w.group \in SUBSET (Categories \cup Products)
        BY <3>1 DEF Work
      <4> QED BY <1>1, <2>1, <3>1, <4>1, CatalogueAssumption DEF TreeWork, Detach, At
    <3>5. Gathered(admin[a])'
      BY <3>2, <3>3, <3>4 DEF Gathered, LiveCategory
    <3> QED BY <3>2, <3>5 DEF TreeWork
  <2> QED BY <1>1, <1>2, <1>3, <1>5, <2>1, TreeStepSound
<1>6. CASE ~TreeStep(a)
  <2>1. UNCHANGED categories
    BY <1>1, <1>6, TreeLetAlone
  <2>2. CASE TreeRequest(a)
    BY <1>1, <1>2, <2>1, <2>2, TreeRequestSound
  <2>3. CASE UNCHANGED admin
    BY <1>4, <2>1, <2>3
  <2>4. CASE Turns(a) /\ ~TreeRequest(a)
    <3>1. PICK work : Become(a, work) /\ Turn(a, work)
      BY <2>4 DEF Turns
    <3>2. work.pc \notin OnTree
      BY <1>6, <2>4, <3>1 DEF Turn
    <3> QED BY <1>3, <3>1, <3>2
  <2>5. UNCHANGED catalogueVars => UNCHANGED admin
    BY DEF catalogueVars
  <2>6. UNCHANGED admin \/ Turns(a)
    BY <1>1, <2>5, SomebodyTurns
  <2> QED BY <2>2, <2>3, <2>4, <2>6
<1> QED BY <1>5, <1>6

LEMMA TreeInvStep ==
  ASSUME OneAtATime, TreeInv, [CatalogueNext]_catalogueVars
  PROVE  TreeInv'
<1>1. FormsInv /\ FormsInv' /\ CatalogueTypeOK /\ CatalogueTypeOK' /\ TreeRows /\ \A a \in Admins : TreeWork(admin[a])
  BY FormsStep DEF TreeInv, FormsInv
<1>2. \A a \in Admins : TreeWork(admin[a])'
  BY <1>1, TreeWorkStays
<1>3. AddsCategory \/ MovesCategory \/ DropsCategories
  BY <1>1, CategoriesChange, TreeLetAlone, TreeRowsSame
<1>4. TreeRows'
  BY <1>1, <1>3, TreeRowsStay
<1> QED BY <1>1, <1>2, <1>4 DEF TreeInv

LEMMA TreeInvStart ==
  ASSUME CatalogueInit
  PROVE  TreeInv
<1>1. FormsInv
  BY FormsStart, CatalogueStartsTyped, CatalogueStartsBlank
<1>2. \A a \in Admins : TreeWork(admin[a])
  BY FinishSound DEF CatalogueInit
<1>3. \A c \in Categories : categories[c].parent = Nobody /\ categories[c].state = "none"
  BY DEF CatalogueInit, NoCategory
<1>4. RowsRefer /\ LiveUnder
  BY <1>3 DEF RowsRefer, LiveUnder, LiveCategory
<1>5. NoCircularHierarchy
  BY <1>3, CatalogueAssumption DEF NoCircularHierarchy
<1> QED BY <1>1, <1>2, <1>4, <1>5 DEF TreeInv, TreeRows

\* However large the tree: requests that take turns never put a category below
\* itself, and never leave one on sale under one that is not.
THEOREM TreeStands ==
  ASSUME OneAtATime PROVE CatalogueSpec => [](NoCircularHierarchy /\ LiveUnderLive)
<1>1. CatalogueInit => TreeInv
  BY TreeInvStart
<1>2. TreeInv /\ [CatalogueNext]_catalogueVars => TreeInv'
  BY TreeInvStep
<1>3. TreeInv => NoCircularHierarchy /\ LiveUnderLive
  BY DEF TreeInv, TreeRows, LiveUnder, LiveUnderLive
<1> QED BY <1>1, <1>2, <1>3, PTL DEF CatalogueSpec

-----------------------------------------------------------------------------
(* Products are on sale in categories that are, and gone before those are.   *)

Shelved(p) == products[p].category \in Categories /\ LiveCategory(products[p].category)
Emptied(w) ==
  w.pc \in Emptying => \A p \in Products : LiveProduct(p) => products[p].category \notin w.group
ShelfInv ==
  /\ TreeInv
  /\ \A p \in Products : LiveProduct(p) => Shelved(p)
  /\ \A a \in Admins : Emptied(admin[a]) /\ admin[a].pc \notin Creating

LEMMA NothingIsMade ==
  ASSUME OneAtATime, "create" \notin CatalogueOps, ShelfInv, [CatalogueNext]_catalogueVars
  PROVE  \A a \in Admins : admin'[a].pc \notin Creating
<1> SUFFICES ASSUME NEW a \in Admins PROVE admin'[a].pc \notin Creating
  OBVIOUS
<1>1. /\ CatalogueTypeOK /\ FormsAreSound /\ admin \in [Admins -> Work] /\ admin[a].pc \notin Creating
      /\ \A b \in Admins : b = a
  BY DEF ShelfInv, TreeInv, FormsInv, CatalogueTypeOK, OneAtATime
<1>2. CASE UNCHANGED admin
  BY <1>1, <1>2
<1>3. CASE Turns(a)
  <2>1. PICK work : Become(a, work) /\ FormSound(work) /\ Turn(a, work)
    BY <1>3 DEF Turns
  <2>2. admin'[a] = work
    BY <1>1, <2>1 DEF Become
  <2>3. work.pc \in Creating => work.product \in Products /\ work.product # Nobody
    BY <2>1, CatalogueAssumption DEF FormSound
  <2> QED BY <1>1, <2>1, <2>2, <2>3 DEF Turn
<1> QED BY <1>1, <1>2, <1>3, SomebodyTurns DEF catalogueVars

\* What is on sale was, and where it was.
LEMMA SalesOnlyEnd ==
  ASSUME Shelves \subseteq {Nobody},
         CatalogueTypeOK, \A a \in Admins : admin[a].pc \notin Creating, FormsAreSound,
         [CatalogueNext]_catalogueVars, NEW p \in Products, LiveProduct(p)'
  PROVE  LiveProduct(p) /\ products'[p].category = products[p].category
<1>1. products[p] \in ProductRow /\ products \in [Products -> ProductRow]
  BY DEF CatalogueTypeOK
<1>2. products'[p].state = "live"
  BY DEF LiveProduct
<1>3. CASE products'[p] = products[p]
  BY <1>2, <1>3 DEF LiveProduct
<1>4. ASSUME products'[p] \in {NoProduct, [products[p] EXCEPT !.state = "deleted"]} PROVE FALSE
  <2>1. NoProduct.state = "none"
    BY DEF NoProduct
  <2>2. [products[p] EXCEPT !.state = "deleted"].state = "deleted"
    BY <1>1 DEF ProductRow
  <2> QED BY <1>2, <1>4, <2>1, <2>2
<1>5. ASSUME NEW q \in Products, NEW n, products' = [products EXCEPT ![q].stock = n]
      PROVE  LiveProduct(p) /\ products'[p].category = products[p].category
  <2>1. products'[p].state = products[p].state /\ products'[p].category = products[p].category
    BY <1>1, <1>5 DEF ProductRow
  <2> QED BY <1>2, <2>1 DEF LiveProduct
<1>6. ASSUME NEW a \in Admins, RowAction(a) PROVE LiveProduct(p) /\ products'[p].category = products[p].category
  <2>1. ~CreateSave(a)
    BY DEF CreateSave, At, Creating
  <2>2. CASE UpdateSave(a) \/ CommitRows(a)
    <3> DEFINE q == admin[a].product
               f == admin[a].form
    <3>1. q \in Products /\ f.category = Nobody
      BY <2>2 DEF FormsAreSound, FormSound, UpdateSave, CommitRows, At, Updating, Splitting
    <3>2. products' = products \/ \E n : products' = [products EXCEPT ![q] = EditedProduct(q, f, n)]
      BY <2>2 DEF UpdateSave, CommitRows
    <3>3. ASSUME NEW n PROVE EditedProduct(q, f, n).state = products[q].state /\ EditedProduct(q, f, n).category = products[q].category
      <4>1. products[q] \in ProductRow
        BY <1>1, <3>1
      <4> QED BY <3>1, <4>1 DEF EditedProduct, ProductRow
    <3>4. products'[p].state = products[p].state /\ products'[p].category = products[p].category
      <4> HIDE DEF q, f
      <4> QED BY <1>1, <3>1, <3>2, <3>3
    <3> QED BY <1>2, <3>4 DEF LiveProduct
  <2>3. CASE CommitStock(a)
    <3>1. products' = products \/ products' = [products EXCEPT ![admin[a].product].stock = admin[a].form.stock]
      BY <2>3 DEF CommitStock
    <3>2. CASE products' = products
      BY <1>3, <3>2
    <3>3. CASE products' = [products EXCEPT ![admin[a].product].stock = admin[a].form.stock]
      <4>1. CASE admin[a].product \in Products
        BY <1>5, <3>3, <4>1
      <4>2. CASE admin[a].product \notin Products
        BY <1>1, <1>3, <3>3, <4>2
      <4> QED BY <4>1, <4>2
    <3> QED BY <3>1, <3>2, <3>3
  <2>4. CASE RemoveSave(a)
    <3>1. products'[p] \in {products[p], NoProduct, [products[p] EXCEPT !.state = "deleted"]}
      BY <2>4 DEF RemoveSave
    <3> QED BY <1>3, <1>4, <3>1
  <2>5. CASE DeleteProductsOf(a)
    <3>1. products'[p] \in {products[p], NoProduct, [products[p] EXCEPT !.state = "deleted"]}
      BY <2>5 DEF DeleteProductsOf
    <3> QED BY <1>3, <1>4, <3>1
  <2>6. CASE DeleteCategories(a)
    <3>1. products'[p] \in {products[p], NoProduct}
      BY <2>6 DEF DeleteCategories
    <3> QED BY <1>3, <1>4, <3>1
  <2> QED BY <1>6, <2>1, <2>2, <2>3, <2>4, <2>5, <2>6 DEF RowAction
<1>7. \A v : SellVariant(v) => products'[p] = products[p]
  BY DEF SellVariant
<1> QED BY <1>3, <1>6, <1>7, RowActions

\* Only a deletion ends a category, and only those it has gathered.
LEMMA CategoriesOnlyGo ==
  ASSUME CatalogueTypeOK, NEW a \in Admins, TreeWork(admin[a]), TreeStep(a), NEW c \in Categories, LiveCategory(c)
  PROVE  LiveCategory(c)' \/ (At(a, "del_categories") /\ c \in admin[a].group)
<1>1. categories \in [Categories -> CategoryRow] /\ categories[c] \in CategoryRow /\ categories[c].state = "live"
  BY DEF CatalogueTypeOK, LiveCategory
<1>2. ASSUME categories'[c].state = categories[c].state PROVE LiveCategory(c)'
  BY <1>1, <1>2 DEF LiveCategory
<1>3. CASE UNCHANGED categories
  BY <1>2, <1>3
<1>4. CASE CreateCategoryRow(a)
  <2>1. categories[admin[a].category].state = "none"
    BY <1>4 DEF CreateCategoryRow, At, TreeWork, Placed
  <2>2. categories'[c] = categories[c]
    BY <1>1, <1>4, <2>1 DEF CreateCategoryRow
  <2> QED BY <1>2, <2>2
<1>5. CASE UpdateCategoryRow(a) /\ ~UNCHANGED categories
  <2>1. categories' = [categories EXCEPT ![admin[a].category] = EditedRow(admin[a], @)]
    BY <1>5 DEF UpdateCategoryRow
  <2>2. EditedRow(admin[a], categories[c]).state = categories[c].state
    BY <1>1 DEF EditedRow, CategoryRow
  <2>3. categories'[c] \in {categories[c], EditedRow(admin[a], categories[c])}
    BY <1>1, <2>1
  <2> QED BY <1>2, <2>2, <2>3
<1>6. [categories[c] EXCEPT !.parent = Nobody].state = categories[c].state
  BY <1>1 DEF CategoryRow
<1>7. CASE Detach(a)
  <2>1. categories'[c] \in {categories[c], [categories[c] EXCEPT !.parent = Nobody]}
    BY <1>7 DEF Detach
  <2> QED BY <1>2, <1>6, <2>1
<1>8. CASE DeleteCategories(a)
  <2>1. At(a, "del_categories")
    BY <1>8 DEF DeleteCategories
  <2>2. c \notin admin[a].group => categories'[c] \in {categories[c], [categories[c] EXCEPT !.parent = Nobody]}
    BY <1>8 DEF DeleteCategories
  <2> QED BY <1>2, <1>6, <2>1, <2>2
<1>9. CASE CategoryImage(a) \/ WalkUp(a) \/ RefuseCategory(a) \/ FindDescendants(a) \/ DeleteProductsOf(a) \/ CategoryImages(a)
  BY <1>3, <1>9 DEF CategoryImage, WalkUp, RefuseCategory, FindDescendants, DeleteProductsOf, CategoryImages
<1> QED BY <1>3, <1>4, <1>5, <1>7, <1>8, <1>9 DEF TreeStep

LEMMA GroupsAreEmptied ==
  ASSUME OneAtATime, ShelfInv, [CatalogueNext]_catalogueVars,
         \A p \in Products : LiveProduct(p)' => LiveProduct(p) /\ products'[p].category = products[p].category
  PROVE  \A a \in Admins : Emptied(admin[a])'
<1> SUFFICES ASSUME NEW a \in Admins, NEW p \in Products, admin'[a].pc \in Emptying, LiveProduct(p)'
             PROVE  products'[p].category \notin admin'[a].group
  BY DEF Emptied, Emptying
<1>1. /\ CatalogueTypeOK /\ FormsAreSound /\ admin \in [Admins -> Work] /\ TreeWork(admin[a]) /\ Emptied(admin[a])
      /\ \A b \in Admins : b = a
  BY DEF ShelfInv, TreeInv, FormsInv, CatalogueTypeOK, OneAtATime
<1>2. PICK w \in Work : w = admin[a]
  BY <1>1
<1>3. LiveProduct(p) /\ products'[p].category = products[p].category
  OBVIOUS
<1>4. ASSUME w.pc \in Emptying, admin'[a].group = w.group PROVE products'[p].category \notin admin'[a].group
  BY <1>1, <1>2, <1>3, <1>4 DEF Emptied
<1>5. CASE UNCHANGED admin
  BY <1>2, <1>4, <1>5
<1>6. CASE DeleteProductsOf(a)
  <2>1. admin'[a].group = w.group
    BY <1>1, <1>2, <1>6 DEF DeleteProductsOf, Step, Become, Work
  <2>2. ASSUME products[p].category \in w.group PROVE FALSE
    <3>1. products[p].state # "none"
      BY <1>3 DEF LiveProduct
    <3>2. products'[p] = IF w.permanent THEN NoProduct ELSE [products[p] EXCEPT !.state = "deleted"]
      BY <1>2, <1>6, <2>2, <3>1 DEF DeleteProductsOf
    <3>3. NoProduct.state = "none"
      BY DEF NoProduct
    <3>4. [products[p] EXCEPT !.state = "deleted"].state = "deleted"
      <4>1. products[p] \in ProductRow
        BY <1>1 DEF CatalogueTypeOK
      <4> QED BY <4>1 DEF ProductRow
    <3> QED BY <3>2, <3>3, <3>4 DEF LiveProduct
  <2> QED BY <1>3, <2>1, <2>2
<1>7. CASE CategoryImages(a)
  <2> DEFINE S == {categories[c].image : c \in w.group \cap Categories} \ {NoUrl}
             work == [w EXCEPT !.pc = IF w.permanent THEN "del_detach" ELSE "del_categories", !.garbage = S]
  <2>1. work.group = w.group
    BY <1>2 DEF Work
  <2>2. Become(a, work) /\ w.pc = "del_images"
    BY <1>2, <1>7 DEF CategoryImages, At
  <2> HIDE DEF work
  <2>3. admin'[a] = work
    BY <1>1, <2>2 DEF Become
  <2> QED BY <1>4, <2>1, <2>2, <2>3 DEF Emptying
<1>8. CASE Detach(a)
  <2>1. admin'[a].group = w.group /\ w.pc = "del_detach"
    BY <1>1, <1>2, <1>8 DEF Detach, Step, Become, Work, At
  <2> QED BY <1>4, <2>1 DEF Emptying
<1>9. ASSUME NEW work, Become(a, work), work.pc \notin Emptying PROVE FALSE
  <2>1. admin'[a] = work
    BY <1>1, <1>9 DEF Become
  <2> QED BY <1>9, <2>1
<1>10. CASE TreeStep(a)
  <2>1. \A work : work.pc \notin OnTree => work.pc \notin Emptying
    BY DEF OnTree, Emptying
  <2>2. DeleteProductsOf(a) \/ CategoryImages(a) \/ Detach(a)
    BY <1>1, <1>9, <1>10, <2>1, TreeStepSound
  <2> QED BY <1>6, <1>7, <1>8, <2>2
<1>11. CASE TreeRequest(a)
  BY <1>1, <1>9, <1>11, TreeRequestSound
<1>12. CASE Turns(a) /\ ~TreeRequest(a) /\ ~TreeStep(a)
  <2>1. PICK work : Become(a, work) /\ Turn(a, work)
    BY <1>12 DEF Turns
  <2>2. work.pc \notin OnTree
    BY <1>12, <2>1 DEF Turn
  <2> QED BY <1>9, <2>1, <2>2 DEF OnTree, Emptying
<1>13. UNCHANGED admin \/ Turns(a)
  BY <1>1, SomebodyTurns DEF catalogueVars
<1> QED BY <1>5, <1>10, <1>11, <1>12, <1>13

LEMMA ShelfStep ==
  ASSUME OneAtATime, "create" \notin CatalogueOps, Shelves \subseteq {Nobody},
         ShelfInv, [CatalogueNext]_catalogueVars
  PROVE  ShelfInv'
<1>1. /\ TreeInv /\ CatalogueTypeOK /\ FormsAreSound /\ \A a \in Admins : admin[a].pc \notin Creating
      /\ \A a \in Admins : TreeWork(admin[a]) /\ Emptied(admin[a])
  BY DEF ShelfInv, TreeInv, FormsInv
<1>2. TreeInv'
  BY <1>1, TreeInvStep
<1>3. \A p \in Products : LiveProduct(p)' => LiveProduct(p) /\ products'[p].category = products[p].category
  BY <1>1, SalesOnlyEnd
<1>4. \A a \in Admins : Emptied(admin[a])' /\ admin'[a].pc \notin Creating
  BY <1>3, GroupsAreEmptied, NothingIsMade
<1>5. ASSUME NEW p \in Products, LiveProduct(p)' PROVE Shelved(p)'
  <2>1. /\ LiveProduct(p) /\ products'[p].category = products[p].category
        /\ products[p].category \in Categories /\ LiveCategory(products[p].category)
    BY <1>3, <1>5 DEF ShelfInv, Shelved
  <2>2. PICK c \in Categories : c = products[p].category
    BY <2>1
  <2>3. LiveCategory(c)'
    <3>1. CASE \A a \in Admins : ~TreeStep(a)
      BY <2>1, <2>2, <3>1, TreeLetAlone DEF LiveCategory
    <3>2. ASSUME NEW a \in Admins, TreeStep(a) PROVE LiveCategory(c)'
      <4>1. LiveCategory(c)' \/ (At(a, "del_categories") /\ c \in admin[a].group)
        BY <1>1, <2>1, <2>2, <3>2, CategoriesOnlyGo
      <4>2. At(a, "del_categories") => c \notin admin[a].group
        BY <1>1, <2>1, <2>2 DEF Emptied, Emptying, At
      <4> QED BY <4>1, <4>2
    <3> QED BY <3>1, <3>2
  <2> QED BY <2>1, <2>2, <2>3 DEF Shelved, LiveCategory
<1> QED BY <1>2, <1>4, <1>5 DEF ShelfInv

InOrder ==
  /\ QuietCatalogue /\ FormsInv /\ TreeRows
  /\ \A p \in Products : LiveProduct(p) => Shelved(p)
LEMMA ShelfStart == InOrder => ShelfInv
BY DEF InOrder, QuietCatalogue, At, ShelfInv, TreeInv, TreeWork, Emptied, Emptying, Creating

\* However large the tree, and whatever is on sale at first, if all is in order:
\* requests that take turns, and neither make products nor move them, leave none
\* on sale in a category that was deleted.
THEOREM ShelvesStand ==
  ASSUME OneAtATime, "create" \notin CatalogueOps, Shelves \subseteq {Nobody}
  PROVE  InOrder /\ [][CatalogueNext]_catalogueVars => []LiveProductsInLiveCategories
<1>1. InOrder => ShelfInv
  BY ShelfStart
<1>2. ShelfInv /\ [CatalogueNext]_catalogueVars => ShelfInv'
  BY ShelfStep
<1>3. ShelfInv => LiveProductsInLiveCategories
  BY DEF ShelfInv, Shelved, LiveProductsInLiveCategories
<1> QED BY <1>1, <1>2, <1>3, PTL

-----------------------------------------------------------------------------
(* Requests in turn delete no file that a variant of the product shows.      *)

Cleaning == {"update_primary", "update_save"} \cup Splitting
GalleryWork(w) ==
  /\ w.pc \in Unproduced => w.product = Nobody
  /\ w.pc \in Updating => w.kept = VariantImages(w.product)
  /\ w.pc \in Cleaning => w.garbage \cap StillShown(w) = {}
  /\ w.pc = "files" /\ w.product # Nobody => w.garbage \cap VariantImages(w.product) = {}
GalleryInv == DefaultsInv /\ \A a \in Admins : GalleryWork(admin[a])

\* What an update turns to, but for its save.
Prepares(work) ==
  /\ work.pc \in Updating => work.kept = VariantImages(work.product)
  /\ work.pc \in Cleaning => work.garbage \cap StillShown(work) = {}

LEMMA UpdatePrepares ==
  ASSUME CatalogueTypeOK, NEW a \in Admins, GalleryWork(admin[a]), UpdateTurn(a),
         NEW work, Become(a, work), work.pc \in Updating
  PROVE  Prepares(work) /\ UNCHANGED variants
<1> DEFINE w == admin[a]
           f == w.form
<1>1. /\ w \in Work /\ f \in Form /\ admin \in [Admins -> Work] /\ admin'[a] = work
      /\ w.pc \in Updating => w.kept = VariantImages(w.product)
  BY DEF CatalogueTypeOK, Work, Become, GalleryWork
<1>2. UNCHANGED variants
  BY DEF UpdateTurn, UpdateProduct, CheckUpdate, UpdateVariants, UpdateImages, UpdatePrimary, TakeRows, SumRows
<1> SUFFICES Prepares(work)
  BY <1>2
<1>3. ASSUME NEW p \in Products, NEW form \in Form, UpdateProduct(a, p, form) PROVE Prepares(work)
  <2>1. admin'[a] = [NoWork EXCEPT !.pc = "update_check", !.product = p, !.form = form,
                                   !.before = products[p].images, !.kept = VariantImages(p)]
    BY <1>1, <1>3 DEF UpdateProduct, Begin, Become
  <2>2. work.pc = "update_check" /\ work.product = p /\ work.kept = VariantImages(p)
    BY <1>1, <2>1 DEF NoWork
  <2> QED BY <2>2 DEF Prepares, Cleaning, Splitting
<1>4. CASE CheckUpdate(a)
  <2>1. admin'[a] = NoWork \/ admin'[a] = [w EXCEPT !.pc = "update_variants"]
    BY <1>1, <1>4 DEF CheckUpdate, Finish, Step, Become
  <2>2. NoWork.pc \notin Updating /\ w.pc \in Updating
    BY <1>4 DEF NoWork, Updating, Splitting, CheckUpdate, At
  <2>3. work.pc = "update_variants" /\ work.product = w.product /\ work.kept = w.kept
    BY <1>1, <2>1, <2>2 DEF Work
  <2> QED BY <1>1, <2>2, <2>3 DEF Prepares, Cleaning, Splitting
<1>5. CASE UpdateVariants(a)
  <2> DEFINE vs == Moved(WithDefault(f.variants))
  <2>1. admin'[a] = [w EXCEPT !.pc = "update_images", !.form.variants = vs] /\ w.pc \in Updating
    BY <1>1, <1>5 DEF UpdateVariants, Become, At, Updating
  <2> HIDE DEF vs, w
  <2>2. work.pc = "update_images" /\ work.product = w.product /\ work.kept = w.kept
    BY <1>1, <2>1 DEF Work
  <2> QED BY <1>1, <2>1, <2>2 DEF Prepares, Cleaning, Splitting
<1>6. CASE UpdateImages(a)
  <2> DEFINE moved == Move(f.images, "products")
             garbage == IF f.hasImages THEN (w.before \ moved) \ StillShown(w) ELSE {}
  <2>1. admin'[a] = [w EXCEPT !.pc = "update_primary", !.form.images = moved, !.garbage = garbage] /\ w.pc \in Updating
    BY <1>1, <1>6 DEF UpdateImages, Become, At, Updating
  <2>2. garbage \cap StillShown(w) = {}
    OBVIOUS
  <2> HIDE DEF moved, garbage, w
  <2>3. /\ work.pc = "update_primary" /\ work.product = w.product /\ work.kept = w.kept /\ work.garbage = garbage
        /\ work.form.variants = w.form.variants
    BY <1>1, <2>1 DEF Work, Form
  <2>4. StillShown(work) = StillShown(w)
    BY <2>3 DEF StillShown
  <2> QED BY <1>1, <2>1, <2>2, <2>3, <2>4 DEF Prepares
<1>7. CASE UpdatePrimary(a)
  <2>1. PICK u : admin'[a] = [w EXCEPT !.pc = "update_save", !.form.primary = u]
    BY <1>1, <1>7 DEF UpdatePrimary, Become
  <2>2. w.pc = "update_primary" /\ w.pc \in Updating
    BY <1>7 DEF UpdatePrimary, At, Updating
  <2>3. w.garbage \cap StillShown(w) = {}
    BY <2>2 DEF GalleryWork, Cleaning
  <2> HIDE DEF w
  <2>4. /\ work.pc = "update_save" /\ work.product = w.product /\ work.kept = w.kept /\ work.garbage = w.garbage
        /\ work.form.variants = w.form.variants
    BY <1>1, <2>1 DEF Work, Form
  <2>5. StillShown(work) = StillShown(w)
    BY <2>4 DEF StillShown
  <2> QED BY <1>1, <2>2, <2>3, <2>4, <2>5 DEF Prepares
<1>8. ASSUME w.pc \in Cleaning /\ w.pc \in Updating,
             \/ \E S : admin'[a] = [w EXCEPT !.pc = "update_sum", !.doomed = S]
             \/ \E n : admin'[a] = [w EXCEPT !.pc = "update_commit", !.form.stock = n]
             \/ admin'[a] = NoWork
      PROVE  Prepares(work)
  <2>1. NoWork.pc \notin Updating
    BY DEF NoWork, Updating, Splitting
  <2>2. w.garbage \cap StillShown(w) = {}
    BY <1>8 DEF GalleryWork
  <2> HIDE DEF w
  <2> DEFINE Same == /\ work.product = w.product /\ work.kept = w.kept /\ work.garbage = w.garbage
                     /\ work.form.variants = w.form.variants
  <2>3. Same
    <3>1. CASE admin'[a] = NoWork
      BY <1>1, <2>1, <3>1
    <3>2. ASSUME NEW S, admin'[a] = [w EXCEPT !.pc = "update_sum", !.doomed = S] PROVE Same
      BY <1>1, <3>2 DEF Work
    <3>3. ASSUME NEW n, admin'[a] = [w EXCEPT !.pc = "update_commit", !.form.stock = n] PROVE Same
      BY <1>1, <3>3 DEF Work, Form
    <3> QED BY <1>8, <3>1, <3>2, <3>3
  <2>4. StillShown(work) = StillShown(w)
    BY <2>3 DEF StillShown
  <2> QED BY <1>1, <1>8, <2>2, <2>3, <2>4 DEF Prepares
<1>9. CASE TakeRows(a)
  <2>1. w.pc \in Cleaning /\ w.pc \in Updating
    BY <1>9 DEF TakeRows, At, Cleaning, Updating
  <2>2. admin'[a] = NoWork \/ \E S : admin'[a] = [w EXCEPT !.pc = "update_sum", !.doomed = S]
    BY <1>1, <1>9 DEF TakeRows, Finish, Become
  <2> QED BY <1>8, <2>1, <2>2
<1>10. CASE SumRows(a)
  <2>1. w.pc \in Cleaning /\ w.pc \in Updating
    BY <1>10 DEF SumRows, At, Cleaning, Updating, Splitting
  <2>2. \E n : admin'[a] = [w EXCEPT !.pc = "update_commit", !.form.stock = n]
    BY <1>1, <1>10 DEF SumRows, Become
  <2> QED BY <1>8, <2>1, <2>2
<1> QED BY <1>2, <1>3, <1>4, <1>5, <1>6, <1>7, <1>9, <1>10 DEF UpdateTurn

\* A save leaves the images of the form, or those that there were.
LEMMA SaveKeepsShown ==
  ASSUME PlainForms, DefaultsInv, NEW a \in Admins, GalleryWork(admin[a]), UpdateSave(a) \/ CommitRows(a), Step(a, "files")
  PROVE  GalleryWork(admin[a])'
<1> DEFINE w == admin[a]
           f == w.form
           p == w.product
           vs == f.variants
<1>1. /\ CatalogueTypeOK /\ FormsAreSound /\ NamesTheirs /\ SplitSound(w)
      /\ w \in Work /\ admin \in [Admins -> Work]
  BY DEF DefaultsInv, FormsInv, CatalogueTypeOK
<1>2. /\ w.garbage \cap StillShown(w) = {} /\ w.kept = VariantImages(p)
  BY DEF UpdateSave, CommitRows, At, GalleryWork, Updating, Cleaning, Splitting
<1>3. admin'[a].pc = "files" /\ admin'[a].product = p /\ admin'[a].garbage = w.garbage
  BY <1>1 DEF Step, Become, Work
<1>4. /\ p \in Products /\ vs \in Seq(VariantInput)
      /\ vs # <<>> => FormRows(p, vs, variants')
      /\ vs = <<>> => variants' = variants
  BY <1>1, UpdateSaveRows
<1>5. \A v \in VariantIds : variants'[v].product = p => variants'[v].images \subseteq StillShown(w)
  <2>1. CASE vs = <<>>
    <3>1. variants' = variants /\ StillShown(w) = VariantImages(p)
      BY <1>2, <1>4, <2>1 DEF StillShown
    <3> QED BY <3>1 DEF VariantImages, VariantsOf
  <2>2. CASE vs # <<>>
    <3> SUFFICES ASSUME NEW v \in VariantIds, variants'[v].product = p PROVE variants'[v].images \subseteq StillShown(w)
      OBVIOUS
    <3>1. StillShown(w) = InputImages(vs)
      BY <2>2 DEF StillShown
    <3>2. PICK i \in DOMAIN vs : IdOf(vs, i) = v
      BY <1>4, <2>2 DEF FormRows
    <3>3. variants'[v] = RowFor(p, vs[i])
      BY <1>4, <2>2, <3>2 DEF FormRows
    <3>4. variants'[v].images = vs[i].images
      BY <3>3 DEF RowFor
    <3> QED BY <3>1, <3>4 DEF InputImages
  <2> QED BY <2>1, <2>2
<1>6. admin'[a].garbage \cap VariantImages(admin[a].product)' = {}
  <2>1. PICK q \in Products : q = p
    BY <1>4
  <2>2. VariantImages(q)' \subseteq StillShown(w)
    BY <1>5, <2>1 DEF VariantImages, VariantsOf
  <2>3. VariantImages(admin[a].product)' = VariantImages(q)'
    BY <1>3, <2>1 DEF VariantImages, VariantsOf
  <2> QED BY <1>2, <1>3, <2>2, <2>3
<1> QED BY <1>3, <1>6 DEF GalleryWork, Unproduced, OnTree, Updating, Cleaning, Splitting

LEMMA ImagesStay ==
  ASSUME CatalogueTypeOK, UNCHANGED variants \/ \E v \in VariantIds : SellVariant(v), NEW q
  PROVE  VariantImages(q)' = VariantImages(q)
<1>1. \A v \in VariantIds : variants'[v].product = variants[v].product /\ variants'[v].images = variants[v].images
  BY DEF SellVariant, CatalogueTypeOK, VariantRow
<1>2. VariantsOf(q)' = VariantsOf(q) /\ VariantsOf(q) \subseteq VariantIds
  BY <1>1 DEF VariantsOf
<1>3. ASSUME NEW u PROVE u \in VariantImages(q)' <=> u \in VariantImages(q)
  BY <1>1, <1>2 DEF VariantImages
<1> QED BY <1>3

\* Rows that are written without a word in `admin` are none that an update reads.
LEMMA GalleryLetBe ==
  ASSUME DefaultsInv, NEW a \in Admins, \A b \in Admins : b = a, GalleryWork(admin[a]),
         [CatalogueNext]_catalogueVars, UNCHANGED admin
  PROVE  GalleryWork(admin[a])'
<1>1. CatalogueTypeOK /\ admin[a] \in Work /\ admin \in [Admins -> Work]
  BY DEF DefaultsInv, FormsInv, CatalogueTypeOK
<1>2. CASE UNCHANGED variants \/ \E v \in VariantIds : SellVariant(v)
  <2>1. VariantImages(admin[a].product)' = VariantImages(admin[a].product)
    <3>1. PICK q : q = admin[a].product
      OBVIOUS
    <3>2. VariantImages(q)' = VariantImages(q)
      BY <1>1, <1>2, ImagesStay
    <3>3. VariantImages(admin[a].product)' = VariantImages(q)'
      BY <3>1 DEF VariantImages, VariantsOf
    <3> QED BY <3>1, <3>2, <3>3
  <2> QED BY <2>1 DEF GalleryWork, StillShown
<1>3. CASE RowAction(a) /\ variants' # variants
  <2>1. ~UpdateSave(a) /\ ~CommitRows(a)
    <3>1. UpdateSave(a) => admin'[a].pc \in {"idle", "files"} /\ admin[a].pc = "update_save"
      BY <1>1 DEF UpdateSave, At, Finish, Step, Become, NoWork, Work
    <3>2. CommitRows(a) => admin'[a].pc = "files" /\ admin[a].pc = "update_commit"
      BY <1>1 DEF CommitRows, At, Step, Become, Work
    <3> QED BY <3>1, <3>2
  <2>2. admin[a].pc \in {"create_save", "remove_save", "stock_sum", "del_products", "del_categories"}
    BY <1>3, <2>1 DEF RowAction, CreateSave, RemoveSave, CommitStock, DeleteProductsOf, DeleteCategories, At
  <2> QED BY <2>2 DEF GalleryWork, Updating, Cleaning, Splitting
<1> QED BY <1>2, <1>3, RowActions

LEMMA GalleryStep ==
  ASSUME OneAtATime, PlainForms, GalleryInv, [CatalogueNext]_catalogueVars
  PROVE  GalleryInv'
<1>1. DefaultsInv /\ DefaultsInv' /\ CatalogueTypeOK /\ FormsAreSound
  BY DefaultsStep DEF GalleryInv, DefaultsInv, FormsInv, Serial
<1> SUFFICES ASSUME NEW a \in Admins PROVE GalleryWork(admin[a])'
  BY <1>1 DEF GalleryInv
<1>2. GalleryWork(admin[a]) /\ (\A b \in Admins : b = a) /\ admin \in [Admins -> Work]
  BY <1>1 DEF GalleryInv, OneAtATime, CatalogueTypeOK
<1>3. ASSUME NEW work, Become(a, work), Turn(a, work) PROVE GalleryWork(admin[a])'
  <2>1. admin'[a] = work
    BY <1>2, <1>3 DEF Become
  <2>2. CASE work.pc \in Updating
    <3>1. Prepares(work) /\ UNCHANGED variants
      BY <1>1, <1>2, <1>3, <2>2, UpdatePrepares DEF Turn
    <3>2. VariantImages(admin[a].product)' = VariantImages(work.product) /\ StillShown(admin[a])' = StillShown(work)
      BY <2>1, <3>1 DEF VariantImages, VariantsOf, StillShown
    <3>3. work.pc \notin Unproduced /\ work.pc # "files"
      BY <2>2 DEF Updating, Unproduced, OnTree, Splitting
    <3> QED BY <2>1, <3>1, <3>2, <3>3 DEF GalleryWork, Prepares
  <2>3. CASE work.pc \in Unproduced \cup {"files"}
    <3>1. CASE (UpdateSave(a) \/ CommitRows(a)) /\ Step(a, "files")
      BY <1>1, <1>2, <3>1, SaveKeepsShown
    <3>2. CASE UpdateSave(a) /\ Finish(a)
      <4>1. work = NoWork
        BY <1>2, <2>1, <3>2 DEF Finish, Become
      <4> QED BY <2>1, <4>1 DEF NoWork, GalleryWork, Updating, Cleaning, Splitting
    <3>3. CASE ~UpdateSave(a) /\ ~CommitRows(a)
      <4>1. work.product = Nobody
        BY <1>2, <1>3, <2>3, <3>3 DEF Turn, Goes, GalleryWork
      <4> QED BY <2>1, <2>3, <4>1 DEF GalleryWork, Unproduced, OnTree, Updating, Cleaning, Splitting
    <3> QED BY <3>1, <3>2, <3>3 DEF UpdateSave, CommitRows
  <2>4. CASE work.pc \notin Updating \cup Unproduced \cup {"files"}
    BY <2>1, <2>4 DEF GalleryWork, Updating, Cleaning
  <2> QED BY <2>2, <2>3, <2>4
<1>4. CASE UNCHANGED admin
  BY <1>1, <1>2, <1>4, GalleryLetBe
<1>5. UNCHANGED catalogueVars => UNCHANGED admin
  BY DEF catalogueVars
<1>6. ASSUME NEW b \in Admins, Turns(b) PROVE GalleryWork(admin[a])'
  BY <1>2, <1>3, <1>6 DEF Turns
<1> QED BY <1>1, <1>4, <1>5, <1>6, SomebodyTurns

LEMMA GalleryStart == ASSUME CatalogueTypeOK, Blank PROVE GalleryInv
<1>1. \A a \in Admins : GalleryWork(admin[a])
  BY DEF Blank, NoWork, GalleryWork, Updating, Cleaning, Splitting
<1> QED BY <1>1, DefaultsStart DEF GalleryInv

LEMMA GalleryKeeps == ASSUME GalleryInv PROVE GalleryStepKeepsVariants
<1> SUFFICES ASSUME NEW a \in Admins, CleanUp(a), admin[a].product # Nobody
             PROVE  VariantImages(admin[a].product) \cap files \subseteq files'
  BY DEF GalleryStepKeepsVariants
<1>1. admin[a].garbage \cap VariantImages(admin[a].product) = {} /\ files' = files \ admin[a].garbage
  BY DEF CleanUp, At, DeleteFiles, GalleryInv, GalleryWork
<1> QED BY <1>1

\* However many images and variants, one request after the other: what an update
\* deletes at its end is shown by no variant of its product.
THEOREM GalleryKeepsVariants ==
  ASSUME OneAtATime, PlainForms PROVE CatalogueSpec => [][GalleryStepKeepsVariants]_catalogueVars
<1>1. CatalogueInit => GalleryInv
  BY GalleryStart, CatalogueStartsTyped, CatalogueStartsBlank
<1>2. GalleryInv /\ [CatalogueNext]_catalogueVars => GalleryInv'
  BY GalleryStep
<1>3. GalleryInv => GalleryStepKeepsVariants
  BY GalleryKeeps
<1> QED BY <1>1, <1>2, <1>3, PTL DEF CatalogueSpec
=============================================================================
