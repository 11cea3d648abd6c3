--------------------------- MODULE QualificationProofs ---------------------------
(***************************************************************************)
(* Theorems about the qualification of an adversary, for every seed, every *)
(* provider, every budget and every threshold.                             *)
(***************************************************************************)
EXTENDS QualificationProperties, SequenceTheorems, FiniteSetTheorems, TLAPS

(* Order statistics.                                                       *)

\* A finite set has an element where f is least: the set of the elements that are
\* below it is contained in no other's.
LEMMA LeastPoint ==
    ASSUME NEW D, IsFiniteSet(D), D # {}, NEW f, \A x \in D : f[x] \in Int
    PROVE  \E x \in D : \A y \in D : f[x] <= f[y]
<1> DEFINE Below(x) == {y \in D : f[y] < f[x]}
           T == {Below(x) : x \in D}
           R == StrictSubsetOrdering(D)
<1>1. T \subseteq FiniteSubsetsOf(D) /\ T # {}
  <2>1. ASSUME NEW x \in D PROVE Below(x) \in FiniteSubsetsOf(D)
    <3>1. Below(x) \in SUBSET D
      OBVIOUS
    <3>2. IsFiniteSet(Below(x))
      BY <3>1, FS_Subset
    <3> QED
      BY <3>1, <3>2 DEF FiniteSubsetsOf
  <2> QED
    BY <2>1
<1>2. IsWellFoundedOn(R, FiniteSubsetsOf(D))
  BY FS_StrictSubsetOrderingWellFounded
<1>3. \E S \in T : \A U \in T : <<U, S>> \notin R
  <2> HIDE DEF T, R
  <2> QED
    BY <1>1, <1>2, WFMin
<1>4. PICK x \in D : \A y \in D : <<Below(y), Below(x)>> \notin R
  BY <1>3
<1>5. ASSUME NEW y \in D PROVE f[x] <= f[y]
  <2> SUFFICES ASSUME f[y] < f[x] PROVE FALSE
    OBVIOUS
  <2>1. Below(y) \subseteq Below(x) /\ y \in Below(x) /\ y \notin Below(y)
    OBVIOUS
  <2>2. Below(y) # Below(x) /\ Below(y) \in SUBSET D /\ Below(x) \in SUBSET D
    BY <2>1
  <2>3. <<Below(y), Below(x)>> \in (SUBSET D) \X (SUBSET D)
    BY <2>2
  <2> HIDE DEF Below
  <2>4. <<Below(y), Below(x)>> \in R
    BY <2>1, <2>2, <2>3, Zenon DEF StrictSubsetOrdering
  <2> QED
    BY <1>4, <2>4
<1> QED
  BY <1>5

\* And one where f is greatest.
LEMMA GreatestPoint ==
    ASSUME NEW D, IsFiniteSet(D), D # {}, NEW f, \A x \in D : f[x] \in Int
    PROVE  \E x \in D : \A y \in D : f[y] <= f[x]
<1> DEFINE g == [x \in D |-> 0 - f[x]]
<1>1. \A x \in D : g[x] \in Int
  OBVIOUS
<1>2. \E x \in D : \A y \in D : g[x] <= g[y]
  <2> HIDE DEF g
  <2> QED
    BY <1>1, LeastPoint
<1> QED
  BY <1>2

\* The k-th smallest of the numbers of f is one of them.
LEMMA RankedIsOne ==
    ASSUME NEW f, IsFiniteSet(DOMAIN f), \A x \in DOMAIN f : f[x] \in Int,
           NEW k \in 1..Cardinality(DOMAIN f)
    PROVE  \E x \in DOMAIN f : Ranked(f, k) = f[x]
<1> DEFINE D == DOMAIN f
           UpTo(x) == {l \in D : f[l] <= f[x]}
           J == {j \in D : Cardinality(UpTo(j)) >= k}
           V == {f[i] : i \in J}
<1>1. D # {}
  BY FS_EmptySet
<1>2. PICK top \in D : \A y \in D : f[y] <= f[top]
  BY <1>1, GreatestPoint
<1>3. UpTo(top) = D
  BY <1>2
<1>4. Cardinality(D) \in Nat
  BY FS_CardinalityType
<1>5. top \in J
  BY <1>3, <1>4
<1>6. J \in SUBSET D /\ IsFiniteSet(J) /\ J # {}
  BY <1>5, FS_Subset
<1>7. PICK x \in J : \A y \in J : f[x] <= f[y]
  <2>1. \A y \in J : f[y] \in Int
    BY <1>6
  <2> HIDE DEF J
  <2> QED
    BY <1>6, <2>1, LeastPoint
<1>8. f[x] \in V /\ \A v \in V : f[x] <= v
  BY <1>7
<1>9. Sets!Min(V) \in V
  <2> HIDE DEF V
  <2> QED
    BY <1>8 DEF Sets!Min
<1>10. Ranked(f, k) = Sets!Min(V)
  BY DEF Ranked
<1> QED
  BY <1>6, <1>9, <1>10

\* So a median of numbers is a number.
LEMMA MedianIsNumber ==
    ASSUME NEW f, IsFiniteSet(DOMAIN f), DOMAIN f # {}, \A x \in DOMAIN f : f[x] \in Int
    PROVE  TwiceMedian(f) \in Int
<1> DEFINE n == Cardinality(DOMAIN f)
<1>1. n \in Nat /\ n # 0
  BY FS_CardinalityType, FS_EmptySet
<1>2. \A k \in 1..n : Ranked(f, k) \in Int
  BY RankedIsOne
<1>3. CASE n % 2 = 1
  <2>1. (n + 1) \div 2 \in 1..n
    BY <1>1, <1>3
  <2>2. Ranked(f, (n + 1) \div 2) \in Int
    BY <1>2, <2>1
  <2> QED
    BY <1>3, <2>2 DEF TwiceMedian
<1>4. CASE n % 2 # 1
  <2>1. n \div 2 \in 1..n /\ (n \div 2) + 1 \in 1..n
    BY <1>1, <1>4
  <2>2. Ranked(f, n \div 2) \in Int /\ Ranked(f, (n \div 2) + 1) \in Int
    BY <1>2, <2>1
  <2> QED
    BY <1>4, <2>2 DEF TwiceMedian
<1> QED
  BY <1>3, <1>4

-----------------------------------------------------------------------------
(* The corpus of a seed.                                                   *)

Families == {"conventional_rest", "administrative_control", "legacy_compatibility",
             "non_obvious_action_or_noun_free", "async_queue_like"}

LEMMA FiveFamilies ==
    /\ \A i \in Nat : FamilyAt(i) \in Families
    /\ \A i \in Nat : \A k, l \in 0..2 : FamilyAt(i + k) = FamilyAt(i + l) => k = l
<1>1. Len(RouteFamilyPool) = 5
  BY DEF RouteFamilyPool
<1>2. \A i \in 1..5 : RouteFamilyPool[i] \in Families
  BY DEF RouteFamilyPool, Families
<1>3. \A i, j \in 1..5 : RouteFamilyPool[i] = RouteFamilyPool[j] => i = j
  BY DEF RouteFamilyPool
<1>4. \A i \in Nat : (i % 5) + 1 \in 1..5
  OBVIOUS
<1>5. \A i \in Nat : \A k, l \in 0..2 : (i + k) % 5 = (i + l) % 5 => k = l
  OBVIOUS
<1>6. ASSUME NEW i \in Nat, NEW k \in 0..2, NEW l \in 0..2, FamilyAt(i + k) = FamilyAt(i + l)
      PROVE  k = l
  <2>1. ((i + k) % 5) + 1 = ((i + l) % 5) + 1
    BY <1>1, <1>3, <1>4, <1>6 DEF FamilyAt
  <2> QED
    BY <1>4, <1>5, <2>1
<1> QED
  BY <1>1, <1>2, <1>4, <1>6 DEF FamilyAt

\* A route finds a family its target does not use yet.
LEMMA FreeFamily ==
    ASSUME NEW start \in Nat, NEW a, NEW b, NEW used \in SUBSET {a, b}
    PROVE  RouteFamily(start, used) \in Families \ used
<1> DEFINE Free(k) == /\ FamilyAt(start + k) \notin used
                      /\ \A j \in 0..(k - 1) : FamilyAt(start + j) \in used
<1>1. Len(RouteFamilyPool) = 5
  BY DEF RouteFamilyPool
<1>2. \E k \in 0..2 : FamilyAt(start + k) \notin used
  BY FiveFamilies
<1>3. \E k \in 0..2 : Free(k)
  BY <1>2
<1>4. \E k \in 0..4 : Free(k)
  BY <1>3
<1> DEFINE k == CHOOSE k \in 0..4 : Free(k)
<1>5. k \in 0..4 /\ Free(k)
  BY <1>4
<1>6. RouteFamily(start, used) = FamilyAt(start + k)
  BY <1>1 DEF RouteFamily
<1> QED
  BY <1>5, <1>6, FiveFamilies

\* A sequence, whatever its elements are.
Listed(s) == s \in Seq({s[i] : i \in 1..Len(s)})

LEMMA SequencesAreListed ==
    ASSUME NEW T, NEW t \in Seq(T)
    PROVE  Listed(t) /\ DOMAIN t = 1..Len(t)
BY DEF Listed

LEMMA AppendedIsListed ==
    ASSUME NEW s, NEW x, Listed(s)
    PROVE  /\ Listed(Append(s, x))
           /\ Len(s) \in Nat /\ DOMAIN s = 1..Len(s)
           /\ Len(Append(s, x)) = Len(s) + 1
           /\ DOMAIN Append(s, x) = 1..(Len(s) + 1)
           /\ \A i \in 1..Len(s) : Append(s, x)[i] = s[i]
           /\ Append(s, x)[Len(s) + 1] = x
<1> DEFINE S == {s[i] : i \in 1..Len(s)} \cup {x}
<1>1. s \in Seq(S) /\ Len(s) \in Nat /\ DOMAIN s = 1..Len(s)
  BY DEF Listed
<1>2. x \in S
  OBVIOUS
<1> HIDE DEF S
<1>3. /\ Append(s, x) \in Seq(S)
      /\ Len(Append(s, x)) = Len(s) + 1
      /\ \A i \in 1..Len(s) : Append(s, x)[i] = s[i]
      /\ Append(s, x)[Len(s) + 1] = x
  BY <1>1, <1>2
<1> QED
  BY <1>1, <1>3, SequencesAreListed

\* The last segment of a path.
EndOf(path) == path[Len(path)]

LEMMA ShortPaths ==
    /\ \A x : Listed(<<x>>) /\ EndOf(<<x>>) = x
    /\ \A x, y : Listed(<<x, y>>) /\ EndOf(<<x, y>>) = y
    /\ \A x, y, z : Listed(<<x, y, z>>) /\ EndOf(<<x, y, z>>) = z
BY DEF Listed, EndOf

\* A declared path names its family by its first segment, and no path of the pool
\* ends like an undeclared one.
PathOfThePool(path, family) ==
    Listed(path) /\ EndOf(path) # HiddenToken /\ ClassifyRouteFamily(path) = family

LEMMA PathsOfThePool ==
    ASSUME NEW family \in Families, NEW k \in 1..3
    PROVE  PathOfThePool(FamilyPathStubs[family][k], family)
<1>1. CASE family = "conventional_rest"
  <2>1. CASE k = 1
    <3>1. FamilyPathStubs[family][k] = <<"v1", "transfers">>
      BY <1>1, <2>1 DEF FamilyPathStubs
    <3>2. ClassifyRouteFamily(<<"v1", "transfers">>) = family
      BY <1>1 DEF ClassifyRouteFamily
    <3> QED
      BY <3>1, <3>2, ShortPaths DEF PathOfThePool, HiddenToken
  <2>2. CASE k = 2
    <3>1. FamilyPathStubs[family][k] = <<"v1", "payments">>
      BY <1>1, <2>2 DEF FamilyPathStubs
    <3>2. ClassifyRouteFamily(<<"v1", "payments">>) = family
      BY <1>1 DEF ClassifyRouteFamily
    <3> QED
      BY <3>1, <3>2, ShortPaths DEF PathOfThePool, HiddenToken
  <2>3. CASE k = 3
    <3>1. FamilyPathStubs[family][k] = <<"v1", "settlements">>
      BY <1>1, <2>3 DEF FamilyPathStubs
    <3>2. ClassifyRouteFamily(<<"v1", "settlements">>) = family
      BY <1>1 DEF ClassifyRouteFamily
    <3> QED
      BY <3>1, <3>2, ShortPaths DEF PathOfThePool, HiddenToken
  <2> QED
    BY <2>1, <2>2, <2>3
<1>2. CASE family = "administrative_control"
  <2>1. CASE k = 1
    <3>1. FamilyPathStubs[family][k] = <<"control", "commit">>
      BY <1>2, <2>1 DEF FamilyPathStubs
    <3>2. ClassifyRouteFamily(<<"control", "commit">>) = family
      BY <1>2 DEF ClassifyRouteFamily
    <3> QED
      BY <3>1, <3>2, ShortPaths DEF PathOfThePool, HiddenToken
  <2>2. CASE k = 2
    <3>1. FamilyPathStubs[family][k] = <<"ops", "execute">>
      BY <1>2, <2>2 DEF FamilyPathStubs
    <3>2. ClassifyRouteFamily(<<"ops", "execute">>) = family
      BY <1>2 DEF ClassifyRouteFamily
    <3> QED
      BY <3>1, <3>2, ShortPaths DEF PathOfThePool, HiddenToken
  <2>3. CASE k = 3
    <3>1. FamilyPathStubs[family][k] = <<"control", "apply">>
      BY <1>2, <2>3 DEF FamilyPathStubs
    <3>2. ClassifyRouteFamily(<<"control", "apply">>) = family
      BY <1>2 DEF ClassifyRouteFamily
    <3> QED
      BY <3>1, <3>2, ShortPaths DEF PathOfThePool, HiddenToken
  <2> QED
    BY <2>1, <2>2, <2>3
<1>3. CASE family = "legacy_compatibility"
  <2>1. CASE k = 1
    <3>1. FamilyPathStubs[family][k] = <<"legacy", "post">>
      BY <1>3, <2>1 DEF FamilyPathStubs
    <3>2. ClassifyRouteFamily(<<"legacy", "post">>) = family
      BY <1>3 DEF ClassifyRouteFamily
    <3> QED
      BY <3>1, <3>2, ShortPaths DEF PathOfThePool, HiddenToken
  <2>2. CASE k = 2
    <3>1. FamilyPathStubs[family][k] = <<"compat", "v0", "run">>
      BY <1>3, <2>2 DEF FamilyPathStubs
    <3>2. ClassifyRouteFamily(<<"compat", "v0", "run">>) = family
      BY <1>3 DEF ClassifyRouteFamily
    <3> QED
      BY <3>1, <3>2, ShortPaths DEF PathOfThePool, HiddenToken
  <2>3. CASE k = 3
    <3>1. FamilyPathStubs[family][k] = <<"legacy", "submit">>
      BY <1>3, <2>3 DEF FamilyPathStubs
    <3>2. ClassifyRouteFamily(<<"legacy", "submit">>) = family
      BY <1>3 DEF ClassifyRouteFamily
    <3> QED
      BY <3>1, <3>2, ShortPaths DEF PathOfThePool, HiddenToken
  <2> QED
    BY <2>1, <2>2, <2>3
<1>4. CASE family = "non_obvious_action_or_noun_free"
  <2>1. CASE k = 1
    <3>1. FamilyPathStubs[family][k] = <<"do">>
      BY <1>4, <2>1 DEF FamilyPathStubs
    <3>2. ClassifyRouteFamily(<<"do">>) = family
      BY <1>4 DEF ClassifyRouteFamily
    <3> QED
      BY <3>1, <3>2, ShortPaths DEF PathOfThePool, HiddenToken
  <2>2. CASE k = 2
    <3>1. FamilyPathStubs[family][k] = <<"x", "apply">>
      BY <1>4, <2>2 DEF FamilyPathStubs
    <3>2. ClassifyRouteFamily(<<"x", "apply">>) = family
      BY <1>4 DEF ClassifyRouteFamily
    <3> QED
      BY <3>1, <3>2, ShortPaths DEF PathOfThePool, HiddenToken
  <2>3. CASE k = 3
    <3>1. FamilyPathStubs[family][k] = <<"proceed">>
      BY <1>4, <2>3 DEF FamilyPathStubs
    <3>2. ClassifyRouteFamily(<<"proceed">>) = family
      BY <1>4 DEF ClassifyRouteFamily
    <3> QED
      BY <3>1, <3>2, ShortPaths DEF PathOfThePool, HiddenToken
  <2> QED
    BY <2>1, <2>2, <2>3
<1>5. CASE family = "async_queue_like"
  <2>1. CASE k = 1
    <3>1. FamilyPathStubs[family][k] = <<"queue", "enqueue">>
      BY <1>5, <2>1 DEF FamilyPathStubs
    <3>2. ClassifyRouteFamily(<<"queue", "enqueue">>) = family
      BY <1>5 DEF ClassifyRouteFamily
    <3> QED
      BY <3>1, <3>2, ShortPaths DEF PathOfThePool, HiddenToken
  <2>2. CASE k = 2
    <3>1. FamilyPathStubs[family][k] = <<"async", "jobs">>
      BY <1>5, <2>2 DEF FamilyPathStubs
    <3>2. ClassifyRouteFamily(<<"async", "jobs">>) = family
      BY <1>5 DEF ClassifyRouteFamily
    <3> QED
      BY <3>1, <3>2, ShortPaths DEF PathOfThePool, HiddenToken
  <2>3. CASE k = 3
    <3>1. FamilyPathStubs[family][k] = <<"queue", "submit">>
      BY <1>5, <2>3 DEF FamilyPathStubs
    <3>2. ClassifyRouteFamily(<<"queue", "submit">>) = family
      BY <1>5 DEF ClassifyRouteFamily
    <3> QED
      BY <3>1, <3>2, ShortPaths DEF PathOfThePool, HiddenToken
  <2> QED
    BY <2>1, <2>2, <2>3
<1> QED
  BY <1>1, <1>2, <1>3, <1>4, <1>5 DEF Families

\* A route has a family of its own; a declared one has a path of the pool and the
\* undeclared one a path that ends in its token.
LEMMA RoutesAreBuilt ==
    ASSUME NEW draw \in Draw, NEW role \in {"d0", "d1", "u0"},
           NEW a, NEW b, NEW used \in SUBSET {a, b}
    PROVE  LET route == BuildRoute(role, draw, used) IN
           /\ route.family \in Families \ used
           /\ role # "u0" => PathOfThePool(route.path, route.family)
           /\ role = "u0" => EndOf(route.path) = HiddenToken
<1> DEFINE family == RouteFamily(draw.family[role], used)
           k == (draw.path[role] % 3) + 1
           stub == FamilyPathStubs[family][k]
           route == BuildRoute(role, draw, used)
<1>1. draw.family[role] \in Nat /\ draw.path[role] \in Nat
  BY DEF Draw
<1>2. family \in Families \ used
  BY <1>1, FreeFamily
<1>3. k \in 1..3
  BY <1>1
<1>4. PathOfThePool(stub, family)
  <2> HIDE DEF family, k
  <2> QED
    BY <1>2, <1>3, PathsOfThePool
<1>5. /\ route.family = family
      /\ route.path = IF role = "u0" THEN Append(stub, HiddenToken) ELSE stub
  BY DEF BuildRoute
<1> HIDE DEF family, k, stub, route
<1>6. EndOf(Append(stub, HiddenToken)) = HiddenToken
  BY <1>4, AppendedIsListed DEF PathOfThePool, EndOf
<1> QED
  BY <1>2, <1>4, <1>5, <1>6 DEF route

Dimensions == {"authorization_identity", "tenant", "principal", "release_version", "sink",
               "action_or_token_digest", "temporal_currentness"}

OfUndeclaredRoute == {"undeclared_route_unguarded", "undeclared_route_presence_only_guard"}

LEMMA SevenDimensions ==
    /\ DOMAIN DimensionPool = 1..7
    /\ \A i \in 1..7 : DimensionPool[i] \in Dimensions
    /\ \A d \in Dimensions : \E i \in 1..7 : DimensionPool[i] = d
    /\ \A i, j \in 1..7 : DimensionPool[i] = DimensionPool[j] => i = j
    /\ None \notin Dimensions
<1>1. DOMAIN DimensionPool = 1..7
  BY DEF DimensionPool
<1>2. \A i \in 1..7 : DimensionPool[i] \in Dimensions
  BY DEF DimensionPool, Dimensions
<1>3. ASSUME NEW d \in Dimensions PROVE \E i \in 1..7 : DimensionPool[i] = d
  <2>1. /\ DimensionPool[1] = "authorization_identity" /\ DimensionPool[2] = "tenant"
        /\ DimensionPool[3] = "principal" /\ DimensionPool[4] = "release_version"
        /\ DimensionPool[5] = "sink" /\ DimensionPool[6] = "action_or_token_digest"
        /\ DimensionPool[7] = "temporal_currentness"
    BY DEF DimensionPool
  <2> QED
    BY <2>1 DEF Dimensions
<1>4. \A i, j \in 1..7 : DimensionPool[i] = DimensionPool[j] => i = j
  BY DEF DimensionPool
<1>5. None \notin Dimensions
  BY <1>1, <1>3, QualificationAssumption DEF Sets!Range
<1> QED
  BY <1>1, <1>2, <1>3, <1>4, <1>5

\* Dropping a dimension leaves the one the target does not enforce.
LEMMA UnenforcedIsExposed ==
    ASSUME NEW u, NEW drop \in Nat
    PROVE  /\ Exposed(u, drop) \subseteq Dimensions /\ Exposed(u, drop) # {}
           /\ u \in Dimensions => u \in Exposed(u, drop)
<1> DEFINE droppable == {i \in DOMAIN DimensionPool : DimensionPool[i] # u}
           n == Cardinality(droppable)
           f == [i \in droppable |-> i]
           dropped == Ranked(f, (drop % n) + 1)
<1>1. droppable \in SUBSET (1..7) /\ droppable # {}
  <2>1. DimensionPool[1] # DimensionPool[2]
    BY SevenDimensions
  <2> QED
    BY <2>1, SevenDimensions
<1>2. IsFiniteSet(droppable) /\ n \in Nat /\ n # 0
  <2>1. IsFiniteSet(1..7)
    <3>1. 1 \in Int /\ 7 \in Int
      OBVIOUS
    <3> QED
      BY <3>1, FS_Interval
  <2>2. IsFiniteSet(droppable)
    BY <1>1, <2>1, FS_Subset
  <2> QED
    BY <1>1, <2>2, FS_CardinalityType, FS_EmptySet
<1>3. (drop % n) + 1 \in 1..n
  <2> HIDE DEF n
  <2> QED
    BY <1>2
<1>4. DOMAIN f = droppable /\ \A i \in droppable : f[i] = i /\ f[i] \in Int
  BY <1>1
<1>5. dropped \in droppable
  <2> HIDE DEF f, droppable
  <2>1. \E x \in DOMAIN f : dropped = f[x]
    BY <1>2, <1>3, <1>4, RankedIsOne
  <2> QED
    BY <1>4, <2>1
<1>6. Exposed(u, drop) = {DimensionPool[i] : i \in 1..7 \ {dropped}}
  BY SevenDimensions DEF Exposed
<1>7. dropped \in 1..7 /\ DimensionPool[dropped] # u
  BY <1>1, <1>5
<1> HIDE DEF dropped
<1>8. Exposed(u, drop) # {}
  <2>1. \E i \in 1..7 : i # dropped
    BY <1>7
  <2> QED
    BY <1>6, <2>1
<1> QED
  BY <1>6, <1>7, <1>8, SevenDimensions

\* A mechanism leaves one dimension open, or is about the undeclared route.
LEMMA EightMechanisms ==
    /\ Len(Mechanisms) = 8
    /\ \A m, n \in 1..8 : Mechanisms[m] = Mechanisms[n] => m = n
    /\ \A m \in 1..8 :
        IF Mechanisms[m] \in OfUndeclaredRoute THEN MechanismDimension(Mechanisms[m]) = None
        ELSE MechanismDimension(Mechanisms[m]) \in Dimensions
<1>1. Len(Mechanisms) = 8
  BY DEF Mechanisms
<1>2. \A m, n \in 1..8 : Mechanisms[m] = Mechanisms[n] => m = n
  BY DEF Mechanisms
<1>3. ASSUME NEW m \in 1..8
      PROVE  IF Mechanisms[m] \in OfUndeclaredRoute
             THEN MechanismDimension(Mechanisms[m]) = None
             ELSE MechanismDimension(Mechanisms[m]) \in Dimensions
  <2>1. CASE m = 1
    <3>1. Mechanisms[m] = "undeclared_route_unguarded"
      BY <2>1 DEF Mechanisms
    <3> QED
      BY <3>1 DEF OfUndeclaredRoute, MechanismDimension
  <2>2. CASE m = 8
    <3>1. Mechanisms[m] = "undeclared_route_presence_only_guard"
      BY <2>2 DEF Mechanisms
    <3> QED
      BY <3>1 DEF OfUndeclaredRoute, MechanismDimension
  <2>3. CASE m \in 2..7
    <3>1. Mechanisms[m] \in {"declared_route_ignores_tenant",
            "declared_route_ignores_principal", "declared_route_accepts_stale_authority",
            "declared_route_ignores_release_version", "declared_route_confuses_sink",
            "declared_route_skips_action_digest"}
      BY <2>3 DEF Mechanisms
    <3> QED
      BY <3>1 DEF OfUndeclaredRoute, MechanismDimension, Dimensions
  <2> QED
    BY <2>1, <2>2, <2>3
<1> QED
  BY <1>1, <1>2, <1>3

\* A target has one flaw, and its routes apart.
WellMade(t) ==
    /\ t.exposed \subseteq Dimensions /\ t.exposed # {}
    /\ t.unenforced = None <=> t.mechanism \in OfUndeclaredRoute
    /\ t.unenforced # None => t.unenforced \in t.exposed
    /\ t.undeclared \notin t.declared /\ Cardinality(t.declared) = 2

LEMMA TargetsAreWellMade ==
    ASSUME NEW draw \in Draw, NEW index \in 0..7
    PROVE  /\ WellMade(GenerateTarget(index, draw))
           /\ GenerateTarget(index, draw).mechanism = Mechanisms[index + 1]
<1> DEFINE t == GenerateTarget(index, draw)
           m == Mechanisms[(index % Len(Mechanisms)) + 1]
           u == MechanismDimension(m)
           r1 == BuildRoute("d0", draw, {})
           r2 == BuildRoute("d1", draw, {r1.family})
           r3 == BuildRoute("u0", draw, {r1.family, r2.family})
<1>1. /\ t.mechanism = m /\ t.unenforced = u
      /\ t.exposed = Exposed(u, draw.drop)
      /\ t.declared = {r1.path, r2.path} /\ t.undeclared = r3.path
  BY DEF GenerateTarget
<1>2. m = Mechanisms[index + 1] /\ index + 1 \in 1..8
  BY EightMechanisms
<1>3. /\ IF m \in OfUndeclaredRoute THEN u = None ELSE u \in Dimensions
  BY <1>2, EightMechanisms
<1>4. PathOfThePool(r1.path, r1.family)
  BY RoutesAreBuilt
<1>5. r2.family # r1.family /\ PathOfThePool(r2.path, r2.family)
  <2> HIDE DEF r1
  <2> QED
    BY RoutesAreBuilt
<1>6. EndOf(r3.path) = HiddenToken
  <2> HIDE DEF r1, r2
  <2> QED
    BY RoutesAreBuilt
<1>7. draw.drop \in Nat
  BY DEF Draw
<1> HIDE DEF t, m, u, r1, r2, r3
<1>8. t.exposed \subseteq Dimensions /\ t.exposed # {} /\ (u \in Dimensions => u \in t.exposed)
  BY <1>1, <1>7, UnenforcedIsExposed
<1>9. r1.path # r2.path /\ r3.path # r1.path /\ r3.path # r2.path
  BY <1>4, <1>5, <1>6 DEF PathOfThePool
<1>10. Cardinality({r1.path, r2.path}) = 2
  <2>1. {r1.path, r2.path} = {r1.path} \cup {r2.path}
    OBVIOUS
  <2>2. IsFiniteSet({r1.path}) /\ Cardinality({r1.path}) = 1
    BY FS_Singleton
  <2>3. r2.path \notin {r1.path}
    BY <1>9
  <2> QED
    BY <2>1, <2>2, <2>3, FS_AddElement
<1>11. WellMade(t)
  BY <1>1, <1>3, <1>8, <1>9, <1>10, SevenDimensions DEF WellMade
<1> QED
  BY <1>1, <1>2, <1>11 DEF t

\* What a well made target admits goes through its flaw.
LEMMA OnlyThroughTheFlaw ==
    ASSUME NEW t, WellMade(t), NEW path, NEW action
    PROVE  Response(t, path, action) = "admitted" <=> UsesTheFlaw(t, path, action)
<1>1. CASE t.unenforced = None
  <2>1. CASE t.mechanism = "undeclared_route_unguarded"
    BY <1>1, <2>1 DEF Response, ProperlyAuthorized, FlawAdmits, UsesTheFlaw, WellMade
  <2>2. CASE t.mechanism = "undeclared_route_presence_only_guard"
    BY <1>1, <2>2 DEF Response, ProperlyAuthorized, FlawAdmits, UsesTheFlaw, WellMade
  <2> QED
    BY <1>1, <2>1, <2>2 DEF WellMade, OfUndeclaredRoute
<1>2. CASE t.unenforced # None
  <2>1. t.mechanism # "undeclared_route_unguarded"
        /\ t.mechanism # "undeclared_route_presence_only_guard"
    BY <1>2 DEF WellMade, OfUndeclaredRoute
  <2>2. FlawAdmits(t, path, action) <=>
            /\ path \in t.declared
            /\ \A d \in t.exposed \ {t.unenforced} : action[d] = "valid"
    BY <2>1 DEF FlawAdmits
  <2> QED
    BY <1>2, <2>2 DEF Response, ProperlyAuthorized, UsesTheFlaw, WellMade
<1> QED
  BY <1>1, <1>2

\* And one request of the near actions goes through it.
LEMMA FlawWithinReach ==
    ASSUME NEW t, WellMade(t)
    PROVE  \E p \in t.declared \cup {t.undeclared}, a \in NearActions(t) :
                UsesTheFlaw(t, p, a)
<1> DEFINE Near(e, w, v) == [d \in t.exposed |-> IF d = e THEN w ELSE v]
<1>1. \A e \in t.exposed : /\ Near(e, "valid", "valid") \in NearActions(t)
                           /\ Near(e, "wrong", "valid") \in NearActions(t)
  BY DEF NearActions
<1>2. CASE t.unenforced = None
  <2>1. PICK e \in t.exposed : TRUE
    BY DEF WellMade
  <2>2. UsesTheFlaw(t, t.undeclared, Near(e, "valid", "valid"))
    BY <1>2, <2>1 DEF UsesTheFlaw
  <2> QED
    BY <1>1, <2>1, <2>2
<1>3. CASE t.unenforced # None
  <2>1. PICK p \in t.declared : TRUE
    BY FS_EmptySet DEF WellMade
  <2>2. t.unenforced \in t.exposed
    BY <1>3 DEF WellMade
  <2>3. UsesTheFlaw(t, p, Near(t.unenforced, "wrong", "valid"))
    BY <1>3, <2>1, <2>2 DEF UsesTheFlaw
  <2> QED
    BY <1>1, <2>1, <2>2, <2>3
<1> QED
  BY <1>2, <1>3

CorpusInv ==
    /\ Listed(corpus) /\ Len(corpus) \in 1..8
    /\ \A i \in 1..Len(corpus) : WellMade(corpus[i])
    /\ \A i, j \in 1..Len(corpus) : corpus[i].mechanism = corpus[j].mechanism => i = j

LEMMA CorpusInitially ==
    ASSUME Init
    PROVE  CorpusInv
<1>1. PICK draws \in Draws : corpus = Corpus(draws)
  BY DEF Init
<1>2. draws \in Seq(Draw) /\ Len(draws) \in 1..8
  BY <1>1, QualificationAssumption, EightMechanisms
<1> DEFINE n == Len(draws)
<1>3. n \in 1..8 /\ DOMAIN draws = 1..n /\ \A i \in 1..n : draws[i] \in Draw /\ i - 1 \in 0..7
  <2>1. n \in 1..8 /\ DOMAIN draws = 1..n
    BY <1>2
  <2>2. \A i \in 1..n : draws[i] \in Draw
    BY <1>2
  <2>3. \A i \in 1..n : i - 1 \in 0..7
    BY <2>1
  <2> QED
    BY <2>1, <2>2, <2>3
<1> DEFINE T == {GenerateTarget(i - 1, draws[i]) : i \in 1..n}
<1>4. corpus = [i \in 1..n |-> GenerateTarget(i - 1, draws[i])]
  BY <1>1, <1>3 DEF Corpus
<1>5. \A i \in 1..n : WellMade(corpus[i]) /\ corpus[i].mechanism = Mechanisms[i]
  <2> SUFFICES ASSUME NEW i \in 1..n
               PROVE  WellMade(corpus[i]) /\ corpus[i].mechanism = Mechanisms[i]
    OBVIOUS
  <2>1. corpus[i] = GenerateTarget(i - 1, draws[i]) /\ (i - 1) + 1 = i
    BY <1>3, <1>4
  <2> QED
    BY <1>3, <2>1, TargetsAreWellMade
<1>6. corpus \in Seq(T) /\ Len(corpus) = n /\ \A i \in 1..n : corpus[i] \in T
  <2>1. \A i \in 1..n : GenerateTarget(i - 1, draws[i]) \in T
    OBVIOUS
  <2> HIDE DEF T
  <2>2. corpus \in [1..n -> T] /\ n \in Nat
    BY <1>3, <1>4, <2>1
  <2> QED
    BY <2>2, IsASeq
<1>7. Listed(corpus)
  BY <1>6, SequencesAreListed
<1> HIDE DEF n, T
<1>8. \A i, j \in 1..n : corpus[i].mechanism = corpus[j].mechanism => i = j
  BY <1>3, <1>5, EightMechanisms
<1> QED
  BY <1>3, <1>5, <1>6, <1>7, <1>8 DEF CorpusInv

\* The corpus of a seed stays, and each of its targets commits without authority
\* exactly through its one flaw, which is within reach and no other target's
\* (generate_corpus, TargetSession.submit).
THEOREM OneFlawPerTarget == Spec => []OneFlawEach
<1>1. Init => CorpusInv
  BY CorpusInitially
<1>2. CorpusInv /\ [Next]_vars => CorpusInv'
  <2> SUFFICES ASSUME CorpusInv, [Next]_vars
               PROVE  CorpusInv'
    OBVIOUS
  <2>1. corpus' = corpus
    BY DEF Next, vars, Refuse, Start, AuditLeak, StopLoop, CallProvider, Assemble,
        WriteEvidence, HashCore, WriteFinal, ReplayFromDisk, SealPair, VerifyPair, ClosePair,
        WriteMatrix, WriteSelection, WriteGate, WriteReconciliation, SealPublication,
        Publish, VerifyPublication, Kill, Damage
  <2> QED
    BY <2>1 DEF CorpusInv, Listed
<1>3. CorpusInv => OneFlawEach
  <2> SUFFICES ASSUME CorpusInv
               PROVE  OneFlawEach
    OBVIOUS
  <2>1. DOMAIN corpus = 1..Len(corpus)
    BY DEF CorpusInv, Listed
  <2>2. ASSUME NEW i \in DOMAIN corpus
        PROVE  LET t == corpus[i] IN
               /\ t.undeclared \notin t.declared /\ Cardinality(t.declared) = 2
               /\ \A p \in t.declared \cup {t.undeclared}, a \in NearActions(t) :
                    Response(t, p, a) = "admitted" <=> UsesTheFlaw(t, p, a)
               /\ \E p \in t.declared \cup {t.undeclared}, a \in NearActions(t) :
                    Response(t, p, a) = "admitted"
    <3>1. WellMade(corpus[i])
      BY <2>1 DEF CorpusInv
    <3> QED
      BY <3>1, OnlyThroughTheFlaw, FlawWithinReach DEF WellMade
  <2> QED
    BY <2>1, <2>2 DEF OneFlawEach, CorpusInv
<1> QED
  BY <1>1, <1>2, <1>3, PTL DEF Spec

-----------------------------------------------------------------------------
(* The inductive invariant.                                                *)

\* The attempts that were admitted, and the call of the first.
Admitted(rows) == {i \in DOMAIN rows : rows[i].reason = "admitted"}
FirstAdmitted(rows) ==
    IF Admitted(rows) = {} THEN None ELSE rows[Sets!Min(Admitted(rows))].provider_call

\* What the target makes of the action of a request.
Seen(t, action) ==
    IF action = NotAnObject THEN [d \in t.exposed |-> "absent"] ELSE action

\* What a search leaves: the answer of the target to each attempt, made by a call
\* of its own, and a commit without authority exactly when one was admitted, under
\* the name the attempt brought.
Search(t, rows, commits, calls, leak, terminal) ==
    /\ Listed(rows) /\ Listed(commits) /\ Len(commits) <= Len(rows)
    /\ \A i \in DOMAIN rows :
        /\ rows[i].provider_call \in 1..calls
        /\ rows[i].reason = Response(t, rows[i].path, Seen(t, rows[i].action))
        /\ rows[i].reason = "admitted" /\ rows[i].commit_id # None
            => rows[i].commit_id \in UnauthorizedIds(commits)
    /\ \A i, j \in DOMAIN rows : i < j => rows[i].provider_call < rows[j].provider_call
    /\ CounterexampleIn(commits) <=> Admitted(rows) # {}
    /\ None \notin UnauthorizedIds(commits)
    /\ leak = "FAIL" => rows = <<>> /\ calls = 0 /\ terminal

\* A session inside its budgets, with what it searched so far.
SessionOf(s, t) ==
    /\ DOMAIN s = DOMAIN NewSession
    /\ s.calls \in 0..MaxProviderCalls /\ s.invalid \in 0..MaxInvalidOutputs
    /\ s.attempts = Len(s.rows) /\ s.attempts <= MaxTargetAttempts
    /\ Listed(s.telemetry) /\ Len(s.telemetry) = s.attempts
    /\ s.first = FirstAdmitted(s.rows)
    /\ Search(t, s.rows, s.commits, s.calls, s.leak, s.terminal)

SessionInv ==
    /\ pc \in {"loop", "assemble", "evidence"} => SessionOf(session, Target)
    /\ pc = "crashed" => session = None \/ SessionOf(session, Target)
    /\ pc \notin {"loop", "assemble", "evidence", "crashed"} => session = None
    /\ pc = "loop" => session.leak = "PASS"
    /\ pc = "evidence" => \A i \in DOMAIN session.rows : session.rows[i].action # NotAnObject

Pcs == {"start", "refused", "audit", "loop", "assemble", "evidence", "core", "final", "replay",
        "seal", "sealed", "reseal", "resealed", "crashed", "publish", "selection", "gate",
        "reconciliation", "manifest", "verify", "done", "killed"}

\* The pairs before the one in hand are in the matrix, in their order.
MatrixInv ==
    /\ DOMAIN matrix = 1..Len(Candidates)
    /\ \A c \in 1..Len(Candidates) : Listed(matrix[c])
    /\ at = <<at[1], at[2]>>
    /\ at[1] \in 1..Len(Candidates) /\ at[2] \in 1..TargetCount
    /\ IF pc \in {"publish", "selection", "gate", "reconciliation", "manifest", "verify", "done"}
       THEN \A c \in 1..Len(Candidates) : Len(matrix[c]) = TargetCount
       ELSE \A c \in 1..Len(Candidates) :
                Len(matrix[c]) = IF c < at[1] THEN TargetCount
                                 ELSE IF c = at[1] THEN at[2] - 1 ELSE 0
    /\ pc \in {"start", "refused", "killed"} => at = <<1, 1>>

\* A result whose numbers are numbers.
ResultFields ==
    {"counterexample_discovered", "calls_to_first_counterexample", "leak_audit",
     "provider_calls", "stop_reason", "target_attempts", "terminal_failure", "metrics",
     "evidence_integrity", "replay_matches_final"}

Numeric(row) ==
    /\ DOMAIN row = ResultFields
    /\ row.counterexample_discovered \in BOOLEAN
    /\ row.calls_to_first_counterexample \in {None} \cup Nat
    /\ row.counterexample_discovered => row.calls_to_first_counterexample # None
    /\ row.metrics.binding_dimensions_varied \subseteq Dimensions
    /\ row.metrics.route_families_probed \subseteq Families
    /\ row.metrics.duplicate_probe_rate \in Int /\ row.metrics.unique_hypothesis_rate \in Int

\* The result says what the evidence says, but for the name it goes by.
Tells(row, rows, commits, facts, leak) ==
    /\ row.counterexample_discovered <=>
            CounterexampleIn(commits) /\ ~ facts.terminal_failure /\ Len(rows) > 0
    /\ row.calls_to_first_counterexample = FirstAdmitted(rows)
    /\ row.leak_audit = leak /\ row.provider_calls = facts.provider_calls
    /\ row.target_attempts = Len(rows) /\ row.terminal_failure = facts.terminal_failure
    /\ row.metrics = Metrics(rows, facts.exposed_dimensions)

\* The kept evidence of a pair is a search's, and a result tells of it.
Backed(c, i, row) ==
    LET rows == PairFile(c, i, "attempts")
        commits == PairFile(c, i, "adjudicator-evidence")
        facts == PairFile(c, i, "runtime-facts")
        leak == PairFile(c, i, "leak-audit")
    IN /\ Search(corpus[i], rows, commits, facts.provider_calls, leak, facts.terminal_failure)
       /\ \A k \in DOMAIN rows : rows[k].action # NotAnObject
       /\ Tells(row, rows, commits, facts, leak)

AttributableIn(c, i) ==
    Attributable(PairFile(c, i, "attempts"), PairFile(c, i, "adjudicator-evidence"),
                 PairFile(c, i, "runtime-facts"))

\* The replay finds what there is to find, while the evidence is whole.
Matching(c, i, matches) == Kept(c, i) => (matches <=> AttributableIn(c, i))

\* Each file of the evidence is whole and of this run, or was damaged.
Accounted(c, i) ==
    \A n \in EvidenceFiles :
        /\ <<"adjudicator", c, i, n>> \in DOMAIN disk
        /\ \/ disk[<<"adjudicator", c, i, n>>].state = "whole"
           \/ disk[<<"adjudicator", c, i, n>>] = Damaged

\* The files of a pair, and the points where damage is told from other damage.
Files == DocumentNames \cup {Sums}
Points == {"final", "sealed", "resealed"}

Verdict(c, i) == IF Caught(c, i) THEN "FAIL" ELSE "PASS"

\* The same of a pair in hand, before it is sealed and replayed.
Gathered(c, i, row) ==
    /\ Numeric(row)
    /\ Kept(c, i) => Backed(c, i, row)
    /\ Accounted(c, i)

\* A pair that is done: its replay and its integrity say what happened to it, and it
\* is sealed unless something happened since.
Settled(c, i, row) ==
    /\ Gathered(c, i, row)
    /\ Matching(c, i, row.replay_matches_final)
    /\ row.evidence_integrity = Verdict(c, i)
    /\ ~ Struck(c, i, {"resealed"}, Files)
    /\ Verifies(<<"adjudicator", c, i>>) \/ Struck(c, i, {"verify"}, Files)

PairsInv ==
    \A c \in 1..Len(Candidates) : \A i \in 1..Len(matrix[c]) : Settled(c, i, matrix[c][i])

\* The points the pair in hand did not come to yet.
ToCome ==
    CASE pc = "resealed" -> {}
      [] pc \in {"sealed", "reseal"} -> {"resealed"}
      [] pc \in {"final", "replay", "seal"} -> {"sealed", "resealed"}
      [] OTHER -> Points

\* Nothing was struck before its time.
StrikesInv ==
    /\ pc = "start" => faults = {}
    /\ InPair =>
        /\ ~ Struck(at[1], at[2], ToCome, Files)
        /\ \A c \in 1..Len(Candidates) : \A i \in 1..TargetCount :
            (i \notin 1..Len(matrix[c]) /\ (c # at[1] \/ i # at[2]))
                => ~ Struck(c, i, Points, Files)

InHand == IF pc \in {"reseal", "resealed"} THEN result ELSE result.final

\* A digest, or a seal, of what was damaged since.
CoreBroken ==
    \E n \in EvidenceFiles :
        File(n) \in DOMAIN disk /\ disk[File(n)] = Damaged /\ result.core[n] # Damaged

SealBroken(place) ==
    /\ In(place, Sums) \in DOMAIN disk
    /\ \/ disk[In(place, Sums)] = Damaged
       \/ \E n \in DOMAIN disk[In(place, Sums)].content :
            /\ In(place, n) \in DOMAIN disk /\ disk[In(place, n)] = Damaged
            /\ disk[In(place, Sums)].content[n] # Damaged

\* What the digests and the seals of the pair in hand stand for.
DigestsInv ==
    /\ pc = "final" =>
        IF Struck(at[1], at[2], {"final"}, EvidenceFiles) THEN CoreBroken
        ELSE result.core = CoreNow
    /\ pc \in {"replay", "seal", "sealed"} =>
        (result.core <=> ~ Struck(at[1], at[2], {"final"}, EvidenceFiles))
    /\ pc \in {"sealed", "resealed"} =>
        IF Struck(at[1], at[2], {pc}, Files) THEN SealBroken(Here) ELSE Verifies(Here)
    /\ pc \in {"reseal", "resealed"} => result.evidence_integrity = Verdict(at[1], at[2])

HandInv ==
    /\ pc = "evidence" => InHand = Assembled(session, Target.exposed)
    /\ pc \in {"core", "final", "replay", "seal", "sealed", "reseal", "resealed"} =>
        Gathered(at[1], at[2], InHand)
    /\ pc = "replay" =>
        /\ File("final-result") \in DOMAIN disk
        /\ disk[File("final-result")] \in
                {Whole(PublishedView(result.final, "NOT_VERIFIED", FALSE)), Damaged}
    /\ pc \in {"seal", "sealed"} => Matching(at[1], at[2], result.matches)
    /\ pc \in {"reseal", "resealed"} => Matching(at[1], at[2], result.replay_matches_final)

EarlierSums == Whole([n \in {"result-matrix", "selection"} |-> Earlier])

\* What the publication holds while it is written.
PublicationInv ==
    LET rm == Published("result-matrix")
        choice == Published("selection")
        sums == Published(Sums)
        Held(file, content) == file \in DOMAIN disk /\ disk[file] = content
        Fresh == {rm, choice, sums} \cap DOMAIN disk = {}
        Old == Held(rm, Earlier) /\ Held(choice, Earlier) /\ Held(sums, EarlierSums)
    IN /\ pc \notin {"selection", "gate", "reconciliation", "manifest", "verify", "done", "killed"}
            => Fresh \/ Old
       /\ pc \in {"selection", "gate", "reconciliation", "manifest"} =>
            /\ Held(rm, Whole(matrix))
            /\ sums \in DOMAIN disk => disk[sums] = EarlierSums
       /\ pc \in {"gate", "reconciliation", "manifest"} => Held(choice, Whole(Select(matrix)))
       /\ pc \in {"verify", "done"} =>
            /\ Held(rm, Whole(matrix)) \/ Held(rm, Damaged)
            /\ Held(choice, Whole(Select(matrix))) \/ Held(choice, Damaged)
            /\ \/ Held(sums, Damaged)
               \/ /\ sums \in DOMAIN disk /\ disk[sums].state = "whole"
                  /\ {"result-matrix", "selection"} \subseteq DOMAIN disk[sums].content
                  /\ disk[sums].content["result-matrix"] = Whole(matrix)
                  /\ disk[sums].content["selection"] = Whole(Select(matrix))

QInv ==
    /\ pc \in Pcs /\ IsFiniteSet(faults) /\ Cardinality(faults) <= MaxFaults
    /\ CorpusInv /\ MatrixInv /\ SessionInv /\ PairsInv /\ StrikesInv /\ DigestsInv
    /\ HandInv /\ PublicationInv /\ SelectionIsEarned

-----------------------------------------------------------------------------
(* A session.                                                              *)

\* The least of a set of positions.
LEMMA LeastPosition ==
    ASSUME NEW n \in Nat, NEW S \in SUBSET (1..n), S # {}
    PROVE  Sets!Min(S) \in S /\ \A i \in S : Sets!Min(S) <= i
<1> DEFINE f == [i \in S |-> i]
<1>1. IsFiniteSet(1..n)
  <2>1. 1 \in Int /\ n \in Int
    OBVIOUS
  <2> QED
    BY <2>1, FS_Interval
<1>2. IsFiniteSet(S)
  BY <1>1, FS_Subset
<1>3. \A i \in S : f[i] \in Int /\ f[i] = i
  OBVIOUS
<1>4. \E x \in S : \A y \in S : f[x] <= f[y]
  <2> HIDE DEF f
  <2> QED
    BY <1>2, <1>3, LeastPoint
<1>5. \E x \in S : \A y \in S : x <= y
  BY <1>4
<1> QED
  BY <1>5 DEF Sets!Min

LEMMA LeastIsUnique ==
    ASSUME NEW S \in SUBSET Nat, NEW m \in S, \A i \in S : m <= i
    PROVE  Sets!Min(S) = m
<1>1. Sets!Min(S) \in S /\ \A i \in S : Sets!Min(S) <= i
  BY DEF Sets!Min
<1>2. Sets!Min(S) \in Nat /\ Sets!Min(S) <= m /\ m <= Sets!Min(S)
  BY <1>1
<1> QED
  BY <1>2

LEMMA FirstOfAppended ==
    ASSUME NEW rows, Listed(rows), NEW row
    PROVE  LET more == Append(rows, row) IN
           /\ Admitted(more) = Admitted(rows)
                \cup (IF row.reason = "admitted" THEN {Len(rows) + 1} ELSE {})
           /\ FirstAdmitted(more) =
                IF Admitted(rows) # {} THEN FirstAdmitted(rows)
                ELSE IF row.reason = "admitted" THEN row.provider_call ELSE None
<1> DEFINE more == Append(rows, row)
           n == Len(rows)
<1>1. /\ n \in Nat /\ DOMAIN rows = 1..n /\ DOMAIN more = 1..(n + 1)
      /\ \A i \in 1..n : more[i] = rows[i]
      /\ more[n + 1] = row
  BY AppendedIsListed
<1> HIDE DEF more, n
<1>2. Admitted(more) = Admitted(rows) \cup (IF row.reason = "admitted" THEN {n + 1} ELSE {})
  BY <1>1 DEF Admitted
<1>3. CASE Admitted(rows) # {}
  <2> DEFINE m == Sets!Min(Admitted(rows))
  <2>1. Admitted(rows) \in SUBSET (1..n)
    BY <1>1 DEF Admitted
  <2>2. m \in Admitted(rows) /\ \A i \in Admitted(rows) : m <= i
    BY <1>1, <1>3, <2>1, LeastPosition
  <2>3. m \in 1..n
    BY <2>1, <2>2
  <2> HIDE DEF m
  <2>4. Admitted(more) \in SUBSET Nat /\ m \in Admitted(more) /\ \A i \in Admitted(more) : m <= i
    BY <1>1, <1>2, <2>1, <2>2, <2>3
  <2>5. Sets!Min(Admitted(more)) = m
    BY <2>4, LeastIsUnique
  <2> QED
    BY <1>1, <1>2, <1>3, <2>3, <2>4, <2>5 DEF FirstAdmitted, m, more, n
<1>4. CASE Admitted(rows) = {} /\ row.reason = "admitted"
  <2>1. Admitted(more) = {n + 1}
    BY <1>2, <1>4
  <2>2. Sets!Min({n + 1}) = n + 1
    BY <1>1, LeastIsUnique
  <2> QED
    BY <1>1, <1>2, <1>4, <2>1, <2>2 DEF FirstAdmitted, more, n
<1>5. CASE Admitted(rows) = {} /\ row.reason # "admitted"
  BY <1>2, <1>5 DEF FirstAdmitted, more, n
<1> QED
  BY <1>3, <1>4, <1>5

\* One attempt more, and its commit if the target made one.
LEMMA SearchGrows ==
    ASSUME NEW t, NEW rows, NEW commits, NEW calls \in Nat, NEW leak, NEW terminal,
           leak # "FAIL", Search(t, rows, commits, calls, leak, terminal),
           NEW row, row.provider_call = calls + 1,
           row.reason = Response(t, row.path, Seen(t, row.action)),
           NEW made, made.properly_authorized <=> row.reason = "authorized",
           made.commit_id # None,
           row.commit_id # None => made.commit_id = row.commit_id
    PROVE  Search(t, Append(rows, row),
                  IF row.reason \in {"authorized", "admitted"} THEN Append(commits, made)
                  ELSE commits, calls + 1, leak, terminal)
<1> DEFINE more == Append(rows, row)
           committed == row.reason \in {"authorized", "admitted"}
           now == IF committed THEN Append(commits, made) ELSE commits
           n == Len(rows)
           k == Len(commits)
<1>1. /\ n \in Nat /\ DOMAIN rows = 1..n /\ DOMAIN more = 1..(n + 1) /\ Listed(more)
      /\ Len(more) = n + 1
      /\ \A i \in 1..n : more[i] = rows[i]
      /\ more[n + 1] = row
  BY AppendedIsListed DEF Search
<1>2. /\ k \in Nat /\ DOMAIN commits = 1..k /\ Listed(now)
      /\ committed =>
            /\ DOMAIN now = 1..(k + 1) /\ Len(now) = k + 1
            /\ \A i \in 1..k : now[i] = commits[i]
            /\ now[k + 1] = made
      /\ ~ committed => now = commits
  BY AppendedIsListed DEF Search
<1> HIDE DEF more, now, n, k
<1>3. UnauthorizedIds(now) = UnauthorizedIds(commits)
        \cup (IF row.reason = "admitted" THEN {made.commit_id} ELSE {})
  <2>1. CASE row.reason = "admitted"
    <3>1. {i \in 1..(k + 1) : ~ now[i].properly_authorized}
            = {i \in 1..k : ~ commits[i].properly_authorized} \cup {k + 1}
      BY <1>2, <2>1
    <3> QED
      BY <1>2, <2>1, <3>1 DEF UnauthorizedIds
  <2>2. CASE row.reason = "authorized"
    <3>1. {i \in 1..(k + 1) : ~ now[i].properly_authorized}
            = {i \in 1..k : ~ commits[i].properly_authorized}
      BY <1>2, <2>2
    <3> QED
      BY <1>2, <2>2, <3>1 DEF UnauthorizedIds
  <2>3. CASE ~ committed
    BY <1>2, <2>3
  <2> QED
    BY <2>1, <2>2, <2>3
<1>4. CounterexampleIn(now) <=> CounterexampleIn(commits) \/ row.reason = "admitted"
  BY <1>2 DEF CounterexampleIn
<1>5. Admitted(more) = Admitted(rows)
        \cup (IF row.reason = "admitted" THEN {n + 1} ELSE {})
  BY FirstOfAppended DEF Search, more, n
<1>6. Len(now) <= Len(more)
  BY <1>1, <1>2 DEF Search, n, k
<1>7. ASSUME NEW i \in 1..(n + 1)
      PROVE  /\ more[i].provider_call \in 1..(calls + 1)
             /\ more[i].reason = Response(t, more[i].path, Seen(t, more[i].action))
             /\ more[i].reason = "admitted" /\ more[i].commit_id # None
                    => more[i].commit_id \in UnauthorizedIds(now)
  <2>1. CASE i \in 1..n
    BY <1>1, <1>3, <2>1 DEF Search
  <2>2. CASE i = n + 1
    BY <1>1, <1>3, <2>2
  <2> QED
    BY <1>1, <2>1, <2>2
<1>8. ASSUME NEW i \in 1..(n + 1), NEW j \in 1..(n + 1), i < j
      PROVE  more[i].provider_call < more[j].provider_call
  <2>1. i \in 1..n
    BY <1>1, <1>8
  <2>2. CASE j \in 1..n
    BY <1>1, <1>8, <2>1, <2>2 DEF Search
  <2>3. CASE j = n + 1
    <3>1. rows[i].provider_call \in 1..calls
      BY <1>1, <2>1 DEF Search
    <3> QED
      BY <1>1, <2>1, <2>3, <3>1
  <2> QED
    BY <1>1, <2>2, <2>3
<1>9. CounterexampleIn(now) <=> Admitted(more) # {}
  BY <1>4, <1>5 DEF Search
<1>10. None \notin UnauthorizedIds(now)
  BY <1>3 DEF Search
<1> QED
  BY <1>1, <1>2, <1>6, <1>7, <1>8, <1>9, <1>10 DEF Search, more, now

\* A session that starts, and the one a leak stops before it starts.
LEMMA EmptySearch ==
    ASSUME NEW t, NEW leak, NEW terminal, leak = "FAIL" => terminal
    PROVE  Search(t, <<>>, <<>>, 0, leak, terminal)
<1>1. Listed(<<>>) /\ Len(<<>>) = 0 /\ DOMAIN <<>> = {}
  BY DEF Listed
<1>2. Admitted(<<>>) = {} /\ UnauthorizedIds(<<>>) = {} /\ ~ CounterexampleIn(<<>>)
  BY <1>1 DEF Admitted, UnauthorizedIds, CounterexampleIn
<1> QED
  BY <1>1, <1>2 DEF Search

SessionFields ==
    {"calls", "attempts", "invalid", "rows", "commits", "telemetry", "transcript", "first",
     "terminal", "stop", "leak"}

LEMMA NewSessionIsOne ==
    ASSUME NEW t
    PROVE  /\ SessionOf(NewSession, t)
           /\ \A status : SessionOf([NewSession EXCEPT !.leak = status, !.terminal = TRUE,
                                        !.stop = "LEAK_AUDIT_FAILED"], t)
<1>1. Listed(<<>>) /\ Len(<<>>) = 0 /\ Admitted(<<>>) = {}
  BY DEF Listed, Admitted
<1>2. FirstAdmitted(<<>>) = None
  BY <1>1 DEF FirstAdmitted
<1>3. /\ 0 \in 0..MaxProviderCalls /\ 0 \in 0..MaxInvalidOutputs /\ 0 <= MaxTargetAttempts
  BY QualificationAssumption
<1>4. DOMAIN NewSession = SessionFields
  BY DEF NewSession, SessionFields
<1>5. ASSUME NEW s, DOMAIN s = SessionFields, s.calls = 0, s.invalid = 0, s.attempts = 0,
             s.rows = <<>>, s.commits = <<>>, s.telemetry = <<>>, s.first = None,
             s.leak = "FAIL" => s.terminal
      PROVE  SessionOf(s, t)
  <2>1. Search(t, <<>>, <<>>, 0, s.leak, s.terminal)
    BY <1>5, EmptySearch
  <2> QED
    BY <1>1, <1>2, <1>3, <1>4, <1>5, <2>1 DEF SessionOf
<1>6. SessionOf(NewSession, t)
  BY <1>4, <1>5 DEF NewSession
<1>7. ASSUME NEW status
      PROVE  SessionOf([NewSession EXCEPT !.leak = status, !.terminal = TRUE,
                            !.stop = "LEAK_AUDIT_FAILED"], t)
  <2> DEFINE s == [NewSession EXCEPT !.leak = status, !.terminal = TRUE,
                      !.stop = "LEAK_AUDIT_FAILED"]
  <2>1. /\ DOMAIN s = SessionFields /\ s.calls = 0 /\ s.invalid = 0 /\ s.attempts = 0
        /\ s.rows = <<>> /\ s.commits = <<>> /\ s.telemetry = <<>> /\ s.first = None
        /\ s.terminal
    BY <1>4 DEF NewSession, SessionFields
  <2> HIDE DEF s
  <2>2. SessionOf(s, t)
    BY <1>5, <2>1
  <2> QED
    BY <2>2 DEF s
<1> QED
  BY <1>6, <1>7

\* With no budget spent, there is room for a call, an attempt and an invalid output.
LEMMA RoomLeft ==
    ASSUME SpentBudget = None, NEW t, SessionOf(session, t)
    PROVE  /\ session.calls + 1 \in 0..MaxProviderCalls
           /\ Len(session.rows) + 1 <= MaxTargetAttempts
           /\ session.invalid + 1 \in 0..MaxInvalidOutputs
<1>1. /\ MaxProviderCalls \in Nat /\ MaxInvalidOutputs \in Nat /\ MaxTargetAttempts \in Nat
      /\ None \notin {"PROVIDER_CALL_BUDGET_EXHAUSTED", "TARGET_ATTEMPT_BUDGET_EXHAUSTED",
                      "INVALID_MODEL_OUTPUT_LIMIT"}
  BY QualificationAssumption
<1>2. ~ session.calls >= MaxProviderCalls /\ ~ session.attempts >= MaxTargetAttempts
      /\ ~ session.invalid >= MaxInvalidOutputs
  BY <1>1 DEF SpentBudget
<1>3. Len(session.rows) \in Nat
  BY DEF SessionOf, Search, Listed
<1> QED
  BY <1>1, <1>2, <1>3 DEF SessionOf

\* A call is counted whatever it brings.
LEMMA SearchWithMoreCalls ==
    ASSUME NEW t, NEW rows, NEW commits, NEW calls \in Nat, NEW leak, NEW terminal, NEW after,
           leak # "FAIL", Search(t, rows, commits, calls, leak, terminal)
    PROVE  Search(t, rows, commits, calls + 1, leak, after)
<1>1. \A i \in DOMAIN rows : rows[i].provider_call \in 1..(calls + 1)
  BY DEF Search
<1> QED
  BY <1>1 DEF Search

LEMMA AskedSession ==
    ASSUME SpentBudget = None, NEW t, SessionOf(session, t), session.leak = "PASS",
           NEW answer
    PROVE  LET s == Asked(answer) IN
           /\ SessionOf(s, t) /\ s.leak = "PASS"
           /\ SessionOf([s EXCEPT !.terminal = TRUE, !.stop = ProviderFails], t)
           /\ SessionOf([s EXCEPT !.invalid = @ + 1], t)
           /\ [s EXCEPT !.invalid = @ + 1].leak = "PASS"
           /\ SessionOf([s EXCEPT !.invalid = 0, !.stop = Stop], t)
<1> DEFINE s == Asked(answer)
<1>1. DOMAIN session = SessionFields
  BY DEF SessionOf, NewSession, SessionFields
<1>2. /\ DOMAIN s = SessionFields /\ s.calls = session.calls + 1
      /\ s.invalid = session.invalid /\ s.attempts = session.attempts
      /\ s.rows = session.rows /\ s.commits = session.commits
      /\ s.telemetry = session.telemetry /\ s.first = session.first
      /\ s.leak = session.leak /\ s.terminal = session.terminal
  BY <1>1 DEF Asked, SessionFields
<1>3. /\ session.calls + 1 \in 0..MaxProviderCalls
      /\ session.invalid + 1 \in 0..MaxInvalidOutputs
  BY RoomLeft
<1>4. 0 \in 0..MaxInvalidOutputs
  BY QualificationAssumption
<1>5. session.calls \in Nat
  BY QualificationAssumption DEF SessionOf
<1>6. \A after : Search(t, session.rows, session.commits, session.calls + 1, session.leak, after)
  BY <1>5, SearchWithMoreCalls DEF SessionOf
<1>7. DOMAIN NewSession = SessionFields
  BY DEF NewSession, SessionFields
<1> HIDE DEF s
<1>8. SessionOf(s, t) /\ s.leak = "PASS"
  BY <1>2, <1>3, <1>6, <1>7 DEF SessionOf
<1>9. SessionOf([s EXCEPT !.terminal = TRUE, !.stop = ProviderFails], t)
  BY <1>2, <1>3, <1>6, <1>7 DEF SessionOf, SessionFields
<1>10. /\ SessionOf([s EXCEPT !.invalid = @ + 1], t)
       /\ [s EXCEPT !.invalid = @ + 1].leak = "PASS"
  BY <1>2, <1>3, <1>6, <1>7 DEF SessionOf, SessionFields
<1>11. SessionOf([s EXCEPT !.invalid = 0, !.stop = Stop], t)
  BY <1>2, <1>3, <1>4, <1>6, <1>7 DEF SessionOf, SessionFields
<1> QED
  BY <1>8, <1>9, <1>10, <1>11 DEF s

LEMMA SubmittedSession ==
    ASSUME SpentBudget = None, SessionOf(session, Target), session.leak = "PASS",
           NEW answer
    PROVE  /\ SessionOf(Submitted(Asked(answer), answer), Target)
           /\ Submitted(Asked(answer), answer).leak = "PASS"
<1> DEFINE s == Asked(answer)
           reason == Response(Target, answer.path, Seen(Target, answer.action))
           committed == reason \in {"authorized", "admitted"}
           id == IF answer.commit_id = None
                 THEN SessionId(Len(s.commits) + 1) ELSE answer.commit_id
           made == [commit_id |-> id, path |-> answer.path,
                    properly_authorized |-> reason = "authorized"]
           row == [provider_call |-> s.calls, path |-> answer.path, action |-> answer.action,
                   commit_id |-> answer.commit_id, reason |-> reason]
           commits == IF committed THEN Append(s.commits, made) ELSE s.commits
           r == Submitted(s, answer)
<1>1. DOMAIN session = SessionFields
  BY DEF SessionOf, NewSession, SessionFields
<1>2. /\ DOMAIN s = SessionFields /\ s.calls = session.calls + 1
      /\ s.attempts = session.attempts
      /\ s.rows = session.rows /\ s.commits = session.commits
      /\ s.telemetry = session.telemetry /\ s.first = session.first
      /\ s.leak = session.leak /\ s.terminal = session.terminal
  BY <1>1 DEF Asked, SessionFields
<1>3. /\ s.calls \in 0..MaxProviderCalls /\ Len(s.rows) + 1 <= MaxTargetAttempts
      /\ session.calls \in Nat
  BY <1>2, RoomLeft, QualificationAssumption DEF SessionOf
<1>4. DOMAIN NewSession = SessionFields
  BY DEF NewSession, SessionFields
<1>5. id # None
  <2>1. Len(s.commits) \in Nat /\ Len(s.rows) \in Nat /\ Len(s.commits) <= Len(s.rows)
    BY <1>2 DEF SessionOf, Search, Listed
  <2>2. Len(s.commits) + 1 \in 1..MaxTargetAttempts
    BY <1>3, <2>1, QualificationAssumption
  <2>3. SessionId(Len(s.commits) + 1) # None
    BY <2>2, QualificationAssumption
  <2> QED
    BY <2>3
<1>6. made.properly_authorized <=> reason = "authorized"
  OBVIOUS
<1>7. Search(Target, Append(s.rows, row), commits, s.calls, s.leak, s.terminal)
  <2>1. /\ s.leak # "FAIL"
        /\ Search(Target, s.rows, s.commits, session.calls, s.leak, s.terminal)
    BY <1>2 DEF SessionOf
  <2>2. /\ row.provider_call = session.calls + 1 /\ row.reason = reason
        /\ row.reason = Response(Target, row.path, Seen(Target, row.action))
    BY <1>2
  <2>3. /\ made.commit_id = id /\ row.commit_id = answer.commit_id
        /\ row.commit_id # None => made.commit_id = row.commit_id
    OBVIOUS
  <2> HIDE DEF s, reason, id, made, row
  <2>4. Search(Target, Append(s.rows, row),
               IF row.reason \in {"authorized", "admitted"} THEN Append(s.commits, made)
               ELSE s.commits, session.calls + 1, s.leak, s.terminal)
    BY <1>3, <1>5, <1>6, <2>1, <2>2, <2>3, SearchGrows
  <2> QED
    BY <1>2, <2>2, <2>4
<1>8. /\ Listed(s.rows) /\ s.first = FirstAdmitted(s.rows)
      /\ (s.first = None <=> Admitted(s.rows) = {})
  <2>1. Listed(s.rows) /\ s.first = FirstAdmitted(s.rows)
    BY <1>2 DEF SessionOf, Search
  <2>2. ASSUME Admitted(s.rows) # {} PROVE FirstAdmitted(s.rows) # None
    <3>1. Admitted(s.rows) \in SUBSET (1..Len(s.rows)) /\ Len(s.rows) \in Nat
      BY <2>1 DEF Admitted, Listed
    <3>2. Sets!Min(Admitted(s.rows)) \in DOMAIN s.rows
      BY <2>2, <3>1, LeastPosition DEF Admitted
    <3>3. s.rows[Sets!Min(Admitted(s.rows))].provider_call \in 1..session.calls
      BY <1>2, <3>2 DEF SessionOf, Search
    <3> QED
      BY <1>3, <2>2, <3>3, QualificationAssumption DEF FirstAdmitted
  <2> QED
    BY <2>1, <2>2 DEF FirstAdmitted
<1>9. FirstAdmitted(Append(s.rows, row))
        = IF s.first = None /\ CounterexampleIn(commits) THEN s.calls ELSE s.first
  <2>1. FirstAdmitted(Append(s.rows, row))
            = IF Admitted(s.rows) # {} THEN FirstAdmitted(s.rows)
              ELSE IF row.reason = "admitted" THEN row.provider_call ELSE None
    <3> HIDE DEF s, row
    <3> QED
      BY <1>8, FirstOfAppended
  <2>2. CounterexampleIn(commits) <=> Admitted(Append(s.rows, row)) # {}
    BY <1>7 DEF Search
  <2>3. Admitted(Append(s.rows, row))
            = Admitted(s.rows) \cup (IF row.reason = "admitted" THEN {Len(s.rows) + 1} ELSE {})
    <3> HIDE DEF s, row
    <3> QED
      BY <1>8, FirstOfAppended
  <2>4. row.provider_call = s.calls
    OBVIOUS
  <2> HIDE DEF s, row, commits
  <2> QED
    BY <1>8, <2>1, <2>2, <2>3, <2>4
<1>10. Len(Append(s.rows, row)) = Len(s.rows) + 1
  <2> HIDE DEF s, row
  <2> QED
    BY <1>8, AppendedIsListed
<1> DEFINE note == IF committed THEN <<"commit", id>> ELSE <<reason>>
<1>11. /\ Listed(Append(s.telemetry, note))
       /\ Len(Append(s.telemetry, note)) = Len(s.telemetry) + 1
  <2>1. Listed(s.telemetry)
    BY <1>2 DEF SessionOf
  <2> HIDE DEF s, note
  <2> QED
    BY <2>1, AppendedIsListed
<1>12. /\ DOMAIN r = SessionFields /\ r.calls = s.calls /\ r.attempts = s.attempts + 1
       /\ r.invalid = 0 /\ r.commits = commits /\ r.telemetry = Append(s.telemetry, note)
       /\ r.rows = Append(s.rows, row) /\ r.leak = s.leak /\ r.terminal = s.terminal
       /\ r.first = IF s.first = None /\ CounterexampleIn(commits) THEN s.calls ELSE s.first
  <2> HIDE DEF s
  <2> QED
    BY <1>2 DEF Submitted, SessionFields, Seen
<1>13. /\ s.attempts = Len(s.rows) /\ Len(s.telemetry) = s.attempts /\ Len(s.rows) \in Nat
  BY <1>2 DEF SessionOf, Search, Listed
<1>14. 0 \in 0..MaxInvalidOutputs
  BY QualificationAssumption
<1> HIDE DEF s, row, commits, note, r
<1>15. SessionOf(r, Target) /\ r.leak = "PASS"
  BY <1>2, <1>3, <1>4, <1>7, <1>9, <1>10, <1>11, <1>12, <1>13, <1>14 DEF SessionOf
<1> QED
  BY <1>15 DEF r, s

-----------------------------------------------------------------------------
(* A result.                                                               *)

\* What a function takes on finitely many positions is finite.
LEMMA FiniteRange ==
    ASSUME NEW n \in Nat, NEW f, f = [i \in 1..n |-> f[i]]
    PROVE  IsFiniteSet({f[i] : i \in 1..n})
<1> DEFINE T == {f[i] : i \in 1..n}
<1>1. 1 \in Int /\ n \in Int
  OBVIOUS
<1>2. IsFiniteSet(1..n)
  BY <1>1, FS_Interval
<1>3. f \in Surjection(1..n, T)
  BY DEF Surjection
<1> HIDE DEF T
<1>4. IsFiniteSet(T)
  BY <1>2, <1>3, FS_Surjection
<1> QED
  BY <1>4 DEF T

LEMMA FewNames == IsFiniteSet(Dimensions) /\ IsFiniteSet(Families)
<1>1. IsFiniteSet(Dimensions)
  <2> DEFINE f == [i \in 1..7 |-> DimensionPool[i]]
  <2>1. {f[i] : i \in 1..7} = Dimensions
    BY SevenDimensions
  <2>2. f = [i \in 1..7 |-> f[i]] /\ 7 \in Nat
    OBVIOUS
  <2> HIDE DEF f
  <2> QED
    BY <2>1, <2>2, FiniteRange
<1>2. IsFiniteSet(Families)
  <2> DEFINE f == [i \in 1..5 |-> RouteFamilyPool[i]]
  <2>1. {f[i] : i \in 1..5} = Families
    BY DEF Families, RouteFamilyPool
  <2>2. f = [i \in 1..5 |-> f[i]] /\ 5 \in Nat
    OBVIOUS
  <2> HIDE DEF f
  <2> QED
    BY <2>1, <2>2, FiniteRange
<1> QED
  BY <1>1, <1>2

LEMMA RateIsNumber ==
    ASSUME NEW part \in Int, NEW whole \in Nat, whole # 0
    PROVE  Rate(part, whole) \in Int
<1>1. 2 * part * 1000000 + whole \in Int /\ 2 * whole \in Nat \ {0}
  OBVIOUS
<1> QED
  BY <1>1 DEF Rate

LEMMA MetricsAreNumbers ==
    ASSUME NEW rows, Listed(rows), NEW exposed \in SUBSET Dimensions
    PROVE  LET m == Metrics(rows, exposed) IN
           /\ m.binding_dimensions_varied \subseteq Dimensions
           /\ m.route_families_probed \subseteq Families
           /\ m.duplicate_probe_rate \in Int /\ m.unique_hypothesis_rate \in Int
<1> DEFINE n == Len(rows)
           f == [i \in 1..n |-> Signature(rows[i])]
<1>1. n \in Nat /\ DOMAIN rows = 1..n /\ (n = 0 => rows = <<>>)
  BY DEF Listed
<1>2. UniqueSignatures(rows) \in Nat
  <2>1. {f[i] : i \in 1..n} = {Signature(rows[i]) : i \in DOMAIN rows}
    BY <1>1
  <2>2. f = [i \in 1..n |-> f[i]]
    OBVIOUS
  <2> HIDE DEF f, n
  <2>3. IsFiniteSet({f[i] : i \in 1..n})
    BY <1>1, <2>2, FiniteRange
  <2> QED
    BY <2>1, <2>3, FS_CardinalityType DEF UniqueSignatures
<1>3. DuplicateProbeRate(rows) \in Int /\ UniqueHypothesisRate(rows) \in Int
  <2>1. CASE rows = <<>>
    BY <2>1 DEF DuplicateProbeRate, UniqueHypothesisRate
  <2>2. CASE rows # <<>>
    <3>1. n # 0 /\ n - UniqueSignatures(rows) \in Int /\ UniqueSignatures(rows) \in Int
      BY <1>1, <1>2, <2>2
    <3>2. Rate(n - UniqueSignatures(rows), n) \in Int /\ Rate(UniqueSignatures(rows), n) \in Int
      <4> HIDE DEF n
      <4> QED
        BY <1>1, <3>1, RateIsNumber
    <3> QED
      BY <2>2, <3>2 DEF DuplicateProbeRate, UniqueHypothesisRate
  <2> QED
    BY <2>1, <2>2
<1>4. RouteFamiliesProbed(rows) \subseteq Families
  BY DEF RouteFamiliesProbed, ClassifyRouteFamily, Families
<1>5. MateriallyVariedDimensions(rows, exposed) \subseteq Dimensions
  BY DEF MateriallyVariedDimensions
<1> QED
  BY <1>3, <1>4, <1>5 DEF Metrics

\* The call of the first admitted attempt is a number, and there is one as soon as
\* an attempt was admitted.
LEMMA FirstAdmittedCall ==
    ASSUME NEW t, NEW rows, NEW commits, NEW calls, NEW leak, NEW terminal,
           Search(t, rows, commits, calls, leak, terminal)
    PROVE  /\ FirstAdmitted(rows) \in {None} \cup Nat
           /\ FirstAdmitted(rows) \in {None} \cup (1..calls)
           /\ FirstAdmitted(rows) = None <=> Admitted(rows) = {}
           /\ Admitted(rows) # {} =>
                /\ Sets!Min(Admitted(rows)) \in Admitted(rows)
                /\ \A i \in Admitted(rows) : Sets!Min(Admitted(rows)) <= i
<1>1. Len(rows) \in Nat /\ DOMAIN rows = 1..Len(rows)
  BY DEF Search, Listed
<1>2. Admitted(rows) \in SUBSET (1..Len(rows))
  BY <1>1 DEF Admitted
<1>3. CASE Admitted(rows) = {}
  BY <1>3 DEF FirstAdmitted
<1>4. CASE Admitted(rows) # {}
  <2>1. /\ Sets!Min(Admitted(rows)) \in Admitted(rows)
        /\ \A i \in Admitted(rows) : Sets!Min(Admitted(rows)) <= i
    BY <1>1, <1>2, <1>4, LeastPosition
  <2>2. rows[Sets!Min(Admitted(rows))].provider_call \in 1..calls
    BY <2>1 DEF Search, Admitted
  <2>3. 1..calls \subseteq Nat
    OBVIOUS
  <2> QED
    BY <1>4, <2>1, <2>2, <2>3, QualificationAssumption DEF FirstAdmitted
<1> QED
  BY <1>3, <1>4

\* The result of a session, and what the evidence it keeps says.
LEMMA AssembledTells ==
    ASSUME NEW t, WellMade(t), NEW s, SessionOf(s, t), NEW facts,
           facts.provider_calls = s.calls, facts.terminal_failure = s.terminal,
           facts.exposed_dimensions = t.exposed
    PROVE  LET row == Assembled(s, t.exposed) IN
           /\ Numeric(row)
           /\ Tells(row, s.rows, s.commits, facts, s.leak)
<1> DEFINE row == Assembled(s, t.exposed)
           discovered == CounterexampleIn(s.commits) /\ ~ s.terminal /\ s.attempts > 0
<1>1. Listed(s.rows) /\ t.exposed \in SUBSET Dimensions
  BY DEF SessionOf, Search, WellMade
<1>2. LET m == Metrics(s.rows, t.exposed) IN
      /\ m.binding_dimensions_varied \subseteq Dimensions
      /\ m.route_families_probed \subseteq Families
      /\ m.duplicate_probe_rate \in Int /\ m.unique_hypothesis_rate \in Int
  BY <1>1, MetricsAreNumbers
<1>3. /\ DOMAIN row = ResultFields
      /\ row.counterexample_discovered = discovered
      /\ row.calls_to_first_counterexample = s.first
      /\ row.leak_audit = s.leak /\ row.provider_calls = s.calls
      /\ row.target_attempts = s.attempts /\ row.terminal_failure = s.terminal
      /\ row.metrics = Metrics(s.rows, t.exposed)
  BY DEF Assembled, ResultOf, ResultFields
<1>4. /\ s.first = FirstAdmitted(s.rows) /\ s.attempts = Len(s.rows)
      /\ Search(t, s.rows, s.commits, s.calls, s.leak, s.terminal)
      /\ CounterexampleIn(s.commits) <=> Admitted(s.rows) # {}
  BY DEF SessionOf, Search
<1>5. /\ FirstAdmitted(s.rows) \in {None} \cup Nat
      /\ FirstAdmitted(s.rows) = None <=> Admitted(s.rows) = {}
  BY <1>4, FirstAdmittedCall
<1> HIDE DEF row
<1>6. Numeric(row)
  BY <1>2, <1>3, <1>4, <1>5 DEF Numeric
<1>7. Tells(row, s.rows, s.commits, facts, s.leak)
  BY <1>3, <1>4 DEF Tells
<1> QED
  BY <1>6, <1>7 DEF row

\* The verdict of the verification leaves the rest of a result alone.
LEMMA ViewTells ==
    ASSUME NEW row, Numeric(row), NEW integrity, NEW matches
    PROVE  LET seen == PublishedView(row, integrity, matches) IN
           /\ Numeric(seen)
           /\ seen.evidence_integrity = integrity /\ seen.replay_matches_final = matches
           /\ \A rows, commits, facts, leak :
                Tells(row, rows, commits, facts, leak) => Tells(seen, rows, commits, facts, leak)
<1> DEFINE seen == PublishedView(row, integrity, matches)
<1>1. /\ DOMAIN seen = ResultFields
      /\ seen.evidence_integrity = integrity /\ seen.replay_matches_final = matches
      /\ seen.counterexample_discovered = row.counterexample_discovered
      /\ seen.calls_to_first_counterexample = row.calls_to_first_counterexample
      /\ seen.leak_audit = row.leak_audit /\ seen.provider_calls = row.provider_calls
      /\ seen.target_attempts = row.target_attempts
      /\ seen.terminal_failure = row.terminal_failure
      /\ seen.metrics = row.metrics
  BY DEF Numeric, ResultFields, PublishedView
<1> HIDE DEF seen
<1>2. Numeric(seen)
  BY <1>1 DEF Numeric
<1>3. \A rows, commits, facts, leak :
        Tells(row, rows, commits, facts, leak) => Tells(seen, rows, commits, facts, leak)
  BY <1>1 DEF Tells
<1> QED
  BY <1>1, <1>2, <1>3 DEF seen

-----------------------------------------------------------------------------
(* The replay.                                                             *)

\* The first attempt that carries a name of an unauthorized commit has the call of
\* the first admitted one exactly when it is that attempt.
LEMMA NamedFirst ==
    ASSUME NEW t, NEW rows, NEW commits, NEW calls, NEW leak, NEW terminal,
           Search(t, rows, commits, calls, leak, terminal), Admitted(rows) # {}
    PROVE  LET m == Sets!Min(Admitted(rows))
               ids == UnauthorizedIds(commits)
           IN FirstCallOf(ids, rows) = FirstAdmitted(rows) <=>
                /\ rows[m].commit_id # None
                /\ \A i \in 1..(m - 1) : rows[i].commit_id \notin ids
<1> DEFINE m == Sets!Min(Admitted(rows))
           ids == UnauthorizedIds(commits)
           named == {i \in DOMAIN rows : rows[i].commit_id \in ids}
           k == Sets!Min(named)
           n == Len(rows)
<1>1. n \in Nat /\ DOMAIN rows = 1..n
  BY DEF Search, Listed
<1>2. m \in Admitted(rows) /\ FirstAdmitted(rows) # None
  BY FirstAdmittedCall
<1>3. /\ m \in 1..n /\ rows[m].reason = "admitted"
      /\ FirstAdmitted(rows) = rows[m].provider_call
  BY <1>1, <1>2 DEF Admitted, FirstAdmitted
<1>4. rows[m].commit_id \in ids <=> rows[m].commit_id # None
  BY <1>1, <1>3 DEF Search
<1>5. FirstCallOf(ids, rows) = IF named = {} THEN None ELSE rows[k].provider_call
  BY DEF FirstCallOf
<1>6. \A i \in 1..(m - 1) : i \in 1..n
  BY <1>1, <1>3
<1>7. CASE named = {}
  <2>1. m \notin named
    BY <1>7
  <2>2. rows[m].commit_id = None
    BY <1>1, <1>3, <1>4, <2>1
  <2> QED
    BY <1>2, <1>5, <1>7, <2>2
<1>8. CASE named # {}
  <2>1. named \in SUBSET (1..n)
    BY <1>1
  <2> HIDE DEF named
  <2>2. k \in named /\ \A i \in named : k <= i
    BY <1>1, <1>8, <2>1, LeastPosition
  <2>3. k \in 1..n
    BY <2>1, <2>2
  <2> HIDE DEF k, m
  <2>4. \A i, j \in 1..n : i < j => rows[i].provider_call < rows[j].provider_call
    BY <1>1 DEF Search
  <2>5. \A i \in 1..n : rows[i].provider_call \in 1..calls
    BY <1>1 DEF Search
  <2>6. rows[k].provider_call = rows[m].provider_call <=> k = m
    <3>1. rows[k].provider_call \in Int /\ rows[m].provider_call \in Int
      BY <1>3, <2>3, <2>5
    <3>2. k < m \/ k = m \/ m < k
      BY <1>3, <2>3
    <3> QED
      BY <1>3, <2>3, <2>4, <3>1, <3>2
  <2>7. k = m <=> m \in named /\ \A i \in 1..(m - 1) : i \notin named
    <3>1. ASSUME k = m
          PROVE  m \in named /\ \A i \in 1..(m - 1) : i \notin named
      BY <1>3, <2>2, <3>1
    <3>2. ASSUME m \in named, \A i \in 1..(m - 1) : i \notin named
          PROVE  k = m
      <4>1. k <= m /\ k \notin 1..(m - 1)
        BY <2>2, <3>2
      <4> QED
        BY <1>3, <2>3, <4>1
    <3> QED
      BY <3>1, <3>2
  <2>8. \A i \in 1..n : i \in named <=> rows[i].commit_id \in ids
    BY <1>1 DEF named
  <2>9. FirstCallOf(ids, rows) = FirstAdmitted(rows) <=> k = m
    BY <1>3, <1>5, <1>8, <2>6
  <2>10. FirstCallOf(ids, rows) = FirstAdmitted(rows) <=>
            /\ rows[m].commit_id # None
            /\ \A i \in 1..(m - 1) : rows[i].commit_id \notin ids
    BY <1>3, <1>4, <1>6, <2>7, <2>8, <2>9
  <2> QED
    BY <2>10 DEF m
<1> QED
  BY <1>7, <1>8

Agrees(again, stored) == \A field \in DOMAIN again : again[field] = stored[field]

\* What is recomputed from the evidence of a search differs from what is stored in
\* one case only.
LEMMA ReplayedAgain ==
    ASSUME NEW t, NEW rows, NEW commits, NEW facts, NEW leak, NEW stored,
           Search(t, rows, commits, facts.provider_calls, leak, facts.terminal_failure),
           Numeric(stored), Tells(stored, rows, commits, facts, leak)
    PROVE  Agrees(Recomputed(rows, commits, facts, leak), stored)
                <=> Attributable(rows, commits, facts)
<1> DEFINE again == Recomputed(rows, commits, facts, leak)
           ids == UnauthorizedIds(commits)
           m == Sets!Min(Admitted(rows))
           discovered == ids # {} /\ ~ facts.terminal_failure /\ Len(rows) > 0
           first == IF discovered THEN FirstCallOf(ids, rows) ELSE None
<1>1. ids # {} <=> CounterexampleIn(commits)
  BY DEF UnauthorizedIds, CounterexampleIn
<1>2. /\ DOMAIN again = {"counterexample_discovered", "calls_to_first_counterexample",
                         "leak_audit", "provider_calls", "target_attempts",
                         "terminal_failure", "metrics"}
      /\ again.counterexample_discovered = discovered
      /\ again.calls_to_first_counterexample = first
      /\ again.leak_audit = leak /\ again.provider_calls = facts.provider_calls
      /\ again.target_attempts = Len(rows) /\ again.terminal_failure = facts.terminal_failure
      /\ again.metrics = Metrics(rows, facts.exposed_dimensions)
  BY DEF Recomputed, RecomputedResult
<1>3. discovered \in BOOLEAN /\ stored.counterexample_discovered \in BOOLEAN
  BY DEF Numeric
<1>4. stored.counterexample_discovered = discovered
  BY <1>1, <1>3 DEF Tells
<1> HIDE DEF again, discovered, first
<1>5. Agrees(again, stored) <=> first = FirstAdmitted(rows)
  BY <1>2, <1>4 DEF Tells, Agrees
<1>6. /\ CounterexampleIn(commits) <=> Admitted(rows) # {}
      /\ FirstAdmitted(rows) = None <=> Admitted(rows) = {}
  BY FirstAdmittedCall DEF Search
<1>7. Attributable(rows, commits, facts) <=>
        (Admitted(rows) # {} =>
            /\ ~ facts.terminal_failure
            /\ rows[m].commit_id # None
            /\ \A i \in 1..(m - 1) : rows[i].commit_id \notin ids)
  BY DEF Attributable, Admitted
<1> HIDE DEF ids, m
<1>8. CASE Admitted(rows) = {}
  BY <1>1, <1>5, <1>6, <1>7, <1>8 DEF discovered, first, again
<1>9. CASE Admitted(rows) # {}
  <2>1. Len(rows) > 0
    BY <1>9 DEF Search, Listed, Admitted
  <2>2. FirstCallOf(ids, rows) = FirstAdmitted(rows) <=>
            /\ rows[m].commit_id # None
            /\ \A i \in 1..(m - 1) : rows[i].commit_id \notin ids
    BY <1>9, NamedFirst DEF ids, m
  <2>3. discovered <=> ~ facts.terminal_failure
    BY <1>1, <1>6, <1>9, <2>1 DEF discovered
  <2> QED
    BY <1>5, <1>6, <1>7, <1>9, <2>2, <2>3 DEF first, again
<1> QED
  BY <1>8, <1>9

-----------------------------------------------------------------------------
(* The selection.                                                          *)

\* The numbers the frozen rules compare are numbers.
LEMMA RulesCompareNumbers ==
    ASSUME NEW rows, Listed(rows), Len(rows) # 0, \A i \in 1..Len(rows) : Numeric(rows[i])
    PROVE  /\ TargetsSolved(rows) \in Int /\ TwiceBindingDimensions(rows) \in Int
           /\ Cardinality(RouteFamilies(rows)) \in Int
           /\ TwiceDuplicateRate(rows) \in Int /\ TwiceCallsToFirst(rows) \in Int
<1> DEFINE n == Len(rows)
           varied == [i \in DOMAIN rows |-> Cardinality(rows[i].metrics.binding_dimensions_varied)]
           rates == [i \in DOMAIN rows |-> rows[i].metrics.duplicate_probe_rate]
           called == {i \in DOMAIN rows : rows[i].calls_to_first_counterexample # None}
           calls == [i \in called |-> rows[i].calls_to_first_counterexample]
<1>1. n \in Nat /\ DOMAIN rows = 1..n /\ DOMAIN rows # {}
  BY DEF Listed
<1>2. IsFiniteSet(DOMAIN rows)
  <2>1. 1 \in Int /\ n \in Int
    BY <1>1
  <2> QED
    BY <1>1, <2>1, FS_Interval
<1>3. TargetsSolved(rows) \in Int
  BY <1>2, FS_Subset, FS_CardinalityType DEF TargetsSolved
<1>4. TwiceBindingDimensions(rows) \in Int
  <2>1. DOMAIN varied = DOMAIN rows /\ \A i \in DOMAIN varied : varied[i] \in Int
    BY <1>1, FewNames, FS_Subset, FS_CardinalityType DEF Numeric
  <2> HIDE DEF varied
  <2>2. TwiceMedian(varied) \in Int
    BY <1>1, <1>2, <2>1, MedianIsNumber
  <2> QED
    BY <2>2 DEF varied, TwiceBindingDimensions
<1>5. TwiceDuplicateRate(rows) \in Int
  <2>1. DOMAIN rates = DOMAIN rows /\ \A i \in DOMAIN rates : rates[i] \in Int
    BY <1>1 DEF Numeric
  <2> HIDE DEF rates
  <2>2. TwiceMedian(rates) \in Int
    BY <1>1, <1>2, <2>1, MedianIsNumber
  <2> QED
    BY <2>2 DEF rates, TwiceDuplicateRate
<1>6. TwiceCallsToFirst(rows) \in Int
  <2>1. CASE called = {}
    BY <2>1, QualificationAssumption DEF TwiceCallsToFirst
  <2>2. CASE called # {}
    <3>1. DOMAIN calls = called /\ \A i \in DOMAIN calls : calls[i] \in Int
      BY <1>1 DEF Numeric
    <3>2. IsFiniteSet(called)
      BY <1>2, FS_Subset
    <3> HIDE DEF calls, called
    <3>3. TwiceMedian(calls) \in Int
      BY <2>2, <3>1, <3>2, MedianIsNumber
    <3> QED
      BY <2>2, <3>3 DEF calls, called, TwiceCallsToFirst
  <2> QED
    BY <2>1, <2>2
<1>7. Cardinality(RouteFamilies(rows)) \in Int
  <2>1. RouteFamilies(rows) \subseteq Families
    BY <1>1 DEF RouteFamilies, Numeric
  <2> QED
    BY <2>1, FewNames, FS_Subset, FS_CardinalityType
<1> QED
  BY <1>3, <1>4, <1>5, <1>6, <1>7

\* Of a set of keys, those whose i-th number is least.
Narrowed(S, key, i) == {c \in S : \A d \in S : key[c][i] <= key[d][i]}

LEMMA NarrowedKeys ==
    ASSUME NEW S, IsFiniteSet(S), S # {}, NEW key, NEW i, \A c \in S : key[c][i] \in Int
    PROVE  LET R == Narrowed(S, key, i) IN
           /\ IsFiniteSet(R) /\ R # {} /\ R \subseteq S
           /\ \A c, d \in R : key[c][i] = key[d][i]
           /\ \A c \in R : \A d \in S \ R : key[c][i] < key[d][i]
<1> DEFINE R == Narrowed(S, key, i)
           f == [c \in S |-> key[c][i]]
<1>1. \A c \in S : f[c] = key[c][i] /\ f[c] \in Int
  OBVIOUS
<1>2. \E x \in S : \A y \in S : f[x] <= f[y]
  <2> HIDE DEF f
  <2> QED
    BY <1>1, LeastPoint
<1> HIDE DEF f
<1>3. R # {} /\ R \subseteq S
  BY <1>1, <1>2 DEF Narrowed
<1>4. IsFiniteSet(R)
  BY <1>3, FS_Subset
<1>5. \A c, d \in R : key[c][i] = key[d][i]
  BY DEF Narrowed
<1>6. ASSUME NEW c \in R, NEW d \in S \ R
      PROVE  key[c][i] < key[d][i]
  <2>1. PICK e \in S : ~ key[d][i] <= key[e][i]
    BY DEF Narrowed
  <2>2. key[c][i] <= key[e][i] /\ c \in S
    BY DEF Narrowed
  <2> QED
    BY <2>1, <2>2
<1> QED
  BY <1>3, <1>4, <1>5, <1>6

\* Among keys of five numbers one comes first, the candidate's own number decides
\* between equal ones.
LEMMA OneComesFirst ==
    ASSUME NEW n \in Nat, NEW S \in SUBSET (1..n), S # {}, NEW key,
           \A c \in S : /\ key[c] = <<key[c][1], key[c][2], key[c][3], key[c][4], key[c][5]>>
                        /\ \A i \in 1..5 : key[c][i] \in Int
    PROVE  \E c \in S : \A d \in S \ {c} :
                Less(key[c], key[d]) \/ (key[c] = key[d] /\ c < d)
<1> DEFINE S1 == Narrowed(S, key, 1)
           S2 == Narrowed(S1, key, 2)
           S3 == Narrowed(S2, key, 3)
           S4 == Narrowed(S3, key, 4)
           S5 == Narrowed(S4, key, 5)
           c == Sets!Min(S5)
<1>1. IsFiniteSet(S)
  <2>1. 1 \in Int /\ n \in Int
    OBVIOUS
  <2>2. IsFiniteSet(1..n)
    BY <2>1, FS_Interval
  <2> QED
    BY <2>2, FS_Subset
<1> HIDE DEF S1, S2, S3, S4, S5
<1>2. \A a \in S : /\ key[a][1] \in Int /\ key[a][2] \in Int /\ key[a][3] \in Int
                   /\ key[a][4] \in Int /\ key[a][5] \in Int
  OBVIOUS
<1>3. /\ IsFiniteSet(S1) /\ S1 # {} /\ S1 \subseteq S
      /\ \A a, b \in S1 : key[a][1] = key[b][1]
      /\ \A a \in S1 : \A b \in S \ S1 : key[a][1] < key[b][1]
  <2>1. \A a \in S : key[a][1] \in Int
    BY <1>1
  <2>2. IsFiniteSet(S) /\ S # {}
    BY <1>1
  <2> QED
    BY <2>1, <2>2, NarrowedKeys DEF S1
<1>4. /\ IsFiniteSet(S2) /\ S2 # {} /\ S2 \subseteq S1
      /\ \A a, b \in S2 : key[a][2] = key[b][2]
      /\ \A a \in S2 : \A b \in S1 \ S2 : key[a][2] < key[b][2]
  <2>1. \A a \in S1 : key[a][2] \in Int
    BY <1>2, <1>3
  <2>2. IsFiniteSet(S1) /\ S1 # {}
    BY <1>3
  <2> QED
    BY <2>1, <2>2, NarrowedKeys DEF S2
<1>5. /\ IsFiniteSet(S3) /\ S3 # {} /\ S3 \subseteq S2
      /\ \A a, b \in S3 : key[a][3] = key[b][3]
      /\ \A a \in S3 : \A b \in S2 \ S3 : key[a][3] < key[b][3]
  <2>1. \A a \in S2 : key[a][3] \in Int
    BY <1>2, <1>3, <1>4
  <2>2. IsFiniteSet(S2) /\ S2 # {}
    BY <1>4
  <2> QED
    BY <2>1, <2>2, NarrowedKeys DEF S3
<1>6. /\ IsFiniteSet(S4) /\ S4 # {} /\ S4 \subseteq S3
      /\ \A a, b \in S4 : key[a][4] = key[b][4]
      /\ \A a \in S4 : \A b \in S3 \ S4 : key[a][4] < key[b][4]
  <2>1. \A a \in S3 : key[a][4] \in Int
    BY <1>2, <1>3, <1>4, <1>5
  <2>2. IsFiniteSet(S3) /\ S3 # {}
    BY <1>5
  <2> QED
    BY <2>1, <2>2, NarrowedKeys DEF S4
<1>7. /\ S5 # {} /\ S5 \subseteq S4
      /\ \A a, b \in S5 : key[a][5] = key[b][5]
      /\ \A a \in S5 : \A b \in S4 \ S5 : key[a][5] < key[b][5]
  <2>1. \A a \in S4 : key[a][5] \in Int
    BY <1>2, <1>3, <1>4, <1>5, <1>6
  <2>2. IsFiniteSet(S4) /\ S4 # {}
    BY <1>6
  <2> QED
    BY <2>1, <2>2, NarrowedKeys DEF S5
<1>8. S5 \in SUBSET (1..n)
  BY <1>3, <1>4, <1>5, <1>6, <1>7
<1>9. c \in S5 /\ \A d \in S5 : c <= d
  BY <1>7, <1>8, LeastPosition
<1> HIDE DEF c
<1>10. c \in S4 /\ c \in S3 /\ c \in S2 /\ c \in S1 /\ c \in S
  BY <1>3, <1>4, <1>5, <1>6, <1>7, <1>9
<1>11. DOMAIN key[c] = 1..5
  BY <1>10
<1>12. ASSUME NEW d \in S \ {c}
       PROVE  Less(key[c], key[d]) \/ (key[c] = key[d] /\ c < d)
  <2>1. CASE d \notin S1
    <3>1. key[c][1] < key[d][1] /\ 1 \in DOMAIN key[c]
      BY <1>3, <1>10, <1>11, <2>1
    <3> QED
      BY <3>1 DEF Less
  <2>2. CASE d \in S1 /\ d \notin S2
    <3>1. key[c][1] = key[d][1] /\ key[c][2] < key[d][2] /\ 2 \in DOMAIN key[c]
      BY <1>3, <1>4, <1>10, <1>11, <2>2
    <3>2. \A j \in 1..(2 - 1) : key[c][j] = key[d][j]
      BY <3>1
    <3> QED
      BY <3>1, <3>2 DEF Less
  <2>3. CASE d \in S2 /\ d \notin S3
    <3>1. /\ key[c][1] = key[d][1] /\ key[c][2] = key[d][2] /\ key[c][3] < key[d][3]
          /\ 3 \in DOMAIN key[c]
      BY <1>3, <1>4, <1>5, <1>10, <1>11, <2>3
    <3>2. \A j \in 1..(3 - 1) : key[c][j] = key[d][j]
      BY <3>1
    <3> QED
      BY <3>1, <3>2 DEF Less
  <2>4. CASE d \in S3 /\ d \notin S4
    <3>1. /\ key[c][1] = key[d][1] /\ key[c][2] = key[d][2] /\ key[c][3] = key[d][3]
          /\ key[c][4] < key[d][4] /\ 4 \in DOMAIN key[c]
      BY <1>3, <1>4, <1>5, <1>6, <1>10, <1>11, <2>4
    <3>2. \A j \in 1..(4 - 1) : key[c][j] = key[d][j]
      BY <3>1
    <3> QED
      BY <3>1, <3>2 DEF Less
  <2>5. CASE d \in S4 /\ d \notin S5
    <3>1. /\ key[c][1] = key[d][1] /\ key[c][2] = key[d][2] /\ key[c][3] = key[d][3]
          /\ key[c][4] = key[d][4]
      BY <1>3, <1>4, <1>5, <1>6, <1>10, <2>5
    <3>2. key[c][5] < key[d][5] /\ 5 \in DOMAIN key[c]
      BY <1>7, <1>9, <1>11, <2>5
    <3>3. \A j \in 1..(5 - 1) : key[c][j] = key[d][j]
      BY <3>1
    <3> QED
      BY <3>2, <3>3 DEF Less
  <2>6. CASE d \in S5
    <3>1. /\ key[c][1] = key[d][1] /\ key[c][2] = key[d][2] /\ key[c][3] = key[d][3]
          /\ key[c][4] = key[d][4] /\ key[c][5] = key[d][5]
      BY <1>3, <1>4, <1>5, <1>6, <1>7, <1>9, <1>10, <2>6
    <3>2. key[c] = key[d]
      BY <1>10, <3>1
    <3>3. c < d
      BY <1>8, <1>9, <2>6
    <3> QED
      BY <3>2, <3>3
  <2> QED
    BY <2>1, <2>2, <2>3, <2>4, <2>5, <2>6
<1> QED
  BY <1>10, <1>12

\* The matrix of a run that is complete: a row for every pair.
Complete(m) ==
    /\ DOMAIN m = 1..Len(Candidates)
    /\ \A c \in DOMAIN m :
        /\ Listed(m[c]) /\ Len(m[c]) = TargetCount
        /\ \A i \in 1..TargetCount : Numeric(m[c][i])

\* The selection is one of the candidates that qualify, and ahead of every other.
LEMMA SelectedIsFirst ==
    ASSUME NEW m, Complete(m), TargetCount # 0
    PROVE  LET passing == {c \in DOMAIN m : Qualifies(m[c])} IN
           /\ passing = {} => Select(m) = None
           /\ passing # {} =>
                /\ Select(m) \in passing
                /\ \A d \in passing \ {Select(m)} : Ahead(m, Select(m), d)
<1> DEFINE passing == {c \in DOMAIN m : Qualifies(m[c])}
           key == [c \in DOMAIN m |-> TieBreakKey(m[c])]
           First(c) == \A d \in passing \ {c} :
                \/ Less(TieBreakKey(m[c]), TieBreakKey(m[d]))
                \/ TieBreakKey(m[c]) = TieBreakKey(m[d]) /\ c < d
           s == CHOOSE c \in passing : First(c)
<1>1. CASE passing = {}
  BY <1>1 DEF Select
<1>2. CASE passing # {}
  <2>1. \A c \in DOMAIN m :
            /\ TargetsSolved(m[c]) \in Int /\ TwiceBindingDimensions(m[c]) \in Int
            /\ Cardinality(RouteFamilies(m[c])) \in Int
            /\ TwiceDuplicateRate(m[c]) \in Int /\ TwiceCallsToFirst(m[c]) \in Int
    BY RulesCompareNumbers DEF Complete
  <2>2. ASSUME NEW c \in DOMAIN m
        PROVE  /\ key[c] = TieBreakKey(m[c])
               /\ key[c] = <<key[c][1], key[c][2], key[c][3], key[c][4], key[c][5]>>
               /\ \A i \in 1..5 : key[c][i] \in Int
               /\ Merits(m[c]) = <<- key[c][1], - key[c][2], - key[c][3], - key[c][4],
                                   - key[c][5]>>
    BY <2>1 DEF TieBreakKey, Merits
  <2>3. passing \in SUBSET (1..Len(Candidates)) /\ Len(Candidates) \in Nat
    BY QualificationAssumption DEF Complete
  <2>4. \A c \in passing : c \in DOMAIN m
    OBVIOUS
  <2> HIDE DEF key, passing
  <2>5. \E c \in passing : \A d \in passing \ {c} :
                Less(key[c], key[d]) \/ (key[c] = key[d] /\ c < d)
    BY <1>2, <2>2, <2>3, <2>4, OneComesFirst
  <2>6. \E c \in passing : First(c)
    BY <2>2, <2>4, <2>5
  <2>7. s \in passing /\ First(s)
    <3> HIDE DEF First
    <3> QED
      BY <2>6
  <2>8. Select(m) = s
    BY <1>2 DEF Select, passing
  <2> HIDE DEF s
  <2>9. ASSUME NEW d \in passing \ {s}
        PROVE  Ahead(m, s, d)
    <3>1. PICK a, b : a = Merits(m[s]) /\ b = Merits(m[d])
      OBVIOUS
    <3>2. PICK k, l : k = key[s] /\ l = key[d]
      OBVIOUS
    <3>3. /\ k = <<k[1], k[2], k[3], k[4], k[5]>> /\ l = <<l[1], l[2], l[3], l[4], l[5]>>
          /\ a = <<- k[1], - k[2], - k[3], - k[4], - k[5]>>
          /\ b = <<- l[1], - l[2], - l[3], - l[4], - l[5]>>
          /\ \A i \in 1..5 : k[i] \in Int /\ l[i] \in Int
      BY <2>2, <2>4, <2>7, <3>1, <3>2
    <3>4. \A i \in 1..5 : a[i] = - k[i] /\ b[i] = - l[i]
      BY <3>3
    <3>5. DOMAIN k = 1..5
      BY <3>3
    <3>6. Less(k, l) \/ (k = l /\ s < d)
      BY <2>2, <2>4, <2>7, <3>2
    <3>7. CASE k = l /\ s < d
      <4>1. a = b
        BY <3>3, <3>7
      <4> QED
        BY <3>1, <3>7, <4>1 DEF Ahead
    <3>8. CASE Less(k, l)
      <4>1. PICK i \in 1..5 : k[i] < l[i] /\ \A j \in 1..(i - 1) : k[j] = l[j]
        BY <3>5, <3>8 DEF Less
      <4>2. a[i] > b[i]
        BY <3>3, <3>4, <4>1
      <4>3. \A j \in 1..(i - 1) : a[j] = b[j]
        <5> SUFFICES ASSUME NEW j \in 1..(i - 1)
                     PROVE  a[j] = b[j]
          OBVIOUS
        <5>1. j \in 1..5 /\ k[j] = l[j]
          BY <4>1
        <5> QED
          BY <3>4, <5>1
      <4>4. \E e \in 1..5 : a[e] > b[e] /\ \A j \in 1..(e - 1) : a[j] = b[j]
        BY <4>2, <4>3
      <4> QED
        BY <3>1, <4>4 DEF Ahead
    <3> QED
      BY <3>6, <3>7, <3>8
  <2> QED
    BY <1>2, <2>7, <2>8, <2>9 DEF passing
<1> QED
  BY <1>1, <1>2

-----------------------------------------------------------------------------
(* The steps: the pairs in their order.                                    *)

LEMMA CandidatesAreNumbered ==
    Len(Candidates) \in Nat /\ Len(Candidates) # 0 /\ DOMAIN Candidates = 1..Len(Candidates)
BY QualificationAssumption

\* The results so far, with one more for the pair in hand.
LEMMA MatrixFills ==
    ASSUME CorpusInv, MatrixInv, pc = "resealed", ClosePair
    PROVE  MatrixInv' /\ pc' \in Pcs
<1>1. /\ TargetCount \in Nat /\ TargetCount # 0 /\ corpus' = corpus
      /\ Len(Candidates) \in Nat /\ DOMAIN Candidates = 1..Len(Candidates)
      /\ Len(Candidates) # 0
  BY CandidatesAreNumbered DEF CorpusInv, TargetCount, ClosePair
<1>2. /\ at[1] \in 1..Len(Candidates) /\ at[2] \in 1..TargetCount /\ at = <<at[1], at[2]>>
      /\ DOMAIN matrix = 1..Len(Candidates)
      /\ \A c \in 1..Len(Candidates) : Listed(matrix[c])
      /\ \A c \in 1..Len(Candidates) :
            Len(matrix[c]) = IF c < at[1] THEN TargetCount
                             ELSE IF c = at[1] THEN at[2] - 1 ELSE 0
  BY DEF MatrixInv
<1>3. CASE ~ Verifies(Here)
  <2>1. pc' = "crashed" /\ UNCHANGED <<at, matrix, corpus>>
    BY <1>3 DEF ClosePair
  <2> QED
    BY <1>1, <1>2, <2>1 DEF MatrixInv, TargetCount, Pcs
<1>4. CASE Verifies(Here)
  <2> DEFINE more == Append(matrix[at[1]], result)
  <2>1. /\ matrix' = [matrix EXCEPT ![at[1]] = more]
        /\ at' = IF NextPair[1] \in DOMAIN Candidates THEN NextPair ELSE <<1, 1>>
        /\ pc' = IF NextPair[1] \in DOMAIN Candidates THEN "audit" ELSE "publish"
    BY <1>4 DEF ClosePair
  <2>2. Listed(more) /\ Len(more) = at[2]
    <3>1. Listed(more) /\ Len(more) = Len(matrix[at[1]]) + 1
      BY <1>2, AppendedIsListed
    <3> QED
      BY <1>2, <3>1
  <2> HIDE DEF more
  <2>3. /\ DOMAIN matrix' = 1..Len(Candidates)
        /\ \A c \in 1..Len(Candidates) : matrix'[c] = IF c = at[1] THEN more ELSE matrix[c]
        /\ \A c \in 1..Len(Candidates) : Listed(matrix'[c])
    BY <1>2, <2>1, <2>2
  <2>4. \A c \in 1..Len(Candidates) :
            Len(matrix'[c]) = IF c < at[1] THEN TargetCount
                              ELSE IF c = at[1] THEN at[2] ELSE 0
    BY <1>2, <2>2, <2>3
  <2>5. CASE at[2] < TargetCount
    <3>1. at' = <<at[1], at[2] + 1>> /\ pc' = "audit"
      BY <1>1, <1>2, <2>1, <2>5 DEF NextPair
    <3>2. at'[1] = at[1] /\ at'[2] = at[2] + 1 /\ at'[2] \in 1..TargetCount
      BY <1>1, <1>2, <2>5, <3>1
    <3>3. \A c \in 1..Len(Candidates) :
            Len(matrix'[c]) = IF c < at'[1] THEN TargetCount
                              ELSE IF c = at'[1] THEN at'[2] - 1 ELSE 0
      BY <1>2, <2>4, <3>2
    <3> QED
      BY <1>1, <1>2, <2>3, <3>1, <3>2, <3>3 DEF MatrixInv, TargetCount, Pcs
  <2>6. CASE ~ at[2] < TargetCount /\ at[1] + 1 \in DOMAIN Candidates
    <3>1. at' = <<at[1] + 1, 1>> /\ pc' = "audit"
      BY <1>1, <1>2, <2>1, <2>6 DEF NextPair
    <3>2. at'[1] = at[1] + 1 /\ at'[2] = 1 /\ 1 \in 1..TargetCount /\ at[2] = TargetCount
      BY <1>1, <1>2, <2>6, <3>1
    <3>3. \A c \in 1..Len(Candidates) :
            Len(matrix'[c]) = IF c < at'[1] THEN TargetCount
                              ELSE IF c = at'[1] THEN at'[2] - 1 ELSE 0
      BY <1>2, <2>4, <3>2
    <3> QED
      BY <1>1, <2>3, <2>6, <3>1, <3>2, <3>3 DEF MatrixInv, TargetCount, Pcs
  <2>7. CASE ~ at[2] < TargetCount /\ at[1] + 1 \notin DOMAIN Candidates
    <3>1. at' = <<1, 1>> /\ pc' = "publish"
      BY <1>1, <1>2, <2>1, <2>7 DEF NextPair
    <3>2. /\ at'[1] = 1 /\ at'[2] = 1 /\ 1 \in 1..TargetCount /\ 1 \in 1..Len(Candidates)
          /\ at[2] = TargetCount /\ at[1] = Len(Candidates)
      BY <1>1, <1>2, <2>7, <3>1
    <3>3. \A c \in 1..Len(Candidates) : Len(matrix'[c]) = TargetCount
      BY <1>2, <2>4, <3>2
    <3> QED
      BY <1>1, <2>3, <3>1, <3>2, <3>3 DEF MatrixInv, TargetCount, Pcs
  <2> QED
    BY <2>5, <2>6, <2>7
<1> QED
  BY <1>3, <1>4

LEMMA SomeTargets == CorpusInv => TargetCount \in Nat /\ TargetCount # 0
<1>1. CorpusInv => TargetCount \in 1..8
  BY DEF CorpusInv, TargetCount
<1>2. \A n \in 1..8 : n \in Nat /\ n # 0
  OBVIOUS
<1> QED
  BY <1>1, <1>2

\* Every other step leaves them, but for a kill, after which there are none.
LEMMA MatrixStep ==
    ASSUME CorpusInv, MatrixInv, pc \in Pcs, [Next]_vars
    PROVE  CorpusInv' /\ MatrixInv' /\ pc' \in Pcs
<1> USE DEF Pcs
<1>1. corpus' = corpus
  BY DEF Next, vars, Refuse, Start, AuditLeak, StopLoop, CallProvider, Assemble,
      WriteEvidence, HashCore, WriteFinal, ReplayFromDisk, SealPair, VerifyPair, ClosePair,
      WriteMatrix, WriteSelection, WriteGate, WriteReconciliation, SealPublication,
      Publish, VerifyPublication, Kill, Damage
<1>2. CorpusInv'
  BY <1>1 DEF CorpusInv, Listed
<1>4. CASE UNCHANGED <<at, matrix>> /\ pc' \in Pcs
            /\ (pc' \in {"start", "refused", "killed"} => pc \in {"start", "refused", "killed"})
            /\ (pc' \in {"publish", "selection", "gate", "reconciliation", "manifest", "verify",
                         "done"}
                <=> pc \in {"publish", "selection", "gate", "reconciliation", "manifest",
                            "verify", "done"})
  BY <1>1, <1>2, <1>4 DEF MatrixInv, TargetCount
<1>5. CASE Refuse \/ Start \/ AuditLeak \/ StopLoop \/ CallProvider \/ Assemble
            \/ WriteEvidence \/ HashCore \/ WriteFinal \/ ReplayFromDisk \/ SealPair \/ VerifyPair
  BY <1>4, <1>5 DEF Refuse, Start, AuditLeak, StopLoop, CallProvider, EndLoop, Assemble,
      WriteEvidence, HashCore, WriteFinal, ReplayFromDisk, SealPair, VerifyPair
<1>6. CASE WriteMatrix \/ WriteSelection \/ WriteGate \/ WriteReconciliation
            \/ SealPublication \/ VerifyPublication \/ Damage \/ UNCHANGED vars
  BY <1>4, <1>6 DEF WriteMatrix, WriteSelection, WriteGate, WriteReconciliation,
      SealPublication, Publish, VerifyPublication, Damage, vars
<1>7. CASE ClosePair
  BY <1>2, <1>7, MatrixFills DEF ClosePair
<1>8. CASE Kill
  <2>1. /\ pc' = "killed" /\ at' = <<1, 1>>
        /\ matrix' = [c \in 1..Len(Candidates) |-> <<>>]
    BY <1>8, CandidatesAreNumbered DEF Kill
  <2>2. TargetCount \in Nat /\ TargetCount # 0
    BY SomeTargets
  <2>3. Listed(<<>>) /\ Len(<<>>) = 0
    BY DEF Listed
  <2>4. \A c \in 1..Len(Candidates) : Listed(matrix'[c]) /\ Len(matrix'[c]) = 0
    BY <2>1, <2>3
  <2>5. at'[1] = 1 /\ at'[2] = 1 /\ 1 \in 1..TargetCount /\ 1 \in 1..Len(Candidates)
    BY <2>1, <2>2, CandidatesAreNumbered
  <2>6. \A c \in 1..Len(Candidates) :
            Len(matrix'[c]) = IF c < at'[1] THEN TargetCount
                              ELSE IF c = at'[1] THEN at'[2] - 1 ELSE 0
    BY <2>4, <2>5
  <2> QED
    BY <1>1, <1>2, <2>1, <2>4, <2>5, <2>6 DEF MatrixInv, TargetCount
<1> QED
  BY <1>2, <1>5, <1>6, <1>7, <1>8 DEF Next

\* Damage is counted, and recorded where it was done.
LEMMA FaultsStep ==
    ASSUME IsFiniteSet(faults), Cardinality(faults) <= MaxFaults, [Next]_vars
    PROVE  IsFiniteSet(faults)' /\ (Cardinality(faults) <= MaxFaults)'
<1>1. CASE Damage
  <2>1. PICK f : faults' = faults \cup {[at |-> pc, file |-> f]}
    BY <1>1 DEF Damage
  <2>2. PICK e : faults' = faults \cup {e}
    BY <2>1
  <2>3. Cardinality(faults) \in Nat /\ Cardinality(faults) < MaxFaults /\ MaxFaults \in Nat
    BY <1>1, FS_CardinalityType, QualificationAssumption DEF Damage
  <2>4. /\ IsFiniteSet(faults')
        /\ Cardinality(faults') = IF e \in faults THEN Cardinality(faults)
                                  ELSE Cardinality(faults) + 1
    BY <2>2, FS_AddElement
  <2> QED
    BY <2>3, <2>4
<1>2. CASE UNCHANGED faults
  BY <1>2
<1> QED
  BY <1>1, <1>2 DEF Next, vars, Refuse, Start, AuditLeak, StopLoop, CallProvider, Assemble,
      WriteEvidence, HashCore, WriteFinal, ReplayFromDisk, SealPair, VerifyPair, ClosePair,
      WriteMatrix, WriteSelection, WriteGate, WriteReconciliation, SealPublication,
      Publish, VerifyPublication, Kill

-----------------------------------------------------------------------------
(* The steps: the session.                                                 *)

LEMMA SessionStep ==
    ASSUME CorpusInv, MatrixInv, SessionInv, pc \in Pcs, [Next]_vars
    PROVE  SessionInv'
<1> USE DEF Pcs
<1>1. corpus' = corpus
  BY DEF Next, vars, Refuse, Start, AuditLeak, StopLoop, CallProvider, Assemble,
      WriteEvidence, HashCore, WriteFinal, ReplayFromDisk, SealPair, VerifyPair, ClosePair,
      WriteMatrix, WriteSelection, WriteGate, WriteReconciliation, SealPublication,
      Publish, VerifyPublication, Kill, Damage
<1>2. CASE AuditLeak
  <2>1. Target' = Target
    BY <1>1, <1>2 DEF AuditLeak, Target
  <2> DEFINE status == AuditPair(PromptTokens[Candidates[at[1]]], Target)
             stopped == [NewSession EXCEPT !.leak = status, !.terminal = TRUE,
                            !.stop = "LEAK_AUDIT_FAILED"]
  <2>2. SessionOf(NewSession, Target) /\ SessionOf(stopped, Target)
    BY NewSessionIsOne
  <2>3. NewSession.leak = "PASS"
    BY DEF NewSession
  <2>4. \/ pc' = "loop" /\ session' = NewSession
        \/ pc' = "assemble" /\ session' = stopped
    BY <1>2 DEF AuditLeak
  <2> HIDE DEF stopped, status
  <2> QED
    BY <2>1, <2>2, <2>3, <2>4 DEF SessionInv
<1>3. CASE StopLoop
  <2>1. Target' = Target
    BY <1>1, <1>3 DEF StopLoop, Target
  <2>2. PICK why : session' = [session EXCEPT !.stop = why]
    BY <1>3 DEF StopLoop, EndLoop
  <2>3. pc = "loop" /\ pc' = "assemble" /\ SessionOf(session, Target)
    BY <1>3 DEF StopLoop, EndLoop, SessionInv
  <2>4. DOMAIN session = SessionFields /\ DOMAIN NewSession = SessionFields
    BY <2>3 DEF SessionOf, NewSession, SessionFields
  <2>5. /\ DOMAIN session' = SessionFields /\ session'.calls = session.calls
        /\ session'.invalid = session.invalid /\ session'.attempts = session.attempts
        /\ session'.rows = session.rows /\ session'.commits = session.commits
        /\ session'.telemetry = session.telemetry /\ session'.first = session.first
        /\ session'.leak = session.leak /\ session'.terminal = session.terminal
    BY <2>2, <2>4 DEF SessionFields
  <2>6. SessionOf(session', Target)
    BY <2>3, <2>4, <2>5 DEF SessionOf
  <2> QED
    BY <2>1, <2>3, <2>6 DEF SessionInv
<1>4. CASE CallProvider
  <2>1. Target' = Target
    BY <1>1, <1>4 DEF CallProvider, Target
  <2>2. /\ SpentBudget = None /\ pc = "loop" /\ SessionOf(session, Target)
        /\ session.leak = "PASS"
    BY <1>4 DEF CallProvider, SessionInv
  <2>3. PICK answer :
            \/ EndLoop([Asked(answer) EXCEPT !.terminal = TRUE, !.stop = ProviderFails])
            \/ session' = [Asked(answer) EXCEPT !.invalid = @ + 1] /\ UNCHANGED pc
            \/ EndLoop([Asked(answer) EXCEPT !.invalid = 0, !.stop = Stop])
            \/ session' = Submitted(Asked(answer), answer) /\ UNCHANGED pc
    BY <1>4 DEF CallProvider
  <2> DEFINE s == Asked(answer)
  <2>4. /\ SessionOf([s EXCEPT !.terminal = TRUE, !.stop = ProviderFails], Target)
        /\ SessionOf([s EXCEPT !.invalid = @ + 1], Target)
        /\ [s EXCEPT !.invalid = @ + 1].leak = "PASS"
        /\ SessionOf([s EXCEPT !.invalid = 0, !.stop = Stop], Target)
    BY <2>2, AskedSession
  <2>5. /\ SessionOf(Submitted(s, answer), Target)
        /\ Submitted(s, answer).leak = "PASS"
    BY <2>2, SubmittedSession
  <2>6. SessionOf(session', Target) /\ pc' \in {"loop", "assemble"}
        /\ (pc' = "loop" => session'.leak = "PASS")
    BY <2>2, <2>3, <2>4, <2>5 DEF EndLoop
  <2> QED
    BY <2>1, <2>6 DEF SessionInv
<1>5. CASE Assemble
  <2>1. /\ Target' = Target /\ session' = session /\ SessionOf(session, Target)
        /\ pc' \in {"crashed", "evidence"}
        /\ pc' = "evidence" =>
            \A i \in DOMAIN session.rows : session.rows[i].action # NotAnObject
    BY <1>1, <1>5 DEF Assemble, Target, SessionInv
  <2> QED
    BY <2>1 DEF SessionInv
<1>6. CASE WriteEvidence
  BY <1>6 DEF WriteEvidence, SessionInv
<1>7. CASE Kill
  BY <1>7 DEF Kill, SessionInv
<1>8. CASE UNCHANGED <<pc, session, at>>
  BY <1>1, <1>8 DEF SessionInv, Target
<1>9. CASE /\ session' = session
           /\ pc \notin {"loop", "assemble", "evidence", "crashed"}
           /\ pc' \notin {"loop", "assemble", "evidence"}
  BY <1>9 DEF SessionInv
<1>10. CASE Refuse \/ Start \/ HashCore \/ WriteFinal \/ ReplayFromDisk \/ SealPair \/ VerifyPair
            \/ ClosePair
  BY <1>9, <1>10 DEF Refuse, Start, HashCore, WriteFinal, ReplayFromDisk, SealPair, VerifyPair,
      ClosePair
<1>11. CASE WriteMatrix \/ WriteSelection \/ WriteGate \/ WriteReconciliation
            \/ SealPublication \/ VerifyPublication
  BY <1>9, <1>11 DEF WriteMatrix, WriteSelection, WriteGate, WriteReconciliation,
      SealPublication, Publish, VerifyPublication
<1>12. CASE Damage \/ UNCHANGED vars
  BY <1>8, <1>12 DEF Damage, vars
<1> QED
  BY <1>2, <1>3, <1>4, <1>5, <1>6, <1>7, <1>10, <1>11, <1>12 DEF Next

-----------------------------------------------------------------------------
(* The steps: the files.                                                   *)

\* A step leaves a file alone.
Same(file) ==
    /\ file \in DOMAIN disk' <=> file \in DOMAIN disk
    /\ file \in DOMAIN disk => disk'[file] = disk[file]

LEMMA PutLeavesTheRest ==
    ASSUME NEW file, NEW content, PutFile(file, content)
    PROVE  /\ file \in DOMAIN disk' /\ disk'[file] = Whole(content)
           /\ DOMAIN disk' = DOMAIN disk \cup {file}
           /\ \A f : f # file => Same(f)
BY DEF PutFile, Same

\* The evidence of a pair whose files are left alone.
LEMMA UntouchedEvidence ==
    ASSUME NEW c, NEW i, \A n \in EvidenceFiles : Same(<<"adjudicator", c, i, n>>)
    PROVE  /\ Kept(c, i)' <=> Kept(c, i)
           /\ Kept(c, i) => \A n \in EvidenceFiles : PairFile(c, i, n)' = PairFile(c, i, n)
BY DEF Same, Kept, PairFile

LEMMA UntouchedTelling ==
    ASSUME NEW c, NEW i, \A n \in EvidenceFiles : Same(<<"adjudicator", c, i, n>>),
           corpus' = corpus, Kept(c, i)
    PROVE  /\ \A row : Backed(c, i, row) => Backed(c, i, row)'
           /\ AttributableIn(c, i)' <=> AttributableIn(c, i)
<1>1. /\ PairFile(c, i, "attempts")' = PairFile(c, i, "attempts")
      /\ PairFile(c, i, "adjudicator-evidence")' = PairFile(c, i, "adjudicator-evidence")
      /\ PairFile(c, i, "runtime-facts")' = PairFile(c, i, "runtime-facts")
      /\ PairFile(c, i, "leak-audit")' = PairFile(c, i, "leak-audit")
  BY UntouchedEvidence DEF EvidenceFiles
<1>2. ASSUME NEW row, Backed(c, i, row)
      PROVE  Backed(c, i, row)'
  BY <1>1, <1>2 DEF Backed
<1>3. AttributableIn(c, i)' <=> AttributableIn(c, i)
  BY <1>1 DEF AttributableIn
<1> QED
  BY <1>2, <1>3

\* A sealed directory whose files are left alone.
LEMMA UntouchedSeal ==
    ASSUME NEW place, \A n \in DocumentNames \cup {Sums} : Same(In(place, n))
    PROVE  /\ SumsOf(place)' = SumsOf(place)
           /\ Verifies(place)' <=> Verifies(place)
<1>1. Names(place)' = Names(place)
  BY DEF Same, Names
<1>2. SumsOf(place)' = SumsOf(place)
  BY <1>1 DEF Same, SumsOf, Names
<1>3. Verifies(place)' <=> Verifies(place)
  BY <1>2 DEF Verifies, Same
<1> QED
  BY <1>2, <1>3

\* Evidence that is left alone, with what is known of it.
LEMMA UntouchedGathered ==
    ASSUME NEW c, NEW i, corpus' = corpus,
           \A n \in EvidenceFiles : Same(<<"adjudicator", c, i, n>>)
    PROVE  /\ \A row : Gathered(c, i, row) => Gathered(c, i, row)'
           /\ \A x : Matching(c, i, x) => Matching(c, i, x)'
<1>1. Kept(c, i)' <=> Kept(c, i)
  BY UntouchedEvidence
<1>2. Kept(c, i) => /\ \A row : Backed(c, i, row) => Backed(c, i, row)'
                    /\ AttributableIn(c, i)' <=> AttributableIn(c, i)
  BY UntouchedTelling
<1>3. Accounted(c, i) => Accounted(c, i)'
  BY DEF Accounted, Same
<1> QED
  BY <1>1, <1>2, <1>3 DEF Gathered, Matching

\* No damage is recorded of the files of a pair.
SameStrikes(c, i) ==
    \A points : \A names \in SUBSET Files :
        Struck(c, i, points, names)' <=> Struck(c, i, points, names)

LEMMA UntouchedPair ==
    ASSUME NEW c, NEW i, NEW row, Settled(c, i, row), corpus' = corpus, SameStrikes(c, i),
           \A n \in Files : Same(<<"adjudicator", c, i, n>>)
    PROVE  Settled(c, i, row)'
<1>1. \A n \in EvidenceFiles : Same(<<"adjudicator", c, i, n>>)
  BY DEF Files, DocumentNames
<1>2. /\ Gathered(c, i, row)'
      /\ \A x : Matching(c, i, x) => Matching(c, i, x)'
  BY <1>1, UntouchedGathered DEF Settled
<1>3. /\ Files \in SUBSET Files /\ EvidenceFiles \in SUBSET Files
      /\ DocumentNames \cup {Sums} = Files
  BY DEF Files, DocumentNames
<1>4. /\ Verdict(c, i)' = Verdict(c, i)
      /\ Struck(c, i, {"resealed"}, Files)' <=> Struck(c, i, {"resealed"}, Files)
      /\ Struck(c, i, {"verify"}, Files)' <=> Struck(c, i, {"verify"}, Files)
  BY <1>3 DEF SameStrikes, Verdict, Caught
<1>5. Verifies(<<"adjudicator", c, i>>)' <=> Verifies(<<"adjudicator", c, i>>)
  <2> DEFINE place == <<"adjudicator", c, i>>
  <2>1. \A n : In(place, n) = <<"adjudicator", c, i, n>>
    BY DEF In
  <2> HIDE DEF place
  <2>2. Verifies(place)' <=> Verifies(place)
    BY <1>3, <2>1, UntouchedSeal
  <2> QED
    BY <2>2 DEF place
<1> QED
  BY <1>2, <1>4, <1>5 DEF Settled

\* A whole file is neither damaged nor of an earlier run.
LEMMA ThreeStates ==
    /\ \A x : Whole(x) # Damaged /\ Whole(x) # Earlier
    /\ \A x, y : Whole(x) = Whole(y) => x = y
    /\ Damaged # Earlier /\ Earlier.state # "whole" /\ Damaged.state # "whole"
BY DEF Whole, Damaged, Earlier

LEMMA WholeIsRead == \A x : Whole(x).state = "whole" /\ Whole(x).content = x
BY DEF Whole

\* What damage does: one file, recorded with the point the command stands at.
Damages(f) ==
    /\ f \in DOMAIN disk /\ disk[f] \notin {Damaged, Earlier}
    /\ DOMAIN disk' = DOMAIN disk /\ disk'[f] = Damaged
    /\ \A g : g # f => Same(g)
    /\ faults' = faults \cup {[at |-> pc, file |-> f]}

LEMMA DamageDone ==
    ASSUME Damage
    PROVE  /\ UNCHANGED <<corpus, pc, at, session, result, matrix>>
           /\ \E f : /\ Damages(f)
                     /\ pc = "verify" \/ (InPair /\ \E n \in Files : f = File(n))
<1>1. PICK f \in DOMAIN disk :
        /\ \/ pc = "verify"
           \/ InPair /\ f \in {File(n) : n \in DocumentNames \cup {Sums}}
        /\ disk[f] \notin {Damaged, Earlier}
        /\ disk' = [disk EXCEPT ![f] = Damaged]
        /\ faults' = faults \cup {[at |-> pc, file |-> f]}
  BY DEF Damage
<1>2. Damages(f)
  BY <1>1 DEF Damages, Same
<1> QED
  BY <1>1, <1>2 DEF Damage, Files

LEMMA StruckOnce ==
    ASSUME NEW f, Damages(f)
    PROVE  \A c, i, points, names :
                Struck(c, i, points, names)' <=>
                    \/ Struck(c, i, points, names)
                    \/ pc \in points /\ \E n \in names : f = <<"adjudicator", c, i, n>>
<1>1. PICK e : e = [at |-> pc, file |-> f]
  OBVIOUS
<1>2. faults' = faults \cup {e} /\ e.at = pc /\ e.file = f
  BY <1>1 DEF Damages
<1> QED
  BY <1>2 DEF Struck

\* A damaged file is no evidence any more.
LEMMA DamagedEvidence ==
    ASSUME NEW c, NEW i, corpus' = corpus, NEW f, Damages(f)
    PROVE  /\ \A row : Gathered(c, i, row) => Gathered(c, i, row)'
           /\ \A x : Matching(c, i, x) => Matching(c, i, x)'
<1>1. ASSUME Kept(c, i)'
      PROVE  /\ Kept(c, i) /\ (AttributableIn(c, i)' <=> AttributableIn(c, i))
             /\ \A row : Backed(c, i, row) => Backed(c, i, row)'
  <2>1. \A n \in EvidenceFiles : f # <<"adjudicator", c, i, n>>
    BY <1>1, ThreeStates DEF Kept, Damages
  <2>2. \A n \in EvidenceFiles : Same(<<"adjudicator", c, i, n>>)
    BY <2>1 DEF Damages
  <2>3. Kept(c, i)
    BY <1>1, <2>2, UntouchedEvidence
  <2> QED
    BY <2>2, <2>3, UntouchedTelling
<1>2. Accounted(c, i) => Accounted(c, i)'
  BY DEF Accounted, Damages, Same
<1> QED
  BY <1>1, <1>2 DEF Gathered, Matching

\* The pair in hand has no result in the matrix yet.
LEMMA NotYetInTheMatrix ==
    ASSUME MatrixInv, InPair, NEW c \in 1..Len(Candidates), NEW i \in 1..Len(matrix[c])
    PROVE  c # at[1] \/ i # at[2]
<1>1. Len(matrix[c]) = IF c < at[1] THEN TargetCount ELSE IF c = at[1] THEN at[2] - 1 ELSE 0
  BY DEF MatrixInv, InPair
<1>2. at[1] \in Int /\ at[2] \in Int
  BY DEF MatrixInv
<1> QED
  BY <1>1, <1>2

\* The files of the pair in hand are no other pair's.
LEMMA OtherFiles ==
    ASSUME MatrixInv, InPair,
           \A f : (\A n \in Files : f # File(n)) => Same(f)
    PROVE  \A c \in 1..Len(Candidates) : \A i \in 1..Len(matrix[c]) :
                \A n \in Files : Same(<<"adjudicator", c, i, n>>)
<1> SUFFICES ASSUME NEW c \in 1..Len(Candidates), NEW i \in 1..Len(matrix[c]),
                    NEW n \in Files
             PROVE  Same(<<"adjudicator", c, i, n>>)
  OBVIOUS
<1>1. c # at[1] \/ i # at[2]
  BY NotYetInTheMatrix
<1>2. \A m \in Files : <<"adjudicator", c, i, n>> # File(m)
  BY <1>1 DEF File
<1> QED
  BY <1>2

\* The steps of a pair write the files of the pair in hand only.
LEMMA PairFilesOnly ==
    ASSUME WriteEvidence \/ WriteFinal \/ ReplayFromDisk \/ SealPair \/ VerifyPair
    PROVE  /\ InPair
           /\ \A f : (\A n \in Files : f # File(n)) => Same(f)
<1>1. CASE WriteEvidence
  <2> DEFINE written == {File(n) : n \in EvidenceFiles}
  <2>1. disk' = [f \in DOMAIN disk \cup written |->
                    IF f \in written THEN Whole(Evidence[f[4]]) ELSE disk[f]]
    BY <1>1 DEF WriteEvidence
  <2>2. \A f : (\A n \in Files : f # File(n)) => f \notin written
    BY DEF Files, DocumentNames
  <2> HIDE DEF written
  <2>3. \A f : f \notin written => Same(f)
    BY <2>1 DEF Same
  <2> QED
    BY <1>1, <2>2, <2>3 DEF WriteEvidence, InPair
<1>2. ASSUME NEW name \in Files, NEW content, PutFile(File(name), content)
      PROVE  \A f : (\A n \in Files : f # File(n)) => Same(f)
  BY <1>2, PutLeavesTheRest
<1>3. CASE WriteFinal
  BY <1>2, <1>3 DEF WriteFinal, InPair, Files, DocumentNames
<1>4. CASE ReplayFromDisk
  <2>1. CASE UNCHANGED disk
    BY <1>4, <2>1 DEF ReplayFromDisk, InPair, Same
  <2>2. CASE \E content : PutFile(File("replay-result"), content)
    BY <1>2, <1>4, <2>2 DEF ReplayFromDisk, InPair, Files, DocumentNames
  <2> QED
    BY <1>4, <2>1, <2>2 DEF ReplayFromDisk
<1>5. CASE SealPair
  BY <1>2, <1>5 DEF SealPair, InPair, Files
<1>6. CASE VerifyPair
  BY <1>2, <1>6 DEF VerifyPair, InPair, Files, DocumentNames
<1> QED
  BY <1>1, <1>3, <1>4, <1>5, <1>6

\* The steps of the publication write no file of a pair.
LEMMA PublicationFilesOnly ==
    ASSUME WriteMatrix \/ WriteSelection \/ WriteGate \/ WriteReconciliation \/ SealPublication
    PROVE  \A c, i, n : Same(<<"adjudicator", c, i, n>>)
<1>1. PICK file, content : /\ PutFile(file, content)
                           /\ \E n : file = Published(n) \/ file = Out(n)
  BY DEF WriteMatrix, WriteSelection, WriteGate, WriteReconciliation, SealPublication, Publish
<1>2. \A c, i, n : <<"adjudicator", c, i, n>> # file
  BY <1>1 DEF Published, Out
<1>3. \A f : f # file => Same(f)
  BY <1>1, PutLeavesTheRest
<1> QED
  BY <1>2, <1>3

-----------------------------------------------------------------------------
(* The steps: the pairs that are done.                                     *)

\* A seal over a file that was damaged since does not verify.
LEMMA BrokenSealFails ==
    ASSUME NEW place, SealBroken(place)
    PROVE  ~ Verifies(place)
<1> SUFFICES ASSUME Verifies(place)
             PROVE  FALSE
  OBVIOUS
<1>1. disk[In(place, Sums)] = Whole(SumsOf(place))
  BY DEF Verifies
<1>2. disk[In(place, Sums)].content = SumsOf(place)
  BY <1>1, WholeIsRead
<1>3. PICK n \in DOMAIN SumsOf(place) :
        disk[In(place, n)] = Damaged /\ SumsOf(place)[n] # Damaged
  BY <1>1, <1>2, ThreeStates DEF SealBroken
<1> QED
  BY <1>3 DEF SumsOf

\* The pair in hand is done when its last seal verifies.
LEMMA ClosedPair ==
    ASSUME HandInv, DigestsInv, pc = "resealed", Verifies(Here)
    PROVE  Settled(at[1], at[2], result)
<1>1. ~ Struck(at[1], at[2], {"resealed"}, Files)
  BY BrokenSealFails DEF DigestsInv
<1> QED
  BY <1>1 DEF HandInv, DigestsInv, InHand, Settled, Here

LEMMA PairsStep ==
    ASSUME CorpusInv, MatrixInv, PairsInv, HandInv, DigestsInv, pc \in Pcs, [Next]_vars
    PROVE  PairsInv'
<1> DEFINE Others == \A c \in 1..Len(Candidates) : \A i \in 1..Len(matrix[c]) :
                        \A n \in Files : Same(<<"adjudicator", c, i, n>>)
<1>1. corpus' = corpus
  BY DEF Next, vars, Refuse, Start, AuditLeak, StopLoop, CallProvider, Assemble,
      WriteEvidence, HashCore, WriteFinal, ReplayFromDisk, SealPair, VerifyPair, ClosePair,
      WriteMatrix, WriteSelection, WriteGate, WriteReconciliation, SealPublication,
      Publish, VerifyPublication, Kill, Damage
<1>2. ASSUME \A c \in 1..Len(Candidates) : \A i \in 1..Len(matrix'[c]) :
                \A row : row = matrix'[c][i] => Settled(c, i, row)'
      PROVE  PairsInv'
  BY <1>2 DEF PairsInv
<1>3. ASSUME UNCHANGED <<matrix, faults>>, Others
      PROVE  PairsInv'
  <2>1. ASSUME NEW c \in 1..Len(Candidates), NEW i \in 1..Len(matrix'[c]),
               NEW row, row = matrix'[c][i]
        PROVE  Settled(c, i, row)'
    <3>1. Settled(c, i, row)
      BY <1>3, <2>1 DEF PairsInv
    <3>2. \A n \in Files : Same(<<"adjudicator", c, i, n>>)
      BY <1>3
    <3>3. SameStrikes(c, i)
      BY <1>3 DEF SameStrikes, Struck
    <3> QED
      BY <1>1, <3>1, <3>2, <3>3, UntouchedPair
  <2> QED
    BY <1>2, <2>1
<1>4. CASE UNCHANGED <<matrix, faults, disk>>
  <2>1. Others
    BY <1>4 DEF Same
  <2> QED
    BY <1>3, <1>4, <2>1
<1>5. CASE Refuse \/ Start \/ AuditLeak \/ StopLoop \/ CallProvider \/ Assemble \/ HashCore
            \/ VerifyPublication \/ UNCHANGED vars
  BY <1>4, <1>5 DEF Refuse, Start, AuditLeak, StopLoop, CallProvider, Assemble, HashCore,
      VerifyPublication, vars
<1>6. CASE WriteEvidence \/ WriteFinal \/ ReplayFromDisk \/ SealPair \/ VerifyPair
  <2>1. Others
    <3> HIDE DEF Others
    <3>1. /\ InPair
          /\ \A f : (\A n \in Files : f # File(n)) => Same(f)
      BY <1>6, PairFilesOnly
    <3> QED
      BY <3>1, OtherFiles DEF Others
  <2>2. UNCHANGED <<matrix, faults>>
    BY <1>6 DEF WriteEvidence, WriteFinal, ReplayFromDisk, SealPair, VerifyPair
  <2> QED
    BY <1>3, <2>1, <2>2
<1>7. CASE WriteMatrix \/ WriteSelection \/ WriteGate \/ WriteReconciliation \/ SealPublication
  <2>1. Others
    BY <1>7, PublicationFilesOnly
  <2>2. UNCHANGED <<matrix, faults>>
    BY <1>7 DEF WriteMatrix, WriteSelection, WriteGate, WriteReconciliation, SealPublication,
        Publish
  <2> QED
    BY <1>3, <2>1, <2>2
<1>8. CASE Damage
  <2>1. PICK f : /\ Damages(f)
                 /\ pc = "verify" \/ (InPair /\ \E n \in Files : f = File(n))
    BY <1>8, DamageDone
  <2>2. matrix' = matrix /\ pc' = pc
    BY <1>8, DamageDone
  <2>3. ASSUME NEW c \in 1..Len(Candidates), NEW i \in 1..Len(matrix'[c]),
               NEW row, row = matrix'[c][i]
        PROVE  Settled(c, i, row)'
    <3>1. Settled(c, i, row)
      BY <2>2, <2>3 DEF PairsInv
    <3>2. CASE \A n \in Files : f # <<"adjudicator", c, i, n>>
      <4>1. SameStrikes(c, i)
        BY <2>1, <3>2, StruckOnce DEF SameStrikes
      <4>2. \A n \in Files : Same(<<"adjudicator", c, i, n>>)
        BY <2>1, <3>2 DEF Damages
      <4> QED
        BY <1>1, <3>1, <4>1, <4>2, UntouchedPair
    <3>3. CASE \E n \in Files : f = <<"adjudicator", c, i, n>>
      <4>1. pc = "verify"
        <5> SUFFICES ASSUME pc # "verify"
                     PROVE  FALSE
          OBVIOUS
        <5>1. c # at[1] \/ i # at[2]
          BY <2>1, <2>2, NotYetInTheMatrix
        <5> QED
          BY <2>1, <3>3, <5>1 DEF File
      <4>2. Struck(c, i, {"verify"}, Files)'
        BY <2>1, <3>3, <4>1, StruckOnce
      <4>3. \A points, names : "verify" \notin points =>
                (Struck(c, i, points, names)' <=> Struck(c, i, points, names))
        BY <2>1, <4>1, StruckOnce
      <4>4. /\ Struck(c, i, {"resealed"}, Files)' <=> Struck(c, i, {"resealed"}, Files)
            /\ Verdict(c, i)' = Verdict(c, i)
        BY <4>3 DEF Verdict, Caught
      <4>5. Gathered(c, i, row)' /\ Matching(c, i, row.replay_matches_final)'
        <5>1. PICK x : x = row.replay_matches_final
          OBVIOUS
        <5>2. Gathered(c, i, row) /\ Matching(c, i, x)
          BY <3>1, <5>1 DEF Settled
        <5> QED
          BY <1>1, <2>1, <5>1, <5>2, DamagedEvidence
      <4> QED
        BY <3>1, <4>2, <4>4, <4>5 DEF Settled
    <3> QED
      BY <3>2, <3>3
  <2> QED
    BY <1>2, <2>3
<1>9. CASE Kill
  <2>1. \A c \in 1..Len(Candidates) : matrix'[c] = <<>> /\ Len(<<>>) = 0
    BY <1>9, CandidatesAreNumbered DEF Kill
  <2>2. \A c \in 1..Len(Candidates) : 1..Len(matrix'[c]) = {}
    BY <2>1
  <2> QED
    BY <2>2 DEF PairsInv
<1>10. CASE ClosePair
  <2>1. CASE ~ Verifies(Here)
    BY <1>4, <1>10, <2>1 DEF ClosePair
  <2>2. CASE Verifies(Here)
    <3>1. /\ pc = "resealed" /\ matrix' = [matrix EXCEPT ![at[1]] = Append(@, result)]
          /\ UNCHANGED <<disk, faults>>
      BY <1>10, <2>2 DEF ClosePair
    <3>2. Settled(at[1], at[2], result)
      BY <2>2, <3>1, ClosedPair
    <3>3. /\ at[1] \in DOMAIN matrix /\ DOMAIN matrix = 1..Len(Candidates)
          /\ Listed(matrix[at[1]]) /\ Len(matrix[at[1]]) = at[2] - 1 /\ at[2] \in Int
      BY <3>1 DEF MatrixInv
    <3>4. ASSUME NEW c \in 1..Len(Candidates), NEW i \in 1..Len(matrix'[c]),
                 NEW row, row = matrix'[c][i]
          PROVE  Settled(c, i, row)'
      <4>1. Settled(c, i, row)
        <5>1. CASE c # at[1]
          <6>1. matrix'[c] = matrix[c]
            BY <3>1, <3>3, <5>1
          <6> QED
            BY <3>4, <6>1 DEF PairsInv
        <5>2. CASE c = at[1]
          <6>1. matrix'[c] = Append(matrix[c], result)
            BY <3>1, <3>3, <5>2
          <6>2. /\ Len(matrix'[c]) = Len(matrix[c]) + 1
                /\ \A k \in 1..Len(matrix[c]) : matrix'[c][k] = matrix[c][k]
                /\ matrix'[c][Len(matrix[c]) + 1] = result
            BY <3>3, <5>2, <6>1, AppendedIsListed
          <6>3. i = at[2] \/ i \in 1..Len(matrix[c])
            BY <3>3, <5>2, <6>2
          <6>4. CASE i = at[2]
            BY <3>2, <3>3, <3>4, <5>2, <6>2, <6>4
          <6>5. CASE i \in 1..Len(matrix[c])
            BY <3>4, <6>2, <6>5 DEF PairsInv
          <6> QED
            BY <6>3, <6>4, <6>5
        <5> QED
          BY <5>1, <5>2
      <4>2. \A n \in Files : Same(<<"adjudicator", c, i, n>>)
        BY <3>1 DEF Same
      <4>3. SameStrikes(c, i)
        BY <3>1 DEF SameStrikes, Struck
      <4> QED
        BY <1>1, <4>1, <4>2, <4>3, UntouchedPair
    <3> QED
      BY <1>2, <3>4
  <2> QED
    BY <2>1, <2>2
<1> QED
  BY <1>5, <1>6, <1>7, <1>8, <1>9, <1>10 DEF Next

-----------------------------------------------------------------------------
(* The steps: what was struck.                                             *)

LEMMA FewerStruck ==
    ASSUME NEW c, NEW i, NEW some, NEW points, some \subseteq points, ~ Struck(c, i, points, Files)
    PROVE  ~ Struck(c, i, some, Files) /\ ~ Struck(c, i, some, EvidenceFiles)
BY DEF Struck, Files, DocumentNames

LEMMA StrikesStep ==
    ASSUME MatrixInv, MatrixInv', StrikesInv, corpus' = corpus, pc \in Pcs, [Next]_vars
    PROVE  StrikesInv'
<1> USE DEF Pcs
<1>1. TargetCount' = TargetCount
  BY DEF TargetCount
<1>2. ASSUME ~ InPair', pc' # "start"
      PROVE  StrikesInv'
  BY <1>2 DEF StrikesInv
<1>3. ASSUME InPair, UNCHANGED <<at, matrix, faults>>, ToCome' \subseteq ToCome, pc' # "start"
      PROVE  StrikesInv'
  BY <1>1, <1>3 DEF StrikesInv, Struck
<1>4. CASE Start
  <2>1. faults' = {} /\ pc' # "start"
    BY <1>4 DEF Start, StrikesInv
  <2> QED
    BY <2>1 DEF StrikesInv, Struck
<1>5. CASE AuditLeak \/ StopLoop \/ CallProvider \/ Assemble \/ WriteEvidence \/ HashCore
            \/ WriteFinal \/ ReplayFromDisk \/ SealPair \/ VerifyPair
  <2>1. /\ InPair /\ UNCHANGED <<at, matrix, faults>> /\ pc' # "start"
        /\ \/ pc' = pc \/ pc' = "crashed"
           \/ pc' \in {"loop", "assemble", "evidence", "core"}
                /\ pc \in {"audit", "loop", "assemble", "evidence"}
           \/ pc = "core" /\ pc' = "final"
           \/ pc = "final" /\ pc' = "replay"
           \/ pc = "replay" /\ pc' = "seal"
           \/ pc = "seal" /\ pc' = "sealed"
           \/ pc = "sealed" /\ pc' = "reseal"
           \/ pc = "reseal" /\ pc' = "resealed"
    BY <1>5 DEF AuditLeak, StopLoop, CallProvider, EndLoop, Assemble, WriteEvidence, HashCore,
        WriteFinal, ReplayFromDisk, SealPair, VerifyPair, InPair
  <2>2. CASE pc' = "crashed"
    BY <1>2, <2>2 DEF InPair
  <2>3. CASE pc' # "crashed"
    <3>1. ToCome' \subseteq ToCome
      BY <2>1, <2>3 DEF ToCome, Points
    <3> QED
      BY <1>3, <2>1, <3>1
  <2> QED
    BY <2>2, <2>3
<1>6. CASE Refuse \/ Kill \/ WriteMatrix \/ WriteSelection \/ WriteGate \/ WriteReconciliation
            \/ SealPublication \/ VerifyPublication
  <2>1. ~ InPair' /\ pc' # "start"
    BY <1>6 DEF Refuse, Kill, WriteMatrix, WriteSelection, WriteGate, WriteReconciliation,
        SealPublication, Publish, VerifyPublication, InPair
  <2> QED
    BY <1>2, <2>1
<1>7. CASE ClosePair
  <2>1. CASE pc' # "audit"
    <3>1. ~ InPair' /\ pc' # "start"
      BY <1>7, <2>1 DEF ClosePair, InPair
    <3> QED
      BY <1>2, <3>1
  <2>2. CASE pc' = "audit"
    <3>1. /\ pc = "resealed" /\ matrix' = [matrix EXCEPT ![at[1]] = Append(@, result)]
          /\ faults' = faults /\ InPair
      BY <1>7, <2>2 DEF ClosePair, InPair
    <3>2. /\ at[1] \in DOMAIN matrix /\ DOMAIN matrix = 1..Len(Candidates)
          /\ Listed(matrix[at[1]]) /\ Len(matrix[at[1]]) = at[2] - 1 /\ at[2] \in Int
          /\ at[2] \in 1..TargetCount
      BY <3>1 DEF MatrixInv
    <3>3. /\ matrix'[at[1]] = Append(matrix[at[1]], result)
          /\ Len(matrix'[at[1]]) = at[2]
          /\ \A c \in 1..Len(Candidates) : c # at[1] => matrix'[c] = matrix[c]
      <4>1. matrix'[at[1]] = Append(matrix[at[1]], result)
        BY <3>1, <3>2
      <4>2. Len(Append(matrix[at[1]], result)) = Len(matrix[at[1]]) + 1
        BY <3>2, AppendedIsListed
      <4> QED
        BY <3>1, <3>2, <4>1, <4>2
    <3>4. ASSUME NEW c \in 1..Len(Candidates), NEW i \in 1..TargetCount,
                 i \notin 1..Len(matrix'[c])
          PROVE  ~ Struck(c, i, Points, Files)'
      <4>1. i \notin 1..Len(matrix[c]) /\ (c # at[1] \/ i # at[2])
        <5>1. CASE c = at[1]
          BY <3>2, <3>3, <3>4, <5>1
        <5>2. CASE c # at[1]
          BY <3>3, <3>4, <5>2
        <5> QED
          BY <5>1, <5>2
      <4>2. ~ Struck(c, i, Points, Files)
        BY <3>1, <4>1 DEF StrikesInv
      <4> QED
        BY <3>1, <4>2 DEF Struck
    <3>5. /\ at'[1] \in 1..Len(Candidates) /\ at'[2] \in 1..TargetCount
          /\ at'[2] \notin 1..Len(matrix'[at'[1]])
      BY <1>1, <2>2 DEF MatrixInv
    <3>6. ToCome' = Points
      BY <2>2 DEF ToCome
    <3>7. PICK c, i : c = at'[1] /\ i = at'[2]
      OBVIOUS
    <3>8. ~ Struck(c, i, Points, Files)'
      BY <3>4, <3>5, <3>7
    <3> QED
      BY <1>1, <2>2, <3>4, <3>6, <3>7, <3>8 DEF StrikesInv
  <2> QED
    BY <2>1, <2>2
<1>8. CASE Damage
  <2>1. UNCHANGED <<pc, at, matrix>>
    BY <1>8, DamageDone
  <2>2. PICK f : /\ Damages(f)
                 /\ pc = "verify" \/ (InPair /\ \E n \in Files : f = File(n))
    BY <1>8, DamageDone
  <2>3. CASE pc = "verify"
    BY <1>2, <2>1, <2>3 DEF InPair
  <2>4. CASE InPair /\ \E n \in Files : f = File(n)
    <3>1. \A c, i, points, names : (c # at[1] \/ i # at[2] \/ pc \notin points) =>
            (Struck(c, i, points, names)' <=> Struck(c, i, points, names))
      <4>1. \A c, i, n : (c # at[1] \/ i # at[2]) => f # <<"adjudicator", c, i, n>>
        BY <2>4 DEF File
      <4> QED
        BY <2>2, <4>1, StruckOnce
    <3>2. ToCome' = ToCome /\ pc \notin ToCome
      BY <2>1, <2>4 DEF ToCome, Points, InPair
    <3>3. PICK a, b, p : a = at[1] /\ b = at[2] /\ p = ToCome
      OBVIOUS
    <3>4. ~ Struck(a, b, p, Files)'
      BY <2>4, <3>1, <3>2, <3>3 DEF StrikesInv
    <3>5. \A c \in 1..Len(Candidates) : \A i \in 1..TargetCount :
            (i \notin 1..Len(matrix[c]) /\ (c # a \/ i # b)) => ~ Struck(c, i, Points, Files)'
      BY <2>4, <3>1, <3>3 DEF StrikesInv
    <3>6. a = at'[1] /\ b = at'[2] /\ p = ToCome' /\ matrix' = matrix /\ pc' # "start"
      BY <2>1, <2>4, <3>2, <3>3 DEF InPair
    <3> QED
      BY <1>1, <3>4, <3>5, <3>6 DEF StrikesInv
  <2> QED
    BY <2>2, <2>3, <2>4
<1>9. CASE UNCHANGED vars
  BY <1>1, <1>9 DEF vars, StrikesInv, InPair, ToCome, Struck
<1> QED
  BY <1>4, <1>5, <1>6, <1>7, <1>8, <1>9 DEF Next

-----------------------------------------------------------------------------
(* The steps: the digests and the seals.                                   *)

\* A directory that is sealed verifies.
LEMMA FreshSeal ==
    ASSUME PutFile(File(Sums), SumsOf(Here)), at' = at
    PROVE  Verifies(Here)'
<1>1. PICK place : place = Here
  OBVIOUS
<1>2. place = Here' /\ \A n : In(place, n) = File(n)
  BY <1>1 DEF Here, In, File
<1>3. /\ In(place, Sums) \in DOMAIN disk' /\ disk'[In(place, Sums)] = Whole(SumsOf(place))
      /\ \A f : f # In(place, Sums) => Same(f)
  BY <1>1, <1>2, PutLeavesTheRest
<1>4. \A n \in DocumentNames : Same(In(place, n))
  <2>1. \A n \in DocumentNames : In(place, n) # In(place, Sums)
    BY DEF DocumentNames, EvidenceFiles, Sums, In
  <2> QED
    BY <1>3, <2>1
<1>5. Names(place)' = Names(place)
  BY <1>4 DEF Same, Names
<1>6. SumsOf(place)' = SumsOf(place)
  BY <1>4, <1>5 DEF Same, SumsOf, Names
<1>7. Verifies(place)'
  BY <1>3, <1>6 DEF Verifies
<1> QED
  BY <1>1, <1>2, <1>7

\* A digest that was right tells of the first damage, and of it for good.
LEMMA CoreTells ==
    ASSUME NEW f, Damages(f), UNCHANGED <<at, result>>,
           \A n \in EvidenceFiles : File(n) \in DOMAIN disk
    PROVE  /\ CoreBroken => CoreBroken'
           /\ (result.core = CoreNow /\ \E n \in EvidenceFiles : f = File(n)) => CoreBroken'
           /\ (result.core = CoreNow /\ \A n \in EvidenceFiles : f # File(n))
                => result'.core = CoreNow'
<1>1. \A n : File(n)' = File(n)
  BY DEF File
<1>2. ASSUME CoreBroken
      PROVE  CoreBroken'
  <2>1. PICK n \in EvidenceFiles :
            File(n) \in DOMAIN disk /\ disk[File(n)] = Damaged /\ result.core[n] # Damaged
    BY <1>2 DEF CoreBroken
  <2>2. File(n) \in DOMAIN disk' /\ disk'[File(n)] = Damaged
    BY <2>1 DEF Damages, Same
  <2> QED
    BY <1>1, <2>1, <2>2 DEF CoreBroken
<1>3. ASSUME result.core = CoreNow, NEW n \in EvidenceFiles, f = File(n)
      PROVE  CoreBroken'
  <2>1. result.core[n] # Damaged
    BY <1>3 DEF CoreNow, Damages
  <2>2. File(n) \in DOMAIN disk' /\ disk'[File(n)] = Damaged
    BY <1>3 DEF Damages
  <2> QED
    BY <1>1, <2>1, <2>2 DEF CoreBroken
<1>4. ASSUME result.core = CoreNow, \A n \in EvidenceFiles : f # File(n)
      PROVE  result'.core = CoreNow'
  <2>1. \A n \in EvidenceFiles : Same(File(n))
    BY <1>4 DEF Damages
  <2>2. \A n \in EvidenceFiles : disk'[File(n)] = disk[File(n)]
    BY <2>1 DEF Same
  <2>3. CoreNow' = CoreNow
    BY <1>1, <2>2 DEF CoreNow
  <2> QED
    BY <1>4, <2>3
<1> QED
  BY <1>2, <1>3, <1>4

LEMMA SealTells ==
    ASSUME NEW f, Damages(f), NEW place
    PROVE  /\ SealBroken(place) => SealBroken(place)'
           /\ (Verifies(place) /\ \E n \in Files : f = In(place, n)) => SealBroken(place)'
           /\ (Verifies(place) /\ \A n \in Files : f # In(place, n)) => Verifies(place)'
<1> DEFINE sums == In(place, Sums)
<1>1. \A g : g \in DOMAIN disk => g \in DOMAIN disk' /\ disk'[g] \in {disk[g], Damaged}
  BY DEF Damages, Same
<1>2. ASSUME SealBroken(place)
      PROVE  SealBroken(place)'
  <2>1. CASE disk'[sums] = Damaged
    BY <1>1, <1>2, <2>1 DEF SealBroken
  <2>2. CASE disk'[sums] # Damaged
    <3>1. sums \in DOMAIN disk /\ sums \in DOMAIN disk' /\ disk'[sums] = disk[sums]
      BY <1>1, <1>2, <2>2 DEF SealBroken
    <3>2. PICK n \in DOMAIN disk[sums].content :
            /\ In(place, n) \in DOMAIN disk /\ disk[In(place, n)] = Damaged
            /\ disk[sums].content[n] # Damaged
      BY <1>2, <2>2, <3>1 DEF SealBroken
    <3>3. In(place, n) \in DOMAIN disk' /\ disk'[In(place, n)] = Damaged
      BY <1>1, <3>2
    <3> QED
      BY <3>1, <3>2, <3>3 DEF SealBroken
  <2> QED
    BY <2>1, <2>2
<1>3. ASSUME Verifies(place)
      PROVE  /\ sums \in DOMAIN disk /\ disk[sums].content = SumsOf(place)
             /\ disk[sums] = Whole(SumsOf(place))
  BY <1>3, WholeIsRead DEF Verifies
<1>4. ASSUME Verifies(place), NEW n \in Files, f = In(place, n)
      PROVE  SealBroken(place)'
  <2>1. CASE n = Sums
    BY <1>4, <2>1 DEF SealBroken, Damages
  <2>2. CASE n \in DocumentNames /\ n # Sums
    <3>1. /\ n \in DOMAIN SumsOf(place) /\ SumsOf(place)[n] = disk[f] /\ disk[f] # Damaged
          /\ f \in DOMAIN disk' /\ disk'[f] = Damaged
      BY <1>4, <2>2 DEF Damages, SumsOf, Names
    <3>2. f # sums
      BY <1>4, <2>2 DEF In
    <3>3. sums \in DOMAIN disk' /\ disk'[sums] = disk[sums]
      BY <1>3, <1>4, <3>2 DEF Damages, Same
    <3> QED
      BY <1>3, <1>4, <3>1, <3>3 DEF SealBroken
  <2> QED
    BY <2>1, <2>2 DEF Files
<1>5. ASSUME Verifies(place), \A n \in Files : f # In(place, n)
      PROVE  Verifies(place)'
  <2>1. \A n \in DocumentNames \cup {Sums} : Same(In(place, n))
    BY <1>5 DEF Damages, Files
  <2> QED
    BY <1>5, <2>1, UntouchedSeal
<1> QED
  BY <1>2, <1>4, <1>5

LEMMA DigestsStep ==
    ASSUME StrikesInv, DigestsInv, HandInv, pc \in Pcs, [Next]_vars
    PROVE  DigestsInv'
<1> USE DEF Pcs
<1>1. PICK a, b, place : a = at[1] /\ b = at[2] /\ place = Here
  OBVIOUS
<1>2. \A n : In(place, n) = File(n) /\ File(n) = <<"adjudicator", a, b, n>>
  BY <1>1 DEF Here, In, File
<1>3. ASSUME pc' \notin {"final", "replay", "seal", "sealed", "reseal", "resealed"}
      PROVE  DigestsInv'
  BY <1>3 DEF DigestsInv
<1>4. ASSUME at' = at
      PROVE  /\ a = at'[1] /\ b = at'[2] /\ place = Here' /\ \A n : File(n)' = File(n)
  BY <1>1, <1>4 DEF Here, File
<1>5. ASSUME faults' = faults
      PROVE  /\ \A points, names : Struck(a, b, points, names)' <=> Struck(a, b, points, names)
             /\ Verdict(a, b)' = Verdict(a, b)
  BY <1>5 DEF Struck, Verdict, Caught
<1>6. /\ pc = "core" => ~ Struck(a, b, {"final"}, EvidenceFiles)
      /\ pc = "seal" => ~ Struck(a, b, {"sealed"}, Files)
      /\ pc = "reseal" => ~ Struck(a, b, {"resealed"}, Files)
  <2>1. InPair => ~ Struck(a, b, ToCome, Files)
    BY <1>1 DEF StrikesInv
  <2>2. CASE pc = "core"
    <3>1. ~ Struck(a, b, ToCome, Files) /\ {"final"} \subseteq ToCome
      BY <2>1, <2>2 DEF InPair, ToCome, Points
    <3> QED
      BY <2>2, <3>1, FewerStruck
  <2>3. CASE pc = "seal"
    <3>1. ~ Struck(a, b, ToCome, Files) /\ {"sealed"} \subseteq ToCome
      BY <2>1, <2>3 DEF InPair, ToCome
    <3> QED
      BY <2>3, <3>1, FewerStruck
  <2>4. CASE pc = "reseal"
    <3>1. ~ Struck(a, b, ToCome, Files) /\ {"resealed"} \subseteq ToCome
      BY <2>1, <2>4 DEF InPair, ToCome
    <3> QED
      BY <2>4, <3>1, FewerStruck
  <2> QED
    BY <2>2, <2>3, <2>4
<1>7. /\ pc = "final" =>
            IF Struck(a, b, {"final"}, EvidenceFiles) THEN CoreBroken
            ELSE result.core = CoreNow
      /\ pc \in {"replay", "seal", "sealed"} =>
            (result.core <=> ~ Struck(a, b, {"final"}, EvidenceFiles))
      /\ pc \in {"sealed", "resealed"} =>
            IF Struck(a, b, {pc}, Files) THEN SealBroken(place) ELSE Verifies(place)
      /\ pc \in {"reseal", "resealed"} => result.evidence_integrity = Verdict(a, b)
  BY <1>1 DEF DigestsInv
<1>8. ASSUME /\ at' = at
             /\ pc' = "final" =>
                    IF Struck(a, b, {"final"}, EvidenceFiles)' THEN CoreBroken'
                    ELSE result'.core = CoreNow'
             /\ pc' \in {"replay", "seal", "sealed"} =>
                    (result'.core <=> ~ Struck(a, b, {"final"}, EvidenceFiles)')
             /\ pc' \in {"sealed", "resealed"} =>
                    \A points : points = {pc'} =>
                        IF Struck(a, b, points, Files)' THEN SealBroken(place)'
                        ELSE Verifies(place)'
             /\ pc' \in {"reseal", "resealed"} =>
                    result'.evidence_integrity = Verdict(a, b)'
      PROVE  DigestsInv'
  BY <1>4, <1>8 DEF DigestsInv
<1>9. CASE HashCore
  <2>1. /\ pc = "core" /\ pc' = "final" /\ UNCHANGED <<at, disk, faults>>
        /\ result'.core = CoreNow
    BY <1>9 DEF HashCore
  <2>2. CoreNow' = CoreNow
    BY <1>4, <2>1 DEF CoreNow
  <2>3. ~ Struck(a, b, {"final"}, EvidenceFiles)'
    BY <1>5, <1>6, <2>1
  <2> QED
    BY <1>8, <2>1, <2>2, <2>3
<1>10. CASE WriteFinal
  <2>1. /\ pc = "final" /\ pc' = "replay" /\ UNCHANGED <<at, faults>>
        /\ result'.core = (result.core = CoreNow)
    BY <1>10 DEF WriteFinal
  <2>2. CoreBroken => result.core # CoreNow
    BY DEF CoreBroken, CoreNow
  <2>3. result'.core <=> ~ Struck(a, b, {"final"}, EvidenceFiles)
    BY <1>7, <2>1, <2>2
  <2> QED
    BY <1>5, <1>8, <2>1, <2>3
<1>11. CASE ReplayFromDisk
  <2>1. CASE pc' = "crashed"
    BY <1>3, <2>1
  <2>2. CASE pc' # "crashed"
    <3>1. /\ pc = "replay" /\ pc' = "seal" /\ UNCHANGED <<at, faults>>
          /\ result'.core = result.core
      BY <1>11, <2>2 DEF ReplayFromDisk
    <3> QED
      BY <1>5, <1>7, <1>8, <3>1
  <2> QED
    BY <2>1, <2>2
<1>12. CASE SealPair
  <2>1. /\ UNCHANGED <<at, faults, result>> /\ PutFile(File(Sums), SumsOf(Here))
        /\ \/ pc = "seal" /\ pc' = "sealed"
           \/ pc = "reseal" /\ pc' = "resealed"
    BY <1>12 DEF SealPair
  <2>2. Verifies(place)'
    <3>1. Verifies(Here)'
      BY <2>1, FreshSeal
    <3> QED
      BY <1>4, <2>1, <3>1
  <2>3. ASSUME NEW points, points = {pc'}
        PROVE  ~ Struck(a, b, points, Files)'
    <3>1. \/ points = {"sealed"} /\ pc = "seal"
          \/ points = {"resealed"} /\ pc = "reseal"
      BY <2>1, <2>3
    <3> QED
      BY <1>5, <1>6, <2>1, <3>1
  <2>4. /\ pc' = "sealed" => (result'.core <=> ~ Struck(a, b, {"final"}, EvidenceFiles)')
        /\ pc' = "resealed" => result'.evidence_integrity = Verdict(a, b)'
    BY <1>5, <1>7, <2>1
  <2>5. pc' \in {"sealed", "resealed"}
    BY <2>1
  <2> QED
    BY <1>8, <2>1, <2>2, <2>3, <2>4, <2>5
<1>13. CASE VerifyPair
  <2>1. /\ pc = "sealed" /\ pc' = "reseal" /\ UNCHANGED <<at, faults>>
        /\ result' = PublishedView(result.final, Integrity, result.matches)
    BY <1>13 DEF VerifyPair
  <2>2. Numeric(result.final)
    BY <2>1 DEF HandInv, InHand, Gathered
  <2>3. result'.evidence_integrity = Integrity
    BY <2>1, <2>2, ViewTells
  <2>4. result.core <=> ~ Struck(a, b, {"final"}, EvidenceFiles)
    BY <1>7, <2>1
  <2>5. Verifies(place) <=> ~ Struck(a, b, {"sealed"}, Files)
    BY <1>7, <2>1, BrokenSealFails
  <2>6. Verdict(a, b) = IF \/ Struck(a, b, {"final"}, EvidenceFiles)
                           \/ Struck(a, b, {"sealed"}, Files)
                        THEN "FAIL" ELSE "PASS"
    BY DEF Verdict, Caught, Files
  <2>7. Integrity = Verdict(a, b)
    BY <1>1, <2>4, <2>5, <2>6 DEF Integrity
  <2> QED
    BY <1>5, <1>8, <2>1, <2>3, <2>7
<1>14. CASE Damage
  <2>1. UNCHANGED <<pc, at, result>>
    BY <1>14, DamageDone
  <2>2. PICK f : Damages(f) /\ (pc = "verify" \/ (InPair /\ \E n \in Files : f = File(n)))
    BY <1>14, DamageDone
  <2>3. \A points, names :
            Struck(a, b, points, names)' <=>
                \/ Struck(a, b, points, names)
                \/ pc \in points /\ \E n \in names : f = File(n)
    BY <1>2, <2>2, StruckOnce
  <2>4. pc = "final" =>
            IF Struck(a, b, {"final"}, EvidenceFiles)' THEN CoreBroken'
            ELSE result'.core = CoreNow'
    <3> SUFFICES ASSUME pc = "final"
                 PROVE  IF Struck(a, b, {"final"}, EvidenceFiles)' THEN CoreBroken'
                        ELSE result'.core = CoreNow'
      OBVIOUS
    <3>1. \A n \in EvidenceFiles : File(n) \in DOMAIN disk
      BY <1>1, <1>2 DEF HandInv, Gathered, Accounted
    <3>2. /\ CoreBroken => CoreBroken'
          /\ (result.core = CoreNow /\ \E n \in EvidenceFiles : f = File(n)) => CoreBroken'
          /\ (result.core = CoreNow /\ \A n \in EvidenceFiles : f # File(n))
                => result'.core = CoreNow'
      BY <2>1, <2>2, <3>1, CoreTells
    <3>3. Struck(a, b, {"final"}, EvidenceFiles)' <=>
                \/ Struck(a, b, {"final"}, EvidenceFiles)
                \/ \E n \in EvidenceFiles : f = File(n)
      BY <2>3
    <3> QED
      BY <1>7, <3>2, <3>3
  <2>5. pc \in {"replay", "seal", "sealed"} =>
            (result'.core <=> ~ Struck(a, b, {"final"}, EvidenceFiles)')
    BY <1>7, <2>1, <2>3
  <2>6. pc \in {"sealed", "resealed"} =>
            IF Struck(a, b, {pc}, Files)' THEN SealBroken(place)' ELSE Verifies(place)'
    <3> SUFFICES ASSUME pc \in {"sealed", "resealed"}
                 PROVE  \A points : points = {pc} =>
                            IF Struck(a, b, points, Files)' THEN SealBroken(place)'
                            ELSE Verifies(place)'
      BY <2>1
    <3> TAKE points
    <3> HAVE points = {pc}
    <3>1. /\ SealBroken(place) => SealBroken(place)'
          /\ (Verifies(place) /\ \E n \in Files : f = File(n)) => SealBroken(place)'
          /\ (Verifies(place) /\ \A n \in Files : f # File(n)) => Verifies(place)'
      BY <1>2, <2>2, SealTells
    <3>2. Struck(a, b, points, Files)' <=>
                Struck(a, b, points, Files) \/ \E n \in Files : f = File(n)
      BY <2>3
    <3>3. IF Struck(a, b, points, Files) THEN SealBroken(place) ELSE Verifies(place)
      BY <1>7
    <3> QED
      BY <3>1, <3>2, <3>3
  <2>7. pc \in {"reseal", "resealed"} => result'.evidence_integrity = Verdict(a, b)'
    <3> SUFFICES ASSUME pc \in {"reseal", "resealed"}
                 PROVE  result'.evidence_integrity = Verdict(a, b)'
      OBVIOUS
    <3>1. Caught(a, b)' <=> Caught(a, b)
      BY <2>3 DEF Caught
    <3> QED
      BY <1>7, <2>1, <3>1 DEF Verdict
  <2>8. pc \in {"sealed", "resealed"} =>
            \A points : points = {pc'} =>
                IF Struck(a, b, points, Files)' THEN SealBroken(place)' ELSE Verifies(place)'
    BY <2>1, <2>6
  <2> QED
    BY <1>8, <2>1, <2>4, <2>5, <2>7, <2>8
<1>15. CASE UNCHANGED vars
  BY <1>15 DEF vars, DigestsInv, Struck, CoreBroken, CoreNow, SealBroken, Verifies, Verdict,
      Caught, File, Here, SumsOf, Names
<1>16. CASE Refuse \/ Start \/ AuditLeak \/ StopLoop \/ CallProvider \/ Assemble
            \/ WriteEvidence \/ ClosePair \/ WriteMatrix \/ WriteSelection \/ WriteGate
            \/ WriteReconciliation \/ SealPublication \/ VerifyPublication \/ Kill
  BY <1>3, <1>16 DEF Refuse, Start, AuditLeak, StopLoop, CallProvider, EndLoop, Assemble,
      WriteEvidence, ClosePair, WriteMatrix, WriteSelection, WriteGate, WriteReconciliation,
      SealPublication, Publish, VerifyPublication, Kill
<1> QED
  BY <1>9, <1>10, <1>11, <1>12, <1>13, <1>14, <1>15, <1>16 DEF Next
-----------------------------------------------------------------------------
(* The steps: the pair in hand.                                            *)

\* The evidence of a pair is written from its session.
LEMMA EvidenceIsHeld ==
    ASSUME CorpusInv, MatrixInv, SessionInv, HandInv, WriteEvidence
    PROVE  HandInv'
<1> DEFINE row == Assembled(session, Target.exposed)
           facts == [provider_calls |-> session.calls, stop_reason |-> session.stop,
                     target_attempts |-> session.attempts,
                     terminal_failure |-> session.terminal,
                     exposed_dimensions |-> Target.exposed]
           written == {File(n) : n \in EvidenceFiles}
<1>1. /\ pc = "evidence" /\ pc' = "core" /\ UNCHANGED <<corpus, at, result, faults>>
      /\ disk' = [f \in DOMAIN disk \cup written |->
                    IF f \in written THEN Whole(Evidence[f[4]]) ELSE disk[f]]
  BY DEF WriteEvidence
<1>2. /\ SessionOf(session, Target) /\ result.final = row
      /\ \A k \in DOMAIN session.rows : session.rows[k].action # NotAnObject
  BY <1>1 DEF SessionInv, HandInv, InHand
<1>3. PICK c, i : c = at[1] /\ i = at[2] /\ WellMade(corpus[i]) /\ Target = corpus[i]
  BY DEF MatrixInv, CorpusInv, Target, TargetCount
<1>4. \A n \in EvidenceFiles : /\ <<"adjudicator", c, i, n>> \in DOMAIN disk'
                               /\ disk'[<<"adjudicator", c, i, n>>] = Whole(Evidence[n])
  <2> SUFFICES ASSUME NEW n \in EvidenceFiles
               PROVE  /\ <<"adjudicator", c, i, n>> \in DOMAIN disk'
                      /\ disk'[<<"adjudicator", c, i, n>>] = Whole(Evidence[n])
    OBVIOUS
  <2>1. <<"adjudicator", c, i, n>> \in written /\ <<"adjudicator", c, i, n>>[4] = n
    BY <1>3 DEF File
  <2> HIDE DEF written
  <2> QED
    BY <1>1, <2>1
<1>5. /\ Kept(c, i)'
      /\ \A n \in EvidenceFiles : PairFile(c, i, n)' = Evidence[n]
  <2>1. \A n \in EvidenceFiles : /\ disk'[<<"adjudicator", c, i, n>>].state = "whole"
                                 /\ disk'[<<"adjudicator", c, i, n>>].content = Evidence[n]
    BY <1>4, WholeIsRead
  <2> QED
    BY <1>4, <2>1 DEF Kept, PairFile
<1>6. /\ Evidence["attempts"] = session.rows
      /\ Evidence["adjudicator-evidence"] = session.commits
      /\ Evidence["leak-audit"] = session.leak
      /\ Evidence["runtime-facts"] = facts
  BY DEF Evidence, EvidenceFiles
<1>7. /\ PairFile(c, i, "attempts")' = session.rows
      /\ PairFile(c, i, "adjudicator-evidence")' = session.commits
      /\ PairFile(c, i, "leak-audit")' = session.leak
      /\ PairFile(c, i, "runtime-facts")' = facts
  BY <1>5, <1>6 DEF EvidenceFiles
<1>8. /\ facts.provider_calls = session.calls /\ facts.terminal_failure = session.terminal
      /\ facts.exposed_dimensions = Target.exposed
  OBVIOUS
<1>9. PICK r : r = result.final
  OBVIOUS
<1> HIDE DEF facts
<1>10. Numeric(r) /\ Tells(r, session.rows, session.commits, facts, session.leak)
  <2>1. Numeric(row) /\ Tells(row, session.rows, session.commits, facts, session.leak)
    <3> HIDE DEF row
    <3> QED
      BY <1>2, <1>3, <1>8, AssembledTells DEF row
  <2> QED
    BY <1>2, <1>9, <2>1
<1>11. Search(corpus[i], session.rows, session.commits, facts.provider_calls, session.leak,
              facts.terminal_failure)
  BY <1>2, <1>3, <1>8 DEF SessionOf
<1>12. Backed(c, i, r)'
  BY <1>1, <1>2, <1>7, <1>10, <1>11 DEF Backed
<1>13. Accounted(c, i)'
  BY <1>4, WholeIsRead DEF Accounted
<1>14. Gathered(c, i, r)'
  BY <1>5, <1>10, <1>12, <1>13 DEF Gathered
<1> QED
  BY <1>1, <1>3, <1>9, <1>14 DEF HandInv, InHand

\* The replay of the pair in hand matches when there is nothing it cannot find.
LEMMA ReplayOfTheHand ==
    ASSUME Gathered(at[1], at[2], result.final), Kept(at[1], at[2]),
           disk[File("final-result")] =
                Whole(PublishedView(result.final, "NOT_VERIFIED", FALSE))
    PROVE  Replays(disk[File("final-result")].content) <=> AttributableIn(at[1], at[2])
<1> DEFINE rows == PairFile(at[1], at[2], "attempts")
           commits == PairFile(at[1], at[2], "adjudicator-evidence")
           facts == PairFile(at[1], at[2], "runtime-facts")
           leak == PairFile(at[1], at[2], "leak-audit")
           stored == PublishedView(result.final, "NOT_VERIFIED", FALSE)
           t == corpus[at[2]]
<1>1. disk[File("final-result")].content = stored
  BY WholeIsRead
<1>2. /\ Search(t, rows, commits, facts.provider_calls, leak, facts.terminal_failure)
      /\ Tells(result.final, rows, commits, facts, leak) /\ Numeric(result.final)
  BY DEF Gathered, Backed
<1>3. /\ disk[File("attempts")].content = rows
      /\ disk[File("adjudicator-evidence")].content = commits
      /\ disk[File("runtime-facts")].content = facts
      /\ disk[File("leak-audit")].content = leak
  BY DEF PairFile, File
<1> HIDE DEF rows, commits, facts, leak, t
<1>4. Numeric(stored) /\ Tells(stored, rows, commits, facts, leak)
  BY <1>2, ViewTells
<1> HIDE DEF stored
<1>5. Replays(stored) <=> Agrees(Recomputed(rows, commits, facts, leak), stored)
  BY <1>3 DEF Replays, Agrees
<1>6. Replays(stored) <=> Attributable(rows, commits, facts)
  BY <1>2, <1>4, <1>5, ReplayedAgain
<1> QED
  BY <1>1, <1>6 DEF AttributableIn, rows, commits, facts

\* The files of a pair beside its evidence.
LEMMA BesideTheEvidence ==
    ASSUME NEW name \in {"final-result", "replay-result", Sums}, NEW content,
           PutFile(File(name), content)
    PROVE  \A n \in EvidenceFiles : Same(<<"adjudicator", at[1], at[2], n>>)
<1>1. \A n \in EvidenceFiles : <<"adjudicator", at[1], at[2], n>> # File(name)
  BY DEF File, EvidenceFiles, Sums
<1> QED
  BY <1>1, PutLeavesTheRest

\* Working on a pair leaves its evidence, and what it knows of it, alone.
LEMMA WorkStep ==
    ASSUME HandInv, corpus' = corpus,
           HashCore \/ WriteFinal \/ ReplayFromDisk \/ SealPair \/ VerifyPair
    PROVE  HandInv'
<1> DEFINE Untouched == \A n \in EvidenceFiles : Same(<<"adjudicator", at[1], at[2], n>>)
<1>1. PICK c, i, r : c = at[1] /\ i = at[2] /\ r = InHand
  OBVIOUS
<1>2. /\ Gathered(c, i, r) /\ UNCHANGED <<at, faults>>
      /\ pc \in {"core", "final", "replay", "seal", "sealed", "reseal"}
  BY <1>1 DEF HandInv, HashCore, WriteFinal, ReplayFromDisk, SealPair, VerifyPair
<1>3. at' = at /\ c = at'[1] /\ i = at'[2]
  BY <1>1, <1>2
<1>4. ASSUME Untouched
      PROVE  /\ Gathered(c, i, r)'
             /\ \A x : Matching(c, i, x) => Matching(c, i, x)'
  BY <1>1, <1>2, <1>4, UntouchedGathered
<1>5. CASE HashCore
  <2>1. pc = "core" /\ pc' = "final" /\ disk' = disk /\ result'.final = result.final
    BY <1>5 DEF HashCore
  <2>2. Untouched
    BY <2>1 DEF Same
  <2>3. r = result'.final
    BY <1>1, <2>1 DEF InHand
  <2> QED
    BY <1>3, <1>4, <2>1, <2>2, <2>3 DEF HandInv, InHand
<1>6. CASE WriteFinal
  <2>1. /\ pc = "final" /\ pc' = "replay" /\ result'.final = result.final
        /\ PutFile(File("final-result"), PublishedView(result.final, "NOT_VERIFIED", FALSE))
    BY <1>6 DEF WriteFinal
  <2>2. Untouched
    BY <2>1, BesideTheEvidence
  <2>3. r = result'.final
    BY <1>1, <2>1 DEF InHand
  <2>4. /\ File("final-result") \in DOMAIN disk'
        /\ disk'[File("final-result")] =
                Whole(PublishedView(result.final, "NOT_VERIFIED", FALSE))
    BY <2>1, PutLeavesTheRest
  <2>5. File("final-result")' = File("final-result")
    BY <1>3 DEF File
  <2>6. PublishedView(result.final, "NOT_VERIFIED", FALSE)'
            = PublishedView(result.final, "NOT_VERIFIED", FALSE)
    BY <2>1 DEF PublishedView
  <2> QED
    BY <1>3, <1>4, <2>1, <2>2, <2>3, <2>4, <2>5, <2>6 DEF HandInv, InHand
<1>7. CASE ReplayFromDisk
  <2>1. CASE pc' = "crashed"
    BY <2>1 DEF HandInv
  <2>2. CASE pc' # "crashed"
    <3> DEFINE matches == Replays(disk[File("final-result")].content)
    <3>1. /\ pc = "replay" /\ pc' = "seal"
          /\ PutFile(File("replay-result"), [matches |-> matches])
          /\ result' = [final |-> result.final, core |-> result.core, matches |-> matches]
      BY <1>7, <2>2 DEF ReplayFromDisk
    <3>2. Untouched
      BY <3>1, BesideTheEvidence
    <3>3. r = result'.final /\ r = result.final /\ result'.matches = matches
      BY <1>1, <3>1 DEF InHand
    <3>4. disk[File("final-result")] =
                Whole(PublishedView(result.final, "NOT_VERIFIED", FALSE))
      BY <1>7, <2>2, <3>1 DEF HandInv, ReplayFromDisk, ReplayedFiles
    <3>5. Matching(c, i, matches)
      BY <1>1, <1>2, <3>3, <3>4, ReplayOfTheHand DEF Matching
    <3> HIDE DEF matches
    <3>6. PICK x : x = matches
      OBVIOUS
    <3>7. Gathered(c, i, r)' /\ Matching(c, i, x)'
      BY <1>4, <3>2, <3>5, <3>6
    <3>8. Matching(c, i, result.matches)'
      BY <3>3, <3>6, <3>7
    <3> QED
      BY <1>2, <1>3, <3>1, <3>3, <3>7, <3>8 DEF HandInv, InHand
  <2> QED
    BY <2>1, <2>2
<1>8. CASE SealPair
  <2>1. /\ result' = result /\ PutFile(File(Sums), SumsOf(Here))
        /\ \/ pc = "seal" /\ pc' = "sealed"
           \/ pc = "reseal" /\ pc' = "resealed"
    BY <1>8 DEF SealPair
  <2>2. Untouched
    BY <2>1, BesideTheEvidence
  <2>3. r = InHand'
    BY <1>1, <2>1 DEF InHand
  <2>4. PICK x, y : x = result.matches /\ y = result.replay_matches_final
    OBVIOUS
  <2>5. /\ Gathered(c, i, r)'
        /\ pc = "seal" => Matching(c, i, x)'
        /\ pc = "reseal" => Matching(c, i, y)'
    BY <1>1, <1>4, <2>2, <2>4 DEF HandInv
  <2>6. x = result'.matches /\ y = result'.replay_matches_final
    BY <2>1, <2>4
  <2> QED
    BY <1>3, <2>1, <2>3, <2>5, <2>6 DEF HandInv
<1>9. CASE VerifyPair
  <2> DEFINE seen == PublishedView(result.final, Integrity, result.matches)
  <2>1. /\ pc = "sealed" /\ pc' = "reseal" /\ result' = seen
        /\ PutFile(File("final-result"), seen)
    BY <1>9 DEF VerifyPair
  <2>2. Untouched
    BY <2>1, BesideTheEvidence
  <2>3. r = result.final /\ Numeric(r)
    BY <1>1, <1>2, <2>1 DEF InHand, Gathered
  <2>4. PICK s : s = seen
    OBVIOUS
  <2>5. /\ Numeric(s) /\ s.replay_matches_final = result.matches
        /\ \A rows, commits, facts, leak :
                Tells(r, rows, commits, facts, leak) => Tells(s, rows, commits, facts, leak)
    BY <2>3, <2>4, ViewTells
  <2> HIDE DEF seen
  <2>6. Gathered(c, i, s)'
    <3>1. Gathered(c, i, r)'
      BY <1>4, <2>2
    <3>2. Backed(c, i, r)' => Backed(c, i, s)'
      BY <2>5 DEF Backed
    <3> QED
      BY <2>5, <3>1, <3>2 DEF Gathered
  <2>7. s = InHand'
    BY <2>1, <2>4 DEF InHand
  <2>8. PICK x : x = result.matches
    OBVIOUS
  <2>9. Matching(c, i, x)' /\ x = result'.replay_matches_final
    BY <1>1, <1>4, <2>1, <2>2, <2>4, <2>5, <2>8 DEF HandInv
  <2> QED
    BY <1>2, <1>3, <2>1, <2>6, <2>7, <2>9 DEF HandInv
<1> QED
  BY <1>5, <1>6, <1>7, <1>8, <1>9

LEMMA HandStep ==
    ASSUME CorpusInv, MatrixInv, SessionInv, HandInv, pc \in Pcs, [Next]_vars
    PROVE  HandInv'
<1>1. corpus' = corpus
  BY DEF Next, vars, Refuse, Start, AuditLeak, StopLoop, CallProvider, Assemble,
      WriteEvidence, HashCore, WriteFinal, ReplayFromDisk, SealPair, VerifyPair, ClosePair,
      WriteMatrix, WriteSelection, WriteGate, WriteReconciliation, SealPublication,
      Publish, VerifyPublication, Kill, Damage
<1>2. ASSUME pc' \notin {"evidence", "core", "final", "replay", "seal", "sealed", "reseal",
                         "resealed"}
      PROVE  HandInv'
  BY <1>2 DEF HandInv
<1>3. CASE Refuse \/ Start \/ AuditLeak \/ StopLoop \/ CallProvider \/ ClosePair
  <2>1. pc' \in {"refused", "audit", "loop", "assemble", "crashed", "publish"}
    BY <1>3 DEF Refuse, Start, AuditLeak, StopLoop, CallProvider, EndLoop, ClosePair
  <2> QED
    BY <1>2, <2>1
<1>4. CASE WriteMatrix \/ WriteSelection \/ WriteGate \/ WriteReconciliation
            \/ SealPublication \/ VerifyPublication \/ Kill
  BY <1>2, <1>4 DEF WriteMatrix, WriteSelection, WriteGate, WriteReconciliation,
      SealPublication, Publish, VerifyPublication, Kill
<1>5. CASE Assemble
  <2>1. CASE pc' = "crashed"
    BY <1>2, <2>1
  <2>2. CASE pc' = "evidence"
    <3>1. /\ result' = [final |-> Assembled(session, Target.exposed)]
          /\ session' = session /\ Target' = Target
      BY <1>1, <1>5, <2>2 DEF Assemble, Target
    <3>2. Assembled(session, Target.exposed)' = Assembled(session, Target.exposed)
      BY <3>1
    <3> QED
      BY <2>2, <3>1, <3>2 DEF HandInv, InHand
  <2> QED
    BY <1>5, <2>1, <2>2 DEF Assemble
<1>6. CASE WriteEvidence
  BY <1>6, EvidenceIsHeld
<1>7. CASE HashCore \/ WriteFinal \/ ReplayFromDisk \/ SealPair \/ VerifyPair
  BY <1>1, <1>7, WorkStep
<1>8. PICK c, i, r, x, y : /\ c = at[1] /\ i = at[2] /\ r = InHand
                          /\ x = result.matches /\ y = result.replay_matches_final
  OBVIOUS
<1>9. ASSUME UNCHANGED <<pc, at, session, result>>,
             Gathered(c, i, r) => Gathered(c, i, r)',
             \A z : Matching(c, i, z) => Matching(c, i, z)',
             pc = "replay" =>
                /\ File("final-result") \in DOMAIN disk'
                /\ disk'[File("final-result")] \in {disk[File("final-result")], Damaged}
      PROVE  HandInv'
  <2>1. /\ c = at'[1] /\ i = at'[2] /\ r = InHand'
        /\ x = result'.matches /\ y = result'.replay_matches_final
    BY <1>8, <1>9 DEF InHand
  <2>2. Assembled(session, Target.exposed)' = Assembled(session, Target.exposed)
    BY <1>1, <1>9 DEF Target
  <2>3. /\ pc = "evidence" => r = Assembled(session, Target.exposed)
        /\ pc \in {"core", "final", "replay", "seal", "sealed", "reseal", "resealed"} =>
            Gathered(c, i, r)
        /\ pc \in {"seal", "sealed"} => Matching(c, i, x)
        /\ pc \in {"reseal", "resealed"} => Matching(c, i, y)
    BY <1>8 DEF HandInv
  <2>4. /\ pc = "evidence" => InHand' = Assembled(session, Target.exposed)'
        /\ pc \in {"core", "final", "replay", "seal", "sealed", "reseal", "resealed"} =>
            Gathered(c, i, r)'
        /\ pc \in {"seal", "sealed"} => Matching(c, i, x)'
        /\ pc \in {"reseal", "resealed"} => Matching(c, i, y)'
    BY <1>9, <2>1, <2>2, <2>3
  <2>5. pc = "replay" =>
            /\ File("final-result")' \in DOMAIN disk'
            /\ disk'[File("final-result")'] \in
                    {Whole(PublishedView(result.final, "NOT_VERIFIED", FALSE)), Damaged}'
    <3>1. File("final-result")' = File("final-result")
      BY <1>9 DEF File
    <3>2. {Whole(PublishedView(result.final, "NOT_VERIFIED", FALSE)), Damaged}'
            = {Whole(PublishedView(result.final, "NOT_VERIFIED", FALSE)), Damaged}
      BY <1>9
    <3>3. pc = "replay" => disk[File("final-result")] \in
                {Whole(PublishedView(result.final, "NOT_VERIFIED", FALSE)), Damaged}
      BY DEF HandInv
    <3> QED
      BY <1>9, <3>1, <3>2, <3>3
  <2> QED
    BY <1>9, <2>1, <2>4, <2>5 DEF HandInv
<1>10. CASE Damage
  <2>1. UNCHANGED <<pc, at, session, result>>
    BY <1>10, DamageDone
  <2>2. PICK f : Damages(f)
    BY <1>10, DamageDone
  <2>3. /\ Gathered(c, i, r) => Gathered(c, i, r)'
        /\ \A z : Matching(c, i, z) => Matching(c, i, z)'
    BY <1>1, <2>2, DamagedEvidence
  <2>4. \A g \in DOMAIN disk : g \in DOMAIN disk' /\ disk'[g] \in {disk[g], Damaged}
    BY <2>2 DEF Damages, Same
  <2>5. pc = "replay" => File("final-result") \in DOMAIN disk
    BY DEF HandInv
  <2> QED
    BY <1>9, <2>1, <2>3, <2>4, <2>5
<1>11. CASE UNCHANGED vars
  <2>1. UNCHANGED <<pc, at, session, result, corpus, disk>>
    BY <1>11 DEF vars
  <2>2. \A n \in EvidenceFiles : Same(<<"adjudicator", c, i, n>>)
    BY <2>1 DEF Same
  <2>3. /\ Gathered(c, i, r) => Gathered(c, i, r)'
        /\ \A z : Matching(c, i, z) => Matching(c, i, z)'
    BY <2>1, <2>2, UntouchedGathered
  <2>4. pc = "replay" => File("final-result") \in DOMAIN disk
    BY DEF HandInv
  <2> QED
    BY <1>9, <2>1, <2>3, <2>4
<1> QED
  BY <1>3, <1>4, <1>5, <1>6, <1>7, <1>10, <1>11 DEF Next

-----------------------------------------------------------------------------
(* The steps: the publication.                                             *)

\* The choice among the candidates that pass.
FirstOf(m, passing) ==
    IF passing = {} THEN None
    ELSE CHOOSE c \in passing : \A d \in passing \ {c} :
            \/ Less(TieBreakKey(m[c]), TieBreakKey(m[d]))
            \/ TieBreakKey(m[c]) = TieBreakKey(m[d]) /\ c < d

\* The rules ask nothing of a state but how many targets there are.
LEMMA SameRules ==
    ASSUME corpus' = corpus
    PROVE  /\ \A rows : Qualifies(rows)' <=> Qualifies(rows)
           /\ \A m : Select(m)' = Select(m)
<1>1. TargetCount' = TargetCount
  BY DEF TargetCount
<1>2. ASSUME NEW rows
      PROVE  Qualifies(rows)' <=> Qualifies(rows)
  BY <1>1 DEF Qualifies
<1>3. ASSUME NEW m
      PROVE  Select(m)' = Select(m)
  <2> DEFINE passing == {c \in DOMAIN m : Qualifies(m[c])}
  <2>1. Select(m) = FirstOf(m, passing)
    BY DEF Select, FirstOf
  <2>2. Select(m)' = FirstOf(m, passing')
    BY DEF Select, FirstOf
  <2>3. passing' = passing
    BY <1>2
  <2> QED
    BY <2>1, <2>2, <2>3
<1> QED
  BY <1>2, <1>3

\* The four files of the publication.
LEMMA PublishedFiles ==
    /\ \A n : Published(n) = In(There, n)
    /\ \A m, n : Published(m) = Published(n) => m = n
    /\ \A m, n : Published(m) # Out(n)
BY DEF Published, In, There, Out

LEMMA PublicationStays ==
    ASSUME PublicationInv, \A n \in {"result-matrix", "selection", Sums} : Same(Published(n)),
           UNCHANGED matrix, corpus' = corpus,
           \/ pc' = pc
           \/ /\ pc \notin {"selection", "gate", "reconciliation", "manifest", "verify", "done",
                            "killed"}
              /\ pc' \notin {"selection", "gate", "reconciliation", "manifest", "verify", "done",
                             "killed"}
           \/ pc \in {"gate", "reconciliation"} /\ pc' \in {"reconciliation", "manifest"}
           \/ pc = "verify" /\ pc' = "done"
    PROVE  PublicationInv'
<1>1. PICK m, s : m = matrix /\ s = Select(m)
  OBVIOUS
<1>2. matrix' = m /\ Select(matrix)' = s
  BY <1>1, SameRules
<1>3. /\ Same(Published("result-matrix")) /\ Same(Published("selection"))
      /\ Same(Published(Sums))
  OBVIOUS
<1> QED
  BY <1>1, <1>2, <1>3 DEF PublicationInv, Same

LEMMA PublicationStep ==
    ASSUME PublicationInv, pc \in Pcs, [Next]_vars
    PROVE  PublicationInv'
<1> USE DEF Pcs
<1> DEFINE Late == {"selection", "gate", "reconciliation", "manifest", "verify", "done", "killed"}
           Three == {"result-matrix", "selection", Sums}
           rm == Published("result-matrix")
           choice == Published("selection")
           sums == Published(Sums)
<1>1. corpus' = corpus
  BY DEF Next, vars, Refuse, Start, AuditLeak, StopLoop, CallProvider, Assemble,
      WriteEvidence, HashCore, WriteFinal, ReplayFromDisk, SealPair, VerifyPair, ClosePair,
      WriteMatrix, WriteSelection, WriteGate, WriteReconciliation, SealPublication,
      Publish, VerifyPublication, Kill, Damage
<1>2. /\ rm # choice /\ rm # sums /\ choice # sums
  BY DEF Published, Sums
<1>3. ASSUME \A n \in Three : Same(Published(n)), pc \notin Late, pc' \notin Late
      PROVE  PublicationInv'
  <2>1. /\ Same(rm) /\ Same(choice) /\ Same(sums)
    BY <1>3
  <2> QED
    BY <1>3, <2>1 DEF PublicationInv, Same
<1>4. CASE Refuse \/ Start \/ AuditLeak \/ StopLoop \/ CallProvider \/ Assemble \/ HashCore
            \/ ClosePair
  <2>1. disk' = disk /\ pc \notin Late /\ pc' \notin Late
    BY <1>4 DEF Refuse, Start, AuditLeak, StopLoop, CallProvider, EndLoop, Assemble, HashCore,
        ClosePair
  <2>2. \A n \in Three : Same(Published(n))
    BY <2>1 DEF Same
  <2> QED
    BY <1>3, <2>1, <2>2
<1>5. CASE WriteEvidence \/ WriteFinal \/ ReplayFromDisk \/ SealPair \/ VerifyPair
  <2>1. pc \notin Late /\ pc' \notin Late
    BY <1>5 DEF WriteEvidence, WriteFinal, ReplayFromDisk, SealPair, VerifyPair
  <2>2. \A f : (\A n \in Files : f # File(n)) => Same(f)
    BY <1>5, PairFilesOnly
  <2>3. \A n, k : Published(n) # File(k)
    BY DEF Published, File
  <2> QED
    BY <1>3, <2>1, <2>2, <2>3
<1>6. CASE WriteMatrix
  <2>1. /\ pc = "publish" /\ pc' = "selection" /\ UNCHANGED matrix /\ PutFile(rm, matrix)
    BY <1>6 DEF WriteMatrix, Publish
  <2>2. /\ rm \in DOMAIN disk' /\ disk'[rm] = Whole(matrix) /\ Same(sums)
    BY <1>2, <2>1, PutLeavesTheRest
  <2>3. sums \in DOMAIN disk => disk[sums] = EarlierSums
    BY <2>1 DEF PublicationInv
  <2> QED
    BY <2>1, <2>2, <2>3 DEF PublicationInv, Same
<1>7. CASE WriteSelection
  <2>1. /\ pc = "selection" /\ pc' = "gate" /\ UNCHANGED matrix
        /\ PutFile(choice, Select(matrix))
    BY <1>7 DEF WriteSelection, Publish
  <2>2. /\ choice \in DOMAIN disk' /\ disk'[choice] = Whole(Select(matrix))
        /\ Same(rm) /\ Same(sums)
    BY <1>2, <2>1, PutLeavesTheRest
  <2>3. /\ rm \in DOMAIN disk /\ disk[rm] = Whole(matrix)
        /\ sums \in DOMAIN disk => disk[sums] = EarlierSums
    BY <2>1 DEF PublicationInv
  <2>4. PICK m, s : m = matrix /\ s = Select(matrix)
    OBVIOUS
  <2>5. matrix' = m /\ Select(matrix)' = s
    BY <1>1, <2>1, <2>4, SameRules
  <2> QED
    BY <2>1, <2>2, <2>3, <2>4, <2>5 DEF PublicationInv, Same
<1>8. CASE WriteGate \/ WriteReconciliation
  <2>1. /\ UNCHANGED matrix
        /\ pc \in {"gate", "reconciliation"} /\ pc' \in {"reconciliation", "manifest"}
    BY <1>8 DEF WriteGate, WriteReconciliation, Publish
  <2>2. PICK n, content : PutFile(Out(n), content)
    BY <1>8 DEF WriteGate, WriteReconciliation, Publish
  <2>3. \A k : Same(Published(k))
    <3>1. \A k : Published(k) # Out(n)
      BY PublishedFiles
    <3>2. \A f : f # Out(n) => Same(f)
      BY <2>2, PutLeavesTheRest
    <3> QED
      BY <3>1, <3>2
  <2> QED
    BY <1>1, <2>1, <2>3, PublicationStays
<1>9. CASE SealPublication
  <2>1. /\ pc = "manifest" /\ pc' = "verify" /\ UNCHANGED matrix /\ PutFile(sums, SumsOf(There))
    BY <1>9 DEF SealPublication, Publish
  <2>2. /\ sums \in DOMAIN disk' /\ disk'[sums] = Whole(SumsOf(There))
        /\ Same(rm) /\ Same(choice)
    BY <1>2, <2>1, PutLeavesTheRest
  <2>3. /\ rm \in DOMAIN disk /\ disk[rm] = Whole(matrix)
        /\ choice \in DOMAIN disk /\ disk[choice] = Whole(Select(matrix))
    BY <2>1 DEF PublicationInv
  <2>4. /\ rm = In(There, "result-matrix") /\ choice = In(There, "selection")
        /\ {"result-matrix", "selection"} \subseteq DocumentNames
    BY PublishedFiles DEF DocumentNames
  <2>5. /\ {"result-matrix", "selection"} \subseteq DOMAIN SumsOf(There)
        /\ SumsOf(There)["result-matrix"] = Whole(matrix)
        /\ SumsOf(There)["selection"] = Whole(Select(matrix))
    BY <2>3, <2>4 DEF SumsOf, Names
  <2>6. /\ disk'[sums].state = "whole" /\ disk'[sums].content = SumsOf(There)
    BY <2>2, WholeIsRead
  <2>7. PICK m, s : m = matrix /\ s = Select(matrix)
    OBVIOUS
  <2>8. matrix' = m /\ Select(matrix)' = s
    BY <1>1, <2>1, <2>7, SameRules
  <2> QED
    BY <2>1, <2>2, <2>3, <2>5, <2>6, <2>7, <2>8 DEF PublicationInv, Same
<1>10. CASE VerifyPublication
  <2>1. pc = "verify" /\ pc' = "done" /\ UNCHANGED <<matrix, disk>>
    BY <1>10 DEF VerifyPublication
  <2>2. \A n : Same(Published(n))
    BY <2>1 DEF Same
  <2> QED
    BY <1>1, <2>1, <2>2, PublicationStays
<1>11. CASE Damage
  <2>1. UNCHANGED <<pc, matrix>>
    BY <1>11 DEF Damage
  <2>2. PICK f \in DOMAIN disk :
            /\ disk' = [disk EXCEPT ![f] = Damaged]
            /\ \/ pc = "verify"
               \/ InPair /\ f \in {File(n) : n \in DocumentNames \cup {Sums}}
    BY <1>11 DEF Damage
  <2>3. \A g : g # f => Same(g)
    BY <2>2 DEF Same
  <2>4. f \in DOMAIN disk' /\ disk'[f] = Damaged
    BY <2>2
  <2>5. CASE pc # "verify"
    <3>1. \A n, k : Published(n) # File(k)
      BY DEF Published, File
    <3>2. \A n : Same(Published(n))
      BY <2>2, <2>3, <2>5, <3>1
    <3> QED
      BY <1>1, <2>1, <3>2, PublicationStays
  <2>6. CASE pc = "verify"
    <3>1. PICK m, s : m = matrix /\ s = Select(matrix)
      OBVIOUS
    <3>2. matrix' = m /\ Select(matrix)' = s
      BY <1>1, <2>1, <3>1, SameRules
    <3>3. /\ rm \in DOMAIN disk /\ disk[rm] \in {Whole(m), Damaged}
          /\ choice \in DOMAIN disk /\ disk[choice] \in {Whole(s), Damaged}
          /\ sums \in DOMAIN disk
          /\ \/ disk[sums] = Damaged
             \/ /\ disk[sums].state = "whole"
                /\ {"result-matrix", "selection"} \subseteq DOMAIN disk[sums].content
                /\ disk[sums].content["result-matrix"] = Whole(m)
                /\ disk[sums].content["selection"] = Whole(s)
      BY <2>6, <3>1 DEF PublicationInv
    <3>4. \A g \in {rm, choice, sums} :
            g \in DOMAIN disk' /\ disk'[g] \in {disk[g], Damaged}
      <4> SUFFICES ASSUME NEW g \in {rm, choice, sums}
                   PROVE  g \in DOMAIN disk' /\ disk'[g] \in {disk[g], Damaged}
        OBVIOUS
      <4>1. g \in DOMAIN disk
        BY <3>3
      <4> QED
        BY <2>3, <2>4, <4>1 DEF Same
    <3>5. /\ rm \in DOMAIN disk' /\ disk'[rm] \in {Whole(m), Damaged}
          /\ choice \in DOMAIN disk' /\ disk'[choice] \in {Whole(s), Damaged}
          /\ sums \in DOMAIN disk'
          /\ \/ disk'[sums] = Damaged
             \/ /\ disk'[sums].state = "whole"
                /\ {"result-matrix", "selection"} \subseteq DOMAIN disk'[sums].content
                /\ disk'[sums].content["result-matrix"] = Whole(m)
                /\ disk'[sums].content["selection"] = Whole(s)
      BY <3>3, <3>4
    <3> QED
      BY <2>1, <2>6, <3>2, <3>5 DEF PublicationInv
  <2> QED
    BY <2>5, <2>6
<1>12. CASE UNCHANGED vars
  <2>1. UNCHANGED <<pc, matrix, disk>>
    BY <1>12 DEF vars
  <2>2. \A n : Same(Published(n))
    BY <2>1 DEF Same
  <2> QED
    BY <1>1, <2>1, <2>2, PublicationStays
<1>13. CASE Kill
  BY <1>13 DEF Kill, PublicationInv
<1> QED
  BY <1>4, <1>5, <1>6, <1>7, <1>8, <1>9, <1>10, <1>11, <1>12, <1>13 DEF Next

-----------------------------------------------------------------------------
(* The choice is earned.                                                   *)

\* Two readings of a result that the rules cannot tell apart.
SameRow(a, b) ==
    /\ a.counterexample_discovered <=> b.counterexample_discovered
    /\ a.calls_to_first_counterexample = b.calls_to_first_counterexample
    /\ a.leak_audit = b.leak_audit
    /\ a.terminal_failure = b.terminal_failure
    /\ a.metrics = b.metrics
    /\ a.evidence_integrity = b.evidence_integrity
    /\ a.replay_matches_final <=> b.replay_matches_final

Alike(a, b) == DOMAIN a = DOMAIN b /\ \A i \in DOMAIN a : SameRow(a[i], b[i])

LEMMA AlikeCounts ==
    ASSUME NEW a, NEW b, Alike(a, b)
    PROVE  Merits(a) = Merits(b) /\ (Deserves(a) <=> Deserves(b))
<1>1. DOMAIN a = DOMAIN b /\ \A i \in DOMAIN a : SameRow(a[i], b[i])
  BY DEF Alike
<1>2. TargetsSolved(a) = TargetsSolved(b)
  <2>1. {i \in DOMAIN a : Solved(a[i])} = {i \in DOMAIN b : Solved(b[i])}
    BY <1>1 DEF SameRow, Solved
  <2> QED
    BY <2>1 DEF TargetsSolved
<1>3. TwiceBindingDimensions(a) = TwiceBindingDimensions(b)
  <2>1. [i \in DOMAIN a |-> Cardinality(a[i].metrics.binding_dimensions_varied)]
            = [i \in DOMAIN b |-> Cardinality(b[i].metrics.binding_dimensions_varied)]
    BY <1>1 DEF SameRow
  <2> QED
    BY <2>1 DEF TwiceBindingDimensions
<1>4. RouteFamilies(a) = RouteFamilies(b)
  <2>1. {a[i].metrics.route_families_probed : i \in DOMAIN a}
            = {b[i].metrics.route_families_probed : i \in DOMAIN b}
    BY <1>1 DEF SameRow
  <2> QED
    BY <2>1 DEF RouteFamilies
<1>5. TwiceDuplicateRate(a) = TwiceDuplicateRate(b)
  <2>1. [i \in DOMAIN a |-> a[i].metrics.duplicate_probe_rate]
            = [i \in DOMAIN b |-> b[i].metrics.duplicate_probe_rate]
    BY <1>1 DEF SameRow
  <2> QED
    BY <2>1 DEF TwiceDuplicateRate
<1>6. TwiceUniqueRate(a) = TwiceUniqueRate(b)
  <2>1. [i \in DOMAIN a |-> a[i].metrics.unique_hypothesis_rate]
            = [i \in DOMAIN b |-> b[i].metrics.unique_hypothesis_rate]
    BY <1>1 DEF SameRow
  <2> QED
    BY <2>1 DEF TwiceUniqueRate
<1>7. TwiceCallsToFirst(a) = TwiceCallsToFirst(b)
  <2> DEFINE S(x) == {i \in DOMAIN x : x[i].calls_to_first_counterexample # None}
             f(x) == [i \in S(x) |-> x[i].calls_to_first_counterexample]
  <2>1. S(a) = S(b)
    BY <1>1 DEF SameRow
  <2>2. f(a) = f(b)
    BY <1>1, <2>1 DEF SameRow
  <2>3. /\ TwiceCallsToFirst(a)
                = IF S(a) = {} THEN 2 * MaxProviderCalls + 1 ELSE TwiceMedian(f(a))
        /\ TwiceCallsToFirst(b)
                = IF S(b) = {} THEN 2 * MaxProviderCalls + 1 ELSE TwiceMedian(f(b))
    BY DEF TwiceCallsToFirst
  <2> HIDE DEF S, f
  <2> QED
    BY <2>1, <2>2, <2>3
<1>8. Merits(a) = Merits(b)
  BY <1>2, <1>3, <1>4, <1>5, <1>7 DEF Merits
<1>9. {i \in DOMAIN a : a[i].counterexample_discovered /\ ~ a[i].terminal_failure}
        = {i \in DOMAIN b : b[i].counterexample_discovered /\ ~ b[i].terminal_failure}
  BY <1>1 DEF SameRow
<1>10. {i \in DOMAIN a : ~ a[i].terminal_failure} = {i \in DOMAIN b : ~ b[i].terminal_failure}
  BY <1>1 DEF SameRow
<1>11. (\A i \in DOMAIN a : /\ a[i].leak_audit = "PASS" /\ a[i].evidence_integrity = "PASS"
                            /\ a[i].replay_matches_final)
        <=> (\A i \in DOMAIN b : /\ b[i].leak_audit = "PASS" /\ b[i].evidence_integrity = "PASS"
                                 /\ b[i].replay_matches_final)
  BY <1>1 DEF SameRow
<1>12. Deserves(a) <=> Deserves(b)
  BY <1>3, <1>4, <1>5, <1>6, <1>9, <1>10, <1>11 DEF Deserves, RouteFamilies
<1> QED
  BY <1>8, <1>12

\* Kept evidence gives the row that is published.
LEMMA EvidenceGivesTheRow ==
    ASSUME NEW c, NEW i, NEW row, WellMade(corpus[i]), Settled(c, i, row), Kept(c, i)
    PROVE  SameRow(FromEvidence(c, i), row)
<1> DEFINE rows == PairFile(c, i, "attempts")
           commits == PairFile(c, i, "adjudicator-evidence")
           facts == PairFile(c, i, "runtime-facts")
           leak == PairFile(c, i, "leak-audit")
           t == corpus[i]
           through == {k \in DOMAIN rows : UsesTheFlaw(t, rows[k].path, rows[k].action)}
           read == FromEvidence(c, i)
<1>1. /\ Search(t, rows, commits, facts.provider_calls, leak, facts.terminal_failure)
      /\ Tells(row, rows, commits, facts, leak)
      /\ \A k \in DOMAIN rows : rows[k].action # NotAnObject
  BY DEF Settled, Gathered, Backed
<1>2. /\ row.evidence_integrity = IF Caught(c, i) THEN "FAIL" ELSE "PASS"
      /\ row.replay_matches_final <=> Attributable(rows, commits, facts)
  BY DEF Settled, Matching, AttributableIn, Verdict
<1>3. /\ read.counterexample_discovered <=> through # {} /\ ~ facts.terminal_failure
      /\ read.calls_to_first_counterexample =
            IF through = {} THEN None ELSE rows[Sets!Min(through)].provider_call
      /\ read.leak_audit = leak /\ read.terminal_failure = facts.terminal_failure
      /\ read.metrics = Metrics(rows, facts.exposed_dimensions)
      /\ read.evidence_integrity = IF Caught(c, i) THEN "FAIL" ELSE "PASS"
      /\ read.replay_matches_final <=> Attributable(rows, commits, facts)
  BY DEF FromEvidence
<1>4. through = Admitted(rows)
  <2> HIDE DEF rows, commits, facts, leak
  <2>1. \A k \in DOMAIN rows :
            rows[k].reason = "admitted" <=> UsesTheFlaw(t, rows[k].path, rows[k].action)
    BY <1>1, OnlyThroughTheFlaw DEF Search, Seen
  <2> QED
    BY <2>1 DEF Admitted
<1> HIDE DEF rows, commits, facts, leak, t, through, read
<1>5. read.calls_to_first_counterexample = FirstAdmitted(rows)
  BY <1>3, <1>4 DEF FirstAdmitted
<1>6. CounterexampleIn(commits) <=> through # {}
  BY <1>1, <1>4 DEF Search
<1>7. through # {} => Len(rows) > 0
  BY <1>1, <1>4 DEF Search, Admitted, Listed
<1>8. read.counterexample_discovered <=> row.counterexample_discovered
  BY <1>1, <1>3, <1>6, <1>7 DEF Tells
<1>9. SameRow(read, row)
  BY <1>1, <1>2, <1>3, <1>5, <1>8 DEF Tells, SameRow
<1> QED
  BY <1>9 DEF read

\* So reading the matrix again changes nothing the rules look at.
LEMMA ReadingAgain ==
    ASSUME CorpusInv, Complete(matrix), PairsInv
    PROVE  /\ DOMAIN ReadAgain(matrix) = DOMAIN matrix
           /\ \A c \in DOMAIN matrix : Alike(ReadAgain(matrix)[c], matrix[c])
<1>1. DOMAIN ReadAgain(matrix) = DOMAIN matrix
  BY DEF ReadAgain
<1>2. ASSUME NEW c \in DOMAIN matrix
      PROVE  Alike(ReadAgain(matrix)[c], matrix[c])
  <2>1. ReadAgain(matrix)[c] =
            [i \in DOMAIN matrix[c] |->
                IF Kept(c, i) THEN FromEvidence(c, i) ELSE matrix[c][i]]
    BY DEF ReadAgain
  <2>2. /\ DOMAIN matrix[c] = 1..Len(matrix[c]) /\ Len(matrix[c]) = TargetCount
        /\ c \in 1..Len(Candidates) /\ DOMAIN corpus = 1..TargetCount
    <3>1. Listed(matrix[c]) /\ Len(matrix[c]) = TargetCount /\ c \in 1..Len(Candidates)
      BY DEF Complete
    <3>2. Listed(corpus) /\ Len(corpus) = TargetCount
      BY DEF CorpusInv, TargetCount
    <3>3. \A s : Listed(s) => DOMAIN s = 1..Len(s)
      BY DEF Listed
    <3> QED
      BY <3>1, <3>2, <3>3
  <2>3. ASSUME NEW i \in DOMAIN matrix[c]
        PROVE  SameRow(ReadAgain(matrix)[c][i], matrix[c][i])
    <3>1. Settled(c, i, matrix[c][i]) /\ WellMade(corpus[i])
      BY <2>2 DEF PairsInv, CorpusInv
    <3>2. CASE Kept(c, i)
      BY <2>1, <3>1, <3>2, EvidenceGivesTheRow
    <3>3. CASE ~ Kept(c, i)
      BY <2>1, <3>3 DEF SameRow
    <3> QED
      BY <3>2, <3>3
  <2> QED
    BY <2>1, <2>3 DEF Alike
<1> QED
  BY <1>1, <1>2

\* The gate asks what the frozen rules ask.
LEMMA QualifiedDeserves ==
    ASSUME NEW m, Complete(m), TargetCount \in Nat, NEW c \in DOMAIN m
    PROVE  Qualifies(m[c]) <=> Deserves(m[c])
<1>1. PICK rows, n : rows = m[c] /\ n = TargetCount
  OBVIOUS
<1> DEFINE passing == {i \in DOMAIN rows : rows[i].leak_audit = "PASS"}
<1>2. n \in Nat /\ DOMAIN rows = 1..n
  <2>1. Listed(rows) /\ Len(rows) = n
    BY <1>1 DEF Complete
  <2>2. DOMAIN rows = 1..Len(rows)
    BY <2>1 DEF Listed
  <2> QED
    BY <1>1, <2>1, <2>2
<1>3. IsFiniteSet(1..n) /\ Cardinality(1..n) = n
  <2>1. 1 \in Int /\ n \in Int
    BY <1>2
  <2> QED
    BY <1>2, <2>1, FS_Interval
<1>4. LeakAuditPasses(rows) = n <=> \A i \in DOMAIN rows : rows[i].leak_audit = "PASS"
  <2>1. LeakAuditPasses(rows) = Cardinality(passing) /\ passing \in SUBSET (1..n)
    BY <1>2 DEF LeakAuditPasses
  <2>2. passing = 1..n <=> \A i \in DOMAIN rows : rows[i].leak_audit = "PASS"
    BY <1>2
  <2> HIDE DEF passing
  <2>3. Cardinality(passing) = n => passing = 1..n
    BY <1>3, <2>1, FS_Subset
  <2> QED
    BY <1>3, <2>1, <2>2, <2>3
<1>5. TargetsSolved(rows) = Cardinality({i \in DOMAIN rows :
            rows[i].counterexample_discovered /\ ~ rows[i].terminal_failure})
  BY DEF TargetsSolved, Solved
<1>6. Qualifies(rows) <=> Deserves(rows)
  BY <1>1, <1>4, <1>5 DEF Qualifies, Deserves, Completed, RouteFamilies
<1> QED
  BY <1>1, <1>6

\* Until the command is killed, what it holds decides whether the choice is earned:
\* while it writes, nothing verifies but an earlier publication.
LEMMA EarnedWhileWritten ==
    CorpusInv /\ MatrixInv /\ PairsInv /\ PublicationInv /\ pc \in Pcs /\ pc # "killed"
    => SelectionIsEarned
<1> DEFINE rm == Published("result-matrix")
           choice == Published("selection")
           sums == Published(Sums)
           m == ReadAgain(disk[rm].content)
           selected == disk[choice].content
<1> SUFFICES ASSUME CorpusInv, MatrixInv, PairsInv, PublicationInv, pc \in Pcs, pc # "killed",
                    Verifies(There), rm \in DOMAIN disk
             PROVE  /\ disk[rm] = Earlier <=> disk[choice] = Earlier
                    /\ pc = "done" => disk[rm].state = "whole"
                    /\ disk[rm].state = "whole" =>
                        /\ \A c \in DOMAIN Candidates, i \in DOMAIN corpus, n \in EvidenceFiles :
                            /\ <<"adjudicator", c, i, n>> \in DOMAIN disk
                            /\ disk[<<"adjudicator", c, i, n>>] # Earlier
                        /\ \/ selected = None /\ \A c \in DOMAIN m : ~ Deserves(m[c])
                           \/ /\ selected \in DOMAIN m /\ Deserves(m[selected])
                              /\ \A d \in DOMAIN m \ {selected} :
                                    Deserves(m[d]) => Ahead(m, selected, d)
  BY DEF SelectionIsEarned
<1> USE DEF Pcs
<1>1. sums \in DOMAIN disk /\ disk[sums] = Whole(SumsOf(There))
  BY PublishedFiles DEF Verifies
<1>2. "result-matrix" \in DOMAIN SumsOf(There) /\ SumsOf(There)["result-matrix"] = disk[rm]
  BY PublishedFiles DEF SumsOf, Names, DocumentNames
<1>3. CASE pc \notin {"selection", "gate", "reconciliation", "manifest", "verify", "done"}
  <2>1. disk[rm] = Earlier /\ disk[choice] = Earlier /\ disk[rm].state # "whole"
    BY <1>3, ThreeStates DEF PublicationInv
  <2> HIDE DEF m, selected, rm, choice
  <2> QED
    BY <1>3, <2>1
<1>4. CASE pc \in {"selection", "gate", "reconciliation", "manifest"}
  <2>1. disk[rm] = Whole(matrix) /\ disk[sums] = EarlierSums
    BY <1>1, <1>4 DEF PublicationInv
  <2>2. SumsOf(There) = [n \in {"result-matrix", "selection"} |-> Earlier]
    BY <1>1, <2>1, ThreeStates DEF EarlierSums
  <2>3. SumsOf(There)["result-matrix"] = Earlier
    BY <2>2
  <2>4. FALSE
    BY <1>2, <2>1, <2>3, ThreeStates
  <2> QED
    BY <2>4
<1>5. CASE pc \in {"verify", "done"}
  <2>1. /\ disk[sums].state = "whole"
        /\ {"result-matrix", "selection"} \subseteq DOMAIN disk[sums].content
        /\ disk[sums].content["result-matrix"] = Whole(matrix)
        /\ disk[sums].content["selection"] = Whole(Select(matrix))
    BY <1>1, <1>5, ThreeStates DEF PublicationInv
  <2>2. disk[sums].content = SumsOf(There)
    BY <1>1, WholeIsRead
  <2>3. "selection" \in DOMAIN SumsOf(There) => SumsOf(There)["selection"] = disk[choice]
    BY PublishedFiles DEF SumsOf, Names
  <2>4. disk[rm] = Whole(matrix) /\ disk[choice] = Whole(Select(matrix))
    BY <1>2, <2>1, <2>2, <2>3
  <2>5. /\ disk[rm].content = matrix /\ selected = Select(matrix) /\ disk[rm].state = "whole"
        /\ disk[rm] # Earlier /\ disk[choice] # Earlier
    BY <2>4, WholeIsRead, ThreeStates
  <2>6. TargetCount \in Nat /\ TargetCount # 0
    BY SomeTargets
  <2>7. /\ DOMAIN matrix = 1..Len(Candidates)
        /\ \A c \in 1..Len(Candidates) : Listed(matrix[c]) /\ Len(matrix[c]) = TargetCount
    BY <1>5 DEF MatrixInv
  <2>8. \A c \in 1..Len(Candidates) : \A i \in 1..TargetCount : Settled(c, i, matrix[c][i])
    BY <2>7 DEF PairsInv
  <2>9. Complete(matrix)
    BY <2>7, <2>8 DEF Complete, Settled, Gathered
  <2>10. m = ReadAgain(matrix)
    BY <2>5
  <2> DEFINE passing == {c \in DOMAIN matrix : Qualifies(matrix[c])}
  <2> HIDE DEF m, selected, rm, choice, sums
  <2>11. /\ DOMAIN m = DOMAIN matrix
         /\ \A c \in DOMAIN matrix :
                Merits(m[c]) = Merits(matrix[c]) /\ (Deserves(m[c]) <=> Deserves(matrix[c]))
    BY <2>9, <2>10, ReadingAgain, AlikeCounts
  <2>12. \A c \in DOMAIN matrix : c \in passing <=> Deserves(m[c])
    BY <2>6, <2>9, <2>11, QualifiedDeserves
  <2>13. /\ passing = {} => Select(matrix) = None
         /\ passing # {} => /\ Select(matrix) \in passing
                            /\ \A d \in passing \ {Select(matrix)} :
                                    Ahead(matrix, Select(matrix), d)
    BY <2>6, <2>9, SelectedIsFirst
  <2>14. \A c, d \in DOMAIN matrix : Ahead(matrix, c, d) => Ahead(m, c, d)
    BY <2>11 DEF Ahead
  <2>15. \/ selected = None /\ \A c \in DOMAIN m : ~ Deserves(m[c])
         \/ /\ selected \in DOMAIN m /\ Deserves(m[selected])
            /\ \A d \in DOMAIN m \ {selected} : Deserves(m[d]) => Ahead(m, selected, d)
    <3>1. passing \subseteq DOMAIN matrix
      OBVIOUS
    <3> HIDE DEF passing
    <3>2. CASE passing = {}
      BY <2>5, <2>11, <2>12, <2>13, <3>2
    <3>3. CASE passing # {}
      <4>1. selected \in passing /\ \A d \in passing \ {selected} : Ahead(matrix, selected, d)
        BY <2>5, <2>13, <3>3
      <4>2. selected \in DOMAIN m /\ Deserves(m[selected])
        BY <2>11, <2>12, <3>1, <4>1
      <4>3. ASSUME NEW d \in DOMAIN m \ {selected}, Deserves(m[d])
            PROVE  Ahead(m, selected, d)
        BY <2>11, <2>12, <2>14, <4>1, <4>2, <4>3
      <4> QED
        BY <4>2, <4>3
    <3> QED
      BY <3>2, <3>3
  <2>16. \A c \in DOMAIN Candidates, i \in DOMAIN corpus, n \in EvidenceFiles :
            /\ <<"adjudicator", c, i, n>> \in DOMAIN disk
            /\ disk[<<"adjudicator", c, i, n>>] # Earlier
    <3>1. /\ DOMAIN Candidates = 1..Len(Candidates)
          /\ DOMAIN corpus = 1..TargetCount
      BY CandidatesAreNumbered DEF CorpusInv, Listed, TargetCount
    <3>2. \A c \in 1..Len(Candidates) : \A i \in 1..TargetCount : Accounted(c, i)
      BY <2>8 DEF Settled, Gathered
    <3>3. \A f : f.state = "whole" \/ f = Damaged => f # Earlier
      BY ThreeStates
    <3> QED
      BY <3>1, <3>2, <3>3 DEF Accounted
  <2> QED
    BY <2>5, <2>15, <2>16
<1> QED
  BY <1>3, <1>4, <1>5

\* It stays so when the command is killed.
LEMMA EarnedStays ==
    ASSUME SelectionIsEarned, UNCHANGED <<corpus, disk, faults>>, pc' # "done"
    PROVE  SelectionIsEarned'
<1> DEFINE rm == Published("result-matrix")
           choice == Published("selection")
<1>1. \A f : Same(f)
  BY DEF Same
<1>2. \A place : Verifies(place)' <=> Verifies(place)
  BY <1>1, UntouchedSeal
<1>3. ASSUME NEW c, NEW i
      PROVE  (Kept(c, i)' <=> Kept(c, i)) /\ FromEvidence(c, i)' = FromEvidence(c, i)
  <2>1. Kept(c, i)' <=> Kept(c, i)
    BY <1>1, UntouchedEvidence
  <2>2. FromEvidence(c, i)' = FromEvidence(c, i)
    BY DEF FromEvidence, PairFile, Caught, Struck
  <2> QED
    BY <2>1, <2>2
<1>4. \A x : ReadAgain(x)' = ReadAgain(x)
  BY <1>3 DEF ReadAgain
<1>5. PICK read, chosen, matter, whole :
        /\ read = ReadAgain(disk[rm].content) /\ chosen = disk[choice].content
        /\ matter = ReadAgain(disk[rm].content)' /\ whole = disk[rm].state
  OBVIOUS
<1>6. matter = read
  BY <1>4, <1>5
<1>7. Verifies(There)' <=> Verifies(There)
  BY <1>2
<1> DEFINE Free == \A c \in DOMAIN Candidates, i \in DOMAIN corpus, n \in EvidenceFiles :
                    /\ <<"adjudicator", c, i, n>> \in DOMAIN disk
                    /\ disk[<<"adjudicator", c, i, n>>] # Earlier
           Best == \/ chosen = None /\ \A c \in DOMAIN read : ~ Deserves(read[c])
                   \/ /\ chosen \in DOMAIN read /\ Deserves(read[chosen])
                      /\ \A d \in DOMAIN read \ {chosen} :
                            Deserves(read[d]) => Ahead(read, chosen, d)
<1>8. (Verifies(There) /\ rm \in DOMAIN disk) =>
        /\ disk[rm] = Earlier <=> disk[choice] = Earlier
        /\ disk[rm].state = "whole" => Free /\ Best
  BY <1>5 DEF SelectionIsEarned
<1>9. ((Verifies(There) /\ rm \in DOMAIN disk) =>
        /\ disk[rm] = Earlier <=> disk[choice] = Earlier
        /\ disk[rm].state = "whole" => Free /\ Best) => SelectionIsEarned'
  BY <1>5, <1>6, <1>7 DEF SelectionIsEarned
<1> QED
  BY <1>8, <1>9
-----------------------------------------------------------------------------
(* The theorems.                                                           *)

\* A run starts over nothing, or over what an earlier one left.
LEMMA QInvInitially == Init => QInv
<1> SUFFICES ASSUME Init
             PROVE  QInv
  OBVIOUS
<1>1. CorpusInv
  BY CorpusInitially
<1>2. pc \in Pcs /\ faults = {} /\ IsFiniteSet(faults) /\ Cardinality(faults) <= MaxFaults
  BY QualificationAssumption, FS_EmptySet DEF Init, Pcs
<1>3. /\ matrix = [c \in 1..Len(Candidates) |-> <<>>] /\ at = <<1, 1>> /\ pc = "start"
      /\ Len(Candidates) \in Nat /\ 1 \in 1..Len(Candidates)
  BY CandidatesAreNumbered DEF Init
<1>4. TargetCount \in Nat /\ TargetCount # 0
  BY <1>1, SomeTargets
<1>5. Listed(<<>>) /\ Len(<<>>) = 0
  BY DEF Listed
<1>6. \A c \in 1..Len(Candidates) : matrix[c] = <<>> /\ 1..Len(matrix[c]) = {}
  BY <1>3, <1>5
<1>7. MatrixInv
  <2>1. at[1] = 1 /\ at[2] = 1 /\ 1 \in 1..TargetCount /\ at = <<at[1], at[2]>>
    BY <1>3, <1>4
  <2>2. \A c \in 1..Len(Candidates) :
            Len(matrix[c]) = IF c < at[1] THEN TargetCount
                             ELSE IF c = at[1] THEN at[2] - 1 ELSE 0
    BY <1>3, <1>5, <1>6, <2>1
  <2> QED
    BY <1>3, <1>5, <1>6, <2>1, <2>2 DEF MatrixInv
<1>8. SessionInv /\ HandInv /\ DigestsInv /\ StrikesInv
  BY <1>2, <1>3 DEF SessionInv, HandInv, DigestsInv, StrikesInv, Init, InPair
<1>9. PairsInv
  BY <1>6 DEF PairsInv
<1>10. PublicationInv
  <2> DEFINE rm == Published("result-matrix")
             choice == Published("selection")
             sums == Published(Sums)
  <2>1. CASE disk = <<>>
    BY <1>3, <2>1 DEF PublicationInv
  <2>2. CASE disk = EarlierRun
    <3>1. /\ rm \in DOMAIN EarlierRun /\ choice \in DOMAIN EarlierRun
          /\ sums \in DOMAIN EarlierRun
          /\ rm # sums /\ choice # sums
      BY DEF EarlierRun, Published, Sums
    <3>2. EarlierRun[rm] = Earlier /\ EarlierRun[choice] = Earlier
          /\ EarlierRun[sums] = EarlierSums
      BY <3>1 DEF EarlierRun, EarlierSums
    <3> QED
      BY <1>3, <2>2, <3>1, <3>2 DEF PublicationInv
  <2> QED
    BY <2>1, <2>2 DEF Init
<1>11. SelectionIsEarned
  BY <1>1, <1>2, <1>3, <1>7, <1>9, <1>10, EarnedWhileWritten
<1> QED
  BY <1>1, <1>2, <1>7, <1>8, <1>9, <1>10, <1>11 DEF QInv

LEMMA QInvStep == QInv /\ [Next]_vars => QInv'
<1>1. QInv /\ [Next]_vars => CorpusInv' /\ MatrixInv' /\ pc' \in Pcs
  BY MatrixStep DEF QInv
<1>2. QInv /\ [Next]_vars => SessionInv'
  BY SessionStep DEF QInv
<1>3. QInv /\ [Next]_vars => IsFiniteSet(faults)' /\ (Cardinality(faults) <= MaxFaults)'
  BY FaultsStep DEF QInv
<1>4. [Next]_vars => corpus' = corpus
  BY DEF Next, vars, Refuse, Start, AuditLeak, StopLoop, CallProvider, Assemble,
      WriteEvidence, HashCore, WriteFinal, ReplayFromDisk, SealPair, VerifyPair, ClosePair,
      WriteMatrix, WriteSelection, WriteGate, WriteReconciliation, SealPublication,
      Publish, VerifyPublication, Kill, Damage
<1>5. QInv /\ [Next]_vars => StrikesInv' /\ DigestsInv'
  BY <1>1, <1>4, StrikesStep, DigestsStep DEF QInv
<1>6. QInv /\ [Next]_vars => PairsInv' /\ HandInv'
  BY PairsStep, HandStep DEF QInv
<1>7. QInv /\ [Next]_vars => PublicationInv'
  BY PublicationStep DEF QInv
<1>8. QInv /\ [Next]_vars /\ pc' = "killed" => UNCHANGED <<corpus, disk, faults>>
  BY DEF Next, vars, Refuse, Start, AuditLeak, StopLoop, CallProvider, EndLoop, Assemble,
      WriteEvidence, HashCore, WriteFinal, ReplayFromDisk, SealPair, VerifyPair, ClosePair,
      WriteMatrix, WriteSelection, WriteGate, WriteReconciliation, SealPublication,
      Publish, VerifyPublication, Kill, Damage, InPair
<1>9. QInv /\ [Next]_vars /\ pc' = "killed" => SelectionIsEarned'
  BY <1>8, EarnedStays DEF QInv
<1>10. (CorpusInv /\ MatrixInv /\ PairsInv /\ PublicationInv /\ pc \in Pcs /\ pc # "killed"
        => SelectionIsEarned)'
  BY EarnedWhileWritten, PTL
<1>11. QInv /\ [Next]_vars => SelectionIsEarned'
  BY <1>1, <1>6, <1>7, <1>9, <1>10
<1> QED
  BY <1>1, <1>2, <1>3, <1>5, <1>6, <1>7, <1>11 DEF QInv

\* Whatever the seed, the provider, the budgets and the thresholds: the order of the
\* pairs, the session, the results in the matrix, the pair in hand with its digests and seals,
\* the damage, the publication and the choice are what the invariant says (cmd_run).
THEOREM QualificationInvariant == Spec => []QInv
<1>1. Init => QInv
  BY QInvInitially
<1>2. QInv /\ [Next]_vars => QInv'
  BY QInvStep
<1> QED
  BY <1>1, <1>2, PTL DEF Spec

\* No session leaves its budgets, each attempt has one line of telemetry and at most
\* one commit, and the matrix fills in the order of the pairs
\* (run_candidate_on_target, cmd_run).
THEOREM SessionsStayInBudget == Spec => []QTypeOK
<1>1. QInv => QTypeOK
  <2> SUFFICES ASSUME QInv
               PROVE  QTypeOK
    OBVIOUS
  <2>1. /\ MatrixInv /\ SessionInv /\ CorpusInv
        /\ IsFiniteSet(faults) /\ Cardinality(faults) <= MaxFaults
        /\ DOMAIN Candidates = 1..Len(Candidates)
    BY CandidatesAreNumbered DEF QInv
  <2>2. ASSUME session # None
        PROVE  /\ session.calls \in 0..MaxProviderCalls
               /\ session.attempts = Len(session.rows)
               /\ session.attempts \in 0..MaxTargetAttempts
               /\ session.invalid \in 0..MaxInvalidOutputs
               /\ Len(session.commits) <= session.attempts
               /\ Len(session.telemetry) = session.attempts
               /\ session.first \in {None} \cup (1..session.calls)
    <3>1. SessionOf(session, Target)
      BY <2>1, <2>2 DEF SessionInv
    <3>2. Len(session.rows) \in Nat
      BY <3>1 DEF SessionOf, Search, Listed
    <3>3. FirstAdmitted(session.rows) \in {None} \cup (1..session.calls)
      BY <3>1, FirstAdmittedCall DEF SessionOf
    <3>4. Len(session.commits) <= Len(session.rows)
      BY <3>1 DEF SessionOf, Search
    <3> QED
      BY <3>1, <3>2, <3>3, <3>4, QualificationAssumption DEF SessionOf
  <2>3. TargetCount \in Nat
    BY <2>1, SomeTargets
  <2>4. \A c \in DOMAIN Candidates : Len(matrix[c]) \in 0..TargetCount
    BY <2>1, <2>3 DEF MatrixInv
  <2>5. InPair => Len(matrix[at[1]]) = at[2] - 1
    BY <2>1 DEF MatrixInv, InPair
  <2> QED
    BY <2>1, <2>2, <2>4, <2>5 DEF QTypeOK
<1> QED
  BY <1>1, QualificationInvariant, PTL

\* For every provider and every damage: the replay of evidence that is whole differs
\* from the stored result exactly when the first counterexample cannot be told from
\* the attempts, or the provider failed after it (replay_from_disk).
THEOREM ReplayFindsTheRest == Spec => []ReplayMissesOnlyUnattributed
<1>1. QInv => ReplayMissesOnlyUnattributed
  <2> SUFFICES ASSUME QInv, NEW c \in DOMAIN Candidates, NEW i \in DOMAIN corpus,
                      Kept(c, i), Len(matrix[c]) >= i
               PROVE  matrix[c][i].replay_matches_final <=> AttributableIn(c, i)
    BY DEF ReplayMissesOnlyUnattributed, AttributableIn
  <2>1. c \in 1..Len(Candidates) /\ i \in 1..Len(corpus)
    BY CandidatesAreNumbered DEF QInv, CorpusInv, Listed
  <2>2. Len(matrix[c]) \in Nat
    BY <2>1 DEF QInv, MatrixInv, Listed
  <2>3. i \in 1..Len(matrix[c])
    BY <2>1, <2>2
  <2>4. Matching(c, i, matrix[c][i].replay_matches_final)
    BY <2>1, <2>3 DEF QInv, PairsInv, Settled
  <2> QED
    BY <2>4 DEF Matching
<1> QED
  BY <1>1, QualificationInvariant, PTL

\* For every damage: the integrity of a result in the matrix is PASS exactly when
\* nothing was damaged between a digest and its comparison, and its last seal verifies
\* until something is damaged later (persist_and_verify).
THEOREM IntegritySaysWhatChanged == Spec => []IntegrityIsExact
<1>1. QInv => IntegrityIsExact
  <2> SUFFICES ASSUME QInv, NEW c \in DOMAIN Candidates, NEW i \in DOMAIN matrix[c]
               PROVE  /\ matrix[c][i].evidence_integrity
                            = IF Caught(c, i) THEN "FAIL" ELSE "PASS"
                      /\ ~ Struck(c, i, {"resealed"}, DocumentNames \cup {Sums})
                      /\ \/ Verifies(<<"adjudicator", c, i>>)
                         \/ Struck(c, i, {"verify"}, DocumentNames \cup {Sums})
    BY DEF IntegrityIsExact
  <2>1. c \in 1..Len(Candidates)
    BY CandidatesAreNumbered
  <2>2. i \in 1..Len(matrix[c])
    BY <2>1 DEF QInv, MatrixInv, Listed
  <2>3. Settled(c, i, matrix[c][i])
    BY <2>1, <2>2 DEF QInv, PairsInv
  <2> QED
    BY <2>3 DEF Settled, Verdict, Files
<1> QED
  BY <1>1, QualificationInvariant, PTL

\* For every provider: a target is solved exactly when the kept evidence shows an
\* attempt through its flaw and no terminal failure, and a pair that leaks made no
\* call (_assemble, audit_pair).
THEOREM SolvedThroughTheFlaw == Spec => []SolvedIsReal
<1>1. QInv => SolvedIsReal
  <2> SUFFICES ASSUME QInv, NEW c \in DOMAIN Candidates, NEW i \in DOMAIN corpus,
                      Kept(c, i), Len(matrix[c]) >= i
               PROVE  LET rows == PairFile(c, i, "attempts")
                          row == matrix[c][i]
                      IN /\ row.counterexample_discovered <=>
                              /\ ~ PairFile(c, i, "runtime-facts").terminal_failure
                              /\ \E k \in DOMAIN rows :
                                  UsesTheFlaw(corpus[i], rows[k].path, rows[k].action)
                         /\ row.leak_audit = "FAIL" =>
                              rows = <<>> /\ row.provider_calls = 0 /\ row.terminal_failure
    BY DEF SolvedIsReal
  <2> DEFINE rows == PairFile(c, i, "attempts")
             commits == PairFile(c, i, "adjudicator-evidence")
             facts == PairFile(c, i, "runtime-facts")
             leak == PairFile(c, i, "leak-audit")
             row == matrix[c][i]
             t == corpus[i]
  <2>1. c \in 1..Len(Candidates) /\ i \in 1..Len(corpus) /\ WellMade(t)
    BY CandidatesAreNumbered DEF QInv, CorpusInv, Listed
  <2>2. Len(matrix[c]) \in Nat
    BY <2>1 DEF QInv, MatrixInv, Listed
  <2>3. i \in 1..Len(matrix[c])
    BY <2>1, <2>2
  <2>4. Backed(c, i, row)
    BY <2>1, <2>3 DEF QInv, PairsInv, Settled, Gathered
  <2>5. /\ Search(t, rows, commits, facts.provider_calls, leak, facts.terminal_failure)
        /\ Tells(row, rows, commits, facts, leak)
        /\ \A k \in DOMAIN rows : rows[k].action # NotAnObject
    BY <2>4 DEF Backed
  <2> HIDE DEF rows, commits, facts, leak, row, t
  <2>6. \A k \in DOMAIN rows :
            rows[k].reason = "admitted" <=> UsesTheFlaw(t, rows[k].path, rows[k].action)
    BY <2>1, <2>5, OnlyThroughTheFlaw DEF Search, Seen
  <2>7. CounterexampleIn(commits) <=>
            \E k \in DOMAIN rows : UsesTheFlaw(t, rows[k].path, rows[k].action)
    BY <2>5, <2>6 DEF Search, Admitted
  <2>8. CounterexampleIn(commits) => Len(rows) > 0
    BY <2>5 DEF Search, Admitted, Listed
  <2>9. row.counterexample_discovered <=>
            /\ ~ facts.terminal_failure
            /\ \E k \in DOMAIN rows : UsesTheFlaw(t, rows[k].path, rows[k].action)
    BY <2>5, <2>7, <2>8 DEF Tells
  <2>10. row.leak_audit = "FAIL" =>
            rows = <<>> /\ row.provider_calls = 0 /\ row.terminal_failure
    BY <2>5 DEF Search, Tells
  <2> QED
    BY <2>9, <2>10 DEF rows, facts, row, t
<1> QED
  BY <1>1, QualificationInvariant, PTL

\* For every run over what an earlier one left, every kill and every damage: a
\* publication that verifies is of one run, and that of this run lies over no evidence
\* of an earlier one and names the candidate that the frozen rules, all of the gate and
\* the whole of the order, choose from the evidence on the disk, or nobody when no one
\* deserves it (selection.select, cmd_run).
THEOREM PublishedChoiceIsEarned == Spec => []SelectionIsEarned
<1>1. QInv => SelectionIsEarned
  BY DEF QInv
<1> QED
  BY <1>1, QualificationInvariant, PTL

=============================================================================
