--------------------------- MODULE Pipeline_proofs ---------------------------
(***************************************************************************)
(* Proofs about Pipeline, for any number of runs, slots, environments and  *)
(* days, any assignment of environments to slots, and whatever numbers of  *)
(* versions and releases the prunes keep.                                  *)
(*                                                                         *)
(* The first part is about packages: what a push, a moved tag and a prune  *)
(* leave of the versions, their tags and their order, and so how many      *)
(* versions can be newer than one.  The second is about runs: Kept says    *)
(* what a step of one run leaves of every other, and of its own record if  *)
(* it fails, waits or ends.  PipelineInv is inductive, the properties of   *)
(* Pipeline are not.  It adds to them that a version carries tags of one   *)
(* environment only (OneEnv), that no version stems from a push which is   *)
(* still to come (Past), that what `sif` has pulled is of its own          *)
(* environment also after the prune has taken it (GotInv), that the image  *)
(* under -release has at most as many newer ones as were counted (Below),  *)
(* and that a verified image comes after its release (Attached).           *)
(***************************************************************************)
EXTENDS Pipeline, FiniteSetTheorems, TLAPS

-----------------------------------------------------------------------------
(* Packages: finite sets of versions, numbered without two alike.          *)

Packed(P) ==
    /\ P \subseteq Version /\ IsFiniteSet(P)
    /\ \A v \in P : v.seq \in 1 .. Cardinality(P)
    /\ \A v, w \in P : v.id = w.id \/ v.seq = w.seq => v = w

(* No version carries tags of two environments.                            *)
OneEnv(P) == \A v \in P : \A s, t \in v.tags : s.env = t.env

(* The tags of v once tag names the version id.                            *)
TagsThen(v, tag, id) == IF v.id = id THEN v.tags \cup {tag} ELSE v.tags \ {tag}

(* The tag names the version id; all tags of the version id are of e.      *)
Names(P, tag, id) == \E v \in Named(P, tag) : v.id = id
AllOf(P, id, e) == \A v \in Stored(P, id) : \A t \in v.tags : t.env = e

(* The image id carries -release and at most n newer ones compete with it. *)
Below(P, e, id, n) ==
    \E v \in Named(P, Float(e, "release")) : v.id = id /\ Cardinality(Newer(P, e, v)) <= n

(* What a push adds of content that is new.                                *)
Bare(P, id) == [id |-> id, seq |-> Cardinality(P) + 1, tags |-> {}]

(* x has no more newer versions in Q than v had in P, and one more at most. *)
NoneNewer(Q, x, P, v, e) ==
    /\ Cardinality(Newer(Q, e, x)) \in Nat
    /\ Cardinality(Newer(Q, e, x)) <= Cardinality(Newer(P, e, v))
OneNewer(Q, x, P, v, e) ==
    /\ Cardinality(Newer(Q, e, x)) \in Nat
    /\ Cardinality(Newer(Q, e, x)) <= Cardinality(Newer(P, e, v)) + 1

(* No version is newer than x, whatever the environment.                   *)
Newest(Q, x) == \A e : Cardinality(Newer(Q, e, x)) = 0

(* Of a nonempty finite set, some member is greatest by any measure.       *)
LEMMA Greatest ==
    ASSUME NEW T, IsFiniteSet(T), T # {}, NEW f \in [T -> Int]
    PROVE  \E x \in T : \A y \in T : f[y] <= f[x]
<1> DEFINE Above(x) == {y \in T : f[y] > f[x]}
           A == {Above(x) : x \in T}
<1>1. IsWellFoundedOn(StrictSubsetOrdering(T), FiniteSubsetsOf(T))
  BY FS_StrictSubsetOrderingWellFounded
<1>2. A \subseteq FiniteSubsetsOf(T) /\ A # {}
  <2>1. ASSUME NEW x \in T PROVE Above(x) \in SUBSET T /\ IsFiniteSet(Above(x))
    BY FS_Subset
  <2>2. \A x \in T : Above(x) \in FiniteSubsetsOf(T)
    BY <2>1 DEF FiniteSubsetsOf
  <2>3. PICK x \in T : TRUE
    OBVIOUS
  <2>4. Above(x) \in A
    OBVIOUS
  <2> HIDE DEF Above
  <2> QED  BY <2>2, <2>4
<1> HIDE DEF A
<1>3. PICK a \in A : \A b \in A : <<b, a>> \notin StrictSubsetOrdering(T)
  BY <1>1, <1>2, WFMin
<1>4. PICK x \in T : a = Above(x)
  BY DEF A
<1>5. ASSUME NEW y \in T, ~(f[y] <= f[x]) PROVE FALSE
  <2>1. f[y] > f[x] /\ f[y] \in Int /\ f[x] \in Int
    BY <1>5
  <2>2. Above(y) \subseteq Above(x)
    BY <2>1
  <2>3. y \in Above(x) /\ y \notin Above(y)
    BY <2>1
  <2>4. Above(y) \in A
    BY DEF A
  <2>5. <<Above(y), a>> \in StrictSubsetOrdering(T)
    BY <1>4, <2>2, <2>3 DEF StrictSubsetOrdering
  <2> QED  BY <1>3, <2>4, <2>5
<1> QED  BY <1>5

(* The versions of S with numbers below m, and those from k on.            *)
Under(S, m) == {w \in S : w.seq < m}
Within(S, k, m) == {w \in S : k <= w.seq /\ w.seq < m}

(* Versions with numbers in an interval are no more than it has numbers.   *)
LEMMA Counted ==
    ASSUME NEW P, Packed(P), NEW S \in SUBSET P, NEW a \in Int, NEW b \in Int, a <= b,
           \A w \in S : a < w.seq /\ w.seq <= b
    PROVE  IsFiniteSet(S) /\ Cardinality(S) \in Nat /\ Cardinality(S) <= b - a
<1>1. IsFiniteSet(S) /\ Cardinality(S) \in Nat
  BY FS_Subset, FS_CardinalityType DEF Packed
<1> DEFINE g == [w \in S |-> w.seq]
<1>2. g \in Injection(S, (a + 1) .. b)
  BY DEF Packed, Version, Injection, IsInjective
<1>3. IsFiniteSet((a + 1) .. b) /\ Cardinality((a + 1) .. b) = b - a
  <2> DEFINE c == a + 1
  <2>1. c \in Int
    OBVIOUS
  <2> HIDE DEF c
  <2>2. IsFiniteSet(c .. b) /\ Cardinality(c .. b) = IF c > b THEN 0 ELSE b - c + 1
    BY <2>1, FS_Interval
  <2> QED  BY <2>2 DEF c
<1> HIDE DEF g
<1> QED  BY <1>1, <1>2, <1>3, FS_Injection

(* How many deleted versions are below a number, counted in two parts.     *)
LEMMA CountedApart ==
    ASSUME NEW P, Packed(P), NEW S \in SUBSET P, NEW k \in Int, NEW m \in Int, k <= m
    PROVE  Cardinality(Under(S, m)) = Cardinality(Under(S, k)) + Cardinality(Within(S, k, m))
<1> DEFINE L == Under(S, k)  M == Within(S, k, m)
<1>1. L \in SUBSET P /\ M \in SUBSET P
  BY DEF Under, Within
<1>2. IsFiniteSet(L) /\ IsFiniteSet(M) /\ Cardinality(L) \in Nat /\ Cardinality(M) \in Nat
  BY <1>1, FS_Subset, FS_CardinalityType DEF Packed
<1>3. Under(S, m) = L \cup M /\ L \cap M = {}
  BY DEF Packed, Version, Under, Within
<1> HIDE DEF L, M
<1>4. Cardinality(L \cup M) = Cardinality(L) + Cardinality(M) - Cardinality(L \cap M)
  BY <1>2, FS_Union
<1>5. Cardinality(L \cap M) = 0
  BY <1>3, FS_EmptySet
<1>6. Cardinality(L \cup M) = Cardinality(L) + Cardinality(M)
  BY <1>2, <1>4, <1>5
<1> QED  BY <1>3, <1>6 DEF L, M

(* A change of versions that keeps their identities keeps their number.    *)
LEMMA Carried ==
    ASSUME NEW P, Packed(P), NEW S \in SUBSET P, NEW g \in [S -> Version],
           \A v \in S : g[v].id = v.id
    PROVE  /\ IsFiniteSet(Range(g)) /\ Cardinality(Range(g)) = Cardinality(S)
           /\ \A x, y \in Range(g) : x.id = y.id => x = y
<1>1. IsFiniteSet(S)
  BY FS_Subset DEF Packed
<1>2. \A v, w \in S : g[v] = g[w] => v = w
  BY DEF Packed
<1>3. g \in Bijection(S, Range(g))
  BY <1>2 DEF Bijection, Injection, IsInjective, Surjection, Range
<1>4. IsFiniteSet(Range(g)) /\ Cardinality(Range(g)) = Cardinality(S)
  BY <1>1, <1>3, FS_Bijection DEF ExistsBijection
<1>5. \A x, y \in Range(g) : x.id = y.id => x = y
  BY DEF Packed, Range
<1> QED  BY <1>4, <1>5

(* Nor does it add newer versions, when those that count as newer          *)
(* afterwards did before.                                                  *)
LEMMA CarriedNewer ==
    ASSUME NEW P, Packed(P), NEW S \in SUBSET P, NEW g \in [S -> Version],
           \A v \in S : g[v].id = v.id,
           NEW e, NEW v \in S,
           \A w \in S : g[w] \in Matching(Range(g), e) /\ g[w].seq > g[v].seq
                        => w \in Matching(P, e) /\ w.seq > v.seq
    PROVE  /\ Cardinality(Newer(Range(g), e, g[v])) \in Nat
           /\ Cardinality(Newer(Range(g), e, g[v])) <= Cardinality(Newer(P, e, v))
<1> DEFINE X == Newer(Range(g), e, g[v])  Y == Newer(P, e, v)
           h == [x \in X |-> CHOOSE w \in S : g[w] = x]
<1>1. X \in SUBSET Range(g) /\ Y \in SUBSET P
  BY DEF Newer, Matching
<1>2. \A x \in X : h[x] \in S /\ g[h[x]] = x
  BY <1>1 DEF Range
<1>3. \A x \in X : h[x] \in Y
  BY <1>2 DEF Newer
<1>4. h \in Injection(X, Y)
  BY <1>2, <1>3 DEF Injection, IsInjective
<1>5. IsFiniteSet(X) /\ IsFiniteSet(Y)
  <2>1. IsFiniteSet(Range(g))
    BY Carried
  <2>2. IsFiniteSet(P)
    BY DEF Packed
  <2> QED  BY <1>1, <2>1, <2>2, FS_Subset
<1> HIDE DEF X, Y, h
<1>6. Cardinality(X) \in Nat /\ Cardinality(X) <= Cardinality(Y)
  BY <1>4, <1>5, FS_Injection, FS_CardinalityType
<1> QED  BY <1>6 DEF X, Y

(* One that did not count before adds one at most.                         *)
LEMMA CarriedButOne ==
    ASSUME NEW P, Packed(P), NEW S \in SUBSET P, NEW g \in [S -> Version],
           \A v \in S : g[v].id = v.id,
           NEW e, NEW v \in S, NEW u \in S,
           \A w \in S \ {u} : g[w] \in Matching(Range(g), e) /\ g[w].seq > g[v].seq
                              => w \in Matching(P, e) /\ w.seq > v.seq
    PROVE  /\ Cardinality(Newer(Range(g), e, g[v])) \in Nat
           /\ Cardinality(Newer(Range(g), e, g[v])) <= Cardinality(Newer(P, e, v)) + 1
<1> DEFINE X == Newer(Range(g), e, g[v])  Y == Newer(P, e, v)  Z == X \ {g[u]}
           h == [x \in Z |-> CHOOSE w \in S : g[w] = x]
<1>1. X \in SUBSET Range(g) /\ Y \in SUBSET P /\ Z \in SUBSET X
  BY DEF Newer, Matching
<1>2. \A x \in Z : h[x] \in S \ {u} /\ g[h[x]] = x
  BY <1>1 DEF Range
<1>3. \A x \in Z : h[x] \in Y
  BY <1>2 DEF Newer
<1>4. h \in Injection(Z, Y)
  BY <1>2, <1>3 DEF Injection, IsInjective
<1> HIDE DEF X, Y, Z, h
<1>5. IsFiniteSet(X) /\ IsFiniteSet(Y)
  <2>1. IsFiniteSet(Range(g))
    BY Carried
  <2>2. IsFiniteSet(P)
    BY DEF Packed
  <2> QED  BY <1>1, <2>1, <2>2, FS_Subset
<1>6. Cardinality(Z) = IF g[u] \in X THEN Cardinality(X) - 1 ELSE Cardinality(X)
  BY <1>5, FS_RemoveElement DEF Z
<1>7. Cardinality(X) \in Nat /\ Cardinality(Y) \in Nat
  BY <1>5, FS_CardinalityType
<1>8. Cardinality(Z) <= Cardinality(Y)
  BY <1>4, <1>5, FS_Injection
<1>9. Cardinality(X) <= Cardinality(Y) + 1
  BY <1>6, <1>7, <1>8
<1> QED  BY <1>7, <1>9 DEF X, Y

(* What a deletion leaves: the other versions, with their tags and in      *)
(* their order.                                                            *)
LEMMA Deleted ==
    ASSUME NEW P, Packed(P), NEW gone \in SUBSET P
    PROVE  /\ Packed(Delete(P, gone))
           /\ \A x \in Delete(P, gone) : \E v \in P \ gone : v.id = x.id /\ v.tags = x.tags
           /\ \A v \in P \ gone : \E x \in Delete(P, gone) :
                 /\ x.id = v.id /\ x.tags = v.tags
                 /\ \A e : NoneNewer(Delete(P, gone), x, P, v, e)
<1> DEFINE S == P \ gone
           N == Cardinality(P)
           older(v) == Under(gone, v.seq)
           g == [v \in S |-> [v EXCEPT !.seq = @ - Cardinality(older(v))]]
           Q == Delete(P, gone)
<1>1. Q = Range(g)
  BY DEF Delete, Range, Under
<1>2. /\ S \in SUBSET P /\ IsFiniteSet(S) /\ IsFiniteSet(gone) /\ N \in Nat
      /\ Cardinality(gone) \in Nat /\ Cardinality(S) = N - Cardinality(gone)
  <2>1. IsFiniteSet(gone) /\ IsFiniteSet(S) /\ IsFiniteSet(P)
    BY FS_Subset DEF Packed
  <2>2. Cardinality(gone \cup S) = Cardinality(gone) + Cardinality(S) - Cardinality(gone \cap S)
    BY <2>1, FS_Union
  <2>3. gone \cup S = P /\ gone \cap S = {}
    OBVIOUS
  <2>4. N \in Nat /\ Cardinality(gone) \in Nat /\ Cardinality(S) \in Nat
    BY <2>1, FS_CardinalityType
  <2> QED  BY <2>1, <2>2, <2>3, <2>4, FS_EmptySet
<1>3. ASSUME NEW v \in S
      PROVE  /\ v \in Version /\ v.seq \in 1 .. N
             /\ Cardinality(older(v)) \in Nat
             /\ Cardinality(older(v)) <= v.seq - 1
             /\ v.seq - Cardinality(older(v)) <= N - Cardinality(gone)
  <2> DEFINE k == v.seq  j == k - 1  m == N + 1
  <2>1. v \in Version /\ k \in 1 .. N
    BY DEF Packed
  <2>2. \A w \in gone : w.seq \in 1 .. N /\ w.seq # k
    BY DEF Packed
  <2>3. /\ k \in Int /\ j \in Int /\ m \in Int /\ N \in Int
        /\ 0 <= j /\ k <= m /\ k <= N /\ j = k - 1
    BY <1>2, <2>1
  <2>4. \A w \in Under(gone, k) : 0 < w.seq /\ w.seq <= j
    BY <2>2, <2>3 DEF Under
  <2>5. \A w \in Within(gone, k, m) : k < w.seq /\ w.seq <= N
    BY <2>2, <2>3 DEF Within
  <2>6. Under(gone, m) = gone
    BY <2>2, <2>3 DEF Under
  <2>7. Under(gone, k) \in SUBSET P /\ Within(gone, k, m) \in SUBSET P
    BY DEF Under, Within
  <2> HIDE DEF k, j, m, N
  <2>8. Cardinality(gone) = Cardinality(Under(gone, k)) + Cardinality(Within(gone, k, m))
    BY <2>3, <2>6, CountedApart
  <2>9. Cardinality(Under(gone, k)) \in Nat /\ Cardinality(Under(gone, k)) <= j - 0
    BY <2>3, <2>4, <2>7, Counted
  <2>10. Cardinality(Within(gone, k, m)) \in Nat /\ Cardinality(Within(gone, k, m)) <= N - k
    BY <2>3, <2>5, <2>7, Counted
  <2>11. /\ Cardinality(Under(gone, k)) <= k - 1
         /\ k - Cardinality(Under(gone, k)) <= N - Cardinality(gone)
    BY <1>2, <2>3, <2>8, <2>9, <2>10
  <2> QED  BY <2>1, <2>9, <2>11 DEF k
<1>4. ASSUME NEW v \in S, NEW w \in S, v.seq < w.seq
      PROVE  v.seq - Cardinality(older(v)) < w.seq - Cardinality(older(w))
  <2> DEFINE j == v.seq  k == w.seq  b == k - 1
  <2>1. j \in Int /\ k \in Int /\ b \in Int /\ j <= k /\ j <= b /\ b = k - 1
    BY <1>2, <1>3, <1>4
  <2>2. \A x \in gone : x.seq \in 1 .. N /\ x.seq # j
    BY DEF Packed
  <2>3. \A x \in Within(gone, j, k) : j < x.seq /\ x.seq <= b
    BY <1>2, <2>1, <2>2 DEF Within
  <2>4. Within(gone, j, k) \in SUBSET P
    BY DEF Within
  <2>5. Cardinality(Under(gone, j)) \in Nat /\ Cardinality(Under(gone, k)) \in Nat
    BY <1>3
  <2> HIDE DEF j, k, b, N
  <2>6. Cardinality(Under(gone, k)) = Cardinality(Under(gone, j)) + Cardinality(Within(gone, j, k))
    BY <2>1, CountedApart
  <2>7. Cardinality(Within(gone, j, k)) \in Nat /\ Cardinality(Within(gone, j, k)) <= b - j
    BY <2>1, <2>3, <2>4, Counted
  <2>8. j - Cardinality(Under(gone, j)) < k - Cardinality(Under(gone, k))
    BY <2>1, <2>5, <2>6, <2>7
  <2> QED  BY <2>8 DEF j, k
<1>5. \A v \in S : /\ g[v] \in Version /\ g[v].id = v.id /\ g[v].tags = v.tags
                   /\ g[v].seq = v.seq - Cardinality(older(v))
                   /\ g[v].seq \in 1 .. Cardinality(S)
  <2> TAKE v \in S
  <2>1. v = [id |-> v.id, seq |-> v.seq, tags |-> v.tags] /\ v.id \in Id /\ v.tags \in SUBSET Tag
    BY <1>3 DEF Version
  <2>2. v.seq - Cardinality(older(v)) \in 1 .. Cardinality(S)
    BY <1>2, <1>3
  <2> HIDE DEF older
  <2>3. g[v] = [id |-> v.id, seq |-> v.seq - Cardinality(older(v)), tags |-> v.tags]
    BY <2>1
  <2> QED  BY <2>1, <2>2, <2>3 DEF Version
<1>6. \A v, w \in S : v.seq = w.seq => v = w
  BY DEF Packed
<1>7. \A v, w \in S : v.seq < w.seq <=> g[v].seq < g[w].seq
  <2> TAKE v, w \in S
  <2>1. v.seq \in Int /\ w.seq \in Int /\ g[v].seq \in Int /\ g[w].seq \in Int
    BY <1>2, <1>3, <1>5
  <2>2. v.seq < w.seq => g[v].seq < g[w].seq
    BY <1>4, <1>5
  <2>3. w.seq < v.seq => g[w].seq < g[v].seq
    BY <1>4, <1>5
  <2>4. v.seq = w.seq => g[v].seq = g[w].seq
    BY <1>6
  <2> HIDE DEF g
  <2> QED  BY <2>1, <2>2, <2>3, <2>4
<1> HIDE DEF g, S, Q, N
<1>8. g \in [S -> Version]
  <2>1. g = [v \in S |-> g[v]]
    BY DEF g
  <2> QED  BY <1>5, <2>1
<1>9. /\ IsFiniteSet(Q) /\ Cardinality(Q) = Cardinality(S)
      /\ \A x, y \in Q : x.id = y.id => x = y
  BY <1>1, <1>2, <1>5, <1>8, Carried
<1>14. \A x \in Q : \E v \in S : x = g[v]
  BY <1>1, <1>8 DEF Range
<1>10. Packed(Q)
  <2>1. Q \subseteq Version /\ \A x \in Q : x.seq \in 1 .. Cardinality(Q)
    BY <1>5, <1>9, <1>14
  <2>2. ASSUME NEW v \in S, NEW w \in S, g[v].seq = g[w].seq PROVE g[v] = g[w]
    <3>1. v.seq \in Int /\ w.seq \in Int /\ g[v].seq \in Int
      BY <1>2, <1>3, <1>5 DEF N
    <3>2. ~(v.seq < w.seq) /\ ~(w.seq < v.seq)
      BY <1>7, <2>2, <3>1
    <3> QED  BY <1>6, <3>1, <3>2
  <2>3. \A x, y \in Q : x.seq = y.seq => x = y
    BY <1>14, <2>2
  <2> QED  BY <1>9, <2>1, <2>3 DEF Packed
<1>11. ASSUME NEW v \in S, NEW e PROVE NoneNewer(Q, g[v], P, v, e)
  <2>1. ASSUME NEW w \in S, g[w] \in Matching(Q, e), g[w].seq > g[v].seq
        PROVE  w \in Matching(P, e) /\ w.seq > v.seq
    <3>1. w.seq > v.seq
      BY <1>3, <1>5, <1>7, <2>1
    <3>2. w \in P /\ g[w].tags = w.tags
      BY <1>2, <1>5
    <3> QED  BY <2>1, <3>1, <3>2 DEF Matching
  <2> QED  BY <1>1, <1>2, <1>5, <1>8, <2>1, CarriedNewer DEF NoneNewer
<1>12. \A x \in Q : \E v \in S : v.id = x.id /\ v.tags = x.tags
  BY <1>5, <1>14
<1>13. \A v \in S : g[v] \in Q /\ g[v].id = v.id /\ g[v].tags = v.tags
  BY <1>1, <1>5, <1>8 DEF Range
<1> QED  BY <1>10, <1>11, <1>12, <1>13 DEF Q, S

(* What a tag that moves to u leaves: the same versions in their order.    *)
(* One of an environment that u belongs to makes no version newer in it.   *)
LEMMA Retagged ==
    ASSUME NEW P, Packed(P), NEW tag \in Tag, NEW u \in P
    PROVE  /\ Packed(Retag(P, tag, u.id))
           /\ \A x \in Retag(P, tag, u.id) :
                 \E v \in P : v.id = x.id /\ x.tags = TagsThen(v, tag, u.id)
           /\ \A v \in P : \E x \in Retag(P, tag, u.id) :
                 /\ x.id = v.id /\ x.tags = TagsThen(v, tag, u.id)
                 /\ \A e : OneNewer(Retag(P, tag, u.id), x, P, v, e)
                 /\ \A e : tag.env # e \/ v = u \/ u \in Matching(P, e)
                          => NoneNewer(Retag(P, tag, u.id), x, P, v, e)
<1> DEFINE id == u.id
           g == [v \in P |-> [v EXCEPT !.tags = TagsThen(v, tag, id)]]
           Q == Retag(P, tag, id)
<1>1. Q = Range(g)
  BY DEF Retag, Range, TagsThen
<1>2. \A v \in P : v \in Version /\ v.seq \in 1 .. Cardinality(P) /\ (v.id = id => v = u)
  BY DEF Packed
<1>3. \A v \in P : /\ g[v] \in Version /\ g[v].id = v.id /\ g[v].seq = v.seq
                   /\ g[v].tags = TagsThen(v, tag, id)
  <2> TAKE v \in P
  <2>1. v = [id |-> v.id, seq |-> v.seq, tags |-> v.tags] /\ v.id \in Id /\ v.tags \in SUBSET Tag
        /\ v.seq \in Nat
    BY <1>2 DEF Version
  <2>2. TagsThen(v, tag, id) \in SUBSET Tag
    BY <2>1 DEF TagsThen
  <2>3. g[v] = [id |-> v.id, seq |-> v.seq, tags |-> TagsThen(v, tag, id)]
    BY <2>1
  <2> QED  BY <2>1, <2>2, <2>3 DEF Version
<1> HIDE DEF g, Q, id
<1>4. g \in [P -> Version]
  <2>1. g = [v \in P |-> g[v]]
    BY DEF g
  <2> QED  BY <1>3, <2>1
<1>5. /\ IsFiniteSet(Q) /\ Cardinality(Q) = Cardinality(P)
      /\ \A x, y \in Q : x.id = y.id => x = y
  BY <1>1, <1>3, <1>4, Carried
<1>6. \A x \in Q : \E v \in P : x = g[v]
  BY <1>1, <1>4 DEF Range
<1>7. Packed(Q)
  <2>1. Q \subseteq Version /\ \A x \in Q : x.seq \in 1 .. Cardinality(Q)
    BY <1>2, <1>3, <1>5, <1>6
  <2>2. \A v, w \in P : g[v].seq = g[w].seq => g[v] = g[w]
    BY <1>3 DEF Packed
  <2>3. \A x, y \in Q : x.seq = y.seq => x = y
    BY <1>6, <2>2
  <2> QED  BY <1>5, <2>1, <2>3 DEF Packed
<1>8. ASSUME NEW v \in P, NEW e
      PROVE  /\ OneNewer(Q, g[v], P, v, e)
             /\ tag.env # e \/ v = u \/ u \in Matching(P, e) => NoneNewer(Q, g[v], P, v, e)
  <2>1. ASSUME NEW w \in P, w # u, g[w] \in Matching(Q, e) PROVE w \in Matching(P, e)
    <3>1. g[w].tags = w.tags \ {tag}
      BY <1>2, <1>3, <2>1 DEF TagsThen
    <3> QED  BY <2>1, <3>1 DEF Matching
  <2>2. \A w \in P \ {u} : g[w] \in Matching(Q, e) /\ g[w].seq > g[v].seq
                            => w \in Matching(P, e) /\ w.seq > v.seq
    BY <1>3, <2>1
  <2>3. OneNewer(Q, g[v], P, v, e)
    BY <1>1, <1>3, <1>4, <2>2, CarriedButOne DEF OneNewer
  <2>4. ASSUME tag.env # e \/ v = u \/ u \in Matching(P, e) PROVE NoneNewer(Q, g[v], P, v, e)
    <3>1. ASSUME g[u] \in Matching(Q, e), g[u].seq > g[v].seq
          PROVE  u \in Matching(P, e) /\ u.seq > v.seq
      <4>1. v # u /\ u.seq > v.seq
        BY <1>2, <1>3, <3>1
      <4>2. CASE tag.env # e
        <5>1. g[u].tags = u.tags \cup {tag}
          BY <1>3 DEF TagsThen, id
        <5> QED  BY <3>1, <4>1, <4>2, <5>1 DEF Matching
      <4> QED  BY <2>4, <4>1, <4>2
    <3>2. \A w \in P : g[w] \in Matching(Q, e) /\ g[w].seq > g[v].seq
                       => w \in Matching(P, e) /\ w.seq > v.seq
      BY <2>2, <3>1
    <3> QED  BY <1>1, <1>3, <1>4, <3>2, CarriedNewer DEF NoneNewer
  <2> QED  BY <2>3, <2>4
<1>9. \A v \in P : g[v] \in Q
  BY <1>1, <1>4 DEF Range
<1>10. \A x \in Q : \E v \in P : v.id = x.id /\ x.tags = TagsThen(v, tag, id)
  BY <1>3, <1>6
<1> QED  BY <1>3, <1>7, <1>8, <1>9, <1>10 DEF Q, id

(* A new version is the newest, and counts for nothing while it is bare.   *)
LEMMA Added ==
    ASSUME NEW P, Packed(P), NEW id \in Id, Stored(P, id) = {}
    PROVE  /\ Packed(P \cup {Bare(P, id)})
           /\ \A e : Newer(P \cup {Bare(P, id)}, e, Bare(P, id)) = {}
           /\ \A e : \A v \in P : Newer(P \cup {Bare(P, id)}, e, v) = Newer(P, e, v)
<1> DEFINE N == Cardinality(P)
           u == Bare(P, id)
<1>1. N \in Nat /\ IsFiniteSet(P) /\ P \subseteq Version
  BY FS_CardinalityType DEF Packed
<1>2. u \in Version /\ u.id = id /\ u.seq = N + 1 /\ u.tags = {}
  BY <1>1 DEF Version, Bare
<1>3. \A v \in P : v.id # id /\ v.seq \in 1 .. N
  BY DEF Stored, Packed
<1> HIDE DEF N, u
<1>4. u \notin P
  BY <1>2, <1>3
<1>5. IsFiniteSet(P \cup {u}) /\ Cardinality(P \cup {u}) = N + 1
  BY <1>1, <1>4, FS_AddElement DEF N
<1>6. \A v \in P \cup {u} : v.seq \in 1 .. (N + 1)
  BY <1>1, <1>2, <1>3
<1>7. \A v, w \in P \cup {u} : v.id = w.id \/ v.seq = w.seq => v = w
  <2> TAKE v, w \in P \cup {u}
  <2>1. CASE v \in P /\ w \in P
    BY <2>1 DEF Packed
  <2>2. CASE v = u /\ w \in P
    BY <1>1, <1>2, <1>3, <2>2
  <2>3. CASE w = u /\ v \in P
    BY <1>1, <1>2, <1>3, <2>3
  <2> QED  BY <2>1, <2>2, <2>3
<1>8. Packed(P \cup {u})
  BY <1>1, <1>2, <1>5, <1>6, <1>7 DEF Packed
<1>9. ASSUME NEW e
      PROVE  /\ Newer(P \cup {u}, e, u) = {}
             /\ \A v \in P : Newer(P \cup {u}, e, v) = Newer(P, e, v)
  <2>1. Matching(P \cup {u}, e) = Matching(P, e)
    BY <1>2 DEF Matching
  <2>2. \A w \in Matching(P, e) : ~(w.seq > N + 1)
    BY <1>1, <1>3 DEF Matching
  <2> QED  BY <1>2, <2>1, <2>2 DEF Newer
<1> QED  BY <1>8, <1>9 DEF u

(* What a push leaves: the tag on id, at most one new version, which is    *)
(* then the newest, and the versions there were, without the tag.          *)
LEMMA Pushed ==
    ASSUME NEW P, Packed(P), NEW tag \in Tag, NEW id \in Id
    PROVE  /\ Packed(Push(P, tag, id))
           /\ \E x \in Push(P, tag, id) :
                 /\ x.id = id /\ tag \in x.tags
                 /\ Stored(P, id) = {} => Newest(Push(P, tag, id), x)
           /\ \A x \in Push(P, tag, id) :
                 \/ Stored(P, id) = {} /\ x.id = id /\ x.tags = {tag}
                 \/ \E v \in P : v.id = x.id /\ x.tags = TagsThen(v, tag, id)
           /\ \A v \in P : \E x \in Push(P, tag, id) :
                 /\ x.id = v.id /\ x.tags = TagsThen(v, tag, id)
                 /\ \A e : OneNewer(Push(P, tag, id), x, P, v, e)
                 /\ \A e : tag.env # e \/ v.id = id \/ Stored(P, id) \cap Matching(P, e) # {}
                          => NoneNewer(Push(P, tag, id), x, P, v, e)
<1>1. CASE Stored(P, id) = {}
  <2> DEFINE u == Bare(P, id)
             R == P \cup {u}
             Q == Retag(R, tag, u.id)
  <2>1. u.id = id /\ u.tags = {} /\ u \in R
    BY DEF Bare
  <2>2. Push(P, tag, id) = Q
    BY <1>1 DEF Push, Bare
  <2>3. /\ Packed(R)
        /\ \A e : Newer(R, e, u) = {}
        /\ \A e : \A v \in P : Newer(R, e, v) = Newer(P, e, v)
    BY <1>1, Added
  <2>4. \A v \in P : v \in R /\ v.id # id
    BY <1>1 DEF Stored
  <2>5. \A v \in R : v = u \/ v \in P
    OBVIOUS
  <2> HIDE DEF u, R
  <2>6. /\ Packed(Q)
        /\ \A x \in Q : \E v \in R : v.id = x.id /\ x.tags = TagsThen(v, tag, u.id)
        /\ \A v \in R : \E x \in Q :
              /\ x.id = v.id /\ x.tags = TagsThen(v, tag, u.id)
              /\ \A e : OneNewer(Q, x, R, v, e)
              /\ \A e : tag.env # e \/ v = u \/ u \in Matching(R, e) => NoneNewer(Q, x, R, v, e)
    BY <2>1, <2>3, Retagged
  <2> HIDE DEF Q
  <2>7. TagsThen(u, tag, id) = {tag}
    BY <2>1 DEF TagsThen
  <2>8. PICK x \in Q : x.id = u.id /\ x.tags = TagsThen(u, tag, u.id) /\ \A e : NoneNewer(Q, x, R, u, e)
    BY <2>1, <2>6
  <2>9. Newest(Q, x)
    BY <2>3, <2>8, FS_EmptySet DEF NoneNewer, Newest
  <2>10. \A y \in Q : \/ y.id = id /\ y.tags = {tag}
                      \/ \E v \in P : v.id = y.id /\ y.tags = TagsThen(v, tag, id)
    BY <2>1, <2>5, <2>6, <2>7
  <2>11. ASSUME NEW v \in P
         PROVE  \E y \in Q : /\ y.id = v.id /\ y.tags = TagsThen(v, tag, id)
                             /\ \A e : OneNewer(Q, y, P, v, e)
                             /\ \A e : tag.env # e => NoneNewer(Q, y, P, v, e)
    <3>1. PICK y \in Q : /\ y.id = v.id /\ y.tags = TagsThen(v, tag, u.id)
                         /\ \A e : OneNewer(Q, y, R, v, e)
                         /\ \A e : tag.env # e => NoneNewer(Q, y, R, v, e)
      BY <2>4, <2>6
    <3> QED  BY <2>1, <2>3, <3>1 DEF OneNewer, NoneNewer
  <2>12. Stored(P, id) \cap Matching(P, tag.env) = {} /\ \A v \in P : v.id # id
    BY <1>1, <2>4
  <2>13. x.id = id /\ tag \in x.tags
    BY <2>1, <2>7, <2>8
  <2>14. ASSUME NEW v \in P
         PROVE  \E y \in Q : /\ y.id = v.id /\ y.tags = TagsThen(v, tag, id)
                             /\ \A e : OneNewer(Q, y, P, v, e)
                             /\ \A e : tag.env # e \/ v.id = id \/ Stored(P, id) \cap Matching(P, e) # {}
                                      => NoneNewer(Q, y, P, v, e)
    BY <1>1, <2>4, <2>11
  <2> QED  BY <1>1, <2>2, <2>6, <2>9, <2>10, <2>13, <2>14
<1>2. CASE Stored(P, id) # {}
  <2>1. PICK u \in P : u.id = id
    BY <1>2 DEF Stored
  <2> DEFINE Q == Retag(P, tag, u.id)
  <2>2. Push(P, tag, id) = Q
    BY <1>2, <2>1 DEF Push
  <2>3. \A v \in P : v.id = id => v = u
    BY <2>1 DEF Packed
  <2>4. \A e : Stored(P, id) \cap Matching(P, e) # {} => u \in Matching(P, e)
    BY <2>3 DEF Stored
  <2>5. /\ Packed(Q)
        /\ \A x \in Q : \E v \in P : v.id = x.id /\ x.tags = TagsThen(v, tag, u.id)
        /\ \A v \in P : \E x \in Q :
              /\ x.id = v.id /\ x.tags = TagsThen(v, tag, u.id)
              /\ \A e : OneNewer(Q, x, P, v, e)
              /\ \A e : tag.env # e \/ v = u \/ u \in Matching(P, e) => NoneNewer(Q, x, P, v, e)
    BY Retagged
  <2> HIDE DEF Q
  <2>6. tag \in TagsThen(u, tag, id)
    BY <2>1 DEF TagsThen
  <2>7. \E x \in Q : x.id = id /\ tag \in x.tags
    BY <2>1, <2>5, <2>6
  <2>8. ASSUME NEW v \in P
        PROVE  \E x \in Q :
              /\ x.id = v.id /\ x.tags = TagsThen(v, tag, id)
              /\ \A e : OneNewer(Q, x, P, v, e)
              /\ \A e : tag.env # e \/ v.id = id \/ Stored(P, id) \cap Matching(P, e) # {}
                       => NoneNewer(Q, x, P, v, e)
    BY <2>1, <2>3, <2>4, <2>5
  <2> QED  BY <1>2, <2>1, <2>2, <2>5, <2>7, <2>8
<1> QED  BY <1>1, <1>2

-----------------------------------------------------------------------------
(* The same in terms of names, environments and the budget of -release.    *)

LEMMA NamesPushed ==
    ASSUME NEW P, Packed(P), NEW tag \in Tag, NEW id \in Id
    PROVE  /\ Packed(Push(P, tag, id))
           /\ Names(Push(P, tag, id), tag, id)
           /\ \A t, i : t # tag /\ Names(P, t, i) => Names(Push(P, tag, id), t, i)
           /\ \A i, e : AllOf(P, i, e) /\ (i = id => tag.env = e) => AllOf(Push(P, tag, id), i, e)
           /\ OneEnv(P) /\ AllOf(P, id, tag.env) => OneEnv(Push(P, tag, id))
           /\ \A x \in Push(P, tag, id) : x.id = id \/ \E v \in P : v.id = x.id
<1> DEFINE Q == Push(P, tag, id)
<1>1. /\ Packed(Q)
      /\ \E x \in Q : x.id = id /\ tag \in x.tags
      /\ \A x \in Q : \/ x.id = id /\ x.tags = {tag}
                      \/ \E v \in P : v.id = x.id /\ x.tags = TagsThen(v, tag, id)
      /\ \A v \in P : \E x \in Q : x.id = v.id /\ x.tags = TagsThen(v, tag, id)
  BY Pushed
<1> HIDE DEF Q
<1>2. Names(Q, tag, id)
  BY <1>1 DEF Names, Named
<1>3. ASSUME NEW t, NEW i, t # tag, Names(P, t, i) PROVE Names(Q, t, i)
  <2>1. PICK v \in P : t \in v.tags /\ v.id = i
    BY <1>3 DEF Names, Named
  <2>2. PICK x \in Q : x.id = v.id /\ x.tags = TagsThen(v, tag, id)
    BY <1>1
  <2>3. t \in x.tags
    BY <1>3, <2>1, <2>2 DEF TagsThen
  <2> QED  BY <2>1, <2>2, <2>3 DEF Names, Named
<1>4. ASSUME NEW x \in Q
      PROVE  \/ x.tags = {tag} /\ x.id = id
             \/ \E v \in P : v.id = x.id /\ x.tags \subseteq v.tags
             \/ \E v \in P : v.id = id /\ x.id = id /\ x.tags \subseteq v.tags \cup {tag}
  <2>1. CASE x.id = id /\ x.tags = {tag}
    BY <2>1
  <2>2. ASSUME NEW v \in P, v.id = x.id, x.tags = TagsThen(v, tag, id)
        PROVE  IF x.id = id THEN x.tags \subseteq v.tags \cup {tag} ELSE x.tags \subseteq v.tags
    BY <2>2 DEF TagsThen
  <2> QED  BY <1>1, <2>1, <2>2
<1>5. ASSUME NEW i, NEW e, AllOf(P, i, e), i = id => tag.env = e PROVE AllOf(Q, i, e)
  BY <1>4, <1>5 DEF AllOf, Stored
<1>6. ASSUME OneEnv(P), AllOf(P, id, tag.env) PROVE OneEnv(Q)
  <2>1. \A v \in P : \A s, t \in v.tags : s.env = t.env
    BY <1>6 DEF OneEnv
  <2>2. \A v \in P : v.id = id => \A t \in v.tags : t.env = tag.env
    BY <1>6 DEF AllOf, Stored
  <2>3. ASSUME NEW x \in Q, NEW s \in x.tags, NEW t \in x.tags PROVE s.env = t.env
    BY <1>4, <2>1, <2>2
  <2> QED  BY <2>3 DEF OneEnv
<1>7. \A x \in Q : x.id = id \/ \E v \in P : v.id = x.id
  BY <1>1
<1> QED  BY <1>1, <1>2, <1>3, <1>5, <1>6, <1>7 DEF Q

LEMMA NamesDeleted ==
    ASSUME NEW P, Packed(P), NEW gone \in SUBSET P
    PROVE  /\ Packed(Delete(P, gone))
           /\ \A t, i : Names(P, t, i) /\ (\A v \in gone : t \notin v.tags)
                       => Names(Delete(P, gone), t, i)
           /\ \A i, e : AllOf(P, i, e) => AllOf(Delete(P, gone), i, e)
           /\ OneEnv(P) => OneEnv(Delete(P, gone))
           /\ \A x \in Delete(P, gone) : \E v \in P : v.id = x.id
<1> DEFINE Q == Delete(P, gone)
<1>1. /\ Packed(Q)
      /\ \A x \in Q : \E v \in P \ gone : v.id = x.id /\ v.tags = x.tags
      /\ \A v \in P \ gone : \E x \in Q : x.id = v.id /\ x.tags = v.tags
  BY Deleted
<1> HIDE DEF Q
<1>2. ASSUME NEW t, NEW i, Names(P, t, i), \A v \in gone : t \notin v.tags PROVE Names(Q, t, i)
  <2>1. PICK v \in P \ gone : t \in v.tags /\ v.id = i
    BY <1>2 DEF Names, Named
  <2> QED  BY <1>1, <2>1 DEF Names, Named
<1>3. ASSUME NEW i, NEW e, AllOf(P, i, e) PROVE AllOf(Q, i, e)
  BY <1>1, <1>3 DEF AllOf, Stored
<1>4. OneEnv(P) => OneEnv(Q)
  BY <1>1 DEF OneEnv
<1>5. \A x \in Q : \E v \in P : v.id = x.id
  BY <1>1
<1> QED  BY <1>1, <1>2, <1>3, <1>4, <1>5 DEF Q

(* A push under another tag costs -release of e one of its budget at most, *)
(* and none when it is of another environment or its content is not new.   *)
LEMMA BelowPush ==
    ASSUME NEW P, Packed(P), NEW tag \in Tag, NEW id \in Id,
           NEW e, tag # Float(e, "release"), NEW i, NEW n \in Nat, Below(P, e, i, n)
    PROVE  /\ Below(Push(P, tag, id), e, i, n + 1)
           /\ tag.env # e \/ Stored(P, id) \cap Matching(P, e) # {}
              => Below(Push(P, tag, id), e, i, n)
<1> DEFINE Q == Push(P, tag, id)  f == Float(e, "release")
<1>1. PICK v \in P : f \in v.tags /\ v.id = i /\ Cardinality(Newer(P, e, v)) <= n
  BY DEF Below, Named
<1>2. PICK x \in Q : /\ x.id = v.id /\ x.tags = TagsThen(v, tag, id)
                     /\ \A d : OneNewer(Q, x, P, v, d)
                     /\ \A d : tag.env # d \/ v.id = id \/ Stored(P, id) \cap Matching(P, d) # {}
                              => NoneNewer(Q, x, P, v, d)
  BY Pushed
<1> HIDE DEF Q, f
<1>3. f \in x.tags
  BY <1>1, <1>2 DEF TagsThen, f
<1>4. x \in Named(Q, Float(e, "release")) /\ x.id = i
  BY <1>1, <1>2, <1>3 DEF Named, f
<1>5. Cardinality(Newer(P, e, v)) \in Nat
  <2>1. Newer(P, e, v) \in SUBSET P
    BY DEF Newer, Matching
  <2> QED  BY <2>1, FS_Subset, FS_CardinalityType DEF Packed
<1>6. Cardinality(Newer(Q, e, x)) <= n + 1
  BY <1>1, <1>2, <1>5 DEF OneNewer
<1>7. tag.env # e \/ Stored(P, id) \cap Matching(P, e) # {} => Cardinality(Newer(Q, e, x)) <= n
  BY <1>1, <1>2, <1>5 DEF NoneNewer
<1> QED  BY <1>4, <1>6, <1>7 DEF Below, Q

(* The push of -release itself counts from here on.                        *)
LEMMA BelowFloat ==
    ASSUME NEW P, Packed(P), NEW e \in Env, NEW id \in Id
    PROVE  LET n == IF Stored(P, id) = {} THEN 0
                    ELSE Cardinality(UNION {Newer(P, e, v) : v \in Stored(P, id)})
           IN  n \in Nat /\ Below(Push(P, Float(e, "release"), id), e, id, n)
<1> DEFINE f == Float(e, "release")  Q == Push(P, f, id)
           N == UNION {Newer(P, e, v) : v \in Stored(P, id)}
<1>1. f \in Tag /\ f.env = e
  BY PipelineAssumption DEF Float, Tag
<1> HIDE DEF f
<1>2. CASE Stored(P, id) = {}
  <2>1. PICK x \in Q : x.id = id /\ f \in x.tags /\ (Stored(P, id) = {} => Newest(Q, x))
    BY <1>1, Pushed
  <2> HIDE DEF Q
  <2>2. Cardinality(Newer(Q, e, x)) <= 0
    BY <1>2, <2>1 DEF Newest
  <2>3. Below(Q, e, id, 0)
    BY <2>1, <2>2 DEF Below, Named, f
  <2> QED  BY <1>2, <2>3 DEF Q, f
<1>3. CASE Stored(P, id) # {}
  <2>1. PICK v \in P : v.id = id
    BY <1>3 DEF Stored
  <2>2. Stored(P, id) = {v}
    BY <2>1 DEF Stored, Packed
  <2>3. N = Newer(P, e, v)
    BY <2>2
  <2>4. PICK x \in Q : /\ x.id = v.id /\ x.tags = TagsThen(v, f, id)
                       /\ \A d : f.env # d \/ v.id = id \/ Stored(P, id) \cap Matching(P, d) # {}
                                => NoneNewer(Q, x, P, v, d)
    BY <1>1, Pushed
  <2> HIDE DEF Q, N
  <2>5. f \in x.tags /\ x.id = id
    BY <2>1, <2>4 DEF TagsThen
  <2>6. Cardinality(Newer(Q, e, x)) <= Cardinality(N)
    BY <2>1, <2>3, <2>4 DEF NoneNewer
  <2>7. Below(Q, e, id, Cardinality(N))
    BY <2>5, <2>6 DEF Below, Named, f
  <2>8. Cardinality(N) \in Nat
    <3>1. N \in SUBSET P
      BY <2>3 DEF Newer, Matching
    <3> QED  BY <3>1, FS_Subset, FS_CardinalityType DEF Packed
  <2> QED  BY <1>3, <2>7, <2>8 DEF Q, N, f
<1> QED  BY <1>2, <1>3

(* A prune that spares the image under -release leaves it its budget.      *)
LEMMA BelowDelete ==
    ASSUME NEW P, Packed(P), NEW gone \in SUBSET P,
           NEW e, NEW i, NEW n \in Nat, Below(P, e, i, n),
           \A v \in gone : Float(e, "release") \in v.tags => Cardinality(Newer(P, e, v)) > n
    PROVE  Below(Delete(P, gone), e, i, n)
<1> DEFINE Q == Delete(P, gone)  f == Float(e, "release")
<1>1. PICK v \in P : f \in v.tags /\ v.id = i /\ Cardinality(Newer(P, e, v)) <= n
  BY DEF Below, Named
<1>2. Cardinality(Newer(P, e, v)) \in Nat
  <2>1. Newer(P, e, v) \in SUBSET P
    BY DEF Newer, Matching
  <2> QED  BY <2>1, FS_Subset, FS_CardinalityType DEF Packed
<1>3. v \in P \ gone
  BY <1>1, <1>2
<1>4. PICK x \in Q : x.id = v.id /\ x.tags = v.tags /\ \A d : NoneNewer(Q, x, P, v, d)
  <2>1. \A w \in P \ gone : \E x \in Q : /\ x.id = w.id /\ x.tags = w.tags
                                         /\ \A d : NoneNewer(Q, x, P, w, d)
    BY Deleted
  <2> QED  BY <1>3, <2>1
<1> HIDE DEF Q, f
<1>5. Cardinality(Newer(Q, e, x)) <= n
  BY <1>1, <1>2, <1>4 DEF NoneNewer
<1> QED  BY <1>1, <1>4, <1>5 DEF Below, Named, Q, f

-----------------------------------------------------------------------------
(* Runs.  What a step of one run leaves of the others is that they go on   *)
(* as they were, or leave the queue; what it does with its own record is   *)
(* one of few things as well.                                              *)

RunsTyped ==
    /\ run \in [Run -> Record]
    /\ \A r \in Run : run[r].got # NoId <=> run[r].at \in {"attach", "verify"}

(* Before its attempt has pushed a mirror, and an image.                   *)
Early == {"idle", "queued", "prepare"}
EarlyImage == Early \cup {"tidyMirrors", "binaries", "runtime"}

(* No push under this identity is still to come.                           *)
Past(id, early) ==
    \/ id[2] < run[id[1]].attempt
    \/ id[2] = run[id[1]].attempt /\ run[id[1]].at \notin early

(* Two runs that hold the group are of different slots.                    *)
Mutex == \A r, q \in Run : r # q /\ Holds(r) /\ Holds(q) => run[r].slot # run[q].slot

(* What most steps leave of most runs: q enters nothing, ...               *)
KeepsHold(q) == run'[q].at \in Step => run[q].at \in Step /\ run'[q].slot = run[q].slot
(* ... does not go back within an attempt, ...                             *)
KeepsPast(q) ==
    \/ run'[q].attempt = run[q].attempt + 1
    \/ /\ run'[q].attempt = run[q].attempt
       /\ run'[q].at \in Early => run[q].at \in Early
       /\ run'[q].at \in EarlyImage => run[q].at \in EarlyImage
(* ... and gets no new image, mirror, push or release.                     *)
KeepsGot(q) ==
    run'[q].got # NoId => run'[q].got = run[q].got /\ run'[q].slot = run[q].slot
KeepsMirror(q) ==
    run'[q].at \in Step \ {"prepare"} /\ run'[q].from = "prepare" =>
        /\ run[q].at \in Step \ {"prepare"} /\ run[q].from = "prepare"
        /\ run'[q].slot = run[q].slot /\ run'[q].day = run[q].day
        /\ run'[q].mirror = run[q].mirror
KeepsImage(q) ==
    run'[q].at \in {"tidyImages"} \cup Sif /\ run'[q].from # "sif" =>
        /\ run[q].at \in {"tidyImages"} \cup Sif /\ run[q].from # "sif"
        /\ run'[q].slot = run[q].slot /\ run'[q].day = run[q].day /\ run'[q].wf = run[q].wf
        /\ run'[q].image = run[q].image
KeepsTidy(q) ==
    run'[q].at = "tidyImages" => run[q].at = "tidyImages" /\ run'[q].slot = run[q].slot
KeepsVerify(q) ==
    run'[q].at = "verify" => run[q].at = "verify" /\ run'[q].slot = run[q].slot

Kept(q) ==
    /\ KeepsHold(q) /\ KeepsPast(q) /\ KeepsGot(q) /\ KeepsMirror(q)
    /\ KeepsImage(q) /\ KeepsTidy(q) /\ KeepsVerify(q)

Steps == {"prepare", "tidyMirrors", "binaries", "runtime", "tidyImages",
          "sif", "attach", "verify", "tidyReleases"}

LEMMA StepsAre == Step = Steps
BY DEF Step, Steps, Prepare, Runtime, Sif

LEMMA Unmoved ==
    ASSUME NEW q \in Run, RunsTyped, run'[q] = run[q]
    PROVE  Kept(q)
BY DEF Kept, KeepsHold, KeepsPast, KeepsGot, KeepsMirror, KeepsImage, KeepsTidy, KeepsVerify

(* A run that waits or has ended is in none of these.                      *)
LEMMA Aside ==
    ASSUME NEW q \in Run, RunsTyped, run'[q].at \in {"queued", "ended"}, run'[q].got = NoId,
           \/ run'[q].attempt = run[q].attempt + 1
           \/ /\ run'[q].attempt = run[q].attempt
              /\ run'[q].at = "queued" => run[q].at = "idle"
    PROVE  Kept(q)
<1>1. run'[q].at \notin Step /\ run'[q].at \notin {"tidyImages"} \cup Sif /\ run'[q].at # "verify"
  BY StepsAre DEF Steps, Sif
<1>2. KeepsPast(q)
  BY DEF KeepsPast, Early, EarlyImage
<1> QED  BY <1>1, <1>2 DEF Kept, KeepsHold, KeepsGot, KeepsMirror, KeepsImage, KeepsTidy, KeepsVerify

LEMMA IdleRecord == Idle \in Record
<1> DEFINE s == CHOOSE t \in Slot : TRUE
<1>1. s \in Slot
  BY PipelineAssumption
<1>2. 0 \in 0 .. MaxDay /\ 1 \in 1 .. MaxAttempt
  BY PipelineAssumption
<1>3. Idle = [wf |-> "nightly", slot |-> s, day |-> 0, attempt |-> 1,
              from |-> "prepare", at |-> "idle", verdict |-> "none",
              mirror |-> NoId, image |-> NoId, got |-> NoId]
  BY DEF Idle
<1> HIDE DEF s
<1> QED  BY <1>1, <1>2, <1>3 DEF Record, Job

LEMMA OverRecord ==
    ASSUME NEW r \in Run, RunsTyped, NEW verdict \in {"green", "red", "cancelled"}
    PROVE  /\ Over(r, verdict) \in Record
           /\ Over(r, verdict).at = "ended" /\ Over(r, verdict).got = NoId
           /\ Over(r, verdict).attempt = run[r].attempt
<1>1. run[r].attempt \in 1 .. MaxAttempt
  BY DEF RunsTyped, Record
<1>2. Idle \in Record
  BY IdleRecord
<1>3. Idle.got = NoId
  BY DEF Idle
<1> QED  BY <1>1, <1>2, <1>3 DEF Record, Over

LEMMA FailedRecord ==
    ASSUME NEW r \in Run, RunsTyped, run[r].at \in Step, NEW at \in {"ended", "tidyReleases"}
    PROVE  /\ Failed(r, at) \in Record
           /\ Failed(r, at).at = at /\ Failed(r, at).got = NoId
           /\ Failed(r, at).attempt = run[r].attempt
           /\ at = "tidyReleases" => /\ Failed(r, at).slot = run[r].slot
                                     /\ Failed(r, at).from = JobOf(run[r].at)
<1>1. CASE at = "ended" /\ ~MayRerun(r)
  BY <1>1, OverRecord DEF Failed
<1>2. CASE ~(at = "ended" /\ ~MayRerun(r))
  <2> DEFINE job == JobOf(run[r].at)
  <2>1. job \in Job
    BY DEF JobOf, Job
  <2> HIDE DEF job
  <2>2. Failed(r, at) = [run[r] EXCEPT !.at = at, !.verdict = "red", !.from = job, !.got = NoId]
    BY <1>2 DEF Failed, job
  <2>3. run[r] \in Record /\ at \in {"idle", "queued", "ended"} \cup Step
    BY StepsAre DEF RunsTyped, Steps
  <2>4. /\ Failed(r, at) \in Record
        /\ Failed(r, at).at = at /\ Failed(r, at).got = NoId
        /\ Failed(r, at).attempt = run[r].attempt
        /\ Failed(r, at).slot = run[r].slot /\ Failed(r, at).from = job
    BY <2>1, <2>2, <2>3 DEF Record
  <2> QED  BY <2>4 DEF job
<1> QED  BY <1>1, <1>2

(* A step that sets the record of one run.                                 *)
LEMMA SetOne ==
    ASSUME NEW r \in Run, RunsTyped, NEW rec \in Record, Set(r, rec),
           rec.got # NoId <=> rec.at \in {"attach", "verify"}
    PROVE  /\ RunsTyped' /\ run'[r] = rec
           /\ \A q \in Run : q # r => run'[q] = run[q]
<1>1. run' \in [Run -> Record] /\ run'[r] = rec /\ \A q \in Run : q # r => run'[q] = run[q]
  BY DEF RunsTyped, Set
<1>2. \A q \in Run : run'[q].got # NoId <=> run'[q].at \in {"attach", "verify"}
  BY <1>1 DEF RunsTyped
<1> QED  BY <1>1, <1>2 DEF RunsTyped

(* A failure does no more than end the attempt or skip the rest of `sif`.  *)
LEMMA RedRuns ==
    ASSUME NEW r \in Run, RunsTyped, run[r].at \in Step,
           NEW at, at = "ended" \/ (at = "tidyReleases" /\ run[r].at \in Sif),
           Set(r, Failed(r, at))
    PROVE  /\ RunsTyped' /\ run'[r] = Failed(r, at)
           /\ \A q \in Run : q # r => run'[q] = run[q]
           /\ \A q \in Run : Kept(q)
<1> DEFINE rec == Failed(r, at)
<1>1. /\ rec \in Record /\ rec.at = at /\ rec.got = NoId /\ rec.attempt = run[r].attempt
      /\ at = "tidyReleases" => rec.slot = run[r].slot /\ rec.from = JobOf(run[r].at)
  BY FailedRecord
<1> HIDE DEF rec
<1>2. RunsTyped' /\ run'[r] = rec /\ \A q \in Run : q # r => run'[q] = run[q]
  BY <1>1, SetOne DEF rec
<1>3. CASE at = "ended"
  BY <1>1, <1>2, <1>3, Unmoved, Aside DEF rec
<1>4. CASE at = "tidyReleases" /\ run[r].at \in Sif
  <2>1. rec.from = "sif"
    BY <1>1, <1>4 DEF JobOf, Sif, Prepare, Runtime
  <2>2. Kept(r)
    BY <1>1, <1>2, <1>4, <2>1
       DEF Kept, KeepsHold, KeepsPast, KeepsGot, KeepsMirror, KeepsImage, KeepsTidy, KeepsVerify,
           Early, EarlyImage
  <2> QED  BY <1>2, <2>2, Unmoved DEF rec
<1> QED  BY <1>3, <1>4

(* A run that joins the queue, and those that it finds there.              *)
LEMMA JoinedRuns ==
    ASSUME NEW r \in Run, RunsTyped, NEW rec \in Record, run' = Joined(r, rec),
           rec.got = NoId,
           \/ rec.attempt = run[r].attempt + 1
           \/ rec.attempt = run[r].attempt /\ run[r].at = "idle"
    PROVE  /\ RunsTyped'
           /\ \A q \in Run : Kept(q)
<1> DEFINE new == [rec EXCEPT !.at = "queued"]
<1>1. new \in Record /\ new.at = "queued" /\ new.got = NoId /\ new.attempt = rec.attempt
  BY DEF Record
<1> HIDE DEF new
<1>2. run'[r] = new
  BY DEF Joined, new
<1>3. \A q \in Run : q # r => \/ run'[q] = run[q]
                              \/ run'[q] = Over(q, "cancelled") /\ run[q].at = "queued"
  <2> TAKE q \in Run
  <2> HAVE q # r
  <2>1. run'[q] = CASE q = r -> new
                    [] q # r /\ run[q].at = "queued" /\ run[q].slot = rec.slot ->
                          Over(q, "cancelled")
                    [] OTHER -> run[q]
    BY DEF Joined, new
  <2>2. CASE run[q].at = "queued" /\ run[q].slot = rec.slot
    BY <2>1, <2>2
  <2>3. CASE ~(run[q].at = "queued" /\ run[q].slot = rec.slot)
    BY <2>1, <2>3
  <2> QED  BY <2>2, <2>3
<1>4. \A q \in Run : /\ run'[q] \in Record
                     /\ run'[q].got # NoId <=> run'[q].at \in {"attach", "verify"}
  <2> TAKE q \in Run
  <2>1. CASE q = r
    BY <1>1, <1>2, <2>1
  <2>2. CASE run'[q] = run[q]
    BY <2>2 DEF RunsTyped
  <2>3. CASE run'[q] = Over(q, "cancelled")
    BY <2>3, OverRecord
  <2> QED  BY <1>3, <2>1, <2>2, <2>3
<1>5. RunsTyped'
  <2>1. run' = [q \in Run |-> run'[q]]
    BY DEF Joined
  <2> QED  BY <1>4, <2>1 DEF RunsTyped
<1>6. ASSUME NEW q \in Run
      PROVE  Kept(q)
  <2>1. CASE q = r
    BY <1>1, <1>2, <2>1, Aside
  <2>2. CASE run'[q] = run[q]
    BY <2>2, Unmoved
  <2>3. CASE run'[q] = Over(q, "cancelled")
    BY <2>3, OverRecord, Aside
  <2> QED  BY <1>3, <2>1, <2>2, <2>3
<1> QED  BY <1>5, <1>6

-----------------------------------------------------------------------------
(* The inductive invariant.                                                *)

TypeInv == TypeOK /\ RunsTyped /\ Packed(inputs) /\ Packed(images)

InputsInv ==
    /\ OneEnv(inputs) /\ \A v \in inputs : Past(v.id, Early)
    /\ OwnMirror

(* What `sif` converts is of its own environment, and of no other's run.   *)
GotInv ==
    \A r \in Run : run[r].got # NoId =>
        /\ Past(run[r].got, EarlyImage)
        /\ AllOf(images, run[r].got, EnvOf(r))
        /\ \A q \in Run : run[q].got = run[r].got => EnvOf(q) = EnvOf(r)

Spared(e) == IF e \in Fork THEN Unshared(e) /\ since[e] < 1 ELSE since[e] < KeepImages

(* -release names the green image while that is within its budget; a fork  *)
(* about to prune has pushed an image after the green one.                 *)
GreenInv ==
    /\ \A e \in Env : green[e] # NoId /\ Spared(e) => Below(images, e, green[e], since[e])
    /\ \A r \in Run :
        /\ run[r].at = "tidyImages" /\ EnvOf(r) \in Fork /\ Unshared(EnvOf(r))
        /\ green[EnvOf(r)] # NoId
        => since[EnvOf(r)] # 0

ImagesInv ==
    /\ OneEnv(images) /\ \A v \in images : Past(v.id, EarlyImage)
    /\ GotInv /\ OwnImage /\ GreenInv

HasRelease(e) == \E x \in releases : x.env = e
Attached == \A r \in Run : run[r].at = "verify" => HasRelease(EnvOf(r))
ReleasesInv == GreenReleased /\ Attached

PipelineInv == TypeInv /\ Mutex /\ InputsInv /\ ImagesInv /\ ReleasesInv

LEMMA RunFacts ==
    ASSUME TypeInv, NEW r \in Run
    PROVE  /\ run[r] \in Record /\ RunsTyped
           /\ EnvOf(r) \in Env
           /\ MirrorTag(r) \in Tag /\ MirrorTag(r).env = EnvOf(r) /\ MirrorTag(r).track = "mirror"
           /\ ImageTag(r) \in Tag /\ ImageTag(r).env = EnvOf(r) /\ ImageTag(r).track # "release"
           /\ <<r, run[r].attempt>> \in Id
           /\ \A e \in Env, track \in {"mirror", "nightly", "stable", "release"} :
                 /\ Float(e, track) \in Tag /\ Float(e, track).env = e
                 /\ Float(e, track).track = track
<1>1. run[r] \in Record /\ RunsTyped
  BY DEF TypeInv, RunsTyped
<1>2. EnvOf(r) \in Env
  BY <1>1, PipelineAssumption DEF EnvOf, Record
<1>3. run[r].day \in 0 .. MaxDay /\ run[r].attempt \in 1 .. MaxAttempt /\ 0 \in 0 .. MaxDay
  BY <1>1, PipelineAssumption DEF Record
<1>4. Channel(r) \in {"nightly", "stable"}
  BY DEF Channel
<1> QED
  BY <1>1, <1>2, <1>3, <1>4 DEF MirrorTag, ImageTag, Dated, Float, Tag, Id

LEMMA MutexKept ==
    ASSUME Mutex, \A q \in Run : KeepsHold(q)
    PROVE  Mutex'
BY DEF Mutex, Holds, KeepsHold

LEMMA PastKept ==
    ASSUME RunsTyped, \A q \in Run : KeepsPast(q), NEW id \in Id
    PROVE  /\ Past(id, Early) => Past(id, Early)'
           /\ Past(id, EarlyImage) => Past(id, EarlyImage)'
<1>1. id[1] \in Run /\ id[2] \in Nat
  BY PipelineAssumption DEF Id
<1>2. run[id[1]].attempt \in Nat
  <2>1. run[id[1]] \in Record
    BY <1>1 DEF RunsTyped
  <2>2. run[id[1]].attempt \in 1 .. MaxAttempt /\ MaxAttempt \in Nat
    BY <2>1, PipelineAssumption DEF Record
  <2> QED  BY <2>2
<1> QED  BY <1>1, <1>2 DEF Past, KeepsPast

LEMMA VersionIds ==
    ASSUME NEW P, Packed(P)
    PROVE  \A v \in P : v.id \in Id
BY DEF Packed, Version

(* Runs that hold the group beside the one run of an environment's only    *)
(* slot are of other environments.                                         *)
LEMMA OtherEnv ==
    ASSUME TypeInv, Mutex, NEW r \in Run, NEW q \in Run, r # q, Holds(r), Holds(q), Alone(q)
    PROVE  MirrorTag(q).env # EnvOf(r) /\ ImageTag(q).env # EnvOf(r)
<1>1. run[r].slot \in Slot
  BY DEF TypeInv, RunsTyped, Record
<1>2. EnvOf(r) # EnvOf(q)
  BY <1>1 DEF Mutex, Alone, EnvOf
<1>3. MirrorTag(q).env = EnvOf(q) /\ ImageTag(q).env = EnvOf(q)
  BY RunFacts
<1> QED  BY <1>2, <1>3

(* What a run has published stays its own while the tag still names it.    *)
LEMMA OwnMirrorKept ==
    ASSUME TypeInv, OwnMirror, NEW q \in Run, KeepsMirror(q),
           /\ Holds(q) /\ Alone(q) /\ Names(inputs, MirrorTag(q), run[q].mirror)
           => Names(inputs', MirrorTag(q), run[q].mirror)
    PROVE  /\ run'[q].at \in Step /\ run'[q].at # "prepare" /\ run'[q].from = "prepare" /\ Alone(q)'
           => \E v \in Named(inputs', MirrorTag(q)') : v.id = run'[q].mirror
<1> SUFFICES ASSUME run'[q].at \in Step, run'[q].at # "prepare", run'[q].from = "prepare", Alone(q)'
             PROVE  \E v \in Named(inputs', MirrorTag(q)') : v.id = run'[q].mirror
  OBVIOUS
<1>1. /\ run[q].at \in Step \ {"prepare"} /\ run[q].from = "prepare"
      /\ run'[q].slot = run[q].slot /\ run'[q].day = run[q].day
      /\ run'[q].mirror = run[q].mirror
  BY DEF KeepsMirror
<1>2. Alone(q) /\ MirrorTag(q)' = MirrorTag(q)
  BY <1>1 DEF Alone, EnvOf, MirrorTag, Dated
<1>3. Names(inputs, MirrorTag(q), run[q].mirror)
  BY <1>1, <1>2 DEF OwnMirror, Holds, Names
<1>4. Names(inputs', MirrorTag(q), run[q].mirror)
  BY <1>1, <1>2, <1>3 DEF Holds
<1> QED  BY <1>1, <1>2, <1>4 DEF Names

LEMMA OwnImageKept ==
    ASSUME TypeInv, OwnImage, NEW q \in Run, KeepsImage(q),
           /\ Holds(q) /\ Alone(q) /\ Names(images, ImageTag(q), run[q].image)
           => Names(images', ImageTag(q), run[q].image)
    PROVE  /\ run'[q].at \in {"tidyImages"} \cup Sif /\ run'[q].from # "sif" /\ Alone(q)'
           => \E v \in Named(images', ImageTag(q)') : v.id = run'[q].image
<1> SUFFICES ASSUME run'[q].at \in {"tidyImages"} \cup Sif, run'[q].from # "sif", Alone(q)'
             PROVE  \E v \in Named(images', ImageTag(q)') : v.id = run'[q].image
  OBVIOUS
<1>1. /\ run[q].at \in {"tidyImages"} \cup Sif /\ run[q].from # "sif"
      /\ run'[q].slot = run[q].slot /\ run'[q].day = run[q].day /\ run'[q].wf = run[q].wf
      /\ run'[q].image = run[q].image
  BY DEF KeepsImage
<1>2. Alone(q) /\ ImageTag(q)' = ImageTag(q) /\ Holds(q)
  BY <1>1, StepsAre DEF Alone, EnvOf, ImageTag, Dated, Channel, Holds, Sif, Steps
<1>3. Names(images, ImageTag(q), run[q].image)
  BY <1>1, <1>2 DEF OwnImage, Names
<1>4. Names(images', ImageTag(q), run[q].image)
  BY <1>2, <1>3
<1> QED  BY <1>1, <1>2, <1>4 DEF Names

(* Steps that leave the packages alone, ...                                *)
LEMMA InputsKept ==
    ASSUME TypeInv, InputsInv, inputs' = inputs,
           \A q \in Run : KeepsPast(q) /\ KeepsMirror(q)
    PROVE  InputsInv'
<1>1. \A v \in inputs : Past(v.id, Early)'
  BY PastKept, VersionIds DEF TypeInv, InputsInv
<1>2. OwnMirror'
  BY OwnMirrorKept DEF InputsInv, OwnMirror, Holds
<1> QED  BY <1>1, <1>2 DEF InputsInv, OneEnv

LEMMA GotKept ==
    ASSUME TypeInv, GotInv, \A q \in Run : KeepsPast(q) /\ KeepsGot(q),
           \A q \in Run : run[q].got # NoId /\ AllOf(images, run[q].got, EnvOf(q))
                          => AllOf(images', run[q].got, EnvOf(q))
    PROVE  GotInv'
<1> SUFFICES ASSUME NEW r \in Run, run'[r].got # NoId
             PROVE  /\ Past(run[r].got, EarlyImage)'
                    /\ AllOf(images', run'[r].got, EnvOf(r)')
                    /\ \A q \in Run : run'[q].got = run'[r].got => EnvOf(q)' = EnvOf(r)'
  BY DEF GotInv
<1>1. \A q \in Run : run'[q].got = run'[r].got =>
                     run'[q].got = run[q].got /\ run'[q].slot = run[q].slot
  BY DEF KeepsGot
<1>2. \A q \in Run : run'[q].got = run'[r].got => EnvOf(q)' = EnvOf(q)
  BY <1>1 DEF EnvOf
<1>3. run[r].got = run'[r].got /\ run[r].got \in Id
  BY <1>1 DEF TypeInv, RunsTyped, Record
<1>4. Past(run[r].got, EarlyImage) /\ AllOf(images, run[r].got, EnvOf(r))
  BY <1>3 DEF GotInv
<1>5. \A id \in Id : Past(id, EarlyImage) => Past(id, EarlyImage)'
  BY PastKept DEF TypeInv
<1>6. Past(run[r].got, EarlyImage)'
  BY <1>3, <1>4, <1>5 DEF Past
<1>7. \A q \in Run : run'[q].got = run'[r].got => EnvOf(q)' = EnvOf(r)'
  BY <1>1, <1>2, <1>3 DEF GotInv
<1>8. AllOf(images', run[r].got, EnvOf(r))
  BY <1>3, <1>4
<1> QED  BY <1>2, <1>3, <1>6, <1>7, <1>8

LEMMA ImagesKept ==
    ASSUME TypeInv, ImagesInv, images' = images, green' = green, since' = since, GotInv',
           \A q \in Run : KeepsPast(q) /\ KeepsImage(q) /\ KeepsTidy(q)
    PROVE  ImagesInv'
<1>1. \A v \in images : Past(v.id, EarlyImage)'
  BY PastKept, VersionIds DEF TypeInv, ImagesInv
<1>2. OwnImage'
  BY OwnImageKept DEF ImagesInv, OwnImage
<1>3. GreenInv'
  <2>1. \A e \in Env : green'[e] # NoId /\ Spared(e)' => Below(images, e, green[e], since[e])
    BY DEF ImagesInv, GreenInv, Spared
  <2>2. ASSUME NEW r \in Run, run'[r].at = "tidyImages", EnvOf(r)' \in Fork, Unshared(EnvOf(r)'),
               green'[EnvOf(r)'] # NoId
        PROVE  since'[EnvOf(r)'] # 0
    <3>1. run[r].at = "tidyImages" /\ EnvOf(r)' = EnvOf(r)
      BY <2>2 DEF KeepsTidy, EnvOf
    <3> QED  BY <2>2, <3>1 DEF ImagesInv, GreenInv
  <2> QED  BY <2>1, <2>2 DEF GreenInv, Unshared
<1> QED  BY <1>1, <1>2, <1>3 DEF ImagesInv, OneEnv

LEMMA ReleasesKept ==
    ASSUME TypeInv, ReleasesInv, green' = green, \A q \in Run : KeepsVerify(q),
           \A e \in Env : HasRelease(e) => HasRelease(e)'
    PROVE  ReleasesInv'
<1>1. GreenReleased'
  BY DEF ReleasesInv, GreenReleased, HasRelease
<1>2. ASSUME NEW q \in Run, run'[q].at = "verify" PROVE HasRelease(EnvOf(q))'
  <2>1. run[q].at = "verify" /\ EnvOf(q)' = EnvOf(q)
    BY <1>2 DEF KeepsVerify, EnvOf
  <2>2. HasRelease(EnvOf(q)) /\ EnvOf(q) \in Env
    BY <2>1, RunFacts DEF ReleasesInv, Attached
  <2>3. \E x \in releases' : x.env = EnvOf(q)
    BY <2>2 DEF HasRelease
  <2> QED  BY <2>1, <2>3 DEF HasRelease
<1> QED  BY <1>1, <1>2 DEF ReleasesInv, Attached

(* A step that touches runs alone.                                         *)
LEMMA RunsOnly ==
    ASSUME PipelineInv, RunsTyped', UNCHANGED <<packages, releases, today, history>>,
           \A q \in Run : Kept(q)
    PROVE  PipelineInv'
<1>1. /\ inputs' = inputs /\ images' = images /\ releases' = releases /\ today' = today
      /\ green' = green /\ since' = since
  BY DEF packages, history
<1>2. \A q \in Run : /\ KeepsHold(q) /\ KeepsPast(q) /\ KeepsGot(q) /\ KeepsMirror(q)
                     /\ KeepsImage(q) /\ KeepsTidy(q) /\ KeepsVerify(q)
  BY DEF Kept
<1>3. TypeInv /\ Mutex /\ InputsInv /\ ImagesInv /\ ReleasesInv /\ GotInv
  BY DEF PipelineInv, ImagesInv
<1>4. TypeInv'
  BY <1>1, <1>3 DEF TypeInv, TypeOK, RunsTyped, Packed
<1>5. Mutex'
  BY <1>2, <1>3, MutexKept
<1>6. InputsInv'
  BY <1>1, <1>2, <1>3, InputsKept
<1>7. GotInv'
  BY <1>1, <1>2, <1>3, GotKept
<1>8. ImagesInv'
  BY <1>1, <1>2, <1>3, <1>7, ImagesKept
<1>9. ReleasesInv'
  BY <1>1, <1>2, <1>3, ReleasesKept DEF HasRelease
<1> QED  BY <1>4, <1>5, <1>6, <1>8, <1>9 DEF PipelineInv

-----------------------------------------------------------------------------
(* The steps.                                                              *)

LEMMA KeptDispatch ==
    ASSUME PipelineInv, NEW r \in Run, NEW wf \in Workflows, NEW s \in Slot, Dispatch(r, wf, s)
    PROVE  PipelineInv'
<1> DEFINE rec == [run[r] EXCEPT !.wf = wf, !.slot = s]
<1>1. run[r] \in Record /\ RunsTyped
  BY RunFacts DEF PipelineInv
<1>2. wf \in {"nightly", "stable", "regen"}
  BY PipelineAssumption
<1>3. run[r].at = "idle" /\ run[r].got = NoId
  BY <1>1 DEF Dispatch, RunsTyped
<1>4. rec \in Record /\ rec.got = NoId /\ rec.attempt = run[r].attempt
  BY <1>1, <1>2, <1>3 DEF Record
<1>5. run' = Joined(r, rec)
  BY DEF Dispatch
<1> HIDE DEF rec
<1>6. RunsTyped' /\ \A q \in Run : Kept(q)
  BY <1>1, <1>3, <1>4, <1>5, JoinedRuns
<1> QED  BY <1>6, RunsOnly DEF Dispatch

LEMMA KeptRerun ==
    ASSUME PipelineInv, NEW r \in Run, NEW from \in Job, Rerun(r, from)
    PROVE  PipelineInv'
<1> DEFINE old == IF from = "prepare" THEN [run[r] EXCEPT !.mirror = NoId, !.image = NoId] ELSE run[r]
           rec == [old EXCEPT !.from = from, !.attempt = @ + 1, !.verdict = "none"]
<1>1. run[r] \in Record /\ RunsTyped
  BY RunFacts DEF PipelineInv
<1>2. run[r].at = "ended" /\ run[r].got = NoId /\ run[r].attempt < MaxAttempt
  BY <1>1 DEF Rerun, RunsTyped, MayRerun
<1>3. run[r].attempt \in 1 .. MaxAttempt /\ MaxAttempt \in Nat
  BY <1>1, PipelineAssumption DEF Record
<1>4. run[r].attempt + 1 \in 1 .. MaxAttempt
  BY <1>2, <1>3
<1>5. old \in Record /\ old.got = NoId /\ old.attempt = run[r].attempt
  BY <1>1, <1>2 DEF Record
<1> HIDE DEF old
<1>6. rec \in Record /\ rec.got = NoId /\ rec.attempt = run[r].attempt + 1
  BY <1>4, <1>5 DEF Record
<1>7. run' = Joined(r, rec)
  BY DEF Rerun, old
<1> HIDE DEF rec
<1>8. RunsTyped' /\ \A q \in Run : Kept(q)
  BY <1>1, <1>6, <1>7, JoinedRuns
<1> QED  BY <1>8, RunsOnly DEF Rerun

LEMMA KeptEnter ==
    ASSUME PipelineInv, NEW r \in Run, Enter(r)
    PROVE  PipelineInv'
<1> DEFINE day == IF run[r].from = "prepare" THEN today ELSE run[r].day
           from == run[r].from
           rec == [run[r] EXCEPT !.at = from, !.day = day]
<1>1. TypeInv /\ run[r] \in Record /\ RunsTyped /\ run[r].at = "queued" /\ run[r].got = NoId
  BY RunFacts DEF PipelineInv, Enter, RunsTyped
<1>2. day \in 0 .. MaxDay
  BY <1>1 DEF TypeInv, TypeOK, Record
<1>3. from \in {"prepare", "binaries", "runtime", "sif"}
  BY <1>1 DEF Record, Job
<1>4. Set(r, rec)
  BY <1>1 DEF Enter
<1> HIDE DEF day, from
<1>5. from \in {"idle", "queued", "ended"} \cup Step
  BY <1>3, StepsAre DEF Steps
<1>6. /\ rec \in Record /\ rec.at = from /\ rec.got = NoId /\ rec.from = from
      /\ rec.attempt = run[r].attempt /\ rec.slot = run[r].slot
  BY <1>1, <1>2, <1>5 DEF Record, from
<1> HIDE DEF rec
<1>7. RunsTyped' /\ run'[r] = rec /\ \A q \in Run : q # r => run'[q] = run[q]
  BY <1>1, <1>3, <1>4, <1>6, SetOne
<1>8. \A q \in Run : /\ KeepsPast(q) /\ KeepsGot(q) /\ KeepsMirror(q)
                     /\ KeepsImage(q) /\ KeepsTidy(q) /\ KeepsVerify(q)
  <2>1. /\ KeepsPast(r) /\ KeepsGot(r) /\ KeepsMirror(r)
        /\ KeepsImage(r) /\ KeepsTidy(r) /\ KeepsVerify(r)
    BY <1>1, <1>3, <1>6, <1>7
       DEF KeepsPast, KeepsGot, KeepsMirror, KeepsImage, KeepsTidy, KeepsVerify,
           Early, EarlyImage, Sif
  <2> QED  BY <1>1, <1>7, <2>1, Unmoved DEF Kept
<1>9. /\ inputs' = inputs /\ images' = images /\ releases' = releases /\ today' = today
      /\ green' = green /\ since' = since
  BY DEF Enter, packages, history
<1>10. Mutex /\ InputsInv /\ ImagesInv /\ ReleasesInv /\ GotInv
  BY DEF PipelineInv, ImagesInv
<1>11. Mutex'
  <2>1. \A q \in Run : q # r /\ run[q].at \in Step => run[q].slot # run[r].slot
    BY DEF Enter, Holds
  <2> QED  BY <1>6, <1>7, <1>10, <2>1 DEF Mutex, Holds
<1>12. TypeInv'
  BY <1>1, <1>7, <1>9 DEF TypeInv, TypeOK, RunsTyped, Packed
<1>13. InputsInv' /\ GotInv'
  BY <1>1, <1>8, <1>9, <1>10, InputsKept, GotKept
<1>14. ImagesInv' /\ ReleasesInv'
  BY <1>1, <1>8, <1>9, <1>10, <1>13, ImagesKept, ReleasesKept DEF HasRelease
<1> QED  BY <1>11, <1>12, <1>13, <1>14 DEF PipelineInv

LEMMA KeptProduce ==
    ASSUME PipelineInv, NEW r \in Run, Produce(r)
    PROVE  PipelineInv'
<1> DEFINE rec == [run[r] EXCEPT !.at = "runtime"]
<1>1. run[r] \in Record /\ RunsTyped /\ run[r].at = "binaries" /\ run[r].got = NoId
  BY RunFacts DEF PipelineInv, Produce, RunsTyped
<1>2. rec \in Record /\ rec.at = "runtime" /\ rec.got = NoId
  BY <1>1, StepsAre DEF Record, Steps
<1>3. Set(r, rec)
  BY DEF Produce, To
<1>4. RunsTyped' /\ run'[r] = rec /\ \A q \in Run : q # r => run'[q] = run[q]
  BY <1>1, <1>2, <1>3, SetOne
<1>5. Kept(r)
  BY <1>1, <1>2, <1>4, StepsAre
     DEF Kept, KeepsHold, KeepsPast, KeepsGot, KeepsMirror, KeepsImage, KeepsTidy, KeepsVerify,
         Early, EarlyImage, Sif, Steps, Record
<1>6. \A q \in Run : Kept(q)
  BY <1>1, <1>4, <1>5, Unmoved
<1> QED  BY <1>4, <1>6, RunsOnly DEF Produce

LEMMA KeptRed ==
    ASSUME PipelineInv, NEW r \in Run, Holds(r),
           NEW at, at = "ended" \/ (at = "tidyReleases" /\ run[r].at \in Sif), Red(r, at)
    PROVE  PipelineInv'
<1>1. RunsTyped
  BY DEF PipelineInv, TypeInv
<1>2. RunsTyped' /\ \A q \in Run : Kept(q)
  BY <1>1, RedRuns DEF Holds, Red
<1> QED  BY <1>2, RunsOnly DEF Red

LEMMA KeptNextDay == PipelineInv /\ NextDay => PipelineInv'
<1> SUFFICES ASSUME PipelineInv, NextDay PROVE PipelineInv'
  OBVIOUS
<1>1. /\ inputs' = inputs /\ images' = images /\ releases' = releases /\ run' = run
      /\ green' = green /\ since' = since
  BY DEF NextDay, packages, history
<1>2. /\ TypeInv /\ RunsTyped /\ Mutex /\ InputsInv /\ ImagesInv /\ ReleasesInv /\ GotInv
  BY DEF PipelineInv, ImagesInv, TypeInv
<1>3. \A q \in Run : /\ KeepsHold(q) /\ KeepsPast(q) /\ KeepsGot(q) /\ KeepsMirror(q)
                     /\ KeepsImage(q) /\ KeepsTidy(q) /\ KeepsVerify(q)
  BY <1>1, <1>2, Unmoved DEF Kept
<1>4. today' \in 1 .. MaxDay
  BY <1>2, PipelineAssumption DEF NextDay, TypeInv, TypeOK
<1>5. TypeInv'
  BY <1>1, <1>2, <1>4 DEF TypeInv, TypeOK, RunsTyped, Packed
<1>6. Mutex' /\ InputsInv' /\ GotInv'
  BY <1>1, <1>2, <1>3, MutexKept, InputsKept, GotKept
<1>7. ImagesInv' /\ ReleasesInv'
  BY <1>1, <1>2, <1>3, <1>6, ImagesKept, ReleasesKept DEF HasRelease
<1> QED  BY <1>5, <1>6, <1>7 DEF PipelineInv

LEMMA KeptPullImage ==
    ASSUME PipelineInv, NEW r \in Run, PullImage(r)
    PROVE  PipelineInv'
<1>1. PICK v \in Named(images, ImageTag(r)) : Set(r, [run[r] EXCEPT !.at = "attach", !.got = v.id])
  BY DEF PullImage
<1> DEFINE rec == [run[r] EXCEPT !.at = "attach", !.got = v.id]
<1>2. TypeInv /\ run[r] \in Record /\ RunsTyped /\ run[r].at = "sif" /\ run[r].got = NoId
  BY RunFacts DEF PipelineInv, PullImage, RunsTyped
<1>3. v \in images /\ ImageTag(r) \in v.tags /\ v.id \in Id /\ v.id # NoId
  <2>1. v \in images /\ ImageTag(r) \in v.tags
    BY DEF Named
  <2> QED  BY <1>2, <2>1, VersionIds, PipelineAssumption DEF TypeInv, Id
<1>4. /\ rec \in Record /\ rec.at = "attach" /\ rec.got = v.id /\ rec.attempt = run[r].attempt
      /\ rec.slot = run[r].slot /\ rec.day = run[r].day /\ rec.wf = run[r].wf
      /\ rec.from = run[r].from /\ rec.mirror = run[r].mirror /\ rec.image = run[r].image
  BY <1>2, <1>3, StepsAre DEF Record, Steps
<1> HIDE DEF rec
<1>5. RunsTyped' /\ run'[r] = rec /\ \A q \in Run : q # r => run'[q] = run[q]
  BY <1>1, <1>2, <1>3, <1>4, SetOne DEF rec
<1>6. \A q \in Run : /\ KeepsHold(q) /\ KeepsPast(q) /\ KeepsMirror(q)
                     /\ KeepsImage(q) /\ KeepsTidy(q) /\ KeepsVerify(q)
  <2>1. /\ KeepsHold(r) /\ KeepsPast(r) /\ KeepsMirror(r)
        /\ KeepsImage(r) /\ KeepsTidy(r) /\ KeepsVerify(r)
    BY <1>2, <1>4, <1>5, StepsAre
       DEF KeepsHold, KeepsPast, KeepsMirror, KeepsImage, KeepsTidy, KeepsVerify,
           Early, EarlyImage, Sif, Steps
  <2> QED  BY <1>2, <1>5, <2>1, Unmoved DEF Kept
<1>7. /\ inputs' = inputs /\ images' = images /\ releases' = releases /\ today' = today
      /\ green' = green /\ since' = since
  BY DEF PullImage, packages, history
<1>8. Mutex /\ InputsInv /\ ImagesInv /\ ReleasesInv /\ GotInv
  BY DEF PipelineInv, ImagesInv
<1>9. GotInv'
  <2>1. \A q \in Run : EnvOf(q)' = EnvOf(q) \/ (q # r /\ run'[q] = run[q])
    BY <1>4, <1>5 DEF EnvOf
  <2>2. \A q \in Run : EnvOf(q)' = EnvOf(q)
    BY <2>1 DEF EnvOf
  <2>3. \A t \in v.tags : t.env = EnvOf(r)
    BY <1>2, <1>3, <1>8, RunFacts DEF ImagesInv, OneEnv
  <2>4. Stored(images, v.id) = {v}
    BY <1>2, <1>3 DEF Stored, TypeInv, Packed
  <2>5. AllOf(images, v.id, EnvOf(r))
    BY <2>3, <2>4 DEF AllOf
  <2>6. Past(v.id, EarlyImage)
    BY <1>3, <1>8 DEF ImagesInv
  <2>7. \A id \in Id : Past(id, EarlyImage) => Past(id, EarlyImage)'
    BY <1>2, <1>6, PastKept
  <2>8. \A q \in Run : run[q].got = v.id => EnvOf(q) = EnvOf(r)
    <3> TAKE q \in Run
    <3> HAVE run[q].got = v.id
    <3>1. AllOf(images, v.id, EnvOf(q))
      BY <1>3, <1>8 DEF GotInv
    <3> QED  BY <1>3, <2>3, <2>4, <3>1 DEF AllOf
  <2>9. \A q \in Run : run'[q].got = IF q = r THEN v.id ELSE run[q].got
    BY <1>4, <1>5
  <2>10. ASSUME NEW p \in Run, run'[p].got # NoId
         PROVE  /\ Past(run[p].got, EarlyImage)'
                /\ AllOf(images, run'[p].got, EnvOf(p))
                /\ \A q \in Run : run'[q].got = run'[p].got => EnvOf(q) = EnvOf(p)
    <3>1. CASE p = r
      <4>1. run'[p].got = v.id
        BY <2>9, <3>1
      <4>2. Past(v.id, EarlyImage)'
        BY <1>3, <2>6, <2>7
      <4> QED  BY <2>5, <2>8, <2>9, <3>1, <4>1, <4>2 DEF Past
    <3>2. CASE p # r
      <4>1. run'[p].got = run[p].got /\ run[p].got # NoId /\ run[p].got \in Id
        BY <1>2, <2>9, <2>10, <3>2 DEF RunsTyped, Record
      <4>2. Past(run[p].got, EarlyImage) /\ AllOf(images, run[p].got, EnvOf(p))
        BY <1>8, <4>1 DEF GotInv
      <4>3. \A i \in Id : i = run[p].got => Past(i, EarlyImage)'
        BY <2>7, <4>2
      <4>4. \A q \in Run : run'[q].got = run'[p].got => EnvOf(q) = EnvOf(p)
        BY <1>8, <2>8, <2>9, <3>2, <4>1 DEF GotInv
      <4>5. Past(run[p].got, EarlyImage)'
        BY <4>1, <4>3 DEF Past
      <4> QED  BY <4>1, <4>2, <4>4, <4>5
    <3> QED  BY <3>1, <3>2
  <2> QED  BY <1>7, <2>2, <2>10 DEF GotInv
<1>10. TypeInv'
  BY <1>2, <1>5, <1>7 DEF TypeInv, TypeOK, RunsTyped, Packed
<1>11. Mutex' /\ InputsInv'
  BY <1>2, <1>6, <1>7, <1>8, MutexKept, InputsKept
<1>12. ImagesInv' /\ ReleasesInv'
  BY <1>2, <1>6, <1>7, <1>8, <1>9, ImagesKept, ReleasesKept DEF HasRelease
<1> QED  BY <1>9, <1>10, <1>11, <1>12 DEF PipelineInv

LEMMA KeptPublishMirror ==
    ASSUME PipelineInv, NEW r \in Run, NEW id \in Id, NEW floated \in BOOLEAN,
           PublishMirror(r, id, floated)
    PROVE  PipelineInv'
<1> DEFINE e == EnvOf(r)  float == Float(e, "mirror")  tag == MirrorTag(r)
           dated == Push(inputs, tag, id)
           rec == [run[r] EXCEPT !.at = "tidyMirrors", !.mirror = id]
<1>1. /\ TypeInv /\ RunsTyped /\ Mutex /\ InputsInv /\ ImagesInv /\ ReleasesInv /\ GotInv
      /\ Packed(inputs) /\ OneEnv(inputs)
  BY DEF PipelineInv, TypeInv, InputsInv, ImagesInv
<1>2. /\ run[r] \in Record /\ run[r].at = "prepare" /\ run[r].got = NoId
      /\ tag \in Tag /\ tag.env = e /\ float \in Tag /\ float.env = e /\ e \in Env
  BY <1>1, RunFacts DEF PublishMirror, RunsTyped
<1>3. Holds(r)
  BY <1>2, StepsAre DEF Holds, Steps
<1>4. AllOf(inputs, id, e)
  <2>1. CASE id = <<r, run[r].attempt>>
    <3>1. ~Past(id, Early)
      BY <1>2, <2>1 DEF Past, Early, Record
    <3> QED  BY <1>1, <3>1 DEF InputsInv, AllOf, Stored
  <2>2. CASE id \in {v.id : v \in Named(inputs, float)}
    <3>1. PICK v \in inputs : float \in v.tags /\ v.id = id
      BY <2>2 DEF Named
    <3>2. Stored(inputs, id) = {v}
      BY <1>1, <3>1 DEF Stored, Packed
    <3> QED  BY <1>1, <1>2, <3>1, <3>2 DEF AllOf, OneEnv
  <2> QED  BY <2>1, <2>2 DEF PublishMirror
<1>5. /\ Packed(dated) /\ Names(dated, tag, id) /\ OneEnv(dated) /\ AllOf(dated, id, e)
      /\ \A t, i : t # tag /\ Names(inputs, t, i) => Names(dated, t, i)
      /\ \A x \in dated : x.id = id \/ \E v \in inputs : v.id = x.id
  BY <1>1, <1>2, <1>4, NamesPushed
<1>6. Stored(dated, id) # {}
  BY <1>5 DEF Names, Named, Stored
<1>7. inputs' = IF floated THEN Push(dated, float, id) ELSE dated
  <2>1. Push(dated, float, id) = Retag(dated, float, id)
    BY <1>6 DEF Push
  <2> QED  BY <2>1 DEF PublishMirror
<1> HIDE DEF dated, e, float, tag
<1>8. /\ Packed(inputs') /\ OneEnv(inputs')
      /\ \A t, i : t.env # e /\ Names(inputs, t, i) => Names(inputs', t, i)
      /\ Names(inputs', tag, id)
      /\ \A x \in inputs' : x.id = id \/ \E v \in inputs : v.id = x.id
  <2>1. CASE ~floated
    BY <1>2, <1>5, <1>7, <2>1
  <2>2. CASE floated
    <3> DEFINE Q == Push(dated, float, id)
    <3>1. /\ Packed(Q) /\ OneEnv(Q) /\ Names(Q, float, id)
          /\ \A t, i : t # float /\ Names(dated, t, i) => Names(Q, t, i)
          /\ \A x \in Q : x.id = id \/ \E v \in dated : v.id = x.id
      BY <1>2, <1>5, NamesPushed
    <3>2. inputs' = Q
      BY <1>7, <2>2
    <3> HIDE DEF Q
    <3>3. Names(Q, tag, id)
      BY <1>5, <3>1
    <3>4. \A x \in Q : x.id = id \/ \E v \in inputs : v.id = x.id
      BY <1>5, <3>1
    <3>5. \A t, i : t.env # e /\ Names(inputs, t, i) => Names(Q, t, i)
      BY <1>2, <1>5, <3>1
    <3> QED  BY <3>1, <3>2, <3>3, <3>4, <3>5
  <2> QED  BY <2>1, <2>2
<1>9. /\ RunsTyped' /\ \A q \in Run : q # r => run'[q] = run[q]
      /\ \A q \in Run : /\ KeepsHold(q) /\ KeepsPast(q) /\ KeepsGot(q)
                        /\ KeepsImage(q) /\ KeepsTidy(q) /\ KeepsVerify(q)
      /\ run'[r].at \notin Early /\ run'[r].attempt = run[r].attempt
      /\ run'[r].at \in Step =>
            /\ run'[r].mirror = id /\ run'[r].slot = run[r].slot /\ run'[r].day = run[r].day
  <2>1. CASE floated
    <3>1. /\ rec \in Record /\ rec.at = "tidyMirrors" /\ rec.got = NoId
          /\ rec.mirror = id /\ rec.slot = run[r].slot /\ rec.day = run[r].day
          /\ rec.attempt = run[r].attempt
      BY <1>2, StepsAre DEF Record, Steps
    <3>2. Set(r, rec)
      BY <2>1 DEF PublishMirror
    <3> HIDE DEF rec
    <3>3. RunsTyped' /\ run'[r] = rec /\ \A q \in Run : q # r => run'[q] = run[q]
      BY <1>1, <3>1, <3>2, SetOne
    <3>4. /\ KeepsHold(r) /\ KeepsPast(r) /\ KeepsGot(r)
          /\ KeepsImage(r) /\ KeepsTidy(r) /\ KeepsVerify(r)
      BY <1>2, <1>3, <3>1, <3>3
         DEF Holds, KeepsHold, KeepsPast, KeepsGot, KeepsImage, KeepsTidy, KeepsVerify,
             Early, EarlyImage, Sif
    <3>5. \A q \in Run : /\ KeepsHold(q) /\ KeepsPast(q) /\ KeepsGot(q)
                         /\ KeepsImage(q) /\ KeepsTidy(q) /\ KeepsVerify(q)
      BY <1>1, <3>3, <3>4, Unmoved DEF Kept
    <3> QED  BY <3>1, <3>3, <3>5 DEF Early
  <2>2. CASE ~floated
    <3>1. Set(r, Failed(r, "ended"))
      BY <2>2 DEF PublishMirror
    <3>2. /\ RunsTyped' /\ run'[r] = Failed(r, "ended")
          /\ \A q \in Run : q # r => run'[q] = run[q]
          /\ \A q \in Run : Kept(q)
      BY <1>1, <1>3, <3>1, RedRuns DEF Holds
    <3>3. Failed(r, "ended").at = "ended" /\ Failed(r, "ended").attempt = run[r].attempt
      BY <1>1, <1>3, FailedRecord DEF Holds
    <3> QED  BY <3>2, <3>3, StepsAre DEF Kept, Early, Steps
  <2> QED  BY <2>1, <2>2
<1>10. /\ images' = images /\ releases' = releases /\ today' = today
       /\ green' = green /\ since' = since
  BY DEF PublishMirror, history
<1>11. TypeInv'
  BY <1>1, <1>8, <1>9, <1>10 DEF TypeInv, TypeOK, RunsTyped, Packed
<1>12. InputsInv'
  <2>1. ASSUME NEW x \in inputs' PROVE Past(x.id, Early)'
    <3>1. CASE x.id = id
      <4>1. id = <<r, run[r].attempt>> => Past(id, Early)'
        BY <1>9 DEF Past
      <4>2. ASSUME NEW v \in inputs, v.id = id PROVE Past(id, Early)'
        BY <1>1, <1>9, <4>2, PastKept DEF InputsInv
      <4>3. id = <<r, run[r].attempt>> \/ \E v \in inputs : v.id = id
        BY DEF PublishMirror, Named
      <4>4. Past(id, Early)'
        BY <4>1, <4>2, <4>3
      <4> QED  BY <3>1, <4>4 DEF Past
    <3>2. ASSUME NEW v \in inputs, v.id = x.id PROVE Past(x.id, Early)'
      <4>1. v.id \in Id /\ Past(v.id, Early)
        BY <1>1, VersionIds DEF InputsInv
      <4>2. Past(v.id, Early)'
        BY <1>1, <1>9, <4>1, PastKept
      <4> QED  BY <3>2, <4>2 DEF Past
    <3> QED  BY <1>8, <3>1, <3>2
  <2>2. ASSUME NEW q \in Run, run'[q].at \in Step, run'[q].at # "prepare",
               run'[q].from = "prepare", Alone(q)'
        PROVE  \E v \in Named(inputs', MirrorTag(q)') : v.id = run'[q].mirror
    <3>1. CASE q = r
      <4>1. MirrorTag(r)' = tag
        BY <1>9, <2>2, <3>1 DEF MirrorTag, Dated, EnvOf, tag
      <4> QED  BY <1>8, <1>9, <2>2, <3>1, <4>1 DEF Names
    <3>2. CASE q # r
      <4>1. Holds(q) /\ Alone(q) => MirrorTag(q).env # e
        BY <1>1, <1>3, <3>2, OtherEnv DEF e
      <4>2. /\ Holds(q) /\ Alone(q) /\ Names(inputs, MirrorTag(q), run[q].mirror)
            => Names(inputs', MirrorTag(q), run[q].mirror)
        BY <1>8, <4>1
      <4>3. KeepsMirror(q) /\ OwnMirror
        BY <1>1, <1>9, <3>2, Unmoved DEF Kept, InputsInv
      <4> QED  BY <1>1, <2>2, <4>2, <4>3, OwnMirrorKept
    <3> QED  BY <3>1, <3>2
  <2> QED  BY <1>8, <2>1, <2>2 DEF InputsInv, OwnMirror, Holds
<1>13. Mutex' /\ GotInv'
  BY <1>1, <1>9, <1>10, MutexKept, GotKept
<1>14. ImagesInv' /\ ReleasesInv'
  BY <1>1, <1>9, <1>10, <1>13, ImagesKept, ReleasesKept DEF HasRelease
<1> QED  BY <1>11, <1>12, <1>13, <1>14 DEF PipelineInv

LEMMA KeptTidyMirrors ==
    ASSUME PipelineInv, NEW r \in Run, NEW gone \in SUBSET inputs, TidyMirrors(r, gone)
    PROVE  PipelineInv'
<1> DEFINE rec == [run[r] EXCEPT !.at = "binaries"]
<1>1. /\ TypeInv /\ RunsTyped /\ Mutex /\ InputsInv /\ ImagesInv /\ ReleasesInv /\ GotInv
      /\ Packed(inputs) /\ OneEnv(inputs)
  BY DEF PipelineInv, TypeInv, InputsInv, ImagesInv
<1>2. run[r] \in Record /\ run[r].at = "tidyMirrors" /\ run[r].got = NoId
  BY <1>1, RunFacts DEF TidyMirrors, RunsTyped
<1>3. Holds(r)
  BY <1>2, StepsAre DEF Holds, Steps
<1>4. /\ Packed(inputs') /\ OneEnv(inputs')
      /\ \A t, i : Names(inputs, t, i) /\ (\A v \in gone : t \notin v.tags) => Names(inputs', t, i)
      /\ \A x \in inputs' : \E v \in inputs : v.id = x.id
  BY <1>1, NamesDeleted DEF TidyMirrors
<1>5. /\ images' = images /\ releases' = releases /\ today' = today
      /\ green' = green /\ since' = since
  BY DEF TidyMirrors, history
<1>6. RunsTyped' /\ \A q \in Run : Kept(q)
  <2>1. CASE run[r].wf = "regen"
    <3>1. /\ Over(r, "green") \in Record /\ Over(r, "green").at = "ended"
          /\ Over(r, "green").got = NoId /\ Over(r, "green").attempt = run[r].attempt
      BY <1>1, OverRecord
    <3>2. /\ RunsTyped' /\ run'[r] = Over(r, "green")
          /\ \A q \in Run : q # r => run'[q] = run[q]
      BY <1>1, <2>1, <3>1, SetOne DEF TidyMirrors
    <3> QED  BY <1>1, <3>1, <3>2, Unmoved, Aside
  <2>2. CASE run[r].wf # "regen"
    <3>1. rec \in Record /\ rec = [run[r] EXCEPT !.at = "binaries"] /\ rec.at = "binaries"
          /\ rec.got = NoId
      BY <1>2, StepsAre DEF Record, Steps
    <3>2. Set(r, rec)
      BY <2>2 DEF TidyMirrors, To
    <3>3. RunsTyped' /\ run'[r] = rec /\ \A q \in Run : q # r => run'[q] = run[q]
      BY <1>1, <3>1, <3>2, SetOne
    <3>4. Kept(r)
      BY <1>2, <3>1, <3>3, StepsAre
         DEF Kept, KeepsHold, KeepsPast, KeepsGot, KeepsMirror, KeepsImage, KeepsTidy, KeepsVerify,
             Early, EarlyImage, Sif, Steps, Record
    <3> QED  BY <1>1, <3>3, <3>4, Unmoved
  <2> QED  BY <2>1, <2>2
<1>7. \A q \in Run : /\ KeepsHold(q) /\ KeepsPast(q) /\ KeepsGot(q) /\ KeepsMirror(q)
                     /\ KeepsImage(q) /\ KeepsTidy(q) /\ KeepsVerify(q)
  BY <1>6 DEF Kept
<1>8. TypeInv'
  BY <1>1, <1>4, <1>5, <1>6 DEF TypeInv, TypeOK, RunsTyped, Packed
<1>9. InputsInv'
  <2>1. \A id \in Id : Past(id, Early) => Past(id, Early)'
    BY <1>1, <1>7, PastKept
  <2>2. \A v \in inputs : v.id \in Id /\ Past(v.id, Early)
    BY <1>1, VersionIds DEF InputsInv
  <2>3. ASSUME NEW x \in inputs' PROVE Past(x.id, Early)'
    <3>1. PICK v \in inputs : v.id = x.id
      BY <1>4
    <3>2. Past(v.id, Early)'
      BY <2>1, <2>2
    <3> QED  BY <3>1, <3>2 DEF Past
  <2>4. ASSUME NEW q \in Run, Holds(q), Alone(q), NEW v \in gone PROVE MirrorTag(q) \notin v.tags
    <3>1. v \in Matching(inputs, EnvOf(r)) /\ MirrorTag(r) \notin v.tags
      BY DEF TidyMirrors, Doomed
    <3>2. CASE q = r
      BY <3>1, <3>2
    <3>3. CASE q # r
      <4>1. MirrorTag(q).env # EnvOf(r)
        BY <1>1, <1>3, <2>4, <3>3, OtherEnv
      <4> QED  BY <1>1, <3>1, <4>1 DEF Matching, OneEnv
    <3> QED  BY <3>2, <3>3
  <2>5. ASSUME NEW q \in Run
        PROVE  /\ Holds(q) /\ Alone(q) /\ Names(inputs, MirrorTag(q), run[q].mirror)
               => Names(inputs', MirrorTag(q), run[q].mirror)
    BY <1>4, <2>4
  <2>6. OwnMirror'
    BY <1>1, <1>7, <2>5, OwnMirrorKept DEF InputsInv, OwnMirror, Holds
  <2> QED  BY <1>4, <2>3, <2>6 DEF InputsInv
<1>10. Mutex' /\ GotInv'
  BY <1>1, <1>5, <1>7, MutexKept, GotKept
<1>11. ImagesInv' /\ ReleasesInv'
  BY <1>1, <1>5, <1>7, <1>10, ImagesKept, ReleasesKept DEF HasRelease
<1> QED  BY <1>8, <1>9, <1>10, <1>11 DEF PipelineInv

LEMMA KeptPushImage ==
    ASSUME PipelineInv, NEW r \in Run, NEW floated \in BOOLEAN, PushImage(r, floated)
    PROVE  PipelineInv'
<1> DEFINE e == EnvOf(r)  float == Float(e, "nightly")  tag == ImageTag(r)
           id == <<r, run[r].attempt>>
           dated == Push(images, tag, id)
           both == floated /\ Channel(r) = "nightly"
           done == floated \/ Channel(r) = "stable"
           rec == [run[r] EXCEPT !.image = id, !.at = "tidyImages"]
<1>1. /\ TypeInv /\ TypeOK /\ RunsTyped /\ Mutex /\ InputsInv /\ ImagesInv /\ ReleasesInv
      /\ GotInv /\ GreenInv /\ OwnImage
      /\ Packed(images) /\ OneEnv(images)
  BY DEF PipelineInv, TypeInv, ImagesInv
<1>2. /\ run[r] \in Record /\ run[r].at = "runtime" /\ run[r].got = NoId
      /\ tag \in Tag /\ tag.env = e /\ tag.track # "release"
      /\ float \in Tag /\ float.env = e /\ float.track = "nightly"
      /\ e \in Env /\ id \in Id
  BY <1>1, RunFacts DEF PushImage, RunsTyped
<1>3. Holds(r)
  BY <1>2, StepsAre DEF Holds, Steps
<1>4. ~Past(id, EarlyImage)
  BY <1>2 DEF Past, Early, EarlyImage, Record
<1>5. Stored(images, id) = {} /\ AllOf(images, id, e)
  BY <1>1, <1>4 DEF ImagesInv, AllOf, Stored
<1>6. images' = IF both THEN Push(dated, float, id) ELSE dated
  <2>1. Names(dated, tag, id)
    BY <1>1, <1>2, NamesPushed
  <2>2. Stored(dated, id) # {}
    BY <2>1 DEF Names, Named, Stored
  <2>3. Push(dated, float, id) = Retag(dated, float, id)
    BY <2>2 DEF Push
  <2> QED  BY <2>3 DEF PushImage
<1>7. /\ Packed(dated) /\ Names(dated, tag, id) /\ OneEnv(dated) /\ AllOf(dated, id, e)
      /\ \A t, i : t # tag /\ Names(images, t, i) => Names(dated, t, i)
      /\ \A i, d : AllOf(images, i, d) /\ i # id => AllOf(dated, i, d)
      /\ \A x \in dated : x.id = id \/ \E v \in images : v.id = x.id
  BY <1>1, <1>2, <1>5, NamesPushed
<1>8. ASSUME NEW d, NEW i, NEW n \in Nat, Below(images, d, i, n)
      PROVE  Below(dated, d, i, n + 1) /\ (d # e => Below(dated, d, i, n))
  <2>1. tag # Float(d, "release")
    BY <1>2 DEF Float
  <2> HIDE DEF tag, id
  <2> QED  BY <1>1, <1>2, <1>8, <2>1, BelowPush
<1> HIDE DEF dated, e, float, tag, id
<1>9. /\ Packed(images') /\ OneEnv(images') /\ Names(images', tag, id)
      /\ \A t, i : t.env # e /\ Names(images, t, i) => Names(images', t, i)
      /\ \A i, d : AllOf(images, i, d) /\ i # id => AllOf(images', i, d)
      /\ \A x \in images' : x.id = id \/ \E v \in images : v.id = x.id
      /\ \A d, i : \A n \in Nat : Below(images, d, i, n) =>
            /\ Below(images', d, i, n + 1)
            /\ d # e => Below(images', d, i, n)
  <2>1. CASE ~both
    BY <1>2, <1>6, <1>7, <1>8, <2>1
  <2>2. CASE both
    <3> DEFINE Q == Push(dated, float, id)
    <3>1. /\ Packed(Q) /\ OneEnv(Q) /\ Names(Q, float, id)
          /\ \A t, i : t # float /\ Names(dated, t, i) => Names(Q, t, i)
          /\ \A i, d : AllOf(dated, i, d) /\ i # id => AllOf(Q, i, d)
          /\ \A x \in Q : x.id = id \/ \E v \in dated : v.id = x.id
      BY <1>2, <1>7, NamesPushed
    <3>2. Stored(dated, id) \cap Matching(dated, e) # {}
      BY <1>2, <1>7 DEF Names, Named, Stored, Matching
    <3>3. ASSUME NEW d, NEW i, NEW n \in Nat, Below(dated, d, i, n)
          PROVE  Below(Q, d, i, n)
      <4>1. float # Float(d, "release")
        BY <1>2 DEF Float
      <4>2. float.env # d \/ Stored(dated, id) \cap Matching(dated, d) # {}
        BY <1>2, <3>2
      <4> QED  BY <1>2, <1>7, <3>3, <4>1, <4>2, BelowPush
    <3>4. images' = Q
      BY <1>6, <2>2
    <3> HIDE DEF Q
    <3>5. Names(Q, tag, id)
      BY <1>7, <3>1
    <3>6. \A x \in Q : x.id = id \/ \E v \in images : v.id = x.id
      BY <1>7, <3>1
    <3>7. \A t, i : t.env # e /\ Names(images, t, i) => Names(Q, t, i)
      BY <1>2, <1>7, <3>1
    <3>8. \A i, d : AllOf(images, i, d) /\ i # id => AllOf(Q, i, d)
      BY <1>7, <3>1
    <3>9. ASSUME NEW d, NEW i, NEW n \in Nat, Below(images, d, i, n)
          PROVE  Below(Q, d, i, n + 1) /\ (d # e => Below(Q, d, i, n))
      <4>1. n + 1 \in Nat /\ Below(dated, d, i, n + 1) /\ (d # e => Below(dated, d, i, n))
        BY <1>8, <3>9
      <4> QED  BY <3>3, <4>1
    <3> QED  BY <3>1, <3>4, <3>5, <3>6, <3>7, <3>8, <3>9
  <2> QED  BY <2>1, <2>2
<1>10. /\ RunsTyped' /\ \A q \in Run : q # r => run'[q] = run[q]
       /\ \A q \in Run : /\ KeepsHold(q) /\ KeepsPast(q) /\ KeepsGot(q)
                         /\ KeepsMirror(q) /\ KeepsVerify(q)
       /\ run'[r].at \notin EarlyImage /\ run'[r].attempt = run[r].attempt
       /\ run'[r].at \in Step =>
            /\ run'[r].image = id /\ run'[r].slot = run[r].slot /\ run'[r].day = run[r].day
            /\ run'[r].wf = run[r].wf
  <2>1. CASE done
    <3>1. /\ rec \in Record /\ rec.at = "tidyImages" /\ rec.got = NoId
          /\ rec.image = id /\ rec.slot = run[r].slot /\ rec.day = run[r].day /\ rec.wf = run[r].wf
          /\ rec.mirror = run[r].mirror /\ rec.from = run[r].from
          /\ rec.attempt = run[r].attempt
      BY <1>2, StepsAre DEF Record, Steps
    <3>2. Set(r, rec)
      BY <2>1 DEF PushImage, id
    <3> HIDE DEF rec
    <3>3. RunsTyped' /\ run'[r] = rec /\ \A q \in Run : q # r => run'[q] = run[q]
      BY <1>1, <3>1, <3>2, SetOne
    <3>4. /\ KeepsHold(r) /\ KeepsPast(r) /\ KeepsGot(r)
          /\ KeepsMirror(r) /\ KeepsVerify(r)
      BY <1>2, <1>3, <3>1, <3>3
         DEF Holds, KeepsHold, KeepsPast, KeepsGot, KeepsMirror, KeepsVerify,
             Early, EarlyImage, Sif
    <3>5. \A q \in Run : /\ KeepsHold(q) /\ KeepsPast(q) /\ KeepsGot(q)
                         /\ KeepsMirror(q) /\ KeepsVerify(q)
      BY <1>1, <3>3, <3>4, Unmoved DEF Kept
    <3> QED  BY <3>1, <3>3, <3>5 DEF Early, EarlyImage
  <2>2. CASE ~done
    <3>1. Set(r, Failed(r, "ended"))
      BY <2>2 DEF PushImage
    <3>2. /\ RunsTyped' /\ run'[r] = Failed(r, "ended")
          /\ \A q \in Run : q # r => run'[q] = run[q]
          /\ \A q \in Run : Kept(q)
      BY <1>1, <1>3, <3>1, RedRuns DEF Holds
    <3>3. Failed(r, "ended").at = "ended" /\ Failed(r, "ended").attempt = run[r].attempt
      BY <1>1, <1>3, FailedRecord DEF Holds
    <3> QED  BY <3>2, <3>3, StepsAre DEF Kept, Early, EarlyImage, Steps
  <2> QED  BY <2>1, <2>2
<1>11. \A q \in Run : q # r => KeepsImage(q) /\ KeepsTidy(q)
  BY <1>1, <1>10, Unmoved DEF Kept
<1>12. /\ inputs' = inputs /\ releases' = releases /\ today' = today /\ green' = green
       /\ since' = [since EXCEPT ![e] = IF green[e] = NoId \/ @ >= KeepImages THEN @ ELSE @ + 1]
  BY DEF PushImage, e
<1>13. /\ \A d \in Env : since[d] \in Nat /\ since'[d] \in Nat
       /\ \A d \in Env : d # e => since'[d] = since[d]
       /\ since'[e] = since[e] + 1 \/ (since'[e] = since[e] /\ (green[e] = NoId \/ since[e] >= KeepImages))
       /\ since' \in [Env -> Nat] /\ KeepImages \in Nat \ {0}
  BY <1>1, <1>2, <1>12, PipelineAssumption DEF TypeOK
<1>14. TypeInv'
  BY <1>1, <1>9, <1>10, <1>12, <1>13 DEF TypeInv, TypeOK, RunsTyped, Packed
<1>15. Mutex' /\ InputsInv' /\ ReleasesInv'
  BY <1>1, <1>10, <1>12, MutexKept, InputsKept, ReleasesKept DEF HasRelease
<1>16. GotInv'
  <2>1. ASSUME NEW q \in Run, run[q].got # NoId, AllOf(images, run[q].got, EnvOf(q))
        PROVE  AllOf(images', run[q].got, EnvOf(q))
    <3>1. run[q].got # id
      BY <1>1, <1>4, <2>1 DEF GotInv
    <3> QED  BY <1>9, <2>1, <3>1
  <2> QED  BY <1>1, <1>10, <2>1, GotKept
<1>17. \A x \in images' : Past(x.id, EarlyImage)'
  <2>2. \A i \in Id : Past(i, EarlyImage) => Past(i, EarlyImage)'
    BY <1>1, <1>10, PastKept
  <2>3. \A v \in images : v.id \in Id /\ Past(v.id, EarlyImage)
    BY <1>1, VersionIds DEF ImagesInv
  <2>4. \A v \in images : Past(v.id, EarlyImage)'
    BY <2>2, <2>3
  <2>5. ASSUME NEW x \in images' PROVE Past(x.id, EarlyImage)'
    <3>1. CASE x.id = id
      <4>1. x.id = <<r, run[r].attempt>>
        BY <3>1 DEF id
      <4> QED  BY <1>10, <4>1 DEF Past
    <3>2. ASSUME NEW v \in images, v.id = x.id PROVE Past(x.id, EarlyImage)'
      BY <2>4, <3>2 DEF Past
    <3> QED  BY <1>9, <3>1, <3>2
  <2> QED  BY <2>5
<1>18. OwnImage'
  <2> SUFFICES ASSUME NEW q \in Run, run'[q].at \in {"tidyImages"} \cup Sif,
                      run'[q].from # "sif", Alone(q)'
               PROVE  \E v \in Named(images', ImageTag(q)') : v.id = run'[q].image
    BY DEF OwnImage
  <2>1. CASE q = r
    <3>1. run'[r].at \in Step
      BY <2>1, StepsAre DEF Steps, Sif
    <3>2. ImageTag(r)' = tag
      BY <1>10, <3>1 DEF ImageTag, Dated, EnvOf, Channel, tag
    <3> QED  BY <1>9, <1>10, <2>1, <3>1, <3>2 DEF Names
  <2>2. CASE q # r
    <3>1. Holds(q) /\ Alone(q) => ImageTag(q).env # e
      BY <1>1, <1>3, <2>2, OtherEnv DEF e
    <3>2. /\ Holds(q) /\ Alone(q) /\ Names(images, ImageTag(q), run[q].image)
          => Names(images', ImageTag(q), run[q].image)
      BY <1>9, <3>1
    <3> QED  BY <1>1, <1>11, <2>2, <3>2, OwnImageKept
  <2> QED  BY <2>1, <2>2
<1>19. GreenInv'
  <2>1. ASSUME NEW d \in Env, green'[d] # NoId, Spared(d)'
        PROVE  Below(images', d, green[d], since'[d])
    <3>1. CASE d # e
      <4>1. Spared(d) /\ since'[d] = since[d]
        BY <1>12, <1>13, <2>1, <3>1 DEF Spared, Unshared
      <4>2. Below(images, d, green[d], since[d])
        BY <1>1, <1>12, <2>1, <4>1 DEF GreenInv
      <4> QED  BY <1>9, <1>13, <3>1, <4>1, <4>2
    <3>2. CASE d = e
      <4>1. d \in Fork => since'[d] = 0
        BY <1>13, <2>1 DEF Spared
      <4>2. d \notin Fork => since'[d] < KeepImages
        BY <2>1 DEF Spared
      <4>3. since'[d] = since[d] + 1 /\ d \notin Fork /\ since[d] < KeepImages
        BY <1>12, <1>13, <2>1, <3>2, <4>1, <4>2
      <4>4. Below(images, d, green[d], since[d])
        BY <1>1, <1>12, <2>1, <4>3 DEF GreenInv, Spared
      <4> QED  BY <1>9, <1>13, <4>3, <4>4
    <3> QED  BY <3>1, <3>2
  <2>2. ASSUME NEW q \in Run, run'[q].at = "tidyImages", EnvOf(q)' \in Fork, Unshared(EnvOf(q)'),
               green'[EnvOf(q)'] # NoId
        PROVE  since'[EnvOf(q)'] # 0
    <3>1. CASE q = r
      <4>1. EnvOf(q)' = e
        BY <1>2, <1>10, <2>2, <3>1, StepsAre DEF EnvOf, e, Steps
      <4> QED  BY <1>2, <1>12, <1>13, <2>2, <4>1
    <3>2. CASE q # r
      <4>1. run[q].at = "tidyImages" /\ EnvOf(q)' = EnvOf(q)
        BY <1>10, <2>2, <3>2 DEF EnvOf
      <4>2. EnvOf(q) \in Env
        BY <1>1, RunFacts
      <4>3. since[EnvOf(q)] # 0
        BY <1>1, <1>12, <2>2, <4>1 DEF GreenInv
      <4> QED  BY <1>2, <1>13, <4>1, <4>2, <4>3
    <3> QED  BY <3>1, <3>2
  <2> QED  BY <1>12, <2>1, <2>2 DEF GreenInv, Unshared
<1>20. ImagesInv'
  BY <1>9, <1>16, <1>17, <1>18, <1>19 DEF ImagesInv
<1> QED  BY <1>14, <1>15, <1>20 DEF PipelineInv

LEMMA KeptTidyImages ==
    ASSUME PipelineInv, NEW r \in Run, NEW gone \in SUBSET images, TidyImages(r, gone)
    PROVE  PipelineInv'
<1> DEFINE e == EnvOf(r)
           keep == IF e \in Fork THEN 0 ELSE KeepImages
           rec == [run[r] EXCEPT !.at = "sif"]
<1>1. /\ TypeInv /\ TypeOK /\ RunsTyped /\ Mutex /\ InputsInv /\ ImagesInv /\ ReleasesInv
      /\ GotInv /\ GreenInv /\ OwnImage
      /\ Packed(images) /\ OneEnv(images)
  BY DEF PipelineInv, TypeInv, ImagesInv
<1>2. /\ run[r] \in Record /\ run[r].at = "tidyImages" /\ run[r].got = NoId
      /\ e \in Env
  BY <1>1, RunFacts DEF TidyImages, RunsTyped
<1>3. Holds(r)
  BY <1>2, StepsAre DEF Holds, Steps
<1>4. /\ Packed(images') /\ OneEnv(images')
      /\ \A t, i : Names(images, t, i) /\ (\A v \in gone : t \notin v.tags) => Names(images', t, i)
      /\ \A i, d : AllOf(images, i, d) => AllOf(images', i, d)
      /\ \A x \in images' : \E v \in images : v.id = x.id
  BY <1>1, NamesDeleted DEF TidyImages
<1>5. /\ inputs' = inputs /\ releases' = releases /\ today' = today
      /\ green' = green /\ since' = since
  BY DEF TidyImages, history
<1>6. /\ RunsTyped' /\ \A q \in Run : Kept(q)
      /\ \A q \in Run : run'[q].at = "tidyImages" => q # r /\ run'[q] = run[q]
  <2>1. rec \in Record /\ rec = [run[r] EXCEPT !.at = "sif"] /\ rec.at = "sif" /\ rec.got = NoId
    BY <1>2, StepsAre DEF Record, Steps
  <2>2. Set(r, rec)
    BY DEF TidyImages, To
  <2>3. RunsTyped' /\ run'[r] = rec /\ \A q \in Run : q # r => run'[q] = run[q]
    BY <1>1, <2>1, <2>2, SetOne
  <2>4. Kept(r)
    BY <1>2, <2>1, <2>3, StepsAre
       DEF Kept, KeepsHold, KeepsPast, KeepsGot, KeepsMirror, KeepsImage, KeepsTidy, KeepsVerify,
           Early, EarlyImage, Sif, Steps, Record
  <2> HIDE DEF rec
  <2>5. \A q \in Run : Kept(q)
    BY <1>1, <2>3, <2>4, Unmoved
  <2> QED  BY <2>1, <2>3, <2>5
<1>7. \A q \in Run : /\ KeepsHold(q) /\ KeepsPast(q) /\ KeepsGot(q) /\ KeepsMirror(q)
                     /\ KeepsImage(q) /\ KeepsTidy(q) /\ KeepsVerify(q)
  BY <1>6 DEF Kept
<1>8. ASSUME NEW v \in gone
      PROVE  /\ v \in images /\ v \in Matching(images, e) /\ ImageTag(r) \notin v.tags
             /\ Cardinality(Newer(images, e, v)) >= keep
             /\ \A t \in v.tags : t.env = e
  <2>1. /\ v \in Matching(images, e) /\ ImageTag(r) \notin v.tags
        /\ Cardinality(Newer(images, e, v)) >= keep
    BY DEF TidyImages, Doomed
  <2> HIDE DEF e, keep
  <2> QED  BY <1>1, <2>1 DEF Matching, OneEnv
<1>9. TypeInv'
  BY <1>1, <1>4, <1>5, <1>6 DEF TypeInv, TypeOK, RunsTyped, Packed
<1>10. Mutex' /\ InputsInv' /\ ReleasesInv'
  BY <1>1, <1>5, <1>7, MutexKept, InputsKept, ReleasesKept DEF HasRelease
<1>11. GotInv'
  BY <1>1, <1>4, <1>7, GotKept
<1>12. \A x \in images' : Past(x.id, EarlyImage)'
  <2>1. \A id \in Id : Past(id, EarlyImage) => Past(id, EarlyImage)'
    BY <1>1, <1>7, PastKept
  <2>2. \A v \in images : v.id \in Id /\ Past(v.id, EarlyImage)
    BY <1>1, VersionIds DEF ImagesInv
  <2>3. ASSUME NEW x \in images' PROVE Past(x.id, EarlyImage)'
    <3>1. PICK v \in images : v.id = x.id
      BY <1>4
    <3>2. Past(v.id, EarlyImage)'
      BY <2>1, <2>2
    <3> QED  BY <3>1, <3>2 DEF Past
  <2> QED  BY <2>3
<1>13. OwnImage'
  <2>1. ASSUME NEW q \in Run, Holds(q), Alone(q), NEW v \in gone PROVE ImageTag(q) \notin v.tags
    <3>1. CASE q = r
      BY <1>8, <3>1
    <3>2. CASE q # r
      <4>1. ImageTag(q).env # e
        BY <1>1, <1>3, <2>1, <3>2, OtherEnv
      <4> QED  BY <1>8, <4>1
    <3> QED  BY <3>1, <3>2
  <2>2. ASSUME NEW q \in Run
        PROVE  /\ Holds(q) /\ Alone(q) /\ Names(images, ImageTag(q), run[q].image)
               => Names(images', ImageTag(q), run[q].image)
    BY <1>4, <2>1
  <2> QED  BY <1>1, <1>7, <2>2, OwnImageKept DEF OwnImage
<1>14. GreenInv'
  <2>1. ASSUME NEW d \in Env, green'[d] # NoId, Spared(d)'
        PROVE  Below(images', d, green'[d], since'[d])
    <3>1. Spared(d) /\ green[d] # NoId /\ since[d] \in Nat
      BY <1>1, <1>5, <2>1 DEF Spared, Unshared, TypeOK
    <3>2. Below(images, d, green[d], since[d])
      BY <1>1, <3>1 DEF GreenInv
    <3>3. ASSUME NEW v \in gone, Float(d, "release") \in v.tags
          PROVE  Cardinality(Newer(images, d, v)) > since[d]
      <4>1. d = e
        BY <1>8, <3>3 DEF Float
      <4>2. e \notin Fork
        BY <1>1, <1>2, <3>1, <4>1 DEF Spared, GreenInv
      <4>3. since[d] < KeepImages /\ KeepImages \in Nat
        BY <3>1, <4>1, <4>2, PipelineAssumption DEF Spared
      <4>4. Cardinality(Newer(images, d, v)) >= KeepImages
        BY <1>8, <4>1, <4>2
      <4>5. Cardinality(Newer(images, d, v)) \in Nat
        <5>1. Newer(images, d, v) \in SUBSET images
          BY DEF Newer, Matching
        <5> QED  BY <1>1, <5>1, FS_Subset, FS_CardinalityType DEF Packed
      <4> QED  BY <3>1, <4>3, <4>4, <4>5
    <3> QED  BY <1>1, <1>5, <3>1, <3>2, <3>3, BelowDelete DEF TidyImages
  <2>2. ASSUME NEW q \in Run, run'[q].at = "tidyImages", EnvOf(q)' \in Fork, Unshared(EnvOf(q)'),
               green'[EnvOf(q)'] # NoId
        PROVE  since'[EnvOf(q)'] # 0
    <3>1. run[q].at = "tidyImages" /\ EnvOf(q)' = EnvOf(q)
      BY <1>6, <2>2 DEF EnvOf
    <3> QED  BY <1>1, <1>5, <2>2, <3>1 DEF GreenInv
  <2> QED  BY <2>1, <2>2 DEF GreenInv, Unshared
<1>15. ImagesInv'
  BY <1>4, <1>11, <1>12, <1>13, <1>14 DEF ImagesInv
<1> QED  BY <1>9, <1>10, <1>15 DEF PipelineInv

LEMMA KeptAttach ==
    ASSUME PipelineInv, NEW r \in Run, NEW uploaded \in BOOLEAN, Attach(r, uploaded)
    PROVE  PipelineInv'
<1> DEFINE rec == [run[r] EXCEPT !.at = "verify"]
<1>1. /\ TypeInv /\ TypeOK /\ RunsTyped /\ Mutex /\ InputsInv /\ ImagesInv /\ ReleasesInv
      /\ GotInv
  BY DEF PipelineInv, TypeInv, ImagesInv
<1>2. /\ run[r] \in Record /\ run[r].at = "attach" /\ run[r].got # NoId
      /\ EnvOf(r) \in Env
  BY <1>1, RunFacts DEF Attach, RunsTyped
<1>3. /\ inputs' = inputs /\ images' = images /\ today' = today
      /\ green' = green /\ since' = since /\ releases' = releases \cup {ReleaseOf(r)}
  BY DEF Attach, packages, history
<1>4. /\ RunsTyped'
      /\ \A q \in Run : q # r => run'[q] = run[q]
      /\ \A q \in Run : /\ KeepsHold(q) /\ KeepsPast(q) /\ KeepsGot(q) /\ KeepsMirror(q)
                        /\ KeepsImage(q) /\ KeepsTidy(q)
      /\ run'[r].at = "verify" => run'[r].slot = run[r].slot
  <2>1. CASE uploaded
    <3>1. rec \in Record /\ rec = [run[r] EXCEPT !.at = "verify"] /\ rec.at = "verify"
          /\ rec.got # NoId /\ rec.slot = run[r].slot
      BY <1>2, StepsAre DEF Record, Steps
    <3>2. Set(r, rec)
      BY <2>1 DEF Attach
    <3>3. RunsTyped' /\ run'[r] = rec /\ \A q \in Run : q # r => run'[q] = run[q]
      BY <1>1, <3>1, <3>2, SetOne
    <3>4. /\ KeepsHold(r) /\ KeepsPast(r) /\ KeepsGot(r) /\ KeepsMirror(r)
          /\ KeepsImage(r) /\ KeepsTidy(r)
      BY <1>2, <3>1, <3>3, StepsAre
         DEF KeepsHold, KeepsPast, KeepsGot, KeepsMirror, KeepsImage, KeepsTidy,
             Early, EarlyImage, Sif, Steps, Record
    <3> HIDE DEF rec
    <3>5. \A q \in Run : /\ KeepsHold(q) /\ KeepsPast(q) /\ KeepsGot(q) /\ KeepsMirror(q)
                         /\ KeepsImage(q) /\ KeepsTidy(q)
      BY <1>1, <3>3, <3>4, Unmoved DEF Kept
    <3> QED  BY <3>1, <3>3, <3>5
  <2>2. CASE ~uploaded
    <3>1. Set(r, Failed(r, "tidyReleases"))
      BY <2>2 DEF Attach
    <3>2. run[r].at \in Step /\ run[r].at \in Sif
      BY <1>2, StepsAre DEF Steps, Sif
    <3>3. /\ RunsTyped' /\ run'[r] = Failed(r, "tidyReleases")
          /\ \A q \in Run : q # r => run'[q] = run[q]
          /\ \A q \in Run : Kept(q)
      BY <1>1, <3>1, <3>2, RedRuns
    <3>4. Failed(r, "tidyReleases").at = "tidyReleases"
      BY <1>1, <3>2, FailedRecord
    <3> QED  BY <3>3, <3>4 DEF Kept
  <2> QED  BY <2>1, <2>2
<1>5. ReleaseOf(r) \in [env : Env, day : 0 .. MaxDay] /\ ReleaseOf(r).env = EnvOf(r)
  BY <1>2, PipelineAssumption DEF ReleaseOf, Record
<1>6. TypeInv'
  BY <1>1, <1>3, <1>4, <1>5 DEF TypeInv, TypeOK, RunsTyped, Packed
<1>7. Mutex' /\ InputsInv' /\ GotInv'
  BY <1>1, <1>3, <1>4, MutexKept, InputsKept, GotKept
<1>8. ImagesInv'
  BY <1>1, <1>3, <1>4, <1>7, ImagesKept
<1>9. ReleasesInv'
  <2>1. GreenReleased'
    BY <1>1, <1>3 DEF ReleasesInv, GreenReleased
  <2>2. ASSUME NEW q \in Run, run'[q].at = "verify" PROVE \E x \in releases' : x.env = EnvOf(q)'
    <3>1. CASE q = r
      <4>1. EnvOf(q)' = EnvOf(r)
        BY <1>4, <2>2, <3>1 DEF EnvOf
      <4> QED  BY <1>3, <1>5, <4>1
    <3>2. CASE q # r
      <4>1. run[q].at = "verify" /\ EnvOf(q)' = EnvOf(q)
        BY <1>4, <2>2, <3>2 DEF EnvOf
      <4> QED  BY <1>1, <1>3, <4>1 DEF ReleasesInv, Attached, HasRelease
    <3> QED  BY <3>1, <3>2
  <2> QED  BY <2>1, <2>2 DEF ReleasesInv, Attached, HasRelease
<1> QED  BY <1>6, <1>7, <1>8, <1>9 DEF PipelineInv

LEMMA KeptFloatRelease ==
    ASSUME PipelineInv, NEW r \in Run, FloatRelease(r)
    PROVE  PipelineInv'
<1> DEFINE rec == [run[r] EXCEPT !.at = "tidyReleases", !.got = NoId]
<1>1. /\ TypeInv /\ TypeOK /\ RunsTyped /\ Mutex /\ InputsInv /\ ImagesInv /\ ReleasesInv
      /\ GotInv /\ GreenInv /\ OwnImage
      /\ Packed(images) /\ OneEnv(images)
  BY DEF PipelineInv, TypeInv, ImagesInv
<1>2. run[r] \in Record /\ run[r].at = "verify" /\ run[r].got # NoId /\ EnvOf(r) \in Env
  BY <1>1, RunFacts DEF FloatRelease, RunsTyped
<1>3. Holds(r)
  BY <1>2, StepsAre DEF Holds, Steps
<1>4. PICK id \in Id : id = run[r].got
  BY <1>2 DEF Record
<1>5. PICK e \in Env : e = EnvOf(r)
  BY <1>2
<1>6. PICK f \in Tag : f = Float(e, "release") /\ f.env = e /\ f.track = "release"
  BY <1>1, RunFacts
<1>7. PICK n \in Nat :
        /\ n = IF Stored(images, id) = {} THEN 0
               ELSE Cardinality(UNION {Newer(images, e, v) : v \in Stored(images, id)})
        /\ Below(Push(images, f, id), e, id, n)
  BY <1>1, <1>6, BelowFloat
<1>8. /\ images' = Push(images, f, id)
      /\ green' = [green EXCEPT ![e] = id] /\ since' = [since EXCEPT ![e] = n]
      /\ Set(r, rec)
      /\ inputs' = inputs /\ releases' = releases /\ today' = today
  BY <1>4, <1>5, <1>6, <1>7 DEF FloatRelease
<1>9. /\ Past(id, EarlyImage) /\ AllOf(images, id, e)
      /\ \A q \in Run : run[q].got = id => EnvOf(q) = e
  BY <1>1, <1>2, <1>4, <1>5 DEF GotInv
<1>10. /\ Packed(images') /\ OneEnv(images')
       /\ \A t, i : t # f /\ Names(images, t, i) => Names(images', t, i)
       /\ \A i, d : AllOf(images, i, d) /\ (i = id => e = d) => AllOf(images', i, d)
       /\ \A x \in images' : x.id = id \/ \E v \in images : v.id = x.id
  BY <1>1, <1>6, <1>8, <1>9, NamesPushed
<1>11. /\ RunsTyped' /\ \A q \in Run : Kept(q)
       /\ \A q \in Run : run'[q].at = "tidyImages" => q # r /\ run'[q] = run[q]
  <2>1. /\ rec \in Record /\ rec.at = "tidyReleases" /\ rec.got = NoId
        /\ rec = [run[r] EXCEPT !.at = "tidyReleases", !.got = NoId]
    BY <1>2, StepsAre DEF Record, Steps
  <2> HIDE DEF rec
  <2>2. RunsTyped' /\ run'[r] = rec /\ \A q \in Run : q # r => run'[q] = run[q]
    BY <1>1, <1>8, <2>1, SetOne
  <2>3. /\ rec.attempt = run[r].attempt /\ rec.slot = run[r].slot /\ rec.day = run[r].day
        /\ rec.wf = run[r].wf /\ rec.from = run[r].from /\ rec.mirror = run[r].mirror
        /\ rec.image = run[r].image
    BY <1>2, <2>1 DEF Record
  <2>4. Kept(r)
    BY <1>2, <2>1, <2>2, <2>3, StepsAre
       DEF Kept, KeepsHold, KeepsPast, KeepsGot, KeepsMirror, KeepsImage, KeepsTidy, KeepsVerify,
           Early, EarlyImage, Sif, Steps
  <2>5. \A q \in Run : Kept(q)
    BY <1>1, <2>2, <2>4, Unmoved
  <2> QED  BY <2>1, <2>2, <2>5
<1>12. \A q \in Run : /\ KeepsHold(q) /\ KeepsPast(q) /\ KeepsGot(q) /\ KeepsMirror(q)
                      /\ KeepsImage(q) /\ KeepsTidy(q) /\ KeepsVerify(q)
  BY <1>11 DEF Kept
<1>13. /\ green' \in [Env -> Id \cup {NoId}] /\ green'[e] = id
       /\ since' \in [Env -> Nat] /\ since'[e] = n
       /\ \A d \in Env : d # e => green'[d] = green[d] /\ since'[d] = since[d]
  BY <1>1, <1>8 DEF TypeOK
<1>14. TypeInv'
  BY <1>1, <1>8, <1>10, <1>11, <1>13 DEF TypeInv, TypeOK, RunsTyped, Packed
<1>15. Mutex' /\ InputsInv'
  BY <1>1, <1>8, <1>12, MutexKept, InputsKept
<1>16. GotInv'
  <2>1. ASSUME NEW q \in Run, run[q].got # NoId, AllOf(images, run[q].got, EnvOf(q))
        PROVE  AllOf(images', run[q].got, EnvOf(q))
    BY <1>9, <1>10, <2>1
  <2> QED  BY <1>1, <1>12, <2>1, GotKept
<1>17. \A x \in images' : Past(x.id, EarlyImage)'
  <2>1. \A i \in Id : Past(i, EarlyImage) => Past(i, EarlyImage)'
    BY <1>1, <1>12, PastKept
  <2>2. \A v \in images : v.id \in Id /\ Past(v.id, EarlyImage)
    BY <1>1, VersionIds DEF ImagesInv
  <2>3. ASSUME NEW x \in images' PROVE Past(x.id, EarlyImage)'
    <3>1. PICK i \in Id : i = x.id /\ Past(i, EarlyImage)
      BY <1>9, <1>10, <2>2
    <3>2. Past(i, EarlyImage)'
      BY <2>1, <3>1
    <3> QED  BY <3>1, <3>2 DEF Past
  <2> QED  BY <2>3
<1>18. OwnImage'
  <2>1. ASSUME NEW q \in Run
        PROVE  /\ Holds(q) /\ Alone(q) /\ Names(images, ImageTag(q), run[q].image)
               => Names(images', ImageTag(q), run[q].image)
    <3>1. ImageTag(q).track # "release"
      BY <1>1, RunFacts
    <3> QED  BY <1>6, <1>10, <3>1
  <2> QED  BY <1>1, <1>12, <2>1, OwnImageKept DEF OwnImage
<1>19. GreenInv'
  <2>1. ASSUME NEW d \in Env, green'[d] # NoId, Spared(d)'
        PROVE  Below(images', d, green'[d], since'[d])
    <3>1. CASE d = e
      BY <1>7, <1>8, <1>13, <3>1
    <3>2. CASE d # e
      <4>1. Spared(d) /\ green[d] # NoId /\ since[d] \in Nat
        BY <1>1, <1>13, <2>1, <3>2 DEF Spared, Unshared, TypeOK
      <4>2. Below(images, d, green[d], since[d])
        BY <1>1, <4>1 DEF GreenInv
      <4>3. f # Float(d, "release") /\ f.env # d
        BY <1>6, <3>2 DEF Float
      <4>4. Below(Push(images, f, id), d, green[d], since[d])
        BY <1>1, <4>1, <4>2, <4>3, BelowPush
      <4> QED  BY <1>8, <1>13, <3>2, <4>4
    <3> QED  BY <3>1, <3>2
  <2>2. ASSUME NEW q \in Run, run'[q].at = "tidyImages", EnvOf(q)' \in Fork, Unshared(EnvOf(q)'),
               green'[EnvOf(q)'] # NoId
        PROVE  since'[EnvOf(q)'] # 0
    <3>1. q # r /\ run[q].at = "tidyImages" /\ EnvOf(q)' = EnvOf(q)
      BY <1>11, <2>2 DEF EnvOf
    <3>2. EnvOf(q) \in Env /\ run[q].slot \in Slot /\ run[r].slot \in Slot
      BY <1>1, <1>2, RunFacts DEF RunsTyped, Record
    <3>3. Holds(q)
      BY <3>1, StepsAre DEF Holds, Steps
    <3>4. run[q].slot # run[r].slot
      BY <1>1, <1>3, <3>1, <3>3 DEF Mutex
    <3>5. Unshared(EnvOf(q))
      BY <2>2, <3>1
    <3>6. EnvOf(q) # e
      BY <1>5, <3>2, <3>4, <3>5 DEF Unshared, EnvOf
    <3> QED  BY <1>1, <1>13, <2>2, <3>1, <3>2, <3>6 DEF GreenInv
  <2> QED  BY <2>1, <2>2 DEF GreenInv, Unshared
<1>20. ImagesInv'
  BY <1>10, <1>16, <1>17, <1>18, <1>19 DEF ImagesInv
<1>21. ReleasesInv'
  <2>1. GreenReleased'
    <3>1. HasRelease(e)
      BY <1>1, <1>2, <1>5 DEF ReleasesInv, Attached
    <3> QED  BY <1>1, <1>8, <1>13, <3>1 DEF ReleasesInv, GreenReleased, HasRelease
  <2>2. ASSUME NEW q \in Run, run'[q].at = "verify" PROVE \E x \in releases' : x.env = EnvOf(q)'
    <3>1. run[q].at = "verify" /\ EnvOf(q)' = EnvOf(q)
      BY <1>12, <2>2 DEF KeepsVerify, EnvOf
    <3> QED  BY <1>1, <1>8, <3>1 DEF ReleasesInv, Attached, HasRelease
  <2> QED  BY <2>1, <2>2 DEF ReleasesInv, Attached, HasRelease
<1> QED  BY <1>14, <1>15, <1>20, <1>21 DEF PipelineInv

(* The release of the latest day has none after it, so no prune takes it.  *)
LEMMA ReleaseLeft ==
    ASSUME TypeInv, NEW e \in Env, NEW gone \in SUBSET OldReleases(e), NEW d \in Env, HasRelease(d)
    PROVE  \E x \in releases \ gone : x.env = d
<1>1. CASE d # e
  BY <1>1 DEF HasRelease, OldReleases
<1>2. CASE d = e
  <2> DEFINE T == {x \in releases : x.env = e}
             f == [x \in T |-> x.day]
  <2>1. releases \subseteq [env : Env, day : 0 .. MaxDay] /\ MaxDay \in Nat
    BY PipelineAssumption DEF TypeInv, TypeOK
  <2>2. f \in Injection(T, 0 .. MaxDay)
    BY <2>1 DEF Injection, IsInjective
  <2>3. f \in [T -> Int]
    BY <2>1
  <2>4. T # {}
    BY <1>2 DEF HasRelease
  <2>5. IsFiniteSet(0 .. MaxDay)
    BY <2>1, FS_Interval
  <2>6. \A x \in T : f[x] = x.day /\ x \in releases /\ x.env = e
    OBVIOUS
  <2>7. \A x \in releases : x.env = e => x \in T
    OBVIOUS
  <2> HIDE DEF T, f
  <2>8. IsFiniteSet(T)
    BY <2>2, <2>5, FS_Injection
  <2>9. PICK x \in T : \A y \in T : f[y] <= f[x]
    BY <2>3, <2>4, <2>8, Greatest
  <2>10. {y \in releases : y.env = e /\ y.day > x.day} = {}
    <3>1. \A y \in releases : y.env = e => y.day <= x.day /\ y.day \in Int /\ x.day \in Int
      BY <2>1, <2>6, <2>7, <2>9
    <3> QED  BY <3>1
  <2>11. Cardinality({y \in releases : y.env = e /\ y.day > x.day}) = 0
    BY <2>10, FS_EmptySet
  <2>12. ~(0 >= KeepReleases)
    BY PipelineAssumption
  <2>13. x \notin OldReleases(e)
    BY <2>11, <2>12 DEF OldReleases
  <2> QED  BY <1>2, <2>6, <2>9, <2>13
<1> QED  BY <1>1, <1>2

LEMMA KeptTidyReleases ==
    ASSUME PipelineInv, NEW r \in Run, NEW gone \in SUBSET releases, TidyReleases(r, gone)
    PROVE  PipelineInv'
<1> DEFINE rec == [run[r] EXCEPT !.at = "ended"]
<1>1. /\ TypeInv /\ TypeOK /\ RunsTyped /\ Mutex /\ InputsInv /\ ImagesInv /\ ReleasesInv
      /\ GotInv
  BY DEF PipelineInv, TypeInv, ImagesInv
<1>2. /\ run[r] \in Record /\ run[r].at = "tidyReleases" /\ run[r].got = NoId
      /\ EnvOf(r) \in Env
  BY <1>1, RunFacts DEF TidyReleases, RunsTyped
<1>3. /\ inputs' = inputs /\ images' = images /\ today' = today
      /\ green' = green /\ since' = since /\ releases' = releases \ gone
  BY DEF TidyReleases, packages, history
<1>4. /\ rec \in Record /\ rec.at = "ended" /\ rec.got = NoId
      /\ rec.attempt = run[r].attempt
  BY <1>2 DEF Record
<1>5. \A verdict \in {"green", "red"} :
        /\ Over(r, verdict) \in Record /\ Over(r, verdict).at = "ended"
        /\ Over(r, verdict).got = NoId /\ Over(r, verdict).attempt = run[r].attempt
  BY <1>1, OverRecord
<1>6. PICK new \in Record : /\ Set(r, new) /\ new.at = "ended" /\ new.got = NoId
                            /\ new.attempt = run[r].attempt
  <2>1. \/ Set(r, rec) \/ Set(r, Over(r, "green")) \/ Set(r, Over(r, "red"))
    BY DEF TidyReleases
  <2> HIDE DEF rec
  <2> QED  BY <1>4, <1>5, <2>1
<1>7. RunsTyped' /\ run'[r] = new /\ \A q \in Run : q # r => run'[q] = run[q]
  BY <1>1, <1>6, SetOne
<1>8. \A q \in Run : Kept(q)
  BY <1>1, <1>6, <1>7, Unmoved, Aside
<1>9. \A q \in Run : /\ KeepsHold(q) /\ KeepsPast(q) /\ KeepsGot(q) /\ KeepsMirror(q)
                     /\ KeepsImage(q) /\ KeepsTidy(q) /\ KeepsVerify(q)
  BY <1>8 DEF Kept
<1>10. TypeInv'
  BY <1>1, <1>3, <1>7 DEF TypeInv, TypeOK, RunsTyped, Packed
<1>11. Mutex' /\ InputsInv' /\ GotInv'
  BY <1>1, <1>3, <1>9, MutexKept, InputsKept, GotKept
<1>12. ImagesInv'
  BY <1>1, <1>3, <1>9, <1>11, ImagesKept
<1>13. ReleasesInv'
  <2>1. gone \in SUBSET OldReleases(EnvOf(r))
    BY DEF TidyReleases
  <2>2. ASSUME NEW d \in Env, HasRelease(d) PROVE \E x \in releases' : x.env = d
    BY <1>1, <1>2, <1>3, <2>1, <2>2, ReleaseLeft
  <2> QED  BY <1>1, <1>3, <1>9, <2>2, ReleasesKept DEF HasRelease
<1> QED  BY <1>10, <1>11, <1>12, <1>13 DEF PipelineInv

LEMMA InitPipeline == Init => PipelineInv
<1> SUFFICES ASSUME Init PROVE PipelineInv
  OBVIOUS
<1>1. /\ run = [r \in Run |-> Idle] /\ inputs = {} /\ images = {} /\ releases = {} /\ today = 1
      /\ green = [e \in Env |-> NoId] /\ since = [e \in Env |-> 0]
  BY DEF Init
<1>2. /\ Idle \in Record /\ Idle.at = "idle" /\ Idle.got = NoId
  BY IdleRecord DEF Idle
<1>3. \A r \in Run : run[r] = Idle
  BY <1>1
<1>4. \A r \in Run : run[r].at = "idle" /\ run[r].got = NoId /\ ~Holds(r)
  BY <1>2, <1>3, StepsAre DEF Holds, Steps
<1>5. RunsTyped
  <2> HIDE DEF Idle
  <2> QED  BY <1>1, <1>2, <1>4 DEF RunsTyped
<1>6. Packed({}) /\ 1 \in 1 .. MaxDay
  BY FS_EmptySet, PipelineAssumption DEF Packed
<1>7. TypeInv
  BY <1>1, <1>5, <1>6 DEF TypeInv, TypeOK, RunsTyped
<1>8. Mutex /\ InputsInv /\ GotInv
  BY <1>1, <1>4 DEF Mutex, InputsInv, GotInv, OneEnv, OwnMirror
<1>9. OwnImage /\ GreenInv
  BY <1>1, <1>4 DEF OwnImage, GreenInv, Sif
<1>10. ImagesInv /\ ReleasesInv
  BY <1>1, <1>4, <1>8, <1>9 DEF ImagesInv, ReleasesInv, OneEnv, GreenReleased, Attached
<1> QED  BY <1>7, <1>8, <1>10 DEF PipelineInv

LEMMA KeptFailure ==
    ASSUME PipelineInv, NEW r \in Run, Fail(r) \/ Refused(r)
    PROVE  PipelineInv'
<1>1. CASE Fail(r)
  <2> DEFINE at == IF run[r].at \in Sif THEN "tidyReleases" ELSE "ended"
  <2>1. Holds(r) /\ Red(r, at)
    BY <1>1 DEF Fail
  <2>2. at = "ended" \/ (at = "tidyReleases" /\ run[r].at \in Sif)
    OBVIOUS
  <2> HIDE DEF at
  <2> QED  BY <2>1, <2>2, KeptRed
<1>2. CASE run[r].at = "binaries" /\ Red(r, "ended")
  <2>1. Holds(r)
    BY <1>2, StepsAre DEF Holds, Steps
  <2> QED  BY <1>2, <2>1, KeptRed
<1>3. CASE run[r].at = "sif" /\ Red(r, "tidyReleases")
  <2>1. Holds(r) /\ run[r].at \in Sif
    BY <1>3, StepsAre DEF Holds, Steps, Sif
  <2> QED  BY <1>3, <2>1, KeptRed
<1> QED  BY <1>1, <1>2, <1>3 DEF Refused

LEMMA KeptAdvance ==
    ASSUME PipelineInv, NEW r \in Run, Advance(r)
    PROVE  PipelineInv'
<1>1. ASSUME NEW id \in Id, NEW floated \in BOOLEAN, PublishMirror(r, id, floated)
      PROVE  PipelineInv'
  BY <1>1, KeptPublishMirror
<1>2. ASSUME NEW gone \in SUBSET inputs, TidyMirrors(r, gone) PROVE PipelineInv'
  BY <1>2, KeptTidyMirrors
<1>3. ASSUME NEW floated \in BOOLEAN, PushImage(r, floated) PROVE PipelineInv'
  BY <1>3, KeptPushImage
<1>4. ASSUME NEW gone \in SUBSET images, TidyImages(r, gone) PROVE PipelineInv'
  BY <1>4, KeptTidyImages
<1>5. ASSUME NEW uploaded \in BOOLEAN, Attach(r, uploaded) PROVE PipelineInv'
  BY <1>5, KeptAttach
<1>6. ASSUME NEW gone \in SUBSET releases, TidyReleases(r, gone) PROVE PipelineInv'
  BY <1>6, KeptTidyReleases
<1>7. CASE Enter(r)
  BY <1>7, KeptEnter
<1>8. CASE Produce(r)
  BY <1>8, KeptProduce
<1>9. CASE PullImage(r)
  BY <1>9, KeptPullImage
<1>10. CASE FloatRelease(r)
  BY <1>10, KeptFloatRelease
<1>11. CASE Refused(r)
  BY <1>11, KeptFailure
<1> QED
  BY <1>1, <1>2, <1>3, <1>4, <1>5, <1>6, <1>7, <1>8, <1>9, <1>10, <1>11 DEF Advance

LEMMA KeptNext == PipelineInv /\ [Next]_vars => PipelineInv'
<1> SUFFICES ASSUME PipelineInv, [Next]_vars PROVE PipelineInv'
  OBVIOUS
<1>1. CASE UNCHANGED vars
  <2>1. RunsTyped
    BY DEF PipelineInv, TypeInv
  <2>2. run' = run /\ UNCHANGED <<packages, releases, today, history>>
    BY <1>1 DEF vars, packages, history
  <2>3. RunsTyped' /\ \A q \in Run : Kept(q)
    BY <2>1, <2>2, Unmoved DEF RunsTyped
  <2> QED  BY <2>2, <2>3, RunsOnly
<1>2. ASSUME NEW r \in Run, NEW wf \in Workflows, NEW s \in Slot, Dispatch(r, wf, s)
      PROVE  PipelineInv'
  BY <1>2, KeptDispatch
<1>3. ASSUME NEW r \in Run, Advance(r) PROVE PipelineInv'
  BY <1>3, KeptAdvance
<1>4. ASSUME NEW r \in Run, Fail(r) PROVE PipelineInv'
  BY <1>4, KeptFailure
<1>5. ASSUME NEW r \in Run, NEW from \in Job, Rerun(r, from) PROVE PipelineInv'
  BY <1>5, KeptRerun
<1>6. CASE NextDay
  BY <1>6, KeptNextDay
<1> QED  BY <1>1, <1>2, <1>3, <1>4, <1>5, <1>6 DEF Next

(* PipelineInv is an invariant of every pipeline, however many runs, slots *)
(* and days it has and whatever its budgets are.                           *)
THEOREM PipelineInvariant == PipelineSpec => []PipelineInv
<1>1. Init => PipelineInv
  BY InitPipeline
<1>2. PipelineInv /\ [Next]_vars => PipelineInv'
  BY KeptNext
<1> QED  BY <1>1, <1>2, PTL DEF PipelineSpec

(* Runs, versions, releases and their history keep their shapes: no step   *)
(* counts an attempt, a day or a version past its range.                   *)
THEOREM TypeCorrect == PipelineSpec => []TypeOK
<1>1. PipelineInv => TypeOK
  BY DEF PipelineInv, TypeInv
<1> QED  BY <1>1, PipelineInvariant, PTL

(* `binaries` restores by the dated tag the mirror that `prepare` of the   *)
(* same attempt published, whichever runs of other slots publish and prune *)
(* in between.                                                             *)
THEOREM OwnMirrorTheorem == PipelineSpec => []OwnMirror
<1>1. PipelineInv => OwnMirror
  BY DEF PipelineInv, InputsInv
<1> QED  BY <1>1, PipelineInvariant, PTL

(* `sif` pulls by the dated tag the image that `runtime` of the same       *)
(* attempt pushed, though every other slot may push to and prune the same  *)
(* package meanwhile.                                                      *)
THEOREM OwnImageTheorem == PipelineSpec => []OwnImage
<1>1. PipelineInv => OwnImage
  BY DEF PipelineInv, ImagesInv
<1> QED  BY <1>1, PipelineInvariant, PTL

(* -release names the last verified image while fewer newer ones were      *)
(* pushed than the prune keeps, for every number kept; of a fork with an   *)
(* environment to itself, while none was.                                  *)
THEOREM GreenInBudgetTheorem == PipelineSpec => []GreenInBudget
<1>1. PipelineInv => GreenInBudget
  <2> SUFFICES ASSUME PipelineInv, NEW e \in Env, green[e] # NoId, Spared(e)
               PROVE  \E v \in Named(images, Float(e, "release")) : v.id = green[e]
    BY DEF GreenInBudget, Spared
  <2>1. Below(images, e, green[e], since[e])
    BY DEF PipelineInv, ImagesInv, GreenInv
  <2> QED  BY <2>1 DEF Below
<1> QED  BY <1>1, PipelineInvariant, PTL

(* The prune of stable releases leaves every environment that has a        *)
(* verified image a release, for every number of releases kept.            *)
THEOREM GreenReleasedTheorem == PipelineSpec => []GreenReleased
<1>1. PipelineInv => GreenReleased
  BY DEF PipelineInv, ReleasesInv
<1> QED  BY <1>1, PipelineInvariant, PTL
====
