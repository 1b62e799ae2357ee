----------------------------- MODULE GatewayProofs -----------------------------
(***************************************************************************)
(* What the gateway does with a request, for all sets of documents, site     *)
(* configurations, addresses and requests, and whatever is swapped meanwhile. *)
(***************************************************************************)
EXTENDS Gateway, FiniteSetTheorems, SequenceTheorems, WellFoundedInduction, TLAPS

-----------------------------------------------------------------------------
(***************************************************************************)
(* Sequences                                                                *)
(***************************************************************************)

(* Every nonempty set of natural numbers has a least element; the arguments by    *)
(* induction below take the least counterexample.                                *)
LEMMA LeastNumber ==
    ASSUME NEW T \in SUBSET Nat, T # {}
    PROVE  \E m \in T : \A k \in T : m <= k
<1>1. OpToRel(<, Nat) = {ss \in Nat \X Nat : ss[1] < ss[2]}
    BY DEF OpToRel
<1>2. IsWellFoundedOn({ss \in Nat \X Nat : ss[1] < ss[2]}, Nat)
    BY <1>1, NatLessThanWellFounded
<1>3. PICK m \in T : \A k \in T : <<k, m>> \notin {ss \in Nat \X Nat : ss[1] < ss[2]}
    BY <1>2, WFMin
<1>4. \A k \in T : ~(k < m)
    BY <1>3
<1> QED
    BY <1>4

LEMMA MinIs ==
    ASSUME NEW T \in SUBSET Nat, T # {}
    PROVE  Min(T) \in T /\ \A k \in T : Min(T) <= k
BY LeastNumber DEF Min

LEMMA MaxIs ==
    ASSUME NEW n \in Nat, NEW T \in SUBSET (1..n), T # {}
    PROVE  Max(T) \in T /\ \A k \in T : k <= Max(T)
<1>1. \A i \in T : i \in Int /\ n - i \in Nat
    OBVIOUS
<1>2. PICK U : U = {n - i : i \in T}
    OBVIOUS
<1>3. U \in SUBSET Nat /\ U # {}
    BY <1>1, <1>2
<1>4. PICK m \in U : \A k \in U : m <= k
    BY <1>3, LeastNumber
<1>5. PICK i \in T : m = n - i
    BY <1>2, <1>4
<1>6. \A k \in T : n - i <= n - k
    BY <1>2, <1>4, <1>5
<1>7. \A k \in T : i >= k
    BY <1>1, <1>6
<1>8. Max(T) \in T /\ \A k \in T : Max(T) >= k
    BY <1>7 DEF Max
<1> QED
    BY <1>1, <1>8

(* FlattenSeq of sequences over S is a sequence over S: by induction its local     *)
(* function satisfies its equation, and by another one its values are sequences.  *)
Flattening(f, n, seqs) ==
    f = [i \in 1..n |-> IF i = 1 THEN seqs[i] ELSE f[i-1] \o seqs[i]]

LEMMA FlattenNext ==
    ASSUME NEW seqs, NEW n \in Nat, n > 1, NEW f, Flattening(f, n - 1, seqs)
    PROVE  \E g : Flattening(g, n, seqs)
<1>1. PICK g : g = [i \in 1..n |-> IF i = n THEN f[n-1] \o seqs[n] ELSE f[i]]
    OBVIOUS
<1>2. ASSUME NEW i \in 1..n
      PROVE  g[i] = IF i = 1 THEN seqs[i] ELSE g[i-1] \o seqs[i]
  <2>1. CASE i = n
    <3>1. n - 1 \in 1..n /\ n - 1 # n /\ n # 1 /\ n \in 1..n
        OBVIOUS
    <3>2. g[n-1] = f[n-1]
        BY <1>1, <3>1
    <3>3. g[n] = f[n-1] \o seqs[n]
        BY <1>1, <3>1
    <3> QED
        BY <2>1, <3>1, <3>2, <3>3
  <2>2. CASE i # n
    <3>1. i \in 1..(n - 1)
        BY <2>2
    <3>2. f[i] = IF i = 1 THEN seqs[i] ELSE f[i-1] \o seqs[i]
        BY <3>1 DEF Flattening
    <3>3. g[i] = f[i] /\ (i # 1 => g[i-1] = f[i-1])
        BY <1>1, <2>2, <3>1
    <3> QED
        BY <3>2, <3>3
  <2> QED
      BY <2>1, <2>2
<1>3. g = [i \in 1..n |-> IF i = 1 THEN seqs[i] ELSE g[i-1] \o seqs[i]]
    BY <1>1, <1>2
<1> QED
    BY <1>3 DEF Flattening

LEMMA FlattenExists ==
    ASSUME NEW seqs, NEW L \in Nat, L > 0
    PROVE  \E f : Flattening(f, L, seqs)
<1>1. PICK Bad : Bad = {n \in 1..L : ~ \E f : Flattening(f, n, seqs)}
    OBVIOUS
<1>2. ASSUME Bad # {} PROVE FALSE
  <2>1. Bad \in SUBSET Nat
      BY <1>1
  <2>2. PICK n \in Bad : \A k \in Bad : n <= k
      BY <1>2, <2>1, LeastNumber
  <2>3. n \in 1..L /\ n \in Nat /\ ~ \E f : Flattening(f, n, seqs)
      BY <1>1, <2>2
  <2>4. CASE n = 1
    <3>1. PICK f : f = [i \in 1..1 |-> seqs[i]]
        OBVIOUS
    <3>2. f = [i \in 1..1 |-> IF i = 1 THEN seqs[i] ELSE f[i-1] \o seqs[i]]
        BY <3>1
    <3> QED
        BY <2>3, <2>4, <3>2 DEF Flattening
  <2>5. CASE n # 1
    <3>1. n - 1 \in 1..L /\ n > 1 /\ ~(n <= n - 1)
        BY <2>3, <2>5
    <3>2. n - 1 \notin Bad
        BY <2>2, <3>1
    <3>3. \E f : Flattening(f, n - 1, seqs)
        BY <1>1, <3>1, <3>2
    <3> QED
        BY <2>3, <3>1, <3>3, FlattenNext
  <2> QED
      BY <2>4, <2>5
<1>3. L \in 1..L
    OBVIOUS
<1> QED
    BY <1>1, <1>2, <1>3

LEMMA FlattenType ==
    ASSUME NEW S, NEW seqs \in Seq(Seq(S))
    PROVE  FlattenSeq(seqs) \in Seq(S)
<1>1. CASE Len(seqs) = 0
  <2>1. seqs = <<>>
      BY <1>1
  <2> QED
      BY <1>1, <2>1 DEF FlattenSeq
<1>2. CASE Len(seqs) # 0
  <2>1. PICK L \in Nat : L = Len(seqs) /\ L > 0
      BY <1>2
  <2>2. \A n \in 1..L : seqs[n] \in Seq(S)
      BY <2>1
  <2>3. PICK f : f = CHOOSE g : Flattening(g, L, seqs)
      OBVIOUS
  <2>4. Flattening(f, L, seqs)
      BY <2>1, <2>3, FlattenExists
  <2>5. FlattenSeq(seqs) = f[L]
      BY <1>2, <2>1, <2>3 DEF FlattenSeq, Flattening
  <2>6. \A n \in 1..L : f[n] = IF n = 1 THEN seqs[n] ELSE f[n-1] \o seqs[n]
      BY <2>4 DEF Flattening
  <2>7. PICK Bad : Bad = {n \in 1..L : f[n] \notin Seq(S)}
      OBVIOUS
  <2>8. ASSUME Bad # {} PROVE FALSE
    <3>1. Bad \in SUBSET Nat
        BY <2>7
    <3>2. PICK n \in Bad : \A k \in Bad : n <= k
        BY <2>8, <3>1, LeastNumber
    <3>3. n \in 1..L /\ n \in Nat /\ f[n] \notin Seq(S)
        BY <2>7, <3>2
    <3>4. CASE n = 1
        BY <2>2, <2>6, <3>3, <3>4
    <3>5. CASE n # 1
      <4>1. n - 1 \in 1..L /\ ~(n <= n - 1)
          BY <3>3, <3>5
      <4>2. f[n-1] \in Seq(S)
          BY <2>7, <3>2, <4>1
      <4>3. f[n] = f[n-1] \o seqs[n] /\ seqs[n] \in Seq(S)
          BY <2>2, <2>6, <3>3, <3>5
      <4> QED
          BY <3>3, <4>2, <4>3
    <3> QED
        BY <3>4, <3>5
  <2>9. L \in 1..L
      BY <2>1
  <2> QED
      BY <2>5, <2>7, <2>8, <2>9
<1> QED
    BY <1>1, <1>2

-----------------------------------------------------------------------------
(***************************************************************************)
(* Counting                                                                 *)
(***************************************************************************)

LEMMA DivMod ==
    ASSUME NEW a \in Nat, NEW s \in Nat, s > 0
    PROVE  /\ (a \div s) \in Nat
           /\ (a % s) \in 0..(s - 1)
           /\ a = s * (a \div s) + (a % s)
<1>1. (a \div s) \in Nat
    OBVIOUS
<1>2. (a % s) \in 0..(s - 1)
    OBVIOUS
<1>3. a = s * (a \div s) + (a % s)
    OBVIOUS
<1> QED
    BY <1>1, <1>2, <1>3

(* The only multiple of s nearer to zero than s. *)
LEMMA NearMultiple ==
    ASSUME NEW s \in Nat, NEW x \in Int, -s < s * x, s * x < s
    PROVE  x = 0
<1>1. CASE x <= -1
  <2>1. s * x <= -s
      BY <1>1
  <2> QED
      BY <2>1
<1>2. CASE x >= 1
  <2>1. s * x >= s
      BY <1>2
  <2> QED
      BY <2>1
<1> QED
    BY <1>1, <1>2

(* A number has one remainder. *)
LEMMA Remainder ==
    ASSUME NEW s \in Nat, s > 0, NEW q \in Int, NEW r \in 0..(s - 1),
           NEW a \in Nat, a = s * q + r
    PROVE  a % s = r
<1>1. PICK p \in Nat, t \in 0..(s - 1) : t = a % s /\ a = s * p + t
  <2>1. /\ (a \div s) \in Nat /\ (a % s) \in 0..(s - 1)
        /\ a = s * (a \div s) + (a % s)
      BY DivMod
  <2> QED
      BY <2>1
<1>2. PICK x \in Int : x = q - p
    BY <1>1
<1>3. s * x = s * q - s * p
    BY <1>2
<1>4. s * x = t - r
    BY <1>1, <1>3
<1>5. x = 0
    BY <1>1, <1>4, NearMultiple
<1> QED
    BY <1>1, <1>4, <1>5

(* Of s consecutive numbers no two have the same remainder. *)
LEMMA OneRemainderEach ==
    ASSUME NEW s \in Nat, s > 0, NEW i \in Nat, NEW j \in Nat,
           i - j < s, j - i < s, i % s = j % s
    PROVE  i = j
<1>1. PICK p \in Nat, t \in 0..(s - 1) : i = s * p + t /\ t = i % s
    BY DivMod
<1>2. PICK q \in Nat, u \in 0..(s - 1) : j = s * q + u /\ u = j % s
    BY DivMod
<1>3. PICK x \in Int : x = p - q
    OBVIOUS
<1>4. s * x = s * p - s * q
    BY <1>3
<1>5. s * x = i - j
    BY <1>1, <1>2, <1>4
<1>6. x = 0
    BY <1>5, NearMultiple
<1> QED
    BY <1>5, <1>6

(* Counting on from m, one turn of s steps passes every place of 1..s once. *)
LEMMA OneTurn ==
    ASSUME NEW s \in Nat, s > 0, NEW m \in Nat, NEW P \in SUBSET (1..s)
    PROVE  Cardinality({j \in (m + 1)..(m + s) : (j % s) + 1 \in P}) = Cardinality(P)
<1>1. PICK D : D = {j \in (m + 1)..(m + s) : (j % s) + 1 \in P}
    OBVIOUS
<1>2. PICK f : f = [j \in D |-> (j % s) + 1]
    OBVIOUS
<1>3. f \in [D -> P]
    BY <1>1, <1>2
<1>4. ASSUME NEW i \in D, NEW j \in D, f[i] = f[j]
      PROVE  i = j
  <2>1. i \in Nat /\ j \in Nat /\ i - j < s /\ j - i < s
      BY <1>1
  <2>2. (i % s) \in 0..(s - 1) /\ (j % s) \in 0..(s - 1)
      BY <2>1, DivMod
  <2>3. i % s = j % s
      BY <1>2, <1>4, <2>2
  <2> QED
      BY <2>1, <2>3, OneRemainderEach
<1>5. ASSUME NEW p \in P
      PROVE  \E j \in D : f[j] = p
  <2>1. PICK r \in 0..(s - 1) : r = p - 1
      OBVIOUS
  <2>2. PICK q \in Nat, t \in 0..(s - 1) : m = s * q + t
      BY DivMod
  <2>3. PICK j \in (m + 1)..(m + s), x \in Nat : j = s * x + r
    <3>1. CASE r > t
      <4>1. m + (r - t) \in (m + 1)..(m + s) /\ m + (r - t) = s * q + r
          BY <2>2, <3>1
      <4> QED
          BY <4>1
    <3>2. CASE r <= t
      <4>1. s * (q + 1) = s * q + s /\ q + 1 \in Nat
          OBVIOUS
      <4>2. m + s + (r - t) \in (m + 1)..(m + s) /\ m + s + (r - t) = s * (q + 1) + r
          BY <2>2, <3>2, <4>1
      <4> QED
          BY <4>1, <4>2
    <3> QED
        BY <3>1, <3>2
  <2>4. j \in Nat /\ j % s = r
      BY <2>3, Remainder
  <2>5. j \in D /\ f[j] = p
      BY <1>1, <1>2, <2>1, <2>3, <2>4
  <2> QED
      BY <2>5
<1>6. f \in Bijection(D, P)
    BY <1>3, <1>4, <1>5 DEF Bijection, Injection, Surjection, IsInjective
<1>7. IsFiniteSet(D)
  <2>1. IsFiniteSet((m + 1)..(m + s)) /\ D \in SUBSET ((m + 1)..(m + s))
      BY <1>1, FS_Interval
  <2> QED
      BY <2>1, FS_Subset
<1> QED
    BY <1>1, <1>6, <1>7, FS_Bijection DEF ExistsBijection

-----------------------------------------------------------------------------
(***************************************************************************)
(* Pools and routes                                                         *)
(***************************************************************************)

(* PoolIndex answers with a pool of that id. *)
LEMMA PoolFound ==
    ASSUME NEW lb, NEW S, lb.pools \in Seq(S), NEW id, PoolIndex(lb, id) # 0
    PROVE  /\ PoolIndex(lb, id) \in DOMAIN lb.pools
           /\ lb.pools[PoolIndex(lb, id)].id = id
<1>1. PICK I : I = {i \in 1..Len(lb.pools) : lb.pools[i].id = id}
    OBVIOUS
<1>2. PoolIndex(lb, id) = IF I # {} THEN Max(I) ELSE 0
    BY <1>1 DEF PoolIndex, SelectLastInSeq
<1>3. Len(lb.pools) \in Nat /\ DOMAIN lb.pools = 1..Len(lb.pools)
    OBVIOUS
<1>4. I \in SUBSET (1..Len(lb.pools)) /\ I # {}
    BY <1>1, <1>2
<1>5. Max(I) \in I
    BY <1>3, <1>4, MaxIs
<1> QED
    BY <1>1, <1>2, <1>3, <1>4, <1>5

(* A pool that is there is found. *)
LEMMA PoolPresent ==
    ASSUME NEW doc, NEW S, doc.lb.pools \in Seq(S), NEW id \in PoolIds(doc)
    PROVE  PoolIndex(doc.lb, id) \in DOMAIN doc.lb.pools
<1>1. PICK I : I = {i \in 1..Len(doc.lb.pools) : doc.lb.pools[i].id = id}
    OBVIOUS
<1>2. PoolIndex(doc.lb, id) = IF I # {} THEN Max(I) ELSE 0
    BY <1>1 DEF PoolIndex, SelectLastInSeq
<1>3. Len(doc.lb.pools) \in Nat /\ DOMAIN doc.lb.pools = 1..Len(doc.lb.pools)
    OBVIOUS
<1>4. I # {} /\ I \in SUBSET (1..Len(doc.lb.pools))
    BY <1>1, <1>3 DEF PoolIds, UsedIDs
<1>5. Max(I) \in I
    BY <1>3, <1>4, MaxIs
<1> QED
    BY <1>1, <1>2, <1>3, <1>4, <1>5

(* The weight of a node is at least one place in the ring and at most the limit. *)
LEMMA WeightType ==
    ASSUME NEW w \in Int
    PROVE  /\ normalizeNodeWeight(w) \in Nat /\ normalizeNodeWeight(w) >= 1
           /\ normalizeNodeWeight(w) <= MaxNodeWeight
<1>1. MaxNodeWeight \in Nat /\ MaxNodeWeight >= 1
    BY RoutingAssumption
<1>2. CASE w <= 0
    BY <1>1, <1>2 DEF normalizeNodeWeight
<1>3. CASE ~(w <= 0)
  <2>1. w \in Nat /\ w >= 1
      BY <1>3
  <2>2. {w, MaxNodeWeight} \in SUBSET Nat /\ {w, MaxNodeWeight} # {}
      BY <1>1, <2>1
  <2>3. Min({w, MaxNodeWeight}) \in {w, MaxNodeWeight}
      BY <2>2, MinIs
  <2>4. Min({w, MaxNodeWeight}) <= MaxNodeWeight
      BY <2>2, MinIs
  <2> QED
      BY <1>1, <1>3, <2>1, <2>3, <2>4 DEF normalizeNodeWeight
<1> QED
    BY <1>2, <1>3

(* Every place of the ring holds an enabled node. *)
LEMMA RingType ==
    ASSUME NEW pool, NEW S, pool.nodes \in Seq(S),
           \A i \in DOMAIN pool.nodes : pool.nodes[i].weight \in Int
    PROVE  Ring(pool) \in Seq(EnabledNodes(pool))
<1>1. PICK places : places = [i \in DOMAIN pool.nodes |->
                                IF i \in EnabledNodes(pool)
                                THEN normalizeNodeWeight(pool.nodes[i].weight) ELSE 0]
    OBVIOUS
<1>2. PICK seqs : seqs = [i \in DOMAIN pool.nodes |-> [k \in 1..places[i] |-> i]]
    OBVIOUS
<1>3. seqs = [i \in DOMAIN pool.nodes |->
                [k \in 1..(IF i \in EnabledNodes(pool)
                           THEN normalizeNodeWeight(pool.nodes[i].weight) ELSE 0) |-> i]]
    BY <1>1, <1>2
<1>4. Ring(pool) = FlattenSeq(seqs)
    BY <1>3 DEF Ring
<1>5. ASSUME NEW i \in DOMAIN pool.nodes
      PROVE  seqs[i] \in Seq(EnabledNodes(pool))
  <2>1. seqs[i] = [k \in 1..places[i] |-> i]
      BY <1>2
  <2>2. CASE i \in EnabledNodes(pool)
    <3>1. places[i] \in Nat
        BY <1>1, <2>2, WeightType
    <3> QED
        BY <2>1, <2>2, <3>1
  <2>3. CASE i \notin EnabledNodes(pool)
    <3>1. places[i] = 0
        BY <1>1, <2>3
    <3>2. seqs[i] = <<>>
        BY <2>1, <3>1
    <3> QED
        BY <3>2
  <2> QED
      BY <2>2, <2>3
<1>6. DOMAIN pool.nodes = 1..Len(pool.nodes) /\ Len(pool.nodes) \in Nat
    OBVIOUS
<1>7. PICK T : T = Seq(EnabledNodes(pool))
    OBVIOUS
<1>8. PICK L \in Nat : L = Len(pool.nodes) /\ DOMAIN pool.nodes = 1..L
    BY <1>6
<1>9. seqs \in [1..L -> T]
    BY <1>2, <1>5, <1>7, <1>8
<1>10. seqs \in Seq(T)
    BY <1>8, <1>9, SeqDef
<1> QED
    BY <1>4, <1>7, <1>10, FlattenType

(* A usable pool of a compiled document picks an upstream of an enabled node,     *)
(* whatever the counter is.                                                      *)
LEMMA PickIsEnabled ==
    ASSUME NEW doc, Compiled(doc), NEW id, Usable(doc.lb, id), NEW next \in Nat,
           NEW pool, pool = doc.lb.pools[PoolIndex(doc.lb, id)]
    PROVE  /\ PickTarget(doc.lb, id, next) \in {pool.nodes[i].upstream : i \in EnabledNodes(pool)}
           /\ PickTarget(doc.lb, id, next) \in Upstreams
           /\ id \in PoolIds(doc)
<1>1. PICK Node : Node = [upstream : Upstreams \cup {None}, weight : Int, enabled : BOOLEAN]
    OBVIOUS
<1>2. doc.lb.pools \in Seq([id : PoolIds(doc), nodes : Seq(Node)])
    BY <1>1 DEF Compiled, PoolIds
<1>3. /\ PoolIndex(doc.lb, id) \in DOMAIN doc.lb.pools
      /\ doc.lb.pools[PoolIndex(doc.lb, id)].id = id
    BY <1>2, PoolFound DEF Usable
<1>4. pool \in [id : PoolIds(doc), nodes : Seq(Node)]
  <2>1. PICK Pool : Pool = [id : PoolIds(doc), nodes : Seq(Node)]
      OBVIOUS
  <2>2. doc.lb.pools \in Seq(Pool)
      BY <1>2, <2>1
  <2>3. doc.lb.pools[PoolIndex(doc.lb, id)] \in Pool
      BY <1>3, <2>2
  <2> QED
      BY <2>1, <2>3
<1>5. pool.nodes \in Seq(Node)
    BY <1>4
<1>6. \A i \in DOMAIN pool.nodes : pool.nodes[i] \in Node
    BY <1>5
<1>7. \A i \in DOMAIN pool.nodes :
         pool.nodes[i].weight \in Int /\ pool.nodes[i].upstream \in Upstreams \cup {None}
    BY <1>1, <1>6
<1>8. PICK ring : ring = Ring(pool)
    OBVIOUS
<1>9. ring \in Seq(EnabledNodes(pool))
    BY <1>5, <1>7, <1>8, RingType
<1>10. ring # <<>>
    BY <1>8 DEF Usable
<1>11. Len(ring) \in Nat /\ Len(ring) > 0
    BY <1>9, <1>10
<1>12. (next % Len(ring)) \in 0..(Len(ring) - 1)
    BY <1>11
<1>13. (next % Len(ring)) + 1 \in 1..Len(ring)
    BY <1>11, <1>12
<1>14. PICK i : i = ring[(next % Len(ring)) + 1]
    OBVIOUS
<1>15. i \in EnabledNodes(pool)
    BY <1>9, <1>13, <1>14
<1>16. PickTarget(doc.lb, id, next) = pool.nodes[i].upstream
    BY <1>8, <1>14 DEF PickTarget
<1>17. i \in DOMAIN pool.nodes
    BY <1>15 DEF EnabledNodes
<1>18. pool.nodes[i].upstream # None
    BY <1>3, <1>15 DEF Compiled, Compiles
<1>19. id \in PoolIds(doc)
    BY <1>3 DEF PoolIds, UsedIDs
<1> QED
    BY <1>7, <1>15, <1>16, <1>17, <1>18, <1>19

(* resolvePoolTarget answers with a pool that has a node to pick, or not at all. *)
LEMMA ResolvedIsUsable ==
    ASSUME NEW lb, NEW rule, ResolvePool(lb, rule) # None
    PROVE  Usable(lb, ResolvePool(lb, rule))
BY DEF ResolvePool

(* Where ResolveRoute may send a host: nowhere, to a usable pool, or to the        *)
(* upstream of a legacy rule, which is never missing in a compiled document.      *)
LEMMA RouteAnswers ==
    ASSUME NEW doc, Compiled(doc), NEW host, NEW route, route = ResolveRoute(doc, host)
    PROVE  \/ route = NoRoute
           \/ route.pool # None /\ Usable(doc.lb, route.pool)
           \/ route.pool = None /\ route.target # None
<1>1. PICK lb : lb = doc.lb
    OBVIOUS
<1>2. PICK exact, wild : exact = ExactRoute(lb, host) /\ wild = WildcardRoute(lb, host)
    OBVIOUS
<1>3. CASE \/ exact # 0 /\ ResolvePool(lb, lb.routes[exact]) # None
           \/ wild # 0
           \/ Usable(lb, lb.default)
  <2>1. wild # 0 => ResolvePool(lb, lb.routes[wild]) # None
    <3>1. PICK W : W = {i \in 1..Len(lb.routes) :
                          /\ lb.routes[i].domain \in Wildcards
                          /\ host \in Matches[lb.routes[i].domain]
                          /\ ResolvePool(lb, lb.routes[i]) # None}
        OBVIOUS
    <3>2. W \in SUBSET Nat
        BY <3>1
    <3>3. W # {} => Min(W) \in W
        BY <3>2, MinIs
    <3>4. wild = IF W # {} THEN Min(W) ELSE 0
        BY <1>2, <3>1 DEF WildcardRoute, SelectInSeq
    <3> QED
        BY <3>1, <3>3, <3>4
  <2>2. \/ \E i : /\ ResolvePool(lb, lb.routes[i]) # None
                  /\ route = [pool |-> ResolvePool(lb, lb.routes[i]), target |-> None,
                              force |-> lb.routes[i].force]
        \/ Usable(lb, lb.default) /\ route = [NoRoute EXCEPT !.pool = lb.default]
      BY <1>1, <1>2, <1>3, <2>1 DEF ResolveRoute
  <2>3. ASSUME NEW i, ResolvePool(lb, lb.routes[i]) # None
        PROVE  Usable(lb, ResolvePool(lb, lb.routes[i]))
      BY <2>3, ResolvedIsUsable
  <2>4. Usable(lb, lb.default) => lb.default # None
      BY DEF Usable
  <2> QED
      BY <1>1, <2>2, <2>3, <2>4 DEF NoRoute
<1>4. CASE ~(\/ exact # 0 /\ ResolvePool(lb, lb.routes[exact]) # None
             \/ wild # 0
             \/ Usable(lb, lb.default))
  <2>1. route = LegacyRoute(doc, host)
      BY <1>1, <1>2, <1>4 DEF ResolveRoute
  <2>2. PICK legacy : legacy = doc.legacy.domains
      OBVIOUS
  <2>3. PICK Rule : Rule = [domain : Domains, upstream : Upstreams, force : BOOLEAN]
      OBVIOUS
  <2>4. legacy \in Seq(Rule)
      BY <2>2, <2>3 DEF Compiled, Compiles
  <2>5. Len(legacy) \in Nat /\ DOMAIN legacy = 1..Len(legacy)
      BY <2>4
  <2>6. PICK E : E = {i \in 1..Len(legacy) :
                        /\ ~hasLoadBalancerRuleForDomain(doc.lb, legacy[i].domain)
                        /\ legacy[i].domain = host}
      OBVIOUS
  <2>7. PICK W : W = {i \in 1..Len(legacy) :
                        /\ ~hasLoadBalancerRuleForDomain(doc.lb, legacy[i].domain)
                        /\ legacy[i].domain \in Wildcards
                        /\ host \in Matches[legacy[i].domain]}
      OBVIOUS
  <2>8. \A i \in 1..Len(legacy) : legacy[i].upstream # None
    <3>1. \A i \in 1..Len(legacy) : legacy[i] \in Rule
        BY <2>4, <2>5
    <3> QED
        BY <2>3, <3>1, RoutingAssumption
  <2>9. CASE E # {}
    <3>1. E \in SUBSET (1..Len(legacy))
        BY <2>6
    <3>2. Max(E) \in E
        BY <2>5, <2>9, <3>1, MaxIs
    <3>3. Max(E) \in 1..Len(legacy) /\ Max(E) # 0
        BY <2>6, <3>2
    <3>4. route = [pool |-> None, target |-> legacy[Max(E)].upstream,
                   force |-> legacy[Max(E)].force]
        BY <2>1, <2>2, <2>6, <2>9, <3>3 DEF LegacyRoute, SelectLastInSeq
    <3> QED
        BY <2>8, <3>3, <3>4
  <2>10. CASE E = {} /\ W # {}
    <3>1. W \in SUBSET Nat
        BY <2>7
    <3>2. Min(W) \in W
        BY <2>10, <3>1, MinIs
    <3>3. Min(W) \in 1..Len(legacy) /\ Min(W) # 0
        BY <2>7, <3>2
    <3>4. route = [pool |-> None, target |-> legacy[Min(W)].upstream,
                   force |-> legacy[Min(W)].force]
        BY <2>1, <2>2, <2>6, <2>7, <2>10, <3>3 DEF LegacyRoute, SelectLastInSeq, SelectInSeq
    <3> QED
        BY <2>8, <3>3, <3>4
  <2>11. CASE E = {} /\ W = {}
    <3>1. \/ route = NoRoute
          \/ route = [NoRoute EXCEPT !.target = doc.legacy.default] /\ doc.legacy.default # None
        BY <2>1, <2>2, <2>6, <2>7, <2>11 DEF LegacyRoute, SelectLastInSeq, SelectInSeq
    <3> QED
        BY <3>1 DEF NoRoute
  <2> QED
      BY <2>9, <2>10, <2>11
<1> QED
    BY <1>3, <1>4

-----------------------------------------------------------------------------
(***************************************************************************)
(* The ring of a pool                                                       *)
(***************************************************************************)

(* c numbers the places that each of n nodes has in a ring of length L: every      *)
(* number up to its weight comes once.                                            *)
Numbering(c, ring, L, n, places) ==
    /\ \A p \in 1..L : ring[p] \in 1..n /\ c[p] \in 1..places[ring[p]]
    /\ \A p, q \in 1..L : ring[p] = ring[q] /\ c[p] = c[q] => p = q
    /\ \A i \in 1..n : \A k \in 1..places[i] : \E p \in 1..L : ring[p] = i /\ c[p] = k

Numbered(ring, n, places) == ring \in Seq(Nat) /\ \E c : Numbering(c, ring, Len(ring), n, places)

(* more continues ring, of length L, with w places of node n. *)
Continues(more, ring, L, w, n) ==
    /\ \A p \in 1..L : more[p] = ring[p]
    /\ \A p \in (L + 1)..(L + w) : more[p] = n

LEMMA NumberNext ==
    ASSUME NEW n \in Nat, n > 0, NEW places, NEW w \in Nat, w = places[n],
           NEW L \in Nat, NEW ring, NEW c, Numbering(c, ring, L, n - 1, places),
           NEW more, Continues(more, ring, L, w, n)
    PROVE  \E d : Numbering(d, more, L + w, n, places)
<1>1. PICK d : d = [p \in 1..(L + w) |-> IF p <= L THEN c[p] ELSE p - L]
    OBVIOUS
<1>2. ASSUME NEW p \in 1..L
      PROVE  /\ more[p] = ring[p] /\ more[p] \in 1..(n - 1)
             /\ d[p] = c[p] /\ d[p] \in 1..places[more[p]]
  <2>1. p \in 1..(L + w) /\ p <= L
      OBVIOUS
  <2>2. more[p] = ring[p] /\ d[p] = c[p]
      BY <1>1, <2>1 DEF Continues
  <2> QED
      BY <2>2 DEF Numbering
<1>3. ASSUME NEW p \in (L + 1)..(L + w)
      PROVE  more[p] = n /\ d[p] = p - L /\ d[p] \in 1..places[more[p]]
  <2>1. p \in 1..(L + w) /\ ~(p <= L) /\ p - L \in 1..w
      OBVIOUS
  <2>2. more[p] = n /\ d[p] = p - L
      BY <1>1, <2>1 DEF Continues
  <2> QED
      BY <2>1, <2>2
<1>4. \A p \in 1..(L + w) : p \in 1..L \/ p \in (L + 1)..(L + w)
    OBVIOUS
<1>5. ASSUME NEW p \in 1..(L + w)
      PROVE  more[p] \in 1..n /\ d[p] \in 1..places[more[p]]
  <2>1. CASE p \in 1..L
    <3>1. more[p] \in 1..(n - 1) /\ d[p] \in 1..places[more[p]]
        BY <1>2, <2>1
    <3> QED
        BY <3>1
  <2>2. CASE p \in (L + 1)..(L + w)
    <3>1. more[p] = n /\ d[p] \in 1..places[more[p]]
        BY <1>3, <2>2
    <3> QED
        BY <3>1
  <2> QED
      BY <1>4, <2>1, <2>2
<1>6. ASSUME NEW p \in 1..(L + w), NEW q \in 1..(L + w), more[p] = more[q], d[p] = d[q]
      PROVE  p = q
  <2>1. CASE p \in 1..L /\ q \in 1..L
    <3>1. ring[p] = ring[q] /\ c[p] = c[q]
        BY <1>2, <1>6, <2>1
    <3> QED
        BY <2>1, <3>1 DEF Numbering
  <2>2. CASE p \in (L + 1)..(L + w) /\ q \in (L + 1)..(L + w)
    <3>1. p - L = q - L
        BY <1>3, <1>6, <2>2
    <3> QED
        BY <3>1
  <2>3. CASE p \in 1..L /\ q \in (L + 1)..(L + w)
    <3>1. more[p] \in 1..(n - 1) /\ more[q] = n
        BY <1>2, <1>3, <2>3
    <3> QED
        BY <1>6, <3>1
  <2>4. CASE p \in (L + 1)..(L + w) /\ q \in 1..L
    <3>1. more[q] \in 1..(n - 1) /\ more[p] = n
        BY <1>2, <1>3, <2>4
    <3> QED
        BY <1>6, <3>1
  <2> QED
      BY <1>4, <2>1, <2>2, <2>3, <2>4
<1>7. ASSUME NEW i \in 1..n, NEW k \in 1..places[i]
      PROVE  \E p \in 1..(L + w) : more[p] = i /\ d[p] = k
  <2>1. CASE i = n
    <3>1. L + k \in (L + 1)..(L + w) /\ L + k \in 1..(L + w) /\ (L + k) - L = k
        BY <2>1
    <3>2. more[L + k] = n /\ d[L + k] = (L + k) - L
        BY <1>3, <3>1
    <3> QED
        BY <2>1, <3>1, <3>2
  <2>2. CASE i # n
    <3>1. i \in 1..(n - 1)
        BY <2>2
    <3>2. PICK p \in 1..L : ring[p] = i /\ c[p] = k
        BY <3>1 DEF Numbering
    <3>3. p \in 1..(L + w) /\ more[p] = i /\ d[p] = k
        BY <1>2, <3>2
    <3> QED
        BY <3>3
  <2> QED
      BY <2>1, <2>2
<1> QED
    BY <1>5, <1>6, <1>7 DEF Numbering

(* Appending the places of node n to those of the nodes before it. *)
LEMMA AppendPlaces ==
    ASSUME NEW n \in Nat, n > 0, NEW places, places[n] \in Nat,
           NEW ring, Numbered(ring, n - 1, places),
           NEW last, last = [k \in 1..places[n] |-> n]
    PROVE  Numbered(ring \o last, n, places)
<1>1. PICK w \in Nat : w = places[n]
    OBVIOUS
<1>2. ring \in Seq(Nat) /\ Len(ring) \in Nat
    BY DEF Numbered
<1>3. last \in Seq(Nat) /\ Len(last) = w /\ \A k \in 1..w : last[k] = n
    BY <1>1
<1>4. PICK more : more = ring \o last
    OBVIOUS
<1>5. more \in Seq(Nat) /\ Len(more) = Len(ring) + w
    BY <1>2, <1>3, <1>4
<1>6. Continues(more, ring, Len(ring), w, n)
  <2>1. \A p \in 1..Len(ring) : more[p] = ring[p]
      BY <1>2, <1>3, <1>4
  <2>2. ASSUME NEW p \in (Len(ring) + 1)..(Len(ring) + w)
        PROVE  more[p] = n
    <3>1. p - Len(ring) \in 1..w /\ p \in 1..(Len(ring) + w) /\ p > Len(ring)
        BY <1>2
    <3>2. more[p] = last[p - Len(ring)]
        BY <1>2, <1>3, <1>4, <3>1
    <3> QED
        BY <1>3, <3>1, <3>2
  <2> QED
      BY <2>1, <2>2 DEF Continues
<1>7. PICK c : Numbering(c, ring, Len(ring), n - 1, places)
    BY DEF Numbered
<1>8. \E d : Numbering(d, more, Len(ring) + w, n, places)
    BY <1>1, <1>2, <1>6, <1>7, NumberNext
<1> QED
    BY <1>4, <1>5, <1>8 DEF Numbered

(* The sequences that Ring concatenates. *)
NodePlaces(n, places) == [i \in 1..n |-> [k \in 1..places[i] |-> i]]

LEMMA NodePlacesType ==
    ASSUME NEW n \in Nat, NEW places, \A i \in 1..n : places[i] \in Nat
    PROVE  NodePlaces(n, places) \in Seq(Seq(Nat)) /\ Len(NodePlaces(n, places)) = n
<1>1. PICK seqs : seqs = NodePlaces(n, places)
    OBVIOUS
<1>2. ASSUME NEW i \in 1..n PROVE seqs[i] \in Seq(Nat)
  <2>1. seqs[i] = [k \in 1..places[i] |-> i] /\ places[i] \in Nat /\ i \in Nat
      BY <1>1 DEF NodePlaces
  <2> QED
      BY <2>1
<1>3. PICK T : T = Seq(Nat)
    OBVIOUS
<1>4. seqs \in [1..n -> T]
    BY <1>1, <1>2, <1>3 DEF NodePlaces
<1>5. seqs \in Seq(T)
    BY <1>4, SeqDef
<1> QED
    BY <1>1, <1>3, <1>4, <1>5

(* FlattenSeq gives every node the places it is due. *)
LEMMA FlattenNumbered ==
    ASSUME NEW n \in Nat, NEW places, \A i \in 1..n : places[i] \in Nat
    PROVE  Numbered(FlattenSeq(NodePlaces(n, places)), n, places)
<1>1. PICK seqs : seqs = NodePlaces(n, places)
    OBVIOUS
<1>2. Len(seqs) = n /\ seqs \in Seq(Seq(Nat))
    BY <1>1, NodePlacesType
<1>3. \A i \in 1..n : seqs[i] = [k \in 1..places[i] |-> i]
    BY <1>1 DEF NodePlaces
<1>4. Numbered(<<>>, 0, places)
  <2>1. Numbering(<<>>, <<>>, 0, 0, places)
      BY DEF Numbering
  <2>2. <<>> \in Seq(Nat) /\ Len(<<>>) = 0
      OBVIOUS
  <2> QED
      BY <2>1, <2>2 DEF Numbered
<1>5. CASE n = 0
  <2>1. FlattenSeq(seqs) = <<>>
      BY <1>2, <1>5 DEF FlattenSeq
  <2> QED
      BY <1>1, <1>4, <1>5, <2>1
<1>6. CASE n > 0
  <2>1. PICK f : f = CHOOSE g : Flattening(g, n, seqs)
      OBVIOUS
  <2>2. Flattening(f, n, seqs)
      BY <1>6, <2>1, FlattenExists
  <2>3. FlattenSeq(seqs) = f[n]
    <3>1. PICK L : L = Len(seqs)
        OBVIOUS
    <3>2. FlattenSeq(seqs) = (CHOOSE g : Flattening(g, L, seqs))[L]
        BY <1>2, <1>6, <3>1 DEF FlattenSeq, Flattening
    <3> QED
        BY <1>2, <2>1, <3>1, <3>2
  <2>4. \A i \in 1..n : f[i] = IF i = 1 THEN seqs[i] ELSE f[i-1] \o seqs[i]
      BY <2>2 DEF Flattening
  <2>5. PICK Bad : Bad = {i \in 1..n : ~Numbered(f[i], i, places)}
      OBVIOUS
  <2>6. ASSUME Bad # {} PROVE FALSE
    <3>1. Bad \in SUBSET Nat
        BY <2>5
    <3>2. PICK i \in Bad : \A k \in Bad : i <= k
        BY <2>6, <3>1, LeastNumber
    <3>3. i \in 1..n /\ i \in Nat /\ i > 0 /\ places[i] \in Nat
        BY <2>5, <3>2
    <3>4. PICK before : Numbered(before, i - 1, places) /\ f[i] = before \o seqs[i]
      <4>1. CASE i = 1
        <5>1. f[i] = seqs[i] /\ seqs[i] \in Seq(Nat)
            BY <1>2, <2>4, <3>3, <4>1
        <5>2. f[i] = <<>> \o seqs[i] /\ i - 1 = 0
            BY <4>1, <5>1
        <5> QED
            BY <1>4, <5>2
      <4>2. CASE i # 1
        <5>1. i - 1 \in 1..n /\ ~(i <= i - 1)
            BY <3>3, <4>2
        <5>2. Numbered(f[i-1], i - 1, places)
            BY <2>5, <3>2, <5>1
        <5>3. f[i] = f[i-1] \o seqs[i]
            BY <2>4, <3>3, <4>2
        <5> QED
            BY <5>2, <5>3
      <4> QED
          BY <4>1, <4>2
    <3>5. seqs[i] = [k \in 1..places[i] |-> i]
        BY <1>3, <3>3
    <3>6. Numbered(f[i], i, places)
        BY <3>3, <3>4, <3>5, AppendPlaces
    <3> QED
        BY <2>5, <3>2, <3>6
  <2>7. n \in 1..n
      BY <1>6
  <2> QED
      BY <1>1, <2>3, <2>5, <2>6, <2>7
<1> QED
    BY <1>5, <1>6

(* The places of the ring that hold an upstream. *)
PlacesOf(pool, upstream) == {p \in 1..Len(Ring(pool)) : pool.nodes[Ring(pool)[p]].upstream = upstream}

(* compileLoadBalancerPool gives each upstream as many places of the ring as the    *)
(* clamped weights of its enabled nodes come to, for any list of nodes.            *)
THEOREM RingHoldsShares ==
    ASSUME NEW pool, NEW S, pool.nodes \in Seq(S),
           \A i \in DOMAIN pool.nodes : pool.nodes[i].weight \in Int,
           NEW upstream
    PROVE  Cardinality(PlacesOf(pool, upstream)) = Cardinality(Share(pool, upstream))
<1>1. PICK n \in Nat : n = Len(pool.nodes) /\ DOMAIN pool.nodes = 1..n
    OBVIOUS
<1>2. PICK places : places = [i \in 1..n |->
                                IF i \in EnabledNodes(pool)
                                THEN normalizeNodeWeight(pool.nodes[i].weight) ELSE 0]
    OBVIOUS
<1>3. ASSUME NEW i \in 1..n
      PROVE  /\ places[i] = IF i \in EnabledNodes(pool)
                            THEN normalizeNodeWeight(pool.nodes[i].weight) ELSE 0
             /\ places[i] \in Nat /\ places[i] <= MaxNodeWeight
  <2>1. places[i] = IF i \in EnabledNodes(pool)
                    THEN normalizeNodeWeight(pool.nodes[i].weight) ELSE 0
      BY <1>2
  <2>2. pool.nodes[i].weight \in Int
      BY <1>1
  <2>3. /\ normalizeNodeWeight(pool.nodes[i].weight) \in Nat
        /\ normalizeNodeWeight(pool.nodes[i].weight) <= MaxNodeWeight
      BY <2>2, WeightType
  <2> QED
      BY <2>1, <2>3, RoutingAssumption
<1>4. PICK ring : ring = Ring(pool)
    OBVIOUS
<1>5. ring = FlattenSeq(NodePlaces(n, places))
  <2>1. NodePlaces(n, places) =
          [i \in DOMAIN pool.nodes |->
             [k \in 1..(IF i \in EnabledNodes(pool)
                        THEN normalizeNodeWeight(pool.nodes[i].weight) ELSE 0) |-> i]]
      BY <1>1, <1>2 DEF NodePlaces
  <2> QED
      BY <1>4, <2>1 DEF Ring
<1>6. Numbered(ring, n, places)
    BY <1>3, <1>5, FlattenNumbered
<1>7. ring \in Seq(Nat) /\ Len(ring) \in Nat
    BY <1>6 DEF Numbered
<1>8. PICK c : Numbering(c, ring, Len(ring), n, places)
    BY <1>6 DEF Numbered
<1>9. PICK D : D = PlacesOf(pool, upstream)
    OBVIOUS
<1>10. D = {p \in 1..Len(ring) : pool.nodes[ring[p]].upstream = upstream}
    BY <1>4, <1>9 DEF PlacesOf
<1>11. PICK h : h = [p \in D |-> <<ring[p], c[p]>>]
    OBVIOUS
<1>12. ASSUME NEW p \in D
       PROVE  h[p] \in Share(pool, upstream)
  <2>1. ring[p] \in 1..n /\ c[p] \in 1..places[ring[p]]
      BY <1>8, <1>10 DEF Numbering
  <2>2. PICK i \in 1..n : ring[p] = i /\ c[p] \in 1..places[i]
      BY <2>1
  <2>3. i \in EnabledNodes(pool) /\ places[i] = normalizeNodeWeight(pool.nodes[i].weight)
    <3>1. places[i] # 0
        BY <1>3, <2>2
    <3> QED
        BY <1>3, <3>1
  <2>4. c[p] \in 1..MaxNodeWeight /\ c[p] <= places[i]
      BY <1>3, <2>2, RoutingAssumption
  <2>5. pool.nodes[i].upstream = upstream /\ h[p] = <<i, c[p]>>
      BY <1>10, <1>11, <2>2
  <2> QED
      BY <2>3, <2>4, <2>5 DEF Share
<1>13. ASSUME NEW p \in D, NEW q \in D, h[p] = h[q]
       PROVE  p = q
  <2>1. ring[p] = ring[q] /\ c[p] = c[q]
      BY <1>11, <1>13
  <2> QED
      BY <1>8, <1>10, <2>1 DEF Numbering
<1>14. ASSUME NEW t \in Share(pool, upstream)
       PROVE  \E p \in D : h[p] = t
  <2>1. PICK i \in EnabledNodes(pool), k \in 1..MaxNodeWeight :
           /\ t = <<i, k>>
           /\ pool.nodes[i].upstream = upstream
           /\ k <= normalizeNodeWeight(pool.nodes[i].weight)
      BY DEF Share
  <2>2. i \in 1..n /\ places[i] = normalizeNodeWeight(pool.nodes[i].weight)
      BY <1>1, <1>3, <2>1 DEF EnabledNodes
  <2>3. k \in 1..places[i]
      BY <1>3, <2>1, <2>2
  <2>4. PICK p \in 1..Len(ring) : ring[p] = i /\ c[p] = k
      BY <1>8, <2>2, <2>3 DEF Numbering
  <2>5. p \in D /\ h[p] = t
      BY <1>10, <1>11, <2>1, <2>4
  <2> QED
      BY <2>5
<1>15. h \in Bijection(D, Share(pool, upstream))
  <2>1. PICK T : T = Share(pool, upstream)
      OBVIOUS
  <2>2. h \in [D -> T]
      BY <1>11, <1>12, <2>1
  <2> QED
      BY <1>13, <1>14, <2>1, <2>2 DEF Bijection, Injection, Surjection, IsInjective
<1>16. IsFiniteSet(D)
  <2>1. Len(ring) \in Nat
      BY <1>7
  <2>2. IsFiniteSet(1..Len(ring)) /\ D \in SUBSET (1..Len(ring))
      BY <1>10, <2>1, FS_Interval
  <2> QED
      BY <2>2, FS_Subset
<1> QED
    BY <1>9, <1>15, <1>16, FS_Bijection DEF ExistsBijection

-----------------------------------------------------------------------------
(***************************************************************************)
(* Clients                                                                  *)
(***************************************************************************)

(* parseClientIP believes only what trusted proxies wrote. *)
LEMMA ClientIsVouched ==
    ASSUME NEW input \in Inputs, NEW trusted
    PROVE  Vouched(input, parseClientIP(input, trusted), trusted)
<1>1. PICK xff : xff = input.xff
    OBVIOUS
<1>2. xff \in Seq(Addresses)
    BY <1>1, GatewayAssumption
<1>3. Len(xff) \in Nat /\ DOMAIN xff = 1..Len(xff)
    BY <1>2
<1>4. PICK I : I = {i \in 1..Len(xff) : xff[i] \notin trusted}
    OBVIOUS
<1>5. PICK last : last = IF I # {} THEN Max(I) ELSE 0
    OBVIOUS
<1>6. parseClientIP(input, trusted) =
         IF input.peer \notin trusted THEN input.peer
         ELSE IF last # 0 THEN xff[last]
         ELSE IF xff # <<>> THEN xff[1]
         ELSE IF input.real # None THEN input.real
         ELSE input.peer
    BY <1>1, <1>4, <1>5 DEF parseClientIP, SelectLastInSeq
<1>7. PICK client : client = parseClientIP(input, trusted)
    OBVIOUS
<1>8. CASE input.peer \notin trusted
    BY <1>6, <1>8 DEF Vouched
<1>9. CASE input.peer \in trusted /\ I # {}
  <2>1. I \in SUBSET (1..Len(xff))
      BY <1>4
  <2>2. last \in I /\ \A k \in I : k <= last
      BY <1>3, <1>5, <1>9, <2>1, MaxIs
  <2>3. last \in DOMAIN xff /\ last # 0
      BY <1>3, <1>4, <2>2
  <2>4. \A j \in DOMAIN xff : j > last => xff[j] \in trusted
    <3>1. ASSUME NEW j \in DOMAIN xff, j > last, xff[j] \notin trusted
          PROVE  FALSE
      <4>1. j \in I /\ j \in Int /\ last \in Int
          BY <1>3, <1>4, <2>3, <3>1
      <4> QED
          BY <2>2, <3>1, <4>1
    <3> QED
        BY <3>1
  <2>5. client = xff[last]
      BY <1>6, <1>7, <1>9, <2>3
  <2> QED
      BY <1>1, <1>7, <1>9, <2>3, <2>4, <2>5 DEF Vouched
<1>10. CASE input.peer \in trusted /\ I = {}
  <2>1. last = 0 /\ \A j \in DOMAIN xff : xff[j] \in trusted
      BY <1>3, <1>4, <1>5, <1>10
  <2>2. CASE xff # <<>>
    <3>1. 1 \in DOMAIN xff
        BY <1>2, <1>3, <2>2
    <3>2. client = xff[1]
        BY <1>6, <1>7, <1>10, <2>1, <2>2
    <3> QED
        BY <1>1, <1>7, <1>10, <2>1, <3>1, <3>2 DEF Vouched
  <2>3. CASE xff = <<>>
      BY <1>1, <1>6, <1>10, <2>1, <2>3 DEF Vouched
  <2> QED
      BY <2>2, <2>3
<1> QED
    BY <1>8, <1>9, <1>10

-----------------------------------------------------------------------------
(***************************************************************************)
(* The inductive invariant                                                  *)
(***************************************************************************)

(* A request keeps what it has read so far, and drops the rest. *)
Shape(q) ==
    \/ q = Idle
    \/ /\ q.pc = "policy"
       /\ q = [pc |-> q.pc, input |-> q.input, known |-> q.known]
    \/ /\ q.pc = "client"
       /\ q = [pc |-> q.pc, input |-> q.input, known |-> q.known, policy |-> q.policy,
               failed |-> q.failed]
    \/ /\ q.pc = "check"
       /\ q = [pc |-> q.pc, input |-> q.input, known |-> q.known, policy |-> q.policy,
               failed |-> q.failed, client |-> q.client]
    \/ /\ q.pc \in {"authorize", "refuse", "blocked", "resolve"}
       /\ q = [pc |-> q.pc, input |-> q.input, failed |-> q.failed, client |-> q.client]
    \/ /\ q.pc \in {"badgateway", "redirected", "forwarded"}
       /\ q = [pc |-> q.pc, input |-> q.input, failed |-> q.failed, client |-> q.client,
               target |-> q.target]

(* The client of a request is vouched for, or admitted, under a policy.           *)
VouchedUnder(q, policy, since) ==
    \E s \in since : Vouched(q.input, q.client, TrustedProxies(policy, s.doc))

AdmittedUnder(q, policy, since) ==
    \E s \in since : Admits(policy, s.site.origins, s.doc, q.client)

(* The policy, the client and the decisions of a request come from what was in    *)
(* force since it began, or from no policy at all when its read failed.           *)
PolicyFrom(q, since) == q.policy \in Policies(q, since)

ClientFrom(q, since) == VouchedUnder(q, q.policy, since)

EntitledBy(q, since) ==
    \E policy \in Policies(q, since) :
        VouchedUnder(q, policy, since) /\ AdmittedUnder(q, policy, since)

RoutedBy(q, since) == \E s \in since : ResolveRoute(s.doc, q.input.host) # NoRoute

TargetOf(q, since) == \E s \in since : q.target \in Targets(s.doc, q.input.host)

Swapped(since) == \E s, t \in since : s.doc # t.doc

(* What each stage of a request rests on. *)
Grounded(q, since) ==
    /\ q.pc \in {"client", "check"} => PolicyFrom(q, since)
    /\ q.pc = "check" => ClientFrom(q, since)
    /\ q.pc \in {"authorize", "resolve", "forwarded"} => EntitledBy(q, since)
    /\ q.pc = "resolve" => RoutedBy(q, since)
    /\ q.pc = "forwarded" => TargetOf(q, since)
    /\ q.pc = "badgateway" => Swapped(since)

PicksInv ==
    /\ live \in Documents
    /\ DOMAIN picks = PoolIds(live)
    /\ \A id \in PoolIds(live) : picks[id] \in Seq(Upstreams)

RequestInv ==
    /\ DOMAIN req = Requests
    /\ \A r \in Requests :
          /\ Shape(req[r])
          /\ req[r] # Idle => req[r].input \in Inputs
          /\ Grounded(req[r], seen[r])

IInv == PicksInv /\ RequestInv

(* What was in force once since a request began stays so. *)
LEMMA GroundedGrows ==
    ASSUME NEW q, NEW A, NEW B, A \subseteq B, Grounded(q, A)
    PROVE  Grounded(q, B)
<1>1. PolicyFrom(q, A) => PolicyFrom(q, B)
    BY DEF PolicyFrom, Policies
<1>2. ClientFrom(q, A) => ClientFrom(q, B)
    BY DEF ClientFrom, VouchedUnder
<1>3. EntitledBy(q, A) => EntitledBy(q, B)
  <2>1. Policies(q, A) \subseteq Policies(q, B)
      BY DEF Policies
  <2>2. \A policy : VouchedUnder(q, policy, A) => VouchedUnder(q, policy, B)
      BY DEF VouchedUnder
  <2>3. \A policy : AdmittedUnder(q, policy, A) => AdmittedUnder(q, policy, B)
      BY DEF AdmittedUnder
  <2> QED
      BY <2>1, <2>2, <2>3 DEF EntitledBy
<1>4. RoutedBy(q, A) => RoutedBy(q, B)
    BY DEF RoutedBy
<1>5. TargetOf(q, A) => TargetOf(q, B)
    BY DEF TargetOf
<1>6. Swapped(A) => Swapped(B)
    BY DEF Swapped
<1> QED
    BY <1>1, <1>2, <1>3, <1>4, <1>5, <1>6 DEF Grounded

(* What is in force now. *)
Now(host) == [doc |-> live, site |-> site[host]]

LEMMA SeenGrows ==
    ASSUME NEW r \in Requests, See, req'[r] # Idle
    PROVE  /\ seen[r] \subseteq seen'[r]
           /\ [doc |-> live', site |-> site'[req'[r].input.host]] \in seen'[r]
<1>1. seen'[r] = seen[r] \cup {[doc |-> live', site |-> site'[req'[r].input.host]]}
    BY DEF See
<1> QED
    BY <1>1

(* A step that changes no request keeps what is known of the requests. *)
LEMMA Waiting ==
    ASSUME RequestInv, See, UNCHANGED req
    PROVE  RequestInv'
<1>1. ASSUME NEW r \in Requests PROVE Grounded(req'[r], seen'[r])
  <2>1. CASE req[r] = Idle
      BY <2>1 DEF Idle, Grounded
  <2>2. CASE req[r] # Idle
      BY <2>2, SeenGrows, GroundedGrows DEF RequestInv
  <2> QED
      BY <2>1, <2>2
<1> QED
    BY <1>1 DEF RequestInv

(* A step of one request has to establish its own invariant only. *)
LEMMA OneStep ==
    ASSUME RequestInv, NEW r \in Requests, NEW pc, NEW local, Step(r, pc, local),
           Shape(local), local # Idle => local.input \in Inputs,
           Grounded(local, seen'[r])
    PROVE  RequestInv'
<1>1. DOMAIN req' = Requests /\ req'[r] = local
    BY DEF RequestInv, Step
<1>2. ASSUME NEW o \in Requests
      PROVE  /\ Shape(req'[o])
             /\ req'[o] # Idle => req'[o].input \in Inputs
             /\ Grounded(req'[o], seen'[o])
  <2>1. CASE o = r
      BY <1>1, <2>1
  <2>2. CASE o # r
    <3>1. req'[o] = req[o]
        BY <2>2 DEF RequestInv, Step
    <3>2. CASE req[o] = Idle
        BY <3>1, <3>2 DEF Idle, Grounded, RequestInv
    <3>3. CASE req[o] # Idle
      <4>1. seen[o] \subseteq seen'[o]
          BY <3>1, <3>3, SeenGrows DEF Step
      <4> QED
          BY <3>1, <3>3, <4>1, GroundedGrows DEF RequestInv
    <3> QED
        BY <3>2, <3>3
  <2> QED
      BY <2>1, <2>2
<1> QED
    BY <1>1, <1>2 DEF RequestInv

(* The state in which a request takes a step counts for it. *)
LEMMA StepSees ==
    ASSUME RequestInv, NEW r \in Requests, NEW pc, NEW local, Step(r, pc, local), local # Idle
    PROVE  seen[r] \subseteq seen'[r] /\ Now(local.input.host) \in seen'[r]
<1>1. req'[r] = local
    BY DEF RequestInv, Step
<1>2. /\ seen[r] \subseteq seen'[r]
      /\ [doc |-> live', site |-> site'[req'[r].input.host]] \in seen'[r]
    BY <1>1, SeenGrows DEF Step
<1>3. live' = live /\ site' = site
    BY DEF Step
<1> QED
    BY <1>1, <1>2, <1>3 DEF Now

(* A whitelist that admits a client without the addresses of the CDN admits it     *)
(* with them.                                                                    *)
LEMMA AdmitsMore ==
    ASSUME NEW policy, NEW A, NEW B, NEW doc, NEW client, A \subseteq B,
           Admits(policy, A, doc, client)
    PROVE  Admits(policy, B, doc, client)
BY DEF Admits

(* What entitles a request rests on its headers, its client and its read only.    *)
LEMMA SameEntitlement ==
    ASSUME NEW p, NEW q, NEW A, EntitledBy(p, A),
           q.input = p.input, q.client = p.client, q.failed = p.failed
    PROVE  EntitledBy(q, A)
<1>1. PICK policy \in Policies(p, A) : VouchedUnder(p, policy, A) /\ AdmittedUnder(p, policy, A)
    BY DEF EntitledBy
<1>2. policy \in Policies(q, A)
    BY DEF Policies
<1>3. VouchedUnder(q, policy, A) /\ AdmittedUnder(q, policy, A)
    BY <1>1 DEF VouchedUnder, AdmittedUnder
<1> QED
    BY <1>2, <1>3 DEF EntitledBy

(* Advance records a pick of an enabled node; that is what the request gets.      *)
LEMMA Advanced ==
    ASSUME PicksInv, NEW host, NEW route, route = ResolveRoute(live, host), Advance(route),
           live' = live,
           NEW target, target = IF route.pool = None THEN route.target ELSE Last(picks'[route.pool])
    PROVE  /\ PicksInv'
           /\ route # NoRoute => target \in Targets(live, host)
<1>1. Compiled(live)
    BY GatewayAssumption DEF PicksInv
<1>2. \/ route = NoRoute
      \/ route.pool # None /\ Usable(live.lb, route.pool)
      \/ route.pool = None /\ route.target # None
    BY <1>1, RouteAnswers
<1>3. CASE route.pool = None
  <2>1. picks' = picks
      BY <1>3 DEF Advance
  <2>2. PicksInv'
      BY <2>1 DEF PicksInv
  <2>3. ASSUME route # NoRoute
        PROVE  target \in Targets(live, host)
    <3>1. target = route.target /\ route.target # None
        BY <1>2, <1>3, <2>3
    <3> QED
        BY <1>3, <3>1 DEF Targets
  <2> QED
      BY <2>2, <2>3
<1>4. CASE route.pool # None
  <2>1. Usable(live.lb, route.pool)
      BY <1>2, <1>4 DEF NoRoute
  <2>2. PICK id : id = route.pool
      OBVIOUS
  <2>3. PICK pool : pool = live.lb.pools[PoolIndex(live.lb, id)]
      OBVIOUS
  <2>4. id \in PoolIds(live)
      BY <1>1, <2>1, <2>2, <2>3, PickIsEnabled
  <2>5. picks[id] \in Seq(Upstreams)
      BY <2>4 DEF PicksInv
  <2>6. Len(picks[id]) + 1 \in Nat
      BY <2>5
  <2>7. PICK x : x = PickTarget(live.lb, id, Len(picks[id]) + 1)
      OBVIOUS
  <2>8. x \in {pool.nodes[i].upstream : i \in EnabledNodes(pool)} /\ x \in Upstreams
    <3>1. PICK n \in Nat : n = Len(picks[id]) + 1
        BY <2>6
    <3>2. x = PickTarget(live.lb, id, n)
        BY <2>7, <3>1
    <3>3. Usable(live.lb, id)
        BY <2>1, <2>2
    <3>4. /\ PickTarget(live.lb, id, n) \in {pool.nodes[i].upstream : i \in EnabledNodes(pool)}
          /\ PickTarget(live.lb, id, n) \in Upstreams
        BY <1>1, <2>3, <3>3, PickIsEnabled
    <3> QED
        BY <3>2, <3>4
  <2>9. picks' = [picks EXCEPT ![id] = Append(picks[id], x)]
      BY <1>4, <2>2, <2>7 DEF Advance
  <2>10. DOMAIN picks' = PoolIds(live) /\ picks'[id] = Append(picks[id], x)
      BY <2>4, <2>9 DEF PicksInv
  <2>11. Append(picks[id], x) \in Seq(Upstreams)
      BY <2>5, <2>8
  <2>12. ASSUME NEW k \in PoolIds(live)
         PROVE  picks'[k] \in Seq(Upstreams)
    <3>1. CASE k = id
        BY <2>10, <2>11, <3>1
    <3>2. CASE k # id
        BY <2>9, <3>2 DEF PicksInv
    <3> QED
        BY <3>1, <3>2
  <2>13. PicksInv'
      BY <2>10, <2>12 DEF PicksInv
  <2>14. Last(Append(picks[id], x)) = x
      BY <2>5, <2>8 DEF Last
  <2>15. target = x
      BY <1>4, <2>2, <2>10, <2>14
  <2>16. target \in Targets(live, host)
      BY <1>4, <2>2, <2>3, <2>8, <2>15 DEF Targets
  <2> QED
      BY <2>13, <2>16
<1> QED
    BY <1>3, <1>4

-----------------------------------------------------------------------------
(***************************************************************************)
(* One lemma per action                                                     *)
(***************************************************************************)

LEMMA SwapDocumentInv ==
    ASSUME IInv, NEW doc \in Documents, SwapDocument(doc)
    PROVE  IInv'
<1>1. PicksInv'
  <2>1. live' = doc /\ picks' = [id \in PoolIds(doc) |-> <<>>]
      BY DEF SwapDocument, NoPicks
  <2> QED
      BY <2>1 DEF PicksInv
<1>2. RequestInv'
    BY Waiting DEF IInv, SwapDocument
<1> QED
    BY <1>1, <1>2 DEF IInv

LEMMA ChangeSiteInv ==
    ASSUME IInv, NEW host, NEW value, ChangeSite(host, value)
    PROVE  IInv'
<1>1. PicksInv'
    BY DEF IInv, PicksInv, ChangeSite
<1>2. RequestInv'
    BY Waiting DEF IInv, ChangeSite
<1> QED
    BY <1>1, <1>2 DEF IInv

LEMMA ReadSiteIDInv ==
    ASSUME IInv, NEW r \in Requests, NEW input \in Inputs, ReadSiteID(r, input)
    PROVE  IInv'
<1>1. PICK known : Step(r, "idle", [pc |-> "policy", input |-> input, known |-> known])
    BY DEF ReadSiteID
<1>2. PicksInv'
    BY DEF IInv, PicksInv, ReadSiteID, Step
<1>3. PICK local : local = [pc |-> "policy", input |-> input, known |-> known]
    OBVIOUS
<1>4. Shape(local) /\ local.input \in Inputs /\ Grounded(local, seen'[r])
    BY <1>3 DEF Shape, Grounded
<1>5. RequestInv'
    BY <1>1, <1>3, <1>4, OneStep DEF IInv
<1> QED
    BY <1>2, <1>5 DEF IInv

LEMMA ReadPolicyInv ==
    ASSUME IInv, NEW r \in Requests, ReadPolicy(r)
    PROVE  IInv'
<1>1. PicksInv'
    BY DEF IInv, PicksInv, ReadPolicy, Step
<1>2. PICK stored : stored = site[req[r].input.host].policy
    OBVIOUS
<1>3. PICK policy \in {stored, NoSite} :
         Step(r, "policy", [pc |-> "client", input |-> req[r].input, known |-> req[r].known,
                            policy |-> policy, failed |-> policy # stored])
    BY <1>2 DEF ReadPolicy
<1>4. PICK local : local = [pc |-> "client", input |-> req[r].input, known |-> req[r].known,
                            policy |-> policy, failed |-> policy # stored]
    OBVIOUS
<1>5. Step(r, "policy", local)
    BY <1>3, <1>4
<1>6. req[r] # Idle /\ local # Idle
    BY <1>4 DEF ReadPolicy, Idle
<1>7. Now(local.input.host) \in seen'[r]
    BY <1>5, <1>6, StepSees DEF IInv
<1>8. stored = Now(local.input.host).site.policy
    BY <1>2, <1>4 DEF Now
<1>9. PolicyFrom(local, seen'[r])
  <2>1. CASE policy = stored
    <3>1. ~local.failed /\ local.policy = stored
        BY <1>4, <2>1
    <3> QED
        BY <1>7, <1>8, <3>1 DEF PolicyFrom, Policies
  <2>2. CASE policy # stored
    <3>1. local.failed /\ local.policy = NoSite
        BY <1>3, <1>4, <2>2
    <3> QED
        BY <3>1 DEF PolicyFrom, Policies
  <2> QED
      BY <2>1, <2>2
<1>10. Shape(local) /\ local.input \in Inputs
    BY <1>4, <1>6 DEF Shape, IInv, RequestInv
<1>11. Grounded(local, seen'[r])
    BY <1>4, <1>9 DEF Grounded
<1>12. RequestInv'
    BY <1>5, <1>10, <1>11, OneStep DEF IInv
<1> QED
    BY <1>1, <1>12 DEF IInv

LEMMA ReadClientInv ==
    ASSUME IInv, NEW r \in Requests, ReadClient(r)
    PROVE  IInv'
<1>1. PicksInv'
    BY DEF IInv, PicksInv, ReadClient, Step
<1>2. PICK q : q = req[r]
    OBVIOUS
<1>3. PICK trusted : trusted = TrustedProxies(q.policy, live)
    OBVIOUS
<1>4. PICK local : local = [pc |-> "check", input |-> q.input, known |-> q.known,
                            policy |-> q.policy, failed |-> q.failed,
                            client |-> parseClientIP(q.input, trusted)]
    OBVIOUS
<1>5. Step(r, "client", local)
    BY <1>2, <1>3, <1>4 DEF ReadClient
<1>6. q.pc = "client" /\ q # Idle /\ q.input \in Inputs /\ Grounded(q, seen[r])
    BY <1>2 DEF ReadClient, Idle, IInv, RequestInv
<1>7. local # Idle
    BY <1>4 DEF Idle
<1>8. seen[r] \subseteq seen'[r] /\ Now(local.input.host) \in seen'[r]
    BY <1>5, <1>7, StepSees DEF IInv
<1>9. PolicyFrom(local, seen'[r])
  <2>1. PolicyFrom(q, seen'[r])
      BY <1>6, <1>8, GroundedGrows DEF Grounded
  <2> QED
      BY <1>4, <2>1 DEF PolicyFrom, Policies
<1>10. ClientFrom(local, seen'[r])
  <2>1. Vouched(local.input, local.client, trusted)
      BY <1>4, <1>6, ClientIsVouched
  <2>2. PICK t : t = Now(local.input.host)
      OBVIOUS
  <2>3. t \in seen'[r] /\ t.doc = live
      BY <1>8, <2>2 DEF Now
  <2>4. trusted = TrustedProxies(local.policy, t.doc)
      BY <1>3, <1>4, <2>3
  <2> QED
      BY <2>1, <2>3, <2>4 DEF ClientFrom, VouchedUnder
<1>11. Shape(local) /\ local.input \in Inputs
    BY <1>4, <1>6 DEF Shape
<1>12. Grounded(local, seen'[r])
    BY <1>4, <1>9, <1>10 DEF Grounded
<1>13. RequestInv'
    BY <1>5, <1>11, <1>12, OneStep DEF IInv
<1> QED
    BY <1>1, <1>13 DEF IInv

LEMMA CheckClientInv ==
    ASSUME IInv, NEW r \in Requests, CheckClient(r)
    PROVE  IInv'
<1>1. PicksInv'
    BY DEF IInv, PicksInv, CheckClient, Step
<1>2. PICK q : q = req[r]
    OBVIOUS
<1>3. PICK origins : origins = IF q.known THEN site[q.input.host].origins ELSE {}
    OBVIOUS
<1>4. PICK pc : pc = IF Admits(q.policy, origins, live, q.client) THEN "authorize" ELSE "refuse"
    OBVIOUS
<1>5. PICK local : local = [pc |-> pc, input |-> q.input, failed |-> q.failed,
                            client |-> q.client]
    OBVIOUS
<1>6. Step(r, "check", local)
    BY <1>2, <1>3, <1>4, <1>5 DEF CheckClient
<1>7. q.pc = "check" /\ q # Idle /\ q.input \in Inputs /\ Grounded(q, seen[r])
    BY <1>2 DEF CheckClient, Idle, IInv, RequestInv
<1>8. pc \in {"authorize", "refuse"} /\ local.pc = pc /\ local # Idle
    BY <1>4, <1>5 DEF Idle
<1>9. seen[r] \subseteq seen'[r] /\ Now(local.input.host) \in seen'[r]
    BY <1>6, <1>8, StepSees DEF IInv
<1>10. PICK t : t = Now(q.input.host)
    OBVIOUS
<1>11. t \in seen'[r] /\ t.doc = live /\ t.site = site[q.input.host]
    BY <1>5, <1>9, <1>10 DEF Now
<1>12. ASSUME pc = "authorize"
       PROVE  EntitledBy(local, seen'[r])
  <2>1. Grounded(q, seen'[r])
      BY <1>7, <1>9, GroundedGrows
  <2>2. PolicyFrom(q, seen'[r]) /\ ClientFrom(q, seen'[r])
      BY <1>7, <2>1 DEF Grounded
  <2>3. PICK policy : policy = q.policy
      OBVIOUS
  <2>4. policy \in Policies(local, seen'[r])
      BY <1>5, <2>2, <2>3 DEF PolicyFrom, Policies
  <2>5. VouchedUnder(local, policy, seen'[r])
      BY <1>5, <2>2, <2>3 DEF ClientFrom, VouchedUnder
  <2>6. Admits(policy, origins, live, q.client) /\ origins \subseteq t.site.origins
      BY <1>3, <1>4, <1>11, <1>12, <2>3
  <2>7. Admits(policy, t.site.origins, t.doc, local.client)
      BY <1>5, <1>11, <2>6, AdmitsMore
  <2>8. AdmittedUnder(local, policy, seen'[r])
      BY <1>11, <2>7 DEF AdmittedUnder
  <2> QED
      BY <2>4, <2>5, <2>8 DEF EntitledBy
<1>13. Shape(local) /\ local.input \in Inputs
    BY <1>5, <1>7, <1>8 DEF Shape
<1>14. Grounded(local, seen'[r])
    BY <1>8, <1>12 DEF Grounded
<1>15. RequestInv'
    BY <1>6, <1>13, <1>14, OneStep DEF IInv
<1> QED
    BY <1>1, <1>15 DEF IInv

LEMMA AuthorizeInv ==
    ASSUME IInv, NEW r \in Requests, Authorize(r)
    PROVE  IInv'
<1>1. PICK q : q = req[r]
    OBVIOUS
<1>2. PICK route : route = ResolveRoute(live, q.input.host)
    OBVIOUS
<1>3. PICK pc : pc = IF q.pc = "refuse" \/ route = NoRoute THEN "blocked" ELSE "resolve"
    OBVIOUS
<1>4. PICK local : local = [q EXCEPT !.pc = pc]
    OBVIOUS
<1>5. /\ q.pc \in {"authorize", "refuse"} /\ Advance(route)
      /\ Step(r, q.pc, local)
    BY <1>1, <1>2, <1>3, <1>4 DEF Authorize
<1>6. PicksInv'
  <2>1. live' = live
      BY <1>5 DEF Step
  <2>2. PICK host : host = q.input.host
      OBVIOUS
  <2>3. route = ResolveRoute(live, host)
      BY <1>2, <2>2
  <2> QED
      BY <1>5, <2>1, <2>3, Advanced DEF IInv
<1>7. q # Idle /\ Shape(q) /\ q.input \in Inputs /\ Grounded(q, seen[r])
    BY <1>1, <1>5 DEF Idle, IInv, RequestInv
<1>8. local = [pc |-> pc, input |-> q.input, failed |-> q.failed, client |-> q.client]
    BY <1>4, <1>5, <1>7 DEF Shape
<1>9. pc \in {"blocked", "resolve"} /\ local.pc = pc /\ local # Idle
    BY <1>3, <1>8 DEF Idle
<1>10. seen[r] \subseteq seen'[r] /\ Now(local.input.host) \in seen'[r]
    BY <1>5, <1>9, StepSees DEF IInv
<1>11. ASSUME pc = "resolve"
       PROVE  EntitledBy(local, seen'[r]) /\ RoutedBy(local, seen'[r])
  <2>1. q.pc = "authorize" /\ route # NoRoute
      BY <1>3, <1>5, <1>11
  <2>2. Grounded(q, seen'[r])
      BY <1>7, <1>10, GroundedGrows
  <2>3. EntitledBy(q, seen'[r])
      BY <2>1, <2>2 DEF Grounded
  <2>4. EntitledBy(local, seen'[r])
      BY <1>8, <2>3, SameEntitlement
  <2>5. PICK t : t = Now(q.input.host)
      OBVIOUS
  <2>6. t \in seen'[r] /\ t.doc = live
      BY <1>8, <1>10, <2>5 DEF Now
  <2>7. ResolveRoute(t.doc, local.input.host) # NoRoute
      BY <1>2, <1>8, <2>1, <2>6
  <2>8. RoutedBy(local, seen'[r])
      BY <2>6, <2>7 DEF RoutedBy
  <2> QED
      BY <2>4, <2>8
<1>12. Shape(local) /\ local.input \in Inputs
    BY <1>7, <1>8, <1>9 DEF Shape
<1>13. Grounded(local, seen'[r])
    BY <1>9, <1>11 DEF Grounded
<1>14. RequestInv'
    BY <1>5, <1>12, <1>13, OneStep DEF IInv
<1> QED
    BY <1>6, <1>14 DEF IInv

LEMMA ResolveInv ==
    ASSUME IInv, NEW r \in Requests, Resolve(r)
    PROVE  IInv'
<1>1. PICK q : q = req[r]
    OBVIOUS
<1>2. PICK route : route = ResolveRoute(live, q.input.host)
    OBVIOUS
<1>3. PICK target : target = IF route.pool = None THEN route.target ELSE Last(picks'[route.pool])
    OBVIOUS
<1>4. PICK pc : pc = IF route = NoRoute THEN "badgateway"
                     ELSE IF route.force /\ ~q.input.tls THEN "redirected"
                     ELSE "forwarded"
    OBVIOUS
<1>5. PICK local : local = [pc |-> pc, input |-> q.input, failed |-> q.failed,
                            client |-> q.client, target |-> target]
    OBVIOUS
<1>6. q.pc = "resolve" /\ Advance(route) /\ Step(r, "resolve", local)
    BY <1>1, <1>2, <1>3, <1>4, <1>5 DEF Resolve
<1>7. PicksInv' /\ (route # NoRoute => target \in Targets(live, q.input.host))
  <2>1. live' = live
      BY <1>6 DEF Step
  <2>2. PICK host : host = q.input.host
      OBVIOUS
  <2>3. route = ResolveRoute(live, host)
      BY <1>2, <2>2
  <2>4. PicksInv' /\ (route # NoRoute => target \in Targets(live, host))
      BY <1>3, <1>6, <2>1, <2>3, Advanced DEF IInv
  <2> QED
      BY <2>2, <2>4
<1>8. q # Idle /\ Shape(q) /\ q.input \in Inputs /\ Grounded(q, seen[r])
    BY <1>1, <1>6 DEF Idle, IInv, RequestInv
<1>9. pc \in {"badgateway", "redirected", "forwarded"} /\ local.pc = pc /\ local # Idle
    BY <1>4, <1>5 DEF Idle
<1>10. seen[r] \subseteq seen'[r] /\ Now(local.input.host) \in seen'[r]
    BY <1>6, <1>9, StepSees DEF IInv
<1>11. PICK t : t = Now(q.input.host)
    OBVIOUS
<1>12. t \in seen'[r] /\ t.doc = live
    BY <1>5, <1>10, <1>11 DEF Now
<1>13. Grounded(q, seen'[r])
    BY <1>8, <1>10, GroundedGrows
<1>14. EntitledBy(local, seen'[r])
  <2>1. EntitledBy(q, seen'[r])
      BY <1>6, <1>13 DEF Grounded
  <2> QED
      BY <1>5, <2>1, SameEntitlement
<1>15. ASSUME pc = "forwarded"
       PROVE  TargetOf(local, seen'[r])
  <2>1. route # NoRoute
      BY <1>4, <1>15
  <2>2. local.target \in Targets(t.doc, local.input.host)
      BY <1>5, <1>7, <1>12, <2>1
  <2> QED
      BY <1>12, <2>2 DEF TargetOf
<1>16. ASSUME pc = "badgateway"
       PROVE  Swapped(seen'[r])
  <2>1. route = NoRoute
      BY <1>4, <1>16
  <2>2. RoutedBy(q, seen'[r])
      BY <1>6, <1>13 DEF Grounded
  <2>3. PICK s \in seen'[r] : ResolveRoute(s.doc, q.input.host) # NoRoute
      BY <2>2 DEF RoutedBy
  <2>4. s.doc # t.doc
      BY <1>2, <1>12, <2>1, <2>3
  <2> QED
      BY <1>12, <2>4 DEF Swapped
<1>17. Shape(local) /\ local.input \in Inputs
    BY <1>5, <1>8, <1>9 DEF Shape
<1>18. Grounded(local, seen'[r])
    BY <1>9, <1>14, <1>15, <1>16 DEF Grounded
<1>19. RequestInv'
    BY <1>6, <1>17, <1>18, OneStep DEF IInv
<1> QED
    BY <1>7, <1>19 DEF IInv

LEMMA FinishInv ==
    ASSUME IInv, NEW r \in Requests, Finish(r)
    PROVE  IInv'
<1>1. PicksInv'
    BY DEF IInv, PicksInv, Finish, Step
<1>2. Shape(Idle) /\ Grounded(Idle, seen'[r])
    BY DEF Shape, Grounded, Idle
<1>3. RequestInv'
    BY <1>2, OneStep DEF IInv, Finish
<1> QED
    BY <1>1, <1>3 DEF IInv

-----------------------------------------------------------------------------
(***************************************************************************)
(* Theorems                                                                 *)
(***************************************************************************)

(* The inductive invariant holds in every reachable state. *)
THEOREM GatewayInvariance == Spec => []IInv
<1>1. Init => IInv
  <2> SUFFICES ASSUME Init PROVE IInv
      OBVIOUS
  <2>1. PicksInv
      BY DEF Init, PicksInv, NoPicks
  <2>2. \A r \in Requests : req[r] = Idle
      BY DEF Init
  <2>3. Shape(Idle) /\ \A A : Grounded(Idle, A)
      BY DEF Shape, Grounded, Idle
  <2>4. RequestInv
      BY <2>2, <2>3 DEF Init, RequestInv
  <2> QED
      BY <2>1, <2>4 DEF IInv
<1>2. IInv /\ [Next]_vars => IInv'
  <2> SUFFICES ASSUME IInv, [Next]_vars PROVE IInv'
      OBVIOUS
  <2>1. ASSUME NEW doc \in Documents, SwapDocument(doc) PROVE IInv'
      BY <2>1, SwapDocumentInv
  <2>2. ASSUME NEW host \in Hosts, NEW value \in Sites, ChangeSite(host, value) PROVE IInv'
      BY <2>2, ChangeSiteInv
  <2>3. ASSUME NEW r \in Requests, Serve(r) PROVE IInv'
      BY <2>3, ReadSiteIDInv, ReadPolicyInv, ReadClientInv, CheckClientInv, AuthorizeInv,
         ResolveInv, FinishInv DEF Serve
  <2>4. CASE UNCHANGED vars
    <3>1. PicksInv'
        BY <2>4 DEF vars, IInv, PicksInv
    <3>2. RequestInv'
        BY <2>4 DEF vars, IInv, RequestInv
    <3> QED
        BY <3>1, <3>2 DEF IInv
  <2> QED
      BY <2>1, <2>2, <2>3, <2>4 DEF Next
<1> QED
    BY <1>1, <1>2, PTL DEF Spec

(* ForwardingIsJustified: what ServeHTTP forwards has a client that one policy in  *)
(* force meanwhile vouches for and admits, and an enabled upstream; the global     *)
(* lists stand in for the policy only after a failed GetSiteConfigByHostname.      *)
THEOREM ForwardingJustified == Spec => []ForwardingIsJustified
<1>1. IInv => ForwardingIsJustified
    BY DEF IInv, RequestInv, Grounded, EntitledBy, VouchedUnder, AdmittedUnder, TargetOf,
       ForwardingIsJustified
<1> QED
    BY <1>1, GatewayInvariance, PTL

(* BadGatewayMeansSwap: "route not found" after a successful IsHostAuthorized      *)
(* needs a swap of the document in between.                                       *)
THEOREM BadGatewaySwap == Spec => []BadGatewayMeansSwap
<1>1. IInv => BadGatewayMeansSwap
    BY DEF IInv, RequestInv, Grounded, Swapped, BadGatewayMeansSwap
<1> QED
    BY <1>1, GatewayInvariance, PTL

-----------------------------------------------------------------------------
(***************************************************************************)
(* Weighted picks                                                           *)
(***************************************************************************)

(* The j-th pick from a pool of the live snapshot is the one its counter asks for. *)
PicksInOrder ==
    \A id \in DOMAIN picks : \A j \in 1..Len(picks[id]) : picks[id][j] = PickTarget(live.lb, id, j)

(* ResolveRoute adds the pick that is due next, whoever made the picks before. *)
LEMMA AdvanceInOrder ==
    ASSUME IInv, PicksInOrder, live' = live, NEW route, Advance(route)
    PROVE  PicksInOrder'
<1>1. CASE route.pool = None
  <2>1. picks' = picks
      BY <1>1 DEF Advance
  <2> QED
      BY <2>1 DEF PicksInOrder
<1>2. CASE route.pool # None
  <2>1. PICK pool : pool = route.pool
      OBVIOUS
  <2>2. picks' = [picks EXCEPT ![pool] =
                    Append(picks[pool], PickTarget(live.lb, pool, Len(picks[pool]) + 1))]
      BY <1>2, <2>1 DEF Advance
  <2>3. ASSUME NEW id \in DOMAIN picks
        PROVE  \A j \in 1..Len(picks'[id]) : picks'[id][j] = PickTarget(live.lb, id, j)
    <3>1. PICK log, x : log = picks[id] /\ x = PickTarget(live.lb, id, Len(log) + 1)
        OBVIOUS
    <3>2. log \in Seq(Upstreams) /\ Len(log) \in Nat
        BY <3>1 DEF IInv, PicksInv
    <3>3. \A j \in 1..Len(log) : log[j] = PickTarget(live.lb, id, j)
        BY <3>1 DEF PicksInOrder
    <3>4. CASE id # pool
      <4>1. picks'[id] = log
          BY <2>2, <3>1, <3>4
      <4> QED
          BY <3>3, <4>1
    <3>5. CASE id = pool
      <4>1. PICK more : more = Append(log, x) /\ picks'[id] = more
          BY <2>2, <3>1, <3>5
      <4>2. /\ Len(more) = Len(log) + 1 /\ more[Len(log) + 1] = x
            /\ \A j \in 1..Len(log) : more[j] = log[j]
          BY <3>2, <4>1
      <4>3. ASSUME NEW j \in 1..Len(more)
            PROVE  more[j] = PickTarget(live.lb, id, j)
        <5>1. j \in 1..Len(log) \/ j = Len(log) + 1
            BY <3>2, <4>2
        <5> QED
            BY <3>1, <3>3, <4>2, <5>1
      <4> QED
          BY <4>1, <4>3
    <3> QED
        BY <3>4, <3>5
  <2>4. DOMAIN picks' = DOMAIN picks
      BY <2>2
  <2> QED
      BY <2>3, <2>4 DEF PicksInOrder
<1> QED
    BY <1>1, <1>2

LEMMA PicksStayInOrder ==
    ASSUME IInv, PicksInOrder, [Next]_vars
    PROVE  PicksInOrder'
<1>1. ASSUME NEW doc \in Documents, SwapDocument(doc) PROVE PicksInOrder'
  <2>1. picks' = [id \in PoolIds(doc) |-> <<>>]
      BY <1>1 DEF SwapDocument, NoPicks
  <2>2. \A id \in DOMAIN picks' : Len(picks'[id]) = 0
      BY <2>1
  <2> QED
      BY <2>2 DEF PicksInOrder
<1>2. ASSUME NEW r \in Requests, Authorize(r) PROVE PicksInOrder'
  <2>1. Advance(ResolveRoute(live, req[r].input.host)) /\ live' = live
      BY <1>2 DEF Authorize, Step
  <2> QED
      BY <2>1, AdvanceInOrder
<1>3. ASSUME NEW r \in Requests, Resolve(r) PROVE PicksInOrder'
  <2>1. Advance(ResolveRoute(live, req[r].input.host)) /\ live' = live
      BY <1>3 DEF Resolve, Step
  <2> QED
      BY <2>1, AdvanceInOrder
<1>4. CASE UNCHANGED <<live, picks>>
    BY <1>4 DEF PicksInOrder
<1>5. \/ \E doc \in Documents : SwapDocument(doc)
      \/ \E r \in Requests : Authorize(r) \/ Resolve(r)
      \/ UNCHANGED <<live, picks>>
    BY DEF Next, vars, ChangeSite, Serve, ReadSiteID, ReadPolicy, ReadClient, CheckClient,
       Finish, Step
<1> QED
    BY <1>1, <1>2, <1>3, <1>4, <1>5

(* The picks of any turn of the ring meet each of its places once. *)
LEMMA TurnIsWeighted ==
    ASSUME IInv, PicksInOrder, NEW id \in DOMAIN picks,
           NEW pool, pool = live.lb.pools[PoolIndex(live.lb, id)],
           NEW m \in 0..(Len(picks[id]) - Len(Ring(pool))), NEW upstream
    PROVE  Cardinality({j \in (m + 1)..(m + Len(Ring(pool))) : picks[id][j] = upstream})
             = Cardinality(Share(pool, upstream))
<1>1. PICK Node : Node = [upstream : Upstreams \cup {None}, weight : Int, enabled : BOOLEAN]
    OBVIOUS
<1>2. live.lb.pools \in Seq([id : PoolIds(live), nodes : Seq(Node)])
    BY <1>1, GatewayAssumption DEF IInv, PicksInv, Compiled, PoolIds
<1>3. pool.nodes \in Seq(Node)
  <2>1. PICK Pool : Pool = [id : PoolIds(live), nodes : Seq(Node)]
      OBVIOUS
  <2>2. live.lb.pools \in Seq(Pool)
      BY <1>2, <2>1
  <2>3. PoolIndex(live.lb, id) \in DOMAIN live.lb.pools
      BY <2>2, PoolPresent DEF IInv, PicksInv
  <2>4. pool \in Pool
      BY <2>2, <2>3
  <2> QED
      BY <2>1, <2>4
<1>4. \A i \in DOMAIN pool.nodes : pool.nodes[i].weight \in Int
  <2>1. \A i \in DOMAIN pool.nodes : pool.nodes[i] \in Node
      BY <1>3
  <2> QED
      BY <1>1, <2>1
<1>5. PICK ring : ring = Ring(pool) /\ ring \in Seq(EnabledNodes(pool))
    BY <1>3, <1>4, RingType
<1>6. PICK s \in Nat : s = Len(ring)
    BY <1>5
<1>7. PICK P : P = {p \in 1..s : pool.nodes[ring[p]].upstream = upstream}
    OBVIOUS
<1>8. Cardinality(P) = Cardinality(Share(pool, upstream))
  <2>1. P = PlacesOf(pool, upstream)
      BY <1>5, <1>6, <1>7 DEF PlacesOf
  <2> QED
      BY <1>3, <1>4, <2>1, RingHoldsShares
<1>9. PICK log : log = picks[id] /\ Len(log) \in Nat
    BY DEF IInv, PicksInv
<1>10. m \in Nat /\ m + s <= Len(log)
    BY <1>5, <1>6, <1>9
<1>11. CASE s = 0
  <2>1. P = {}
      BY <1>7, <1>11
  <2>2. {j \in (m + 1)..(m + s) : log[j] = upstream} = {}
      BY <1>10, <1>11
  <2> QED
      BY <1>5, <1>6, <1>8, <1>9, <2>1, <2>2
<1>12. CASE s > 0
  <2>1. ASSUME NEW j \in (m + 1)..(m + s)
        PROVE  log[j] = upstream <=> (j % s) + 1 \in P
    <3>1. j \in 1..Len(log) /\ j \in Nat
        BY <1>9, <1>10
    <3>2. log[j] = PickTarget(live.lb, id, j)
        BY <1>9, <3>1 DEF PicksInOrder
    <3>3. PickTarget(live.lb, id, j) = pool.nodes[ring[(j % s) + 1]].upstream
        BY <1>5, <1>6 DEF PickTarget
    <3>4. (j % s) + 1 \in 1..s
        BY <1>12, <3>1, DivMod
    <3> QED
        BY <1>7, <3>2, <3>3, <3>4
  <2>2. {j \in (m + 1)..(m + s) : log[j] = upstream}
          = {j \in (m + 1)..(m + s) : (j % s) + 1 \in P}
      BY <2>1
  <2>3. P \in SUBSET (1..s)
      BY <1>7
  <2>4. Cardinality({j \in (m + 1)..(m + s) : (j % s) + 1 \in P}) = Cardinality(P)
      BY <1>10, <1>12, <2>3, OneTurn
  <2> QED
      BY <1>5, <1>6, <1>8, <1>9, <2>2, <2>4
<1> QED
    BY <1>11, <1>12

(* PicksAreWeighted: any turn of consecutive picks from a pool, by whatever calls   *)
(* of ResolveRoute, gives each upstream as many picks as the weights of its         *)
(* enabled nodes come to.                                                          *)
THEOREM WeightedPicks == Spec => []PicksAreWeighted
<1>1. Init => PicksInOrder
    BY DEF Init, NoPicks, PicksInOrder
<1>2. IInv /\ PicksInOrder /\ [Next]_vars => PicksInOrder'
    BY PicksStayInOrder
<1>3. IInv /\ PicksInOrder => PicksAreWeighted
    BY TurnIsWeighted DEF PicksAreWeighted, Weighted
<1> QED
    BY <1>1, <1>2, <1>3, GatewayInvariance, PTL DEF Spec

=============================================================================
