--------------------------- MODULE RouteTablesProofs ---------------------------
(***************************************************************************)
(* The tables compiled from a document, for all documents, hosts, wildcards, *)
(* upstreams and certificates.  Tables are built entry by entry; the lemmas   *)
(* about them are inductions on the number of entries, each by its least      *)
(* counterexample.                                                           *)
(***************************************************************************)
EXTENDS RouteTables, FiniteSetTheorems, WellFoundedInduction, SequenceTheorems, TLAPS

-----------------------------------------------------------------------------
(***************************************************************************)
(* Numbers                                                                  *)
(***************************************************************************)

(* Every nonempty set of natural numbers has a least element; the arguments by    *)
(* induction below take the least counterexample.                                *)
LEMMA LeastNumber ==
    ASSUME NEW T \in SUBSET Nat, T # {}
    PROVE  \E m \in T : \A k \in T : m <= k
<1>1. OpToRel(<, Nat) = {ss \in Nat \X Nat : ss[1] < ss[2]}
    BY DEF OpToRel
<1>2. IsWellFoundedOn({ss \in Nat \X Nat : ss[1] < ss[2]}, Nat)
    BY <1>1, NatLessThanWellFounded
<1>3. PICK m \in T : \A k \in T : <<k, m>> \notin {ss \in Nat \X Nat : ss[1] < ss[2]}
    BY <1>2, WFMin
<1>4. \A k \in T : ~(k < m)
    BY <1>3
<1> QED
    BY <1>4

LEMMA MinIs ==
    ASSUME NEW T \in SUBSET Nat, T # {}
    PROVE  Min(T) \in T /\ \A k \in T : Min(T) <= k
BY LeastNumber DEF Min

LEMMA MaxIs ==
    ASSUME NEW n \in Nat, NEW T \in SUBSET (1..n), T # {}
    PROVE  Max(T) \in T /\ \A k \in T : k <= Max(T)
<1>1. \A i \in T : i \in Int /\ n - i \in Nat
    OBVIOUS
<1>2. PICK U : U = {n - i : i \in T}
    OBVIOUS
<1>3. U \in SUBSET Nat /\ U # {}
    BY <1>1, <1>2
<1>4. PICK m \in U : \A k \in U : m <= k
    BY <1>3, LeastNumber
<1>5. PICK i \in T : m = n - i
    BY <1>2, <1>4
<1>6. \A k \in T : n - i <= n - k
    BY <1>2, <1>4, <1>5
<1>7. \A k \in T : i >= k
    BY <1>1, <1>6
<1>8. Max(T) \in T /\ \A k \in T : Max(T) >= k
    BY <1>7 DEF Max
<1> QED
    BY <1>1, <1>8

-----------------------------------------------------------------------------
(***************************************************************************)
(* The certificate table                                                    *)
(***************************************************************************)

(* What CertificateTable computes for the first n entries. *)
Tabling(f, n, order) ==
    f = [m \in 0..n |-> IF m = 0 THEN [d \in {} |-> None] ELSE Register(f[m-1], order[m])]

LEMMA TablingNext ==
    ASSUME NEW order, NEW n \in Nat, n > 0, NEW f, Tabling(f, n - 1, order)
    PROVE  \E h : Tabling(h, n, order)
<1>1. PICK h : h = [m \in 0..n |-> IF m = n THEN Register(f[n-1], order[n]) ELSE f[m]]
    OBVIOUS
<1>2. ASSUME NEW m \in 0..n
      PROVE  h[m] = IF m = 0 THEN [d \in {} |-> None] ELSE Register(h[m-1], order[m])
  <2>1. CASE m = n
    <3>1. n - 1 \in 0..n /\ n - 1 # n /\ n # 0 /\ n \in 0..n
        OBVIOUS
    <3>2. h[n-1] = f[n-1]
        BY <1>1, <3>1
    <3>3. h[n] = Register(f[n-1], order[n])
        BY <1>1, <3>1
    <3> QED
        BY <2>1, <3>1, <3>2, <3>3
  <2>2. CASE m # n
    <3>1. m \in 0..(n - 1) /\ (m # 0 => m - 1 \in 0..n /\ m - 1 # n)
        BY <2>2
    <3>2. f[m] = IF m = 0 THEN [d \in {} |-> None] ELSE Register(f[m-1], order[m])
        BY <3>1 DEF Tabling
    <3>3. h[m] = f[m] /\ (m # 0 => h[m-1] = f[m-1])
        BY <1>1, <2>2, <3>1
    <3> QED
        BY <3>2, <3>3
  <2> QED
      BY <2>1, <2>2
<1>3. h = [m \in 0..n |-> IF m = 0 THEN [d \in {} |-> None] ELSE Register(h[m-1], order[m])]
    BY <1>1, <1>2
<1> QED
    BY <1>3 DEF Tabling

LEMMA TablingExists ==
    ASSUME NEW order, NEW L \in Nat
    PROVE  \E f : Tabling(f, L, order)
<1>1. PICK Bad : Bad = {n \in 0..L : ~ \E f : Tabling(f, n, order)}
    OBVIOUS
<1>2. ASSUME Bad # {} PROVE FALSE
  <2>1. Bad \in SUBSET Nat
      BY <1>1
  <2>2. PICK n \in Bad : \A k \in Bad : n <= k
      BY <1>2, <2>1, LeastNumber
  <2>3. n \in 0..L /\ n \in Nat /\ ~ \E f : Tabling(f, n, order)
      BY <1>1, <2>2
  <2>4. CASE n = 0
    <3>1. PICK f : f = [m \in 0..0 |-> [d \in {} |-> None]]
        OBVIOUS
    <3>2. f = [m \in 0..0 |-> IF m = 0 THEN [d \in {} |-> None] ELSE Register(f[m-1], order[m])]
        BY <3>1
    <3> QED
        BY <2>3, <2>4, <3>2 DEF Tabling
  <2>5. CASE n # 0
    <3>1. n - 1 \in 0..L /\ n > 0 /\ ~(n <= n - 1)
        BY <2>3, <2>5
    <3>2. n - 1 \notin Bad
        BY <2>2, <3>1
    <3>3. \E f : Tabling(f, n - 1, order)
        BY <1>1, <3>1, <3>2
    <3> QED
        BY <2>3, <3>1, <3>3, TablingNext
  <2> QED
      BY <2>4, <2>5
<1>3. L \in 0..L
    OBVIOUS
<1> QED
    BY <1>1, <1>2, <1>3

(* After n entries a name is in the table when one of them lists it, and then its  *)
(* certificate is that of the last such entry.                                   *)
Overrides(table, n, order, name) ==
    /\ name \in DOMAIN table <=> \E i \in 1..n : name \in order[i].domains
    /\ name \in DOMAIN table =>
          \E i \in 1..n : /\ name \in order[i].domains
                          /\ table[name] = order[i].cert
                          /\ \A j \in 1..n : name \in order[j].domains => j <= i

LEMMA RegisterOverrides ==
    ASSUME NEW order, NEW n \in Nat, n > 0, NEW table, NEW name,
           Overrides(table, n - 1, order, name)
    PROVE  Overrides(Register(table, order[n]), n, order, name)
<1>1. PICK next : next = Register(table, order[n])
    OBVIOUS
<1>2. DOMAIN next = order[n].domains \cup DOMAIN table
    BY <1>1 DEF Register
<1>3. 1..n = 1..(n - 1) \cup {n} /\ \A j \in 1..n : j <= n
    OBVIOUS
<1>4. CASE name \in order[n].domains
  <2>1. next[name] = order[n].cert
      BY <1>1, <1>4 DEF Register
  <2> QED
      BY <1>1, <1>2, <1>3, <1>4, <2>1 DEF Overrides
<1>5. CASE name \notin order[n].domains
  <2>1. name \in DOMAIN next <=> name \in DOMAIN table
      BY <1>2, <1>5
  <2>2. name \in DOMAIN table => next[name] = table[name]
      BY <1>1, <1>5 DEF Register
  <2> QED
      BY <1>1, <1>3, <1>5, <2>1, <2>2 DEF Overrides
<1> QED
    BY <1>4, <1>5

LEMMA TableOverrides ==
    ASSUME NEW doc, NEW S, LoadOrder(doc) \in Seq(S), NEW name
    PROVE  Overrides(CertificateTable(doc), Len(LoadOrder(doc)), LoadOrder(doc), name)
<1>1. PICK order : order = LoadOrder(doc)
    OBVIOUS
<1>2. PICK L \in Nat : L = Len(order)
    BY <1>1
<1>3. PICK f : f = CHOOSE h : Tabling(h, L, order)
    OBVIOUS
<1>4. Tabling(f, L, order)
    BY <1>3, TablingExists
<1>5. CertificateTable(doc) = f[L]
    BY <1>1, <1>2, <1>3 DEF CertificateTable, Tabling
<1>6. \A m \in 0..L : f[m] = IF m = 0 THEN [d \in {} |-> None] ELSE Register(f[m-1], order[m])
    BY <1>4 DEF Tabling
<1>7. PICK Bad : Bad = {n \in 0..L : ~Overrides(f[n], n, order, name)}
    OBVIOUS
<1>8. ASSUME Bad # {} PROVE FALSE
  <2>1. Bad \in SUBSET Nat
      BY <1>7
  <2>2. PICK n \in Bad : \A k \in Bad : n <= k
      BY <1>8, <2>1, LeastNumber
  <2>3. n \in 0..L /\ n \in Nat /\ ~Overrides(f[n], n, order, name)
      BY <1>7, <2>2
  <2>4. CASE n = 0
    <3>1. f[n] = [d \in {} |-> None]
        BY <1>6, <2>3, <2>4
    <3>2. DOMAIN f[n] = {} /\ 1..n = {}
        BY <2>4, <3>1
    <3> QED
        BY <2>3, <3>2 DEF Overrides
  <2>5. CASE n # 0
    <3>1. n - 1 \in 0..L /\ n > 0 /\ ~(n <= n - 1)
        BY <2>3, <2>5
    <3>2. n - 1 \notin Bad
        BY <2>2, <3>1
    <3>3. Overrides(f[n-1], n - 1, order, name)
        BY <1>7, <3>1, <3>2
    <3>4. f[n] = Register(f[n-1], order[n])
        BY <1>6, <2>3, <2>5
    <3> QED
        BY <2>3, <3>1, <3>3, <3>4, RegisterOverrides
  <2> QED
      BY <2>4, <2>5
<1>9. L \in 0..L
    OBVIOUS
<1> QED
    BY <1>1, <1>2, <1>5, <1>7, <1>8, <1>9

(* The entries of a document, as they are registered. *)
Entries == [domains : SUBSET (Domains \cup {None}), cert : Certs \cup {None}]

LEMMA EntriesType ==
    ASSUME NEW doc \in Document
    PROVE  /\ Legacy(doc) \in Seq(Entries) /\ Len(Legacy(doc)) = Len(doc.certificates)
           /\ Managed(doc) \in Seq(Entries)
<1>1. PICK C : C = [domain : Domains \cup {None}, cert : Certs]
    OBVIOUS
<1>2. PICK M : M = [domains : SUBSET Domains, cert : Certs \cup {None}]
    OBVIOUS
<1>3. PICK cs, ms : cs = doc.certificates /\ ms = doc.sslCertificates
    OBVIOUS
<1>4. cs \in Seq(C) /\ ms \in Seq(M)
    BY <1>1, <1>2, <1>3 DEF Document
<1>5. PICK a, b \in Nat : a = Len(cs) /\ b = Len(ms) /\ DOMAIN cs = 1..a /\ DOMAIN ms = 1..b
    BY <1>4
<1>6. (\A i \in 1..a : cs[i] \in C) /\ (\A i \in 1..b : ms[i] \in M)
    BY <1>4, <1>5
<1>7. PICK E : E = Entries
    OBVIOUS
<1>8. Legacy(doc) \in [1..a -> E]
  <2>1. \A i \in 1..a : [domains |-> {cs[i].domain}, cert |-> cs[i].cert] \in E
      BY <1>1, <1>6, <1>7 DEF Entries
  <2>2. Legacy(doc) = [i \in 1..a |-> [domains |-> {cs[i].domain}, cert |-> cs[i].cert]]
      BY <1>3, <1>5 DEF Legacy
  <2> QED
      BY <2>1, <2>2
<1>9. Managed(doc) \in [1..b -> E]
  <2>1. \A i \in 1..b : [domains |-> IF ms[i].cert = None THEN {} ELSE ms[i].domains,
                         cert |-> ms[i].cert] \in E
      BY <1>2, <1>6, <1>7 DEF Entries
  <2>2. Managed(doc) = [i \in 1..b |-> [domains |-> IF ms[i].cert = None THEN {}
                                                     ELSE ms[i].domains,
                                        cert |-> ms[i].cert]]
      BY <1>3, <1>5 DEF Managed
  <2> QED
      BY <2>1, <2>2
<1>10. Legacy(doc) \in Seq(E) /\ Managed(doc) \in Seq(E)
    BY <1>5, <1>8, <1>9, SeqDef
<1>11. Len(Legacy(doc)) = a
    BY <1>5, <1>8, <1>10
<1> QED
    BY <1>3, <1>5, <1>7, <1>10, <1>11

(* The table holds for a name one of the certificates that prevail for it, and    *)
(* that is never an entry without content.                                       *)
LEMMA TableFits ==
    ASSUME NEW doc \in Document, Loadable(doc), NEW name
    PROVE  /\ name \in DOMAIN CertificateTable(doc) <=> Naming(doc, name) # {}
           /\ name \in DOMAIN CertificateTable(doc) =>
                 /\ CertificateTable(doc)[name] \in Naming(doc, name)
                 /\ CertificateTable(doc)[name] # None
<1>1. PICK l, m : l = Legacy(doc) /\ m = Managed(doc)
    OBVIOUS
<1>2. l \in Seq(Entries) /\ m \in Seq(Entries)
    BY <1>1, EntriesType
<1>3. PICK a, b \in Nat : a = Len(l) /\ b = Len(m) /\ DOMAIN l = 1..a /\ DOMAIN m = 1..b
    BY <1>2
<1>4. PICK order : order = l \o m
    OBVIOUS
<1>5. order = LoadOrder(doc) /\ order \in Seq(Entries) /\ Len(order) = a + b
    BY <1>1, <1>2, <1>3, <1>4 DEF LoadOrder
<1>6. /\ \A i \in 1..a : order[i] = l[i]
      /\ \A i \in 1..b : order[a + i] = m[i]
    BY <1>2, <1>3, <1>4
<1>7. PICK table : table = CertificateTable(doc)
    OBVIOUS
<1>8. Overrides(table, a + b, order, name)
    BY <1>5, <1>7, TableOverrides
<1>9. PICK Lc : Lc = {l[i].cert : i \in {j \in 1..a : name \in l[j].domains}}
    OBVIOUS
<1>10. PICK Mc : Mc = {m[i].cert : i \in {j \in 1..b : name \in m[j].domains}}
    OBVIOUS
<1>11. Naming(doc, name) = IF Mc # {} THEN Mc ELSE Lc
    BY <1>1, <1>3, <1>9, <1>10 DEF Naming
<1>12. \A i \in 1..(a + b) : \/ i \in 1..a
                             \/ \E k \in 1..b : i = a + k
  <2>1. ASSUME NEW i \in 1..(a + b), i \notin 1..a
        PROVE  i - a \in 1..b /\ i = a + (i - a)
      BY <2>1
  <2> QED
      BY <2>1
<1>13. \A i \in 1..a : i \in 1..(a + b)
    OBVIOUS
<1>14. \A k \in 1..b : a + k \in 1..(a + b)
    OBVIOUS
<1>15. ASSUME NEW i \in 1..(a + b), name \in order[i].domains
       PROVE  Naming(doc, name) # {}
  <2>1. CASE i \in 1..a
    <3>1. l[i].cert \in Lc
        BY <1>6, <1>9, <1>15, <2>1
    <3> QED
        BY <1>11, <3>1
  <2>2. CASE i \notin 1..a
    <3>1. PICK k \in 1..b : i = a + k
        BY <1>12, <2>2
    <3>2. name \in m[k].domains
        BY <1>6, <1>15, <3>1
    <3>3. m[k].cert \in Mc
        BY <1>10, <3>2
    <3> QED
        BY <1>11, <3>3
  <2> QED
      BY <2>1, <2>2
<1>16. ASSUME Naming(doc, name) # {}
       PROVE  \E i \in 1..(a + b) : name \in order[i].domains
  <2>1. \/ \E k \in 1..b : name \in m[k].domains
        \/ \E i \in 1..a : name \in l[i].domains
      BY <1>9, <1>10, <1>11, <1>16
  <2> QED
      BY <1>6, <1>13, <1>14, <2>1
<1>17. \A i \in 1..a : l[i].cert # None
  <2>1. \A i \in DOMAIN doc.certificates : l[i].cert = doc.certificates[i].cert
      BY <1>1 DEF Legacy
  <2>2. DOMAIN l = DOMAIN doc.certificates
      BY <1>1 DEF Legacy
  <2> QED
      BY <1>3, <2>1, <2>2, CertificatesAssumption DEF Loadable
<1>18. \A k \in 1..b : name \in m[k].domains => m[k].cert # None
    BY <1>1, <1>3 DEF Managed
<1>19. ASSUME name \in DOMAIN table
       PROVE  table[name] \in Naming(doc, name) /\ table[name] # None
  <2>1. PICK i \in 1..(a + b) : /\ name \in order[i].domains
                                /\ table[name] = order[i].cert
                                /\ \A j \in 1..(a + b) : name \in order[j].domains => j <= i
      BY <1>8, <1>19 DEF Overrides
  <2>2. CASE i \in 1..a
    <3>1. ASSUME NEW k \in 1..b, name \in m[k].domains
          PROVE  FALSE
      <4>1. a + k \in 1..(a + b) /\ ~(a + k <= i)
          BY <2>2
      <4> QED
          BY <1>6, <2>1, <3>1, <4>1
    <3>2. Mc = {}
        BY <1>10, <3>1
    <3>3. table[name] = l[i].cert /\ name \in l[i].domains
        BY <1>6, <2>1, <2>2
    <3>4. l[i].cert \in Lc
        BY <1>9, <2>2, <3>3
    <3> QED
        BY <1>11, <1>17, <2>2, <3>2, <3>3, <3>4
  <2>3. CASE i \notin 1..a
    <3>1. PICK k \in 1..b : i = a + k
        BY <1>12, <2>3
    <3>2. table[name] = m[k].cert /\ name \in m[k].domains
        BY <1>6, <2>1, <3>1
    <3>3. m[k].cert \in Mc
        BY <1>10, <3>2
    <3> QED
        BY <1>11, <1>18, <3>2, <3>3
  <2> QED
      BY <2>2, <2>3
<1>20. name \in DOMAIN table <=> Naming(doc, name) # {}
    BY <1>8, <1>15, <1>16 DEF Overrides
<1> QED
    BY <1>7, <1>19, <1>20

LEMMA LookupFits ==
    ASSUME NEW doc \in Document, Loadable(doc), NEW host,
           NEW cert, cert = GetCertificate(doc, host)
    PROVE  /\ Naming(doc, host) # {} => cert \in Naming(doc, host)
           /\ Naming(doc, host) = {} /\ Naming(doc, WildcardOf[host]) # {} =>
                 cert \in Naming(doc, WildcardOf[host])
           /\ doc.certificates # <<>> => cert # None
<1>1. PICK table : table = CertificateTable(doc)
    OBVIOUS
<1>2. PICK wild : wild = WildcardOf[host]
    OBVIOUS
<1>3. cert = IF host \in DOMAIN table THEN table[host]
             ELSE IF wild \in DOMAIN table THEN table[wild]
             ELSE DefaultCert(doc)
    BY <1>1, <1>2 DEF GetCertificate
<1>4. /\ host \in DOMAIN table <=> Naming(doc, host) # {}
      /\ host \in DOMAIN table => table[host] \in Naming(doc, host) /\ table[host] # None
    BY <1>1, TableFits
<1>5. /\ wild \in DOMAIN table <=> Naming(doc, wild) # {}
      /\ wild \in DOMAIN table => table[wild] \in Naming(doc, wild) /\ table[wild] # None
    BY <1>1, TableFits
<1>6. doc.certificates # <<>> => DefaultCert(doc) # None
  <2>1. PICK C : C = [domain : Domains \cup {None}, cert : Certs]
      OBVIOUS
  <2>2. doc.certificates \in Seq(C)
      BY <2>1 DEF Document
  <2>3. doc.certificates # <<>> => 1 \in DOMAIN doc.certificates
      BY <2>2
  <2> QED
      BY <2>3, CertificatesAssumption DEF DefaultCert, Loadable
<1> QED
    BY <1>2, <1>3, <1>4, <1>5, <1>6

-----------------------------------------------------------------------------
(***************************************************************************)
(* Mixed documents                                                          *)
(***************************************************************************)

(* Where the load balancer has neither a rule nor a default pool for a host, the  *)
(* last legacy rule for it answers.                                              *)
LEMMA LegacyAnswers ==
    ASSUME NEW doc \in Document, NEW host, doc.lb.default = None,
           ~hasLoadBalancerRuleForDomain(doc.lb, host), host \in Hosts,
           NEW i \in DOMAIN doc.legacy.domains, doc.legacy.domains[i].domain = host,
           \A j \in DOMAIN doc.legacy.domains : doc.legacy.domains[j].domain = host => j <= i
    PROVE  ResolveRoute(doc, host).target = doc.legacy.domains[i].upstream
<1>1. PICK lb, routes : lb = doc.lb /\ routes = doc.lb.routes
    OBVIOUS
<1>2. PICK RouteType : RouteType = [domain : Domains, pool : Ids \cup {None},
                                    fallback : Ids \cup {None}, force : BOOLEAN]
    OBVIOUS
<1>3. routes \in Seq(RouteType)
    BY <1>1, <1>2 DEF Document
<1>4. DOMAIN routes = 1..Len(routes)
    BY <1>3
<1>5. \A k \in 1..Len(routes) :
         /\ routes[k].domain # host
         /\ ~(routes[k].domain \in Wildcards /\ host \in Matches[routes[k].domain])
    BY <1>1, <1>4 DEF hasLoadBalancerRuleForDomain
<1>6. ExactRoute(lb, host) = 0
  <2>1. {k \in 1..Len(routes) : routes[k].domain = host} = {}
      BY <1>5
  <2> QED
      BY <1>1, <2>1 DEF ExactRoute, SelectLastInSeq
<1>7. WildcardRoute(lb, host) = 0
  <2>1. {k \in 1..Len(routes) : /\ routes[k].domain \in Wildcards
                                /\ host \in Matches[routes[k].domain]
                                /\ ResolvePool(lb, routes[k]) # None} = {}
      BY <1>5
  <2> QED
      BY <1>1, <2>1 DEF WildcardRoute, SelectInSeq
<1>8. ~Usable(lb, lb.default)
    BY <1>1 DEF Usable
<1>9. ResolveRoute(doc, host) = LegacyRoute(doc, host)
    BY <1>1, <1>6, <1>7, <1>8 DEF ResolveRoute
<1>10. PICK rules : rules = doc.legacy.domains
    OBVIOUS
<1>11. PICK RuleType : RuleType = [domain : Domains, upstream : Upstreams \cup {None},
                                   force : BOOLEAN]
    OBVIOUS
<1>12. rules \in Seq(RuleType)
    BY <1>10, <1>11 DEF Document
<1>13. Len(rules) \in Nat /\ DOMAIN rules = 1..Len(rules)
    BY <1>12
<1>14. PICK E : E = {k \in 1..Len(rules) :
                       /\ ~hasLoadBalancerRuleForDomain(doc.lb, rules[k].domain)
                       /\ rules[k].domain = host}
    OBVIOUS
<1>15. i \in E /\ \A k \in E : k <= i
    BY <1>10, <1>13, <1>14
<1>16. Max(E) \in E /\ i <= Max(E)
  <2>1. E \in SUBSET (1..Len(rules)) /\ E # {}
      BY <1>14, <1>15
  <2> QED
      BY <1>13, <1>15, <2>1, MaxIs
<1>17. Max(E) = i
  <2>1. Max(E) \in Int /\ i \in Int
      BY <1>10, <1>13, <1>14, <1>16
  <2> QED
      BY <1>15, <1>16, <2>1
<1>18. i # 0
    BY <1>10, <1>13
<1>19. LegacyRoute(doc, host) = [pool |-> None, target |-> rules[i].upstream,
                                 force |-> rules[i].force]
    BY <1>10, <1>14, <1>15, <1>17, <1>18 DEF LegacyRoute, SelectLastInSeq
<1> QED
    BY <1>9, <1>10, <1>19

-----------------------------------------------------------------------------
(***************************************************************************)
(* Migration                                                                *)
(***************************************************************************)

Tokens == {Token[d] : d \in Domains} \cup {"default"}

MigratedIds == Tokens \X Nat

(* A number that makes the id new is always found: the numbers tried are more     *)
(* than the ids in use.                                                          *)
LEMMA FreshId ==
    ASSUME NEW token, NEW used, IsFiniteSet(used)
    PROVE  /\ buildMigratedPoolID(token, used) \notin used
           /\ \E n \in Nat : buildMigratedPoolID(token, used) = <<token, n>>
<1>1. PICK c \in Nat : c = Cardinality(used)
    BY FS_CardinalityType
<1>2. PICK Free : Free = {n \in 1..(c + 1) : <<token, n>> \notin used}
    OBVIOUS
<1>3. ASSUME Free = {} PROVE FALSE
  <2>1. PICK f : f = [n \in 1..(c + 1) |-> <<token, n>>]
      OBVIOUS
  <2>2. f \in [1..(c + 1) -> used]
      BY <1>2, <1>3, <2>1
  <2>3. \A m, n \in 1..(c + 1) : f[m] = f[n] => m = n
      BY <2>1
  <2>4. f \in Injection(1..(c + 1), used)
      BY <2>2, <2>3 DEF Injection, IsInjective
  <2>5. Cardinality(1..(c + 1)) <= Cardinality(used)
      BY <2>4, FS_Injection
  <2>6. Cardinality(1..(c + 1)) = c + 1
    <3>1. 1 \in Int /\ c + 1 \in Int /\ ~(1 > c + 1) /\ (c + 1) - 1 + 1 = c + 1
        OBVIOUS
    <3> QED
        BY <3>1, FS_Interval
  <2> QED
      BY <1>1, <2>5, <2>6
<1>4. Free \in SUBSET Nat
    BY <1>2
<1>5. PICK m \in Free : \A k \in Free : m <= k
    BY <1>3, <1>4, LeastNumber
<1>6. /\ m \in 1..(c + 1) /\ <<token, m>> \notin used
      /\ \A k \in 1..(m - 1) : <<token, k>> \in used
  <2>1. m \in 1..(c + 1) /\ <<token, m>> \notin used
      BY <1>2
  <2>2. ASSUME NEW k \in 1..(m - 1) PROVE <<token, k>> \in used
    <3>1. k \in 1..(c + 1) /\ ~(m <= k)
        BY <2>1
    <3> QED
        BY <1>2, <1>5, <3>1
  <2> QED
      BY <2>1, <2>2
<1>7. PICK n : n = CHOOSE x \in 1..(c + 1) :
                      /\ <<token, x>> \notin used
                      /\ \A k \in 1..(x - 1) : <<token, k>> \in used
    OBVIOUS
<1>8. n \in 1..(c + 1) /\ <<token, n>> \notin used
    BY <1>6, <1>7
<1>9. buildMigratedPoolID(token, used) = <<token, n>>
    BY <1>1, <1>7 DEF buildMigratedPoolID
<1>10. n \in Nat
    BY <1>8
<1> QED
    BY <1>8, <1>9, <1>10

LEMMA UsedIDsFinite ==
    ASSUME NEW lb, NEW S, lb.pools \in Seq(S)
    PROVE  IsFiniteSet(UsedIDs(lb))
<1>1. PICK pools : pools = lb.pools
    OBVIOUS
<1>2. PICK n \in Nat : n = Len(pools) /\ DOMAIN pools = 1..n
    BY <1>1
<1>3. PICK f : f = [i \in 1..n |-> pools[i].id]
    OBVIOUS
<1>4. UsedIDs(lb) = {f[i] : i \in 1..n}
    BY <1>1, <1>2, <1>3 DEF UsedIDs
<1>5. f \in Surjection(1..n, UsedIDs(lb))
    BY <1>3, <1>4 DEF Surjection, Range
<1>6. IsFiniteSet(1..n)
    BY FS_Interval
<1> QED
    BY <1>5, <1>6, FS_Surjection

MigratedPools ==
    [id : MigratedIds,
     nodes : {<<[upstream |-> u, weight |-> 1, enabled |-> TRUE]>> : u \in Upstreams}]

MigratedRoutes == [domain : Domains, pool : MigratedIds, fallback : {None}, force : BOOLEAN]

Rule == [domain : Domains, upstream : Upstreams \cup {None}, force : BOOLEAN]

RouteOf(rule, id) ==
    [domain |-> rule.domain, pool |-> id, fallback |-> None, force |-> rule.force]

(* No two pools have one id. *)
Distinct(pools) == \A i, j \in 1..Len(pools) : pools[i].id = pools[j].id => i = j

(* The tables that stand for the first n rules.  g gives the rule of each route:   *)
(* routes and their pools keep the order of the rules, rules without an upstream   *)
(* are left out.                                                                 *)
Mirrors(lb, g, size, n, rules) ==
    /\ lb.pools \in Seq(MigratedPools) /\ lb.routes \in Seq(MigratedRoutes)
    /\ size \in Nat /\ Len(lb.routes) = size /\ size <= Len(lb.pools)
    /\ g \in [1..size -> 1..n]
    /\ \A j, k \in 1..size : j < k => g[j] < g[k]
    /\ \A i \in 1..n : rules[i].upstream # None => \E k \in 1..size : g[k] = i
    /\ \A k \in 1..size :
          /\ rules[g[k]].upstream # None
          /\ lb.routes[k] = RouteOf(rules[g[k]], lb.pools[k].id)
          /\ lb.pools[k] = SingleNodePool(lb.pools[k].id, rules[g[k]].upstream)
    /\ Distinct(lb.pools)

Extends(more, pools, id, upstream) ==
    /\ id \in MigratedIds
    /\ more \in Seq(MigratedPools) /\ Len(more) = Len(pools) + 1
    /\ more[Len(more)] = SingleNodePool(id, upstream)
    /\ \A i \in 1..Len(pools) : more[i] = pools[i]
    /\ Distinct(more)

(* Another pool with a new id keeps the others as they are. *)
LEMMA AnotherPool ==
    ASSUME NEW lb, lb.pools \in Seq(MigratedPools), Distinct(lb.pools),
           NEW token \in Tokens, NEW upstream \in Upstreams,
           NEW id, id = buildMigratedPoolID(token, UsedIDs(lb)),
           NEW pools, pools = Append(lb.pools, SingleNodePool(id, upstream))
    PROVE  Extends(pools, lb.pools, id, upstream)
<1>1. id \notin UsedIDs(lb) /\ \E n \in Nat : id = <<token, n>>
    BY UsedIDsFinite, FreshId
<1>2. id \in MigratedIds
    BY <1>1 DEF MigratedIds
<1>3. PICK pool : pool = SingleNodePool(id, upstream)
    OBVIOUS
<1>4. pool \in MigratedPools /\ pool.id = id
    BY <1>2, <1>3 DEF MigratedPools, SingleNodePool
<1>5. PICK n \in Nat : n = Len(lb.pools) /\ DOMAIN lb.pools = 1..n
    OBVIOUS
<1>6. /\ pools \in Seq(MigratedPools) /\ Len(pools) = n + 1
      /\ pools[n + 1] = pool
      /\ \A i \in 1..n : pools[i] = lb.pools[i]
    BY <1>3, <1>4, <1>5
<1>7. \A i \in 1..n : lb.pools[i].id # id
    BY <1>1, <1>5 DEF UsedIDs
<1>8. \A i \in 1..(n + 1) : i \in 1..n \/ i = n + 1
    OBVIOUS
<1>9. \A i, j \in 1..(n + 1) : pools[i].id = pools[j].id => i = j
  <2>1. ASSUME NEW i \in 1..(n + 1), NEW j \in 1..(n + 1), pools[i].id = pools[j].id
        PROVE  i = j
    <3>1. CASE i \in 1..n /\ j \in 1..n
        BY <1>5, <1>6, <2>1, <3>1 DEF Distinct
    <3>2. CASE i = n + 1 /\ j \in 1..n
        BY <1>4, <1>6, <1>7, <2>1, <3>2
    <3>3. CASE i \in 1..n /\ j = n + 1
        BY <1>4, <1>6, <1>7, <2>1, <3>3
    <3>4. CASE i = n + 1 /\ j = n + 1
        BY <3>4
    <3> QED
        BY <1>8, <3>1, <3>2, <3>3, <3>4
  <2> QED
      BY <2>1
<1>10. Distinct(pools)
    BY <1>6, <1>9 DEF Distinct
<1> QED
    BY <1>2, <1>3, <1>5, <1>6, <1>10 DEF Extends

LEMMA RuleMirrored ==
    ASSUME NEW rules \in Seq(Rule), NEW n \in 1..Len(rules), NEW lb, NEW g,
           NEW size, Mirrors(lb, g, size, n - 1, rules),
           Len(lb.pools) = size, lb.default = None,
           lb = [pools |-> lb.pools, routes |-> lb.routes, default |-> lb.default],
           NEW next, next = MigrateRule(lb, rules[n])
    PROVE  \E h, more : /\ Mirrors(next, h, more, n, rules) /\ Len(next.pools) = more
                        /\ next.default = None
                        /\ next = [pools |-> next.pools, routes |-> next.routes,
                                   default |-> next.default]
<1>1. PICK rule \in Rule : rule = rules[n]
    OBVIOUS
<1>2. n \in Nat /\ n - 1 \in Nat /\ Len(rules) \in Nat
    OBVIOUS
<1>3. \A i \in 1..n : i \in 1..(n - 1) \/ i = n
    BY <1>2
<1>4. CASE rule.upstream = None
  <2>1. next = lb
      BY <1>1, <1>4 DEF MigrateRule
  <2>2. g \in [1..size -> 1..n]
    <3>1. g \in [1..size -> 1..(n - 1)] /\ \A i \in 1..(n - 1) : i \in 1..n
        BY <1>2 DEF Mirrors
    <3> QED
        BY <3>1
  <2>3. \A i \in 1..n : rules[i].upstream # None => \E k \in 1..size : g[k] = i
      BY <1>1, <1>3, <1>4 DEF Mirrors
  <2>4. Mirrors(lb, g, size, n, rules)
      BY <2>2, <2>3 DEF Mirrors
  <2> QED
      BY <2>1, <2>4
<1>5. CASE rule.upstream # None
  <2>1. PICK id : id = buildMigratedPoolID(Token[rule.domain], UsedIDs(lb))
      OBVIOUS
  <2>2. PICK pools : pools = Append(lb.pools, SingleNodePool(id, rule.upstream))
      OBVIOUS
  <2>3. PICK routes : routes = Append(lb.routes, RouteOf(rule, id))
      OBVIOUS
  <2>4. rule.domain \in Domains /\ rule.upstream \in Upstreams /\ rule.force \in BOOLEAN
      BY <1>1, <1>5 DEF Rule
  <2>5. /\ lb.pools \in Seq(MigratedPools) /\ lb.routes \in Seq(MigratedRoutes)
        /\ size \in Nat /\ Len(lb.routes) = size /\ Len(lb.pools) = size
        /\ g \in [1..size -> 1..(n - 1)]
        /\ \A j, k \in 1..size : j < k => g[j] < g[k]
        /\ \A i \in 1..(n - 1) : rules[i].upstream # None => \E k \in 1..size : g[k] = i
        /\ \A k \in 1..size :
              /\ rules[g[k]].upstream # None
              /\ lb.routes[k] = RouteOf(rules[g[k]], lb.pools[k].id)
              /\ lb.pools[k] = SingleNodePool(lb.pools[k].id, rules[g[k]].upstream)
        /\ Distinct(lb.pools)
      BY DEF Mirrors
  <2>6. /\ id \in MigratedIds
        /\ pools \in Seq(MigratedPools) /\ Len(pools) = size + 1
        /\ pools[size + 1] = SingleNodePool(id, rule.upstream)
        /\ \A i \in 1..size : pools[i] = lb.pools[i]
        /\ Distinct(pools)
    <3>1. PICK token : token = Token[rule.domain]
        OBVIOUS
    <3>2. PICK upstream : upstream = rule.upstream
        OBVIOUS
    <3>3. token \in Tokens /\ upstream \in Upstreams
        BY <2>4, <3>1, <3>2 DEF Tokens
    <3>4. id = buildMigratedPoolID(token, UsedIDs(lb))
        BY <2>1, <3>1
    <3>5. pools = Append(lb.pools, SingleNodePool(id, upstream))
        BY <2>2, <3>2
    <3>6. Extends(pools, lb.pools, id, upstream)
        BY <2>5, <3>3, <3>4, <3>5, AnotherPool
    <3>7. Len(lb.pools) = size
        BY <2>5
    <3> QED
        BY <3>2, <3>6, <3>7 DEF Extends
  <2>7. /\ routes \in Seq(MigratedRoutes) /\ Len(routes) = size + 1
        /\ routes[size + 1] = RouteOf(rule, id)
        /\ \A i \in 1..size : routes[i] = lb.routes[i]
    <3>1. RouteOf(rule, id) \in MigratedRoutes
        BY <2>4, <2>6 DEF RouteOf, MigratedRoutes
    <3> QED
        BY <2>3, <2>5, <3>1
  <2>8. next = [pools |-> pools, routes |-> routes, default |-> None]
    <3>1. next = [lb EXCEPT !.pools = pools, !.routes = routes]
        BY <1>1, <1>5, <2>1, <2>2, <2>3 DEF MigrateRule, RouteOf
    <3> QED
        BY <3>1
  <2>9. PICK h : h = [k \in 1..(size + 1) |-> IF k = size + 1 THEN n ELSE g[k]]
      OBVIOUS
  <2>10. \A k \in 1..(size + 1) : k \in 1..size \/ k = size + 1
      BY <2>5
  <2>11. /\ h[size + 1] = n
         /\ \A k \in 1..size : h[k] = g[k] /\ g[k] \in 1..(n - 1)
    <3>1. size + 1 \in 1..(size + 1)
        BY <2>5
    <3>2. \A k \in 1..size : k \in 1..(size + 1) /\ k # size + 1
        BY <2>5
    <3> QED
        BY <2>5, <2>9, <3>1, <3>2
  <2>12. h \in [1..(size + 1) -> 1..n]
    <3>1. n \in 1..n /\ \A i \in 1..(n - 1) : i \in 1..n
        BY <1>2
    <3>2. \A k \in 1..(size + 1) : h[k] \in 1..n
        BY <2>10, <2>11, <3>1
    <3> QED
        BY <2>9, <3>2
  <2>13. \A j, k \in 1..(size + 1) : j < k => h[j] < h[k]
    <3>1. ASSUME NEW j \in 1..(size + 1), NEW k \in 1..(size + 1), j < k
          PROVE  h[j] < h[k]
      <4>1. j \in 1..size
          BY <2>5, <3>1
      <4>2. CASE k \in 1..size
          BY <2>5, <2>11, <3>1, <4>1, <4>2
      <4>3. CASE k = size + 1
        <5>1. h[j] \in 1..(n - 1) /\ h[k] = n
            BY <2>11, <4>1, <4>3
        <5> QED
            BY <1>2, <5>1
      <4> QED
          BY <2>10, <4>2, <4>3
    <3> QED
        BY <3>1
  <2>14. \A i \in 1..n : rules[i].upstream # None => \E k \in 1..(size + 1) : h[k] = i
    <3>1. ASSUME NEW i \in 1..n, rules[i].upstream # None
          PROVE  \E k \in 1..(size + 1) : h[k] = i
      <4>1. CASE i \in 1..(n - 1)
        <5>1. PICK k \in 1..size : g[k] = i
            BY <2>5, <3>1, <4>1
        <5>2. k \in 1..(size + 1) /\ h[k] = i
            BY <2>5, <2>11, <5>1
        <5> QED
            BY <5>2
      <4>2. CASE i = n
        <5>1. size + 1 \in 1..(size + 1)
            BY <2>5
        <5> QED
            BY <2>11, <4>2, <5>1
      <4> QED
          BY <1>3, <4>1, <4>2
    <3> QED
        BY <3>1
  <2>15. \A k \in 1..(size + 1) :
            /\ rules[h[k]].upstream # None
            /\ routes[k] = RouteOf(rules[h[k]], pools[k].id)
            /\ pools[k] = SingleNodePool(pools[k].id, rules[h[k]].upstream)
    <3>1. ASSUME NEW k \in 1..(size + 1)
          PROVE  /\ rules[h[k]].upstream # None
                 /\ routes[k] = RouteOf(rules[h[k]], pools[k].id)
                 /\ pools[k] = SingleNodePool(pools[k].id, rules[h[k]].upstream)
      <4>1. CASE k \in 1..size
        <5>1. h[k] = g[k] /\ pools[k] = lb.pools[k] /\ routes[k] = lb.routes[k]
            BY <2>6, <2>7, <2>11, <4>1
        <5> QED
            BY <2>5, <4>1, <5>1
      <4>2. CASE k = size + 1
        <5>1. rules[h[k]] = rule /\ pools[k].id = id
            BY <1>1, <2>6, <2>11, <4>2 DEF SingleNodePool
        <5> QED
            BY <1>5, <2>6, <2>7, <4>2, <5>1
      <4> QED
          BY <2>10, <4>1, <4>2
    <3> QED
        BY <3>1
  <2>16. /\ next.pools = pools /\ next.routes = routes /\ next.default = None
         /\ size + 1 \in Nat /\ size + 1 <= Len(pools)
      BY <2>5, <2>6, <2>8
  <2>17. Mirrors(next, h, size + 1, n, rules)
      BY <2>6, <2>7, <2>12, <2>13, <2>14, <2>15, <2>16 DEF Mirrors
  <2> QED
      BY <2>6, <2>8, <2>16, <2>17
<1> QED
    BY <1>4, <1>5

(* What migrateRoutingToLoadBalancer computes for the first n rules. *)
Migrating(f, n, rules) ==
    f = [m \in 0..n |-> IF m = 0 THEN NoLB ELSE MigrateRule(f[m-1], rules[m])]

LEMMA MigratingNext ==
    ASSUME NEW rules, NEW n \in Nat, n > 0, NEW f, Migrating(f, n - 1, rules)
    PROVE  \E h : Migrating(h, n, rules)
<1>1. PICK h : h = [m \in 0..n |-> IF m = n THEN MigrateRule(f[n-1], rules[n]) ELSE f[m]]
    OBVIOUS
<1>2. ASSUME NEW m \in 0..n
      PROVE  h[m] = IF m = 0 THEN NoLB ELSE MigrateRule(h[m-1], rules[m])
  <2>1. CASE m = n
    <3>1. n - 1 \in 0..n /\ n - 1 # n /\ n # 0 /\ n \in 0..n
        OBVIOUS
    <3>2. h[n-1] = f[n-1]
        BY <1>1, <3>1
    <3>3. h[n] = MigrateRule(f[n-1], rules[n])
        BY <1>1, <3>1
    <3> QED
        BY <2>1, <3>1, <3>2, <3>3
  <2>2. CASE m # n
    <3>1. m \in 0..(n - 1) /\ (m # 0 => m - 1 \in 0..n /\ m - 1 # n)
        BY <2>2
    <3>2. f[m] = IF m = 0 THEN NoLB ELSE MigrateRule(f[m-1], rules[m])
        BY <3>1 DEF Migrating
    <3>3. h[m] = f[m] /\ (m # 0 => h[m-1] = f[m-1])
        BY <1>1, <2>2, <3>1
    <3> QED
        BY <3>2, <3>3
  <2> QED
      BY <2>1, <2>2
<1>3. h = [m \in 0..n |-> IF m = 0 THEN NoLB ELSE MigrateRule(h[m-1], rules[m])]
    BY <1>1, <1>2
<1> QED
    BY <1>3 DEF Migrating

LEMMA MigratingExists ==
    ASSUME NEW rules, NEW L \in Nat
    PROVE  \E f : Migrating(f, L, rules)
<1>1. PICK Bad : Bad = {n \in 0..L : ~ \E f : Migrating(f, n, rules)}
    OBVIOUS
<1>2. ASSUME Bad # {} PROVE FALSE
  <2>1. Bad \in SUBSET Nat
      BY <1>1
  <2>2. PICK n \in Bad : \A k \in Bad : n <= k
      BY <1>2, <2>1, LeastNumber
  <2>3. n \in 0..L /\ n \in Nat /\ ~ \E f : Migrating(f, n, rules)
      BY <1>1, <2>2
  <2>4. CASE n = 0
    <3>1. PICK f : f = [m \in 0..0 |-> NoLB]
        OBVIOUS
    <3>2. f = [m \in 0..0 |-> IF m = 0 THEN NoLB ELSE MigrateRule(f[m-1], rules[m])]
        BY <3>1
    <3> QED
        BY <2>3, <2>4, <3>2 DEF Migrating
  <2>5. CASE n # 0
    <3>1. n - 1 \in 0..L /\ n > 0 /\ ~(n <= n - 1)
        BY <2>3, <2>5
    <3>2. n - 1 \notin Bad
        BY <2>2, <3>1
    <3>3. \E f : Migrating(f, n - 1, rules)
        BY <1>1, <3>1, <3>2
    <3> QED
        BY <2>3, <3>1, <3>3, MigratingNext
  <2> QED
      BY <2>4, <2>5
<1>3. L \in 0..L
    OBVIOUS
<1> QED
    BY <1>1, <1>2, <1>3

(* A document with tables that stand for all its rules. *)
Mirrored(lb, g, size, rules) ==
    /\ Mirrors(lb, g, size, Len(rules), rules)
    /\ Len(lb.pools) = size
    /\ lb = [pools |-> lb.pools, routes |-> lb.routes, default |-> None]

LEMMA RulesMirrored ==
    ASSUME NEW rules \in Seq(Rule), NEW f, Migrating(f, Len(rules), rules)
    PROVE  \E g, size : Mirrored(f[Len(rules)], g, size, rules)
<1>1. PICK L \in Nat : L = Len(rules)
    OBVIOUS
<1>2. \A m \in 0..L : f[m] = IF m = 0 THEN NoLB ELSE MigrateRule(f[m-1], rules[m])
    BY <1>1 DEF Migrating
<1>3. PICK Good : Good = {n \in 0..L : \E g, size :
                            /\ Mirrors(f[n], g, size, n, rules)
                            /\ Len(f[n].pools) = size /\ f[n].default = None
                            /\ f[n] = [pools |-> f[n].pools, routes |-> f[n].routes,
                                       default |-> f[n].default]}
    OBVIOUS
<1>4. PICK Bad : Bad = {n \in 0..L : n \notin Good}
    OBVIOUS
<1>5. ASSUME Bad # {} PROVE FALSE
  <2>1. Bad \in SUBSET Nat
      BY <1>4
  <2>2. PICK n \in Bad : \A k \in Bad : n <= k
      BY <1>5, <2>1, LeastNumber
  <2>3. n \in 0..L /\ n \in Nat /\ n \notin Good
      BY <1>4, <2>2
  <2>4. CASE n = 0
    <3>1. f[n] = [pools |-> <<>>, routes |-> <<>>, default |-> None]
        BY <1>2, <2>3, <2>4 DEF NoLB
    <3>2. PICK g : g = [k \in {} |-> 0]
        OBVIOUS
    <3>3. Mirrors(f[n], g, 0, n, rules)
      <4>1. 1..0 = {} /\ 1..n = {}
          BY <2>4
      <4>2. g \in [1..0 -> 1..n]
          BY <3>2, <4>1
      <4>3. Len(<<>>) = 0 /\ <<>> \in Seq(MigratedPools) /\ <<>> \in Seq(MigratedRoutes)
          OBVIOUS
      <4> QED
          BY <3>1, <4>1, <4>2, <4>3 DEF Mirrors, Distinct
    <3>4. Len(f[n].pools) = 0 /\ f[n].default = None
        BY <3>1
    <3> QED
        BY <1>3, <2>3, <3>1, <3>3, <3>4
  <2>5. CASE n # 0
    <3>1. n - 1 \in 0..L /\ n \in 1..L /\ ~(n <= n - 1)
        BY <2>3, <2>5
    <3>2. n - 1 \in Good
        BY <1>4, <2>2, <3>1
    <3>3. PICK lb : lb = f[n-1]
        OBVIOUS
    <3>4. PICK g, size : /\ Mirrors(lb, g, size, n - 1, rules)
                         /\ Len(lb.pools) = size /\ lb.default = None
                         /\ lb = [pools |-> lb.pools, routes |-> lb.routes, default |-> lb.default]
        BY <1>3, <3>2, <3>3
    <3>5. f[n] = MigrateRule(lb, rules[n])
        BY <1>2, <2>3, <2>5, <3>3
    <3>6. n \in 1..Len(rules)
        BY <1>1, <3>1
    <3>7. \E h, more : /\ Mirrors(f[n], h, more, n, rules) /\ Len(f[n].pools) = more
                       /\ f[n].default = None
                       /\ f[n] = [pools |-> f[n].pools, routes |-> f[n].routes,
                                  default |-> f[n].default]
        BY <3>4, <3>5, <3>6, RuleMirrored
    <3> QED
        BY <1>3, <2>3, <3>7
  <2> QED
      BY <2>4, <2>5
<1>6. L \in Good
  <2>1. L \in 0..L
      BY <1>1
  <2> QED
      BY <1>4, <1>5, <2>1
<1> QED
    BY <1>1, <1>3, <1>6 DEF Mirrored

(* The tables that stand for a whole legacy section: behind the pools of the rules *)
(* comes the one of the default.                                                 *)
Stands(lb, g, size, legacy) ==
    /\ Mirrors(lb, g, size, Len(legacy.domains), legacy.domains)
    /\ legacy.default = None => lb.default = None /\ Len(lb.pools) = size
    /\ legacy.default # None =>
          /\ Len(lb.pools) = size + 1
          /\ lb.pools[size + 1] = SingleNodePool(lb.default, legacy.default)

LEMMA MigrationStands ==
    ASSUME NEW legacy, legacy.domains \in Seq(Rule), legacy.default \in Upstreams \cup {None},
           NEW lb, lb = migrateRoutingToLoadBalancer(legacy)
    PROVE  \E g, size : Stands(lb, g, size, legacy)
<1>1. PICK rules : rules = legacy.domains
    OBVIOUS
<1>2. PICK L \in Nat : L = Len(rules)
    BY <1>1
<1>3. PICK f : f = CHOOSE h : Migrating(h, L, rules)
    OBVIOUS
<1>4. Migrating(f, L, rules)
    BY <1>3, MigratingExists
<1>5. lb = MigrateDefault(f[L], legacy.default)
    BY <1>1, <1>2, <1>3 DEF migrateRoutingToLoadBalancer, Migrating
<1>6. PICK routed : routed = f[L]
    OBVIOUS
<1>7. PICK g, size : Mirrored(routed, g, size, rules)
    BY <1>1, <1>2, <1>4, <1>6, RulesMirrored
<1>8. CASE legacy.default = None
  <2>1. lb = routed
      BY <1>5, <1>6, <1>8 DEF MigrateDefault
  <2>2. routed.default = None
      BY <1>7 DEF Mirrored
  <2> QED
      BY <1>1, <1>7, <1>8, <2>1, <2>2 DEF Stands, Mirrored
<1>9. CASE legacy.default # None
  <2>1. PICK upstream \in Upstreams : upstream = legacy.default
      BY <1>9
  <2>2. PICK id : id = buildMigratedPoolID("default", UsedIDs(routed))
      OBVIOUS
  <2>3. PICK pools : pools = Append(routed.pools, SingleNodePool(id, upstream))
      OBVIOUS
  <2>4. lb = [routed EXCEPT !.pools = pools, !.default = id]
      BY <1>5, <1>6, <1>9, <2>1, <2>2, <2>3 DEF MigrateDefault
  <2>5. routed = [pools |-> routed.pools, routes |-> routed.routes, default |-> None]
      BY <1>7 DEF Mirrored
  <2>6. lb = [pools |-> pools, routes |-> routed.routes, default |-> id]
      BY <2>4, <2>5
  <2>7. lb.pools = pools /\ lb.routes = routed.routes /\ lb.default = id
      BY <2>6
  <2>8. Mirrors(routed, g, size, Len(rules), rules) /\ Len(routed.pools) = size
      BY <1>7 DEF Mirrored
  <2>9. /\ routed.pools \in Seq(MigratedPools) /\ Distinct(routed.pools)
        /\ size \in Nat
      BY <2>8 DEF Mirrors
  <2>10. "default" \in Tokens
      BY DEF Tokens
  <2>11. Extends(pools, routed.pools, id, upstream)
      BY <2>2, <2>3, <2>9, <2>10, AnotherPool
  <2>12. /\ pools \in Seq(MigratedPools) /\ Len(pools) = size + 1
         /\ pools[size + 1] = SingleNodePool(id, upstream)
         /\ \A i \in 1..size : pools[i] = routed.pools[i]
         /\ Distinct(pools)
      BY <2>8, <2>11 DEF Extends
  <2>13. size <= Len(pools)
      BY <2>9, <2>12
  <2>14. Mirrors(lb, g, size, Len(rules), rules)
      BY <2>7, <2>8, <2>12, <2>13 DEF Mirrors
  <2> QED
      BY <1>1, <1>9, <2>1, <2>7, <2>12, <2>14 DEF Stands
<1> QED
    BY <1>8, <1>9

(* A pool of one node of weight one has a ring of one place. *)
LEMMA OnePlace ==
    ASSUME NEW pool, NEW node, pool.nodes = <<node>>, node.weight = 1, node.enabled
    PROVE  Ring(pool) # <<>> /\ EnabledNodes(pool) = {1}
<1>1. DOMAIN pool.nodes = {1} /\ pool.nodes[1] = node
    OBVIOUS
<1>2. EnabledNodes(pool) = {1}
    BY <1>1 DEF EnabledNodes
<1>3. normalizeNodeWeight(1) = 1
  <2>1. MaxNodeWeight \in Nat /\ MaxNodeWeight >= 1
      BY RoutingAssumption
  <2>2. {1, MaxNodeWeight} \in SUBSET Nat /\ {1, MaxNodeWeight} # {}
      BY <2>1
  <2>3. Min({1, MaxNodeWeight}) \in {1, MaxNodeWeight} /\ Min({1, MaxNodeWeight}) <= 1
      BY <2>2, MinIs
  <2>4. Min({1, MaxNodeWeight}) = 1
      BY <2>1, <2>3
  <2> QED
      BY <2>4 DEF normalizeNodeWeight
<1>4. PICK seqs : seqs = [i \in DOMAIN pool.nodes |->
                            [k \in 1..(IF i \in EnabledNodes(pool)
                                       THEN normalizeNodeWeight(pool.nodes[i].weight) ELSE 0)
                               |-> i]]
    OBVIOUS
<1>5. Ring(pool) = FlattenSeq(seqs)
    BY <1>4 DEF Ring
<1>6. PICK places : places = [k \in 1..1 |-> 1]
    OBVIOUS
<1>7. seqs = [i \in 1..1 |-> places]
  <2>1. DOMAIN seqs = 1..1
      BY <1>1, <1>4
  <2>2. seqs[1] = places
      BY <1>1, <1>2, <1>3, <1>4, <1>6
  <2> QED
      BY <1>1, <1>4, <2>1, <2>2
<1>8. Len(seqs) = 1 /\ seqs[1] = places
  <2>1. seqs \in [1..1 -> {places}]
      BY <1>7
  <2>2. seqs \in Seq({places})
      BY <2>1, SeqDef
  <2> QED
      BY <1>7, <2>1, <2>2
<1>9. PICK f : f = CHOOSE h : h = [i \in 1..1 |-> IF i = 1 THEN seqs[i] ELSE h[i-1] \o seqs[i]]
    OBVIOUS
<1>10. f = [i \in 1..1 |-> IF i = 1 THEN seqs[i] ELSE f[i-1] \o seqs[i]]
  <2>1. PICK h : h = [i \in 1..1 |-> seqs[i]]
      OBVIOUS
  <2>2. h = [i \in 1..1 |-> IF i = 1 THEN seqs[i] ELSE h[i-1] \o seqs[i]]
      BY <2>1
  <2> QED
      BY <1>9, <2>2
<1>11. FlattenSeq(seqs) = f[1]
    BY <1>8, <1>9 DEF FlattenSeq
<1>12. f[1] = places
    BY <1>8, <1>10
<1>13. places # <<>>
    BY <1>6
<1> QED
    BY <1>2, <1>5, <1>11, <1>12, <1>13

(* Migrated pools are found by their ids and have a node to pick. *)
Serves(lb, k, id, u) ==
    /\ Usable(lb, id) /\ PoolIndex(lb, id) = k
    /\ {lb.pools[k].nodes[i].upstream : i \in EnabledNodes(lb.pools[k])} = {u}

LEMMA PoolAnswers ==
    ASSUME NEW lb, lb.pools \in Seq(MigratedPools), Distinct(lb.pools),
           NEW k \in 1..Len(lb.pools), NEW u, NEW id,
           lb.pools[k] = SingleNodePool(id, u)
    PROVE  Serves(lb, k, id, u)
<1>1. PICK pools, pool : pools = lb.pools /\ pool = lb.pools[k]
    OBVIOUS
<1>2. PICK n \in Nat : n = Len(pools) /\ DOMAIN pools = 1..n
    BY <1>1
<1>3. pool \in MigratedPools /\ pool.id = id
    BY <1>1, <1>2 DEF SingleNodePool
<1>4. PICK I : I = {i \in 1..n : pools[i].id = id}
    OBVIOUS
<1>5. I = {k}
    BY <1>1, <1>2, <1>3, <1>4 DEF Distinct
<1>6. PoolIndex(lb, id) = IF I # {} THEN Max(I) ELSE 0
    BY <1>1, <1>2, <1>4 DEF PoolIndex, SelectLastInSeq
<1>7. Max(I) = k
  <2>1. I \in SUBSET (1..n) /\ I # {}
      BY <1>4, <1>5
  <2>2. Max(I) \in I
      BY <2>1, MaxIs
  <2> QED
      BY <1>5, <2>2
<1>8. PoolIndex(lb, id) = k /\ k # 0
    BY <1>1, <1>2, <1>5, <1>6, <1>7
<1>9. PICK node : node = [upstream |-> u, weight |-> 1, enabled |-> TRUE]
    OBVIOUS
<1>10. pool.nodes = <<node>>
  <2>1. PICK nodes : nodes = <<node>>
      OBVIOUS
  <2>2. pool = [id |-> id, nodes |-> nodes]
      BY <1>1, <1>9, <2>1 DEF SingleNodePool
  <2> QED
      BY <2>1, <2>2
<1>11. Ring(pool) # <<>> /\ EnabledNodes(pool) = {1}
    BY <1>9, <1>10, OnePlace
<1>12. id # None
  <2>1. id \in MigratedIds
      BY <1>3 DEF MigratedPools
  <2>2. Tokens = {Token[d] : d \in DOMAIN Token} \cup {"default"}
      BY RoutingAssumption DEF Tokens, Domains
  <2> QED
      BY <2>1, <2>2, RoutingAssumption DEF MigratedIds
<1>13. Usable(lb, id)
    BY <1>1, <1>8, <1>11, <1>12 DEF Usable
<1>14. {pool.nodes[i].upstream : i \in EnabledNodes(pool)} = {u}
    BY <1>9, <1>10, <1>11
<1> QED
    BY <1>1, <1>8, <1>13, <1>14 DEF Serves

(* A migrated document passes validateLoadBalancerConfig. *)
LEMMA MigrationValid ==
    ASSUME NEW legacy, legacy.domains \in Seq(Rule), legacy.default \in Upstreams \cup {None},
           NEW lb, lb = migrateRoutingToLoadBalancer(legacy)
    PROVE  ValidLB(lb)
<1>1. PICK g, size : Stands(lb, g, size, legacy)
    BY MigrationStands
<1>2. PICK pools, routes : pools = lb.pools /\ routes = lb.routes
    OBVIOUS
<1>3. /\ pools \in Seq(MigratedPools) /\ routes \in Seq(MigratedRoutes) /\ Distinct(pools)
      /\ size \in Nat /\ Len(routes) = size /\ size <= Len(pools)
      /\ \A k \in 1..size : routes[k] = RouteOf(legacy.domains[g[k]], pools[k].id)
    BY <1>1, <1>2 DEF Stands, Mirrors
<1>4. PICK n \in Nat : n = Len(pools) /\ DOMAIN pools = 1..n /\ DOMAIN routes = 1..size
    BY <1>3
<1>5. PICK ids : ids = {pools[i].id : i \in 1..n}
    OBVIOUS
<1>6. \A i, j \in 1..n : pools[i].id = pools[j].id => i = j
    BY <1>3, <1>4 DEF Distinct
<1>7. ASSUME NEW i \in 1..n PROVE ValidPool(pools[i])
  <2>1. pools[i] \in MigratedPools
      BY <1>3, <1>4
  <2>2. pools[i].nodes \in {<<[upstream |-> u, weight |-> 1, enabled |-> TRUE]>> : u \in Upstreams}
      BY <2>1 DEF MigratedPools
  <2>3. PICK u \in Upstreams : pools[i].nodes = <<[upstream |-> u, weight |-> 1, enabled |-> TRUE]>>
      BY <2>2
  <2>4. PICK node : node = [upstream |-> u, weight |-> 1, enabled |-> TRUE]
      OBVIOUS
  <2>5. pools[i].nodes = <<node>>
      BY <2>3, <2>4
  <2>6. DOMAIN pools[i].nodes = {1} /\ pools[i].nodes[1] = node
      BY <2>5
  <2>7. node.weight = 1 /\ node.upstream # None
      BY <2>4, RoutingAssumption
  <2> QED
      BY <2>6, <2>7 DEF ValidPool
<1>8. lb.default \in ids \cup {None}
  <2>1. CASE legacy.default = None
      BY <1>1, <2>1 DEF Stands
  <2>2. CASE legacy.default # None
    <3>1. n = size + 1 /\ pools[n] = SingleNodePool(lb.default, legacy.default)
        BY <1>1, <1>2, <1>4, <2>2 DEF Stands
    <3>2. pools[n].id = lb.default /\ n \in 1..n
        BY <1>3, <3>1 DEF SingleNodePool
    <3> QED
        BY <1>5, <3>2
  <2> QED
      BY <2>1, <2>2
<1>9. \A k \in 1..size : routes[k].pool \in ids /\ routes[k].fallback = None
  <2>1. \A k \in 1..size : routes[k].pool = pools[k].id /\ routes[k].fallback = None
      BY <1>3 DEF RouteOf
  <2>2. \A k \in 1..size : k \in 1..n
      BY <1>3, <1>4
  <2> QED
      BY <1>5, <2>1, <2>2
<1>10. {lb.pools[i].id : i \in DOMAIN lb.pools} = ids
    BY <1>2, <1>4, <1>5
<1>11. \A i, j \in DOMAIN lb.pools : lb.pools[i].id = lb.pools[j].id => i = j
    BY <1>2, <1>4, <1>6
<1>12. \A i \in DOMAIN lb.pools : ValidPool(lb.pools[i])
    BY <1>2, <1>4, <1>7
<1>13. \A i \in DOMAIN lb.routes : /\ lb.routes[i].pool \in ids
                                  /\ lb.routes[i].fallback \in ids \cup {None}
    BY <1>2, <1>4, <1>9
<1> QED
    BY <1>8, <1>10, <1>11, <1>12, <1>13 DEF ValidLB

-----------------------------------------------------------------------------
(***************************************************************************)
(* Migration preserves routing                                              *)
(***************************************************************************)

(* The rules with an upstream for a host: exact ones, and wildcards. *)
ExactRules(rules, host) ==
    {i \in 1..Len(rules) : rules[i].upstream # None /\ rules[i].domain = host}

WildcardRules(rules, host) ==
    {i \in 1..Len(rules) : /\ rules[i].upstream # None
                           /\ rules[i].domain \in Wildcards /\ host \in Matches[rules[i].domain]}

Answer(force, upstream) == [force |-> force, targets |-> {upstream}]

(* What the legacy tables answer. *)
LegacyAnswer(legacy, host) ==
    LET rules == legacy.domains
        exact == ExactRules(rules, host)
        wild  == WildcardRules(rules, host)
    IN  IF exact # {} THEN Answer(rules[Max(exact)].force, rules[Max(exact)].upstream)
        ELSE IF wild # {} THEN Answer(rules[Min(wild)].force, rules[Min(wild)].upstream)
        ELSE Answer(FALSE, legacy.default)

LEMMA NoBinding ==
    ASSUME NEW lb, ~hasLoadBalancerBinding(lb), NEW host
    PROVE  /\ ExactRoute(lb, host) = 0 /\ WildcardRoute(lb, host) = 0
           /\ ~Usable(lb, lb.default)
           /\ \A domain : ~hasLoadBalancerRuleForDomain(lb, domain)
<1>1. lb.routes = <<>> /\ lb.default = None
    BY DEF hasLoadBalancerBinding
<1>2. PICK routes : routes = lb.routes
    OBVIOUS
<1>3. 1..Len(routes) = {} /\ DOMAIN routes = {}
    BY <1>1, <1>2
<1>4. ExactRoute(lb, host) = 0
  <2>1. {i \in 1..Len(routes) : routes[i].domain = host} = {}
      BY <1>3
  <2> QED
      BY <1>2, <2>1 DEF ExactRoute, SelectLastInSeq
<1>5. WildcardRoute(lb, host) = 0
  <2>1. {i \in 1..Len(routes) : /\ routes[i].domain \in Wildcards
                                /\ host \in Matches[routes[i].domain]
                                /\ ResolvePool(lb, routes[i]) # None} = {}
      BY <1>3
  <2> QED
      BY <1>2, <2>1 DEF WildcardRoute, SelectInSeq
<1> QED
    BY <1>1, <1>2, <1>3, <1>4, <1>5 DEF Usable, hasLoadBalancerRuleForDomain

LEMMA LegacyOutcome ==
    ASSUME NEW doc \in Document, ~hasLoadBalancerBinding(doc.lb), NEW host \in Hosts
    PROVE  Outcome(Complete(doc), host) = LegacyAnswer(doc.legacy, host)
<1>1. PICK rules : rules = doc.legacy.domains
    OBVIOUS
<1>2. rules \in Seq(Rule) /\ doc.legacy.default \in Upstreams \cup {None}
    BY <1>1 DEF Document, Rule
<1>3. PICK L \in Nat : L = Len(rules) /\ DOMAIN rules = 1..L
    BY <1>2
<1>4. PICK whole : whole = [i \in 1..L |-> IF rules[i].upstream = None
                                          THEN [rules[i] EXCEPT !.domain = None] ELSE rules[i]]
    OBVIOUS
<1>5. PICK full : full = Complete(doc)
    OBVIOUS
<1>6. full.lb = doc.lb /\ full.legacy.domains = whole /\ full.legacy.default = doc.legacy.default
  <2>1. full = [doc EXCEPT !.legacy.domains = whole]
      BY <1>1, <1>3, <1>4, <1>5 DEF Complete
  <2>2. PICK legacy : legacy = [doc.legacy EXCEPT !.domains = whole]
      OBVIOUS
  <2>3. full = [doc EXCEPT !.legacy = legacy]
      BY <2>1, <2>2
  <2>4. full.lb = doc.lb /\ full.legacy = legacy
      BY <2>3 DEF Document
  <2>5. legacy.domains = whole /\ legacy.default = doc.legacy.default
      BY <2>2 DEF Document
  <2> QED
      BY <2>4, <2>5
<1>7. Len(whole) = L
  <2>1. PICK T : T = {whole[i] : i \in 1..L}
      OBVIOUS
  <2>2. whole \in [1..L -> T]
      BY <1>4, <2>1
  <2>3. whole \in Seq(T)
      BY <2>2, SeqDef
  <2> QED
      BY <1>4, <2>3
<1>8. \A i \in 1..L : /\ rules[i].upstream # None => whole[i] = rules[i]
                      /\ rules[i].upstream = None => whole[i].domain = None
  <2>1. \A i \in 1..L : rules[i] \in Rule
      BY <1>2, <1>3
  <2> QED
      BY <1>4, <2>1 DEF Rule
<1>9. host # None /\ None \notin Wildcards
    BY RoutingAssumption
<1>10. PICK E, W : E = ExactRules(rules, host) /\ W = WildcardRules(rules, host)
    OBVIOUS
<1>11. \A d : ~hasLoadBalancerRuleForDomain(full.lb, d)
    BY <1>6, NoBinding
<1>12. E = {i \in 1..Len(whole) : /\ ~hasLoadBalancerRuleForDomain(full.lb, whole[i].domain)
                                  /\ whole[i].domain = host}
    BY <1>3, <1>7, <1>8, <1>9, <1>10, <1>11 DEF ExactRules
<1>13. W = {i \in 1..Len(whole) : /\ ~hasLoadBalancerRuleForDomain(full.lb, whole[i].domain)
                                  /\ whole[i].domain \in Wildcards
                                  /\ host \in Matches[whole[i].domain]}
    BY <1>3, <1>7, <1>8, <1>9, <1>10, <1>11 DEF WildcardRules
<1>14. PICK route : route = ResolveRoute(full, host)
    OBVIOUS
<1>15. route = LegacyRoute(full, host)
    BY <1>6, <1>14, NoBinding DEF ResolveRoute
<1>16. CASE E # {}
  <2>1. E \in SUBSET (1..L)
      BY <1>3, <1>10 DEF ExactRules
  <2>2. Max(E) \in E
      BY <1>16, <2>1, MaxIs
  <2>3. Max(E) \in 1..L /\ Max(E) # 0 /\ rules[Max(E)].upstream # None
      BY <1>3, <1>10, <2>2 DEF ExactRules
  <2>4. route = [pool |-> None, target |-> whole[Max(E)].upstream, force |-> whole[Max(E)].force]
      BY <1>6, <1>12, <1>15, <1>16, <2>3 DEF LegacyRoute, SelectLastInSeq
  <2>5. whole[Max(E)] = rules[Max(E)]
      BY <1>8, <2>3
  <2>6. Outcome(full, host) = Answer(rules[Max(E)].force, rules[Max(E)].upstream)
      BY <1>14, <2>4, <2>5 DEF Outcome, Answer
  <2> QED
      BY <1>1, <1>5, <1>10, <1>16, <2>6 DEF LegacyAnswer
<1>17. CASE E = {} /\ W # {}
  <2>1. W \in SUBSET Nat
      BY <1>10 DEF WildcardRules
  <2>2. Min(W) \in W
      BY <1>17, <2>1, MinIs
  <2>3. Min(W) \in 1..L /\ Min(W) # 0 /\ rules[Min(W)].upstream # None
      BY <1>3, <1>10, <2>2 DEF WildcardRules
  <2>4. route = [pool |-> None, target |-> whole[Min(W)].upstream, force |-> whole[Min(W)].force]
      BY <1>6, <1>12, <1>13, <1>15, <1>17, <2>3 DEF LegacyRoute, SelectLastInSeq, SelectInSeq
  <2>5. whole[Min(W)] = rules[Min(W)]
      BY <1>8, <2>3
  <2>6. Outcome(full, host) = Answer(rules[Min(W)].force, rules[Min(W)].upstream)
      BY <1>14, <2>4, <2>5 DEF Outcome, Answer
  <2> QED
      BY <1>1, <1>5, <1>10, <1>17, <2>6 DEF LegacyAnswer
<1>18. CASE E = {} /\ W = {}
  <2>1. full.lb.default = None
      BY <1>6 DEF hasLoadBalancerBinding
  <2>2. route = IF doc.legacy.default # None THEN [NoRoute EXCEPT !.target = doc.legacy.default]
                ELSE NoRoute
      BY <1>6, <1>12, <1>13, <1>15, <1>18, <2>1 DEF LegacyRoute, SelectLastInSeq, SelectInSeq
  <2>3. route = [pool |-> None, target |-> doc.legacy.default, force |-> FALSE]
      BY <2>2 DEF NoRoute
  <2>4. Outcome(full, host) = Answer(FALSE, doc.legacy.default)
      BY <1>14, <2>3 DEF Outcome, Answer
  <2> QED
      BY <1>1, <1>5, <1>10, <1>18, <2>4 DEF LegacyAnswer
<1> QED
    BY <1>16, <1>17, <1>18

(* An increasing g maps K onto E, and nothing else into it. *)
Onto(g, size, L, K, E) ==
    /\ size \in Nat /\ L \in Nat /\ g \in [1..size -> 1..L]
    /\ \A j, k \in 1..size : j < k => g[j] < g[k]
    /\ K \in SUBSET (1..size) /\ E \in SUBSET (1..L)
    /\ \A k \in 1..size : k \in K <=> g[k] \in E
    /\ \A i \in E : \E k \in 1..size : g[k] = i

(* A mapping that keeps the order maps the first to the first, the last to the last. *)
LEMMA OrderKept ==
    ASSUME NEW g, NEW size, NEW L, NEW K, NEW E, Onto(g, size, L, K, E)
    PROVE  /\ K = {} <=> E = {}
           /\ K # {} => g[Max(K)] = Max(E) /\ g[Min(K)] = Min(E)
<1> USE DEF Onto
<1>1. K = {} <=> E = {}
    OBVIOUS
<1>2. ASSUME K # {} PROVE g[Max(K)] = Max(E) /\ g[Min(K)] = Min(E)
  <2>1. E # {} /\ K \in SUBSET Nat /\ E \in SUBSET Nat
    <3>1. \A k \in 1..size : k \in Nat
        OBVIOUS
    <3>2. \A i \in 1..L : i \in Nat
        OBVIOUS
    <3> QED
        BY <1>1, <1>2, <3>1, <3>2
  <2>2. Max(K) \in K /\ \A k \in K : k <= Max(K)
      BY <1>2, MaxIs
  <2>3. Max(E) \in E /\ \A i \in E : i <= Max(E)
      BY <2>1, MaxIs
  <2>4. Min(K) \in K /\ \A k \in K : Min(K) <= k
      BY <1>2, <2>1, MinIs
  <2>5. Min(E) \in E /\ \A i \in E : Min(E) <= i
      BY <2>1, MinIs
  <2>6. g[Max(K)] = Max(E)
    <3>1. PICK k \in 1..size : g[k] = Max(E)
        BY <2>3
    <3>2. k \in K /\ k <= Max(K)
        BY <2>2, <2>3, <3>1
    <3>3. g[Max(K)] \in E /\ g[Max(K)] <= Max(E)
        BY <2>2, <2>3
    <3>4. Max(K) \in 1..size /\ g[Max(K)] \in 1..L /\ g[k] \in 1..L
        BY <2>2, <3>1
    <3>5. k = Max(K) \/ k < Max(K)
        BY <3>1, <3>2, <3>4
    <3>6. g[k] <= g[Max(K)]
        BY <3>1, <3>4, <3>5
    <3> QED
        BY <3>1, <3>3, <3>4, <3>6
  <2>7. g[Min(K)] = Min(E)
    <3>1. PICK k \in 1..size : g[k] = Min(E)
        BY <2>5
    <3>2. k \in K /\ Min(K) <= k
        BY <2>4, <2>5, <3>1
    <3>3. g[Min(K)] \in E /\ Min(E) <= g[Min(K)]
        BY <2>4, <2>5
    <3>4. Min(K) \in 1..size /\ g[Min(K)] \in 1..L /\ g[k] \in 1..L
        BY <2>4, <3>1
    <3>5. k = Min(K) \/ Min(K) < k
        BY <3>1, <3>2, <3>4
    <3>6. g[Min(K)] <= g[k]
        BY <3>1, <3>4, <3>5
    <3> QED
        BY <3>1, <3>3, <3>4, <3>6
  <2> QED
      BY <2>6, <2>7
<1> QED
    BY <1>1, <1>2

(* What the migrated tables answer is what the legacy tables answered. *)
LEMMA MigratedOutcome ==
    ASSUME NEW legacy, legacy.domains \in Seq(Rule), legacy.default \in Upstreams \cup {None},
           NEW doc, doc.lb = migrateRoutingToLoadBalancer(legacy), doc.legacy = NoLegacy,
           NEW host \in Hosts
    PROVE  Outcome(doc, host) = LegacyAnswer(legacy, host)
<1>1. PICK lb, pools, routes, rules : /\ lb = doc.lb /\ pools = lb.pools /\ routes = lb.routes
                                      /\ rules = legacy.domains
    OBVIOUS
<1>2. PICK g, size : Stands(lb, g, size, legacy)
    BY <1>1, MigrationStands
<1>3. PICK L \in Nat : L = Len(rules) /\ rules \in Seq(Rule) /\ DOMAIN rules = 1..L
    BY <1>1
<1>4. /\ lb.pools \in Seq(MigratedPools) /\ routes \in Seq(MigratedRoutes) /\ Distinct(lb.pools)
      /\ size \in Nat /\ Len(routes) = size /\ size <= Len(pools)
      /\ g \in [1..size -> 1..L]
      /\ \A j, k \in 1..size : j < k => g[j] < g[k]
      /\ \A i \in 1..L : rules[i].upstream # None => \E k \in 1..size : g[k] = i
      /\ \A k \in 1..size : /\ rules[g[k]].upstream # None
                            /\ routes[k] = RouteOf(rules[g[k]], pools[k].id)
                            /\ pools[k] = SingleNodePool(pools[k].id, rules[g[k]].upstream)
    BY <1>1, <1>2, <1>3 DEF Stands, Mirrors
<1>5. ASSUME NEW k \in 1..size
      PROVE  /\ ResolvePool(lb, routes[k]) = pools[k].id /\ pools[k].id # None
             /\ PoolIndex(lb, pools[k].id) = k
             /\ {pools[k].nodes[i].upstream : i \in EnabledNodes(pools[k])}
                   = {rules[g[k]].upstream}
  <2>1. k \in 1..Len(lb.pools)
      BY <1>1, <1>4
  <2>2. lb.pools[k] = SingleNodePool(pools[k].id, rules[g[k]].upstream)
      BY <1>1, <1>4
  <2>3. /\ Usable(lb, pools[k].id) /\ PoolIndex(lb, pools[k].id) = k
        /\ {lb.pools[k].nodes[i].upstream : i \in EnabledNodes(lb.pools[k])}
              = {rules[g[k]].upstream}
    <3>1. Serves(lb, k, pools[k].id, rules[g[k]].upstream)
        BY <1>4, <2>1, <2>2, PoolAnswers
    <3> QED
        BY <3>1 DEF Serves
  <2>4. pools[k].id # None
      BY <2>3 DEF Usable
  <2>5. routes[k].pool = pools[k].id
      BY <1>4 DEF RouteOf
  <2>6. ResolvePool(lb, routes[k]) = pools[k].id
      BY <2>3, <2>5 DEF ResolvePool
  <2> QED
      BY <1>1, <2>3, <2>4, <2>6
<1>6. \A k \in 1..size : /\ g[k] \in 1..L
                         /\ routes[k].domain = rules[g[k]].domain
                         /\ routes[k].force = rules[g[k]].force
    BY <1>4 DEF RouteOf
<1>7. PICK X, Y : /\ X = {k \in 1..Len(routes) : routes[k].domain = host}
                  /\ Y = {k \in 1..Len(routes) : /\ routes[k].domain \in Wildcards
                                                 /\ host \in Matches[routes[k].domain]
                                                 /\ ResolvePool(lb, routes[k]) # None}
    OBVIOUS
<1>8. PICK E, W : E = ExactRules(rules, host) /\ W = WildcardRules(rules, host)
    OBVIOUS
<1>9. /\ X \in SUBSET (1..size) /\ Y \in SUBSET (1..size)
      /\ E \in SUBSET (1..L) /\ W \in SUBSET (1..L)
    BY <1>3, <1>4, <1>7, <1>8 DEF ExactRules, WildcardRules
<1>10. \A i \in E \cup W : \E k \in 1..size : g[k] = i
    BY <1>3, <1>4, <1>8 DEF ExactRules, WildcardRules
<1>11. \A k \in 1..size : k \in X <=> g[k] \in E
    BY <1>3, <1>4, <1>6, <1>7, <1>8 DEF ExactRules
<1>12. \A k \in 1..size : k \in Y <=> g[k] \in W
  <2>1. \A k \in 1..size : ResolvePool(lb, routes[k]) # None
      BY <1>5
  <2> QED
      BY <1>3, <1>4, <1>6, <1>7, <1>8, <2>1 DEF WildcardRules
<1>13. /\ X = {} <=> E = {}
       /\ X # {} => g[Max(X)] = Max(E)
  <2>1. Onto(g, size, L, X, E)
      BY <1>4, <1>9, <1>10, <1>11 DEF Onto
  <2> QED
      BY <2>1, OrderKept
<1>14. /\ Y = {} <=> W = {}
       /\ Y # {} => g[Min(Y)] = Min(W)
  <2>1. Onto(g, size, L, Y, W)
      BY <1>4, <1>9, <1>10, <1>12 DEF Onto
  <2> QED
      BY <2>1, OrderKept
<1>15. /\ ExactRoute(lb, host) = IF X = {} THEN 0 ELSE Max(X)
       /\ WildcardRoute(lb, host) = IF Y = {} THEN 0 ELSE Min(Y)
  <2>1. ExactRoute(lb, host) = IF X = {} THEN 0 ELSE Max(X)
      BY <1>1, <1>7 DEF ExactRoute, SelectLastInSeq
  <2>2. WildcardRoute(lb, host) = IF Y = {} THEN 0 ELSE Min(Y)
      BY <1>1, <1>7 DEF WildcardRoute, SelectInSeq
  <2> QED
      BY <2>1, <2>2
<1>16. PICK route : route = ResolveRoute(doc, host)
    OBVIOUS
<1>17. ASSUME NEW k \in 1..size,
              route = [pool |-> pools[k].id, target |-> None, force |-> routes[k].force]
       PROVE  Outcome(doc, host) = Answer(rules[g[k]].force, rules[g[k]].upstream)
  <2>1. /\ pools[k].id # None /\ PoolIndex(lb, pools[k].id) = k
        /\ {pools[k].nodes[i].upstream : i \in EnabledNodes(pools[k])} = {rules[g[k]].upstream}
      BY <1>5
  <2>2. route.pool = pools[k].id /\ route.force = rules[g[k]].force
      BY <1>6, <1>17
  <2>3. doc.lb.pools[PoolIndex(doc.lb, route.pool)] = pools[k]
      BY <1>1, <2>1, <2>2
  <2>4. Outcome(doc, host) = [force |-> route.force,
          targets |-> {pools[k].nodes[i].upstream : i \in EnabledNodes(pools[k])}]
      BY <1>16, <2>1, <2>2, <2>3 DEF Outcome
  <2> QED
      BY <2>1, <2>2, <2>4 DEF Answer
<1>18. CASE E # {}
  <2>1. X # {} /\ g[Max(X)] = Max(E)
      BY <1>13, <1>18
  <2>2. Max(X) \in X
      BY <1>4, <1>9, <2>1, MaxIs
  <2>3. PICK k : k = Max(X)
      OBVIOUS
  <2>4. k \in 1..size /\ k # 0 /\ ExactRoute(lb, host) = k
    <3>1. k \in 1..size
        BY <1>9, <2>2, <2>3
    <3>2. k # 0
        BY <1>4, <3>1
    <3> QED
        BY <1>15, <2>1, <2>3, <3>1, <3>2
  <2>5. ResolvePool(lb, routes[k]) = pools[k].id /\ pools[k].id # None
      BY <1>5, <2>4
  <2>6. route = [pool |-> pools[k].id, target |-> None, force |-> routes[k].force]
      BY <1>1, <1>16, <2>4, <2>5 DEF ResolveRoute
  <2>7. Outcome(doc, host) = Answer(rules[Max(E)].force, rules[Max(E)].upstream)
      BY <1>17, <2>1, <2>3, <2>4, <2>6
  <2> QED
      BY <1>1, <1>8, <1>18, <2>7 DEF LegacyAnswer
<1>19. CASE E = {} /\ W # {}
  <2>1. X = {} /\ Y # {} /\ g[Min(Y)] = Min(W)
      BY <1>13, <1>14, <1>19
  <2>2. Min(Y) \in Y
    <3>1. Y \in SUBSET Nat
        BY <1>9
    <3> QED
        BY <2>1, <3>1, MinIs
  <2>3. PICK k : k = Min(Y)
      OBVIOUS
  <2>4. k \in 1..size /\ k # 0 /\ ExactRoute(lb, host) = 0 /\ WildcardRoute(lb, host) = k
    <3>1. k \in 1..size
        BY <1>9, <2>2, <2>3
    <3>2. k # 0
        BY <1>4, <3>1
    <3> QED
        BY <1>15, <2>1, <2>3, <3>1, <3>2
  <2>5. ResolvePool(lb, routes[k]) = pools[k].id /\ pools[k].id # None
      BY <1>5, <2>4
  <2>6. route = [pool |-> pools[k].id, target |-> None, force |-> routes[k].force]
      BY <1>1, <1>16, <2>4, <2>5 DEF ResolveRoute
  <2>7. Outcome(doc, host) = Answer(rules[Min(W)].force, rules[Min(W)].upstream)
      BY <1>17, <2>1, <2>3, <2>4, <2>6
  <2> QED
      BY <1>1, <1>8, <1>19, <2>7 DEF LegacyAnswer
<1>20. CASE E = {} /\ W = {}
  <2>1. ExactRoute(lb, host) = 0 /\ WildcardRoute(lb, host) = 0
      BY <1>13, <1>14, <1>15, <1>20
  <2>2. CASE legacy.default # None
    <3>1. /\ size + 1 \in 1..Len(lb.pools)
          /\ lb.pools[size + 1] = SingleNodePool(lb.default, legacy.default)
        BY <1>2, <1>4, <2>2 DEF Stands
    <3>2. PICK k : k = size + 1
        OBVIOUS
    <3>3. /\ Usable(lb, lb.default) /\ PoolIndex(lb, lb.default) = k
          /\ {lb.pools[k].nodes[i].upstream : i \in EnabledNodes(lb.pools[k])}
                = {legacy.default}
      <4>1. Serves(lb, k, lb.default, legacy.default)
          BY <1>4, <3>1, <3>2, PoolAnswers
      <4> QED
          BY <4>1 DEF Serves
    <3>4. lb.default # None
        BY <3>3 DEF Usable
    <3>5. route = [pool |-> lb.default, target |-> None, force |-> FALSE]
        BY <1>1, <1>16, <2>1, <3>3 DEF ResolveRoute, NoRoute
    <3>6. route.pool = lb.default /\ route.force = FALSE
        BY <3>5
    <3>7. Outcome(doc, host) = [force |-> route.force,
            targets |-> {lb.pools[k].nodes[i].upstream : i \in EnabledNodes(lb.pools[k])}]
      <4>1. doc.lb.pools[PoolIndex(doc.lb, route.pool)] = lb.pools[k]
          BY <1>1, <3>3, <3>6
      <4> QED
          BY <1>16, <3>4, <3>6, <4>1 DEF Outcome
    <3> QED
        BY <1>1, <1>8, <1>20, <3>3, <3>6, <3>7 DEF LegacyAnswer, Answer
  <2>3. CASE legacy.default = None
    <3>1. lb.default = None
        BY <1>2, <2>3 DEF Stands
    <3>2. ~Usable(lb, lb.default)
        BY <3>1 DEF Usable
    <3>3. route = LegacyRoute(doc, host)
        BY <1>1, <1>16, <2>1, <3>2 DEF ResolveRoute
    <3>4. doc.legacy.domains = <<>> /\ doc.legacy.default = None
        BY DEF NoLegacy
    <3>5. 1..Len(doc.legacy.domains) = {}
        BY <3>4
    <3>6. route = NoRoute
        BY <3>3, <3>4, <3>5 DEF LegacyRoute, SelectLastInSeq, SelectInSeq
    <3>7. Outcome(doc, host) = Answer(FALSE, None)
        BY <1>16, <3>6 DEF Outcome, NoRoute, Answer
    <3> QED
        BY <1>1, <1>8, <1>20, <2>3, <3>7 DEF LegacyAnswer
  <2> QED
      BY <2>2, <2>3
<1> QED
    BY <1>18, <1>19, <1>20

-----------------------------------------------------------------------------
(***************************************************************************)
(* The document in force                                                    *)
(***************************************************************************)

Migrates(doc) == ~hasLoadBalancerBinding(doc.lb) /\ hasLegacyRouting(doc.legacy)

LEMMA LegacyType ==
    ASSUME NEW doc \in Document
    PROVE  doc.legacy.domains \in Seq(Rule) /\ doc.legacy.default \in Upstreams \cup {None}
BY DEF Document, Rule

LEMMA PrepareIs ==
    ASSUME NEW doc \in Document
    PROVE  /\ ~Migrates(doc) => Prepare(doc) = doc
           /\ Migrates(doc) => /\ Prepare(doc).lb = migrateRoutingToLoadBalancer(doc.legacy)
                              /\ Prepare(doc).legacy = NoLegacy
           /\ Prepare(doc).certificates = doc.certificates
           /\ Prepare(doc).sslCertificates = doc.sslCertificates
<1>1. PICK tables : tables = migrateRoutingToLoadBalancer(doc.legacy)
    OBVIOUS
<1>2. PICK made : made = [doc EXCEPT !.lb = tables, !.legacy = NoLegacy]
    OBVIOUS
<1>3. /\ made.lb = tables /\ made.legacy = NoLegacy
      /\ made.certificates = doc.certificates /\ made.sslCertificates = doc.sslCertificates
    BY <1>2 DEF Document
<1>4. Prepare(doc) = IF Migrates(doc) THEN made ELSE doc
    BY <1>1, <1>2 DEF Prepare, Migrates
<1> QED
    BY <1>1, <1>3, <1>4

(* Once prepared, a document has one kind of routing. *)
LEMMA PreparedOnce ==
    ASSUME NEW doc \in Document
    PROVE  /\ Prepare(Prepare(doc)) = Prepare(doc)
           /\ ~HasConflict(doc) => ~HasConflict(Prepare(doc))
<1>1. PICK made : made = Prepare(doc)
    OBVIOUS
<1>2. CASE Migrates(doc)
  <2>1. made.legacy = NoLegacy
      BY <1>1, <1>2, PrepareIs
  <2>2. ~hasLegacyRouting(made.legacy)
      BY <2>1 DEF hasLegacyRouting, NoLegacy
  <2>3. Prepare(made) = made /\ ~HasConflict(made)
      BY <2>2 DEF Prepare, HasConflict
  <2> QED
      BY <1>1, <2>3
<1>3. CASE ~Migrates(doc)
  <2>1. Prepare(doc) = doc
      BY <1>3, PrepareIs
  <2> QED
      BY <2>1
<1> QED
    BY <1>2, <1>3

(* Preparation does not touch the certificates. *)
LEMMA CertificatesKept ==
    ASSUME NEW doc \in Document, NEW made, made = Prepare(doc)
    PROVE  /\ Loadable(made) <=> Loadable(doc)
           /\ \A name : Naming(made, name) = Naming(doc, name)
           /\ \A host : GetCertificate(made, host) = GetCertificate(doc, host)
           /\ made.certificates = doc.certificates
<1>1. made.certificates = doc.certificates /\ made.sslCertificates = doc.sslCertificates
    BY PrepareIs
<1>2. Legacy(made) = Legacy(doc)
    BY <1>1 DEF Legacy
<1>3. Managed(made) = Managed(doc)
    BY <1>1 DEF Managed
<1>4. LoadOrder(made) = LoadOrder(doc)
    BY <1>2, <1>3 DEF LoadOrder
<1>5. CertificateTable(made) = CertificateTable(doc)
    BY <1>4 DEF CertificateTable
<1>6. DefaultCert(made) = DefaultCert(doc)
    BY <1>1 DEF DefaultCert
<1>7. \A host : GetCertificate(made, host) = GetCertificate(doc, host)
    BY <1>5, <1>6 DEF GetCertificate
<1>8. \A name : Naming(made, name) = Naming(doc, name)
    BY <1>2, <1>3 DEF Naming
<1>9. Loadable(made) <=> Loadable(doc)
    BY <1>1 DEF Loadable
<1> QED
    BY <1>1, <1>7, <1>8, <1>9

LEMMA OutcomeKept ==
    ASSUME NEW doc \in Document, ~hasLoadBalancerBinding(doc.lb), NEW host \in Hosts
    PROVE  Outcome(Prepare(doc), host) = Outcome(Complete(doc), host)
<1>1. Outcome(Complete(doc), host) = LegacyAnswer(doc.legacy, host)
    BY LegacyOutcome
<1>2. PICK legacy : /\ legacy = doc.legacy /\ legacy.domains \in Seq(Rule)
                    /\ legacy.default \in Upstreams \cup {None}
    BY LegacyType
<1>3. CASE Migrates(doc)
  <2>1. PICK made : made = Prepare(doc)
      OBVIOUS
  <2>2. made.lb = migrateRoutingToLoadBalancer(legacy) /\ made.legacy = NoLegacy
      BY <1>2, <1>3, <2>1, PrepareIs
  <2>3. Outcome(made, host) = LegacyAnswer(legacy, host)
      BY <1>2, <2>2, MigratedOutcome
  <2> QED
      BY <1>1, <1>2, <2>1, <2>3
<1>4. CASE ~Migrates(doc)
  <2>1. legacy.domains = <<>> /\ legacy.default = None
      BY <1>2, <1>4 DEF Migrates, hasLegacyRouting
  <2>2. Prepare(doc) = doc
      BY <1>4, PrepareIs
  <2>3. 1..Len(legacy.domains) = {}
      BY <2>1
  <2>4. ResolveRoute(doc, host) = LegacyRoute(doc, host)
      BY NoBinding DEF ResolveRoute
  <2>5. LegacyRoute(doc, host) = NoRoute
      BY <1>2, <2>1, <2>3 DEF LegacyRoute, SelectLastInSeq, SelectInSeq
  <2>6. Outcome(doc, host) = Answer(FALSE, None)
      BY <2>4, <2>5 DEF Outcome, NoRoute, Answer
  <2>7. ExactRules(legacy.domains, host) = {} /\ WildcardRules(legacy.domains, host) = {}
      BY <2>3 DEF ExactRules, WildcardRules
  <2>8. LegacyAnswer(legacy, host) = Answer(FALSE, None)
      BY <2>1, <2>7 DEF LegacyAnswer
  <2> QED
      BY <1>1, <1>2, <2>2, <2>6, <2>8
<1> QED
    BY <1>3, <1>4

LEMMA PreparedValid ==
    ASSUME NEW doc \in Document, ~hasLoadBalancerBinding(doc.lb)
    PROVE  ValidLB(Prepare(doc).lb)
<1>1. CASE Migrates(doc)
  <2>1. PICK legacy : /\ legacy = doc.legacy /\ legacy.domains \in Seq(Rule)
                      /\ legacy.default \in Upstreams \cup {None}
      BY LegacyType
  <2>2. PICK lb : lb = Prepare(doc).lb
      OBVIOUS
  <2>3. lb = migrateRoutingToLoadBalancer(legacy)
      BY <1>1, <2>1, <2>2, PrepareIs
  <2>4. ValidLB(lb)
      BY <2>1, <2>3, MigrationValid
  <2> QED
      BY <2>2, <2>4
<1>2. CASE ~Migrates(doc)
  <2>1. PICK lb : lb = doc.lb
      OBVIOUS
  <2>2. Prepare(doc).lb = lb
      BY <1>2, <2>1, PrepareIs
  <2>3. lb.pools = <<>> /\ lb.routes = <<>> /\ lb.default = None
      BY <2>1 DEF hasLoadBalancerBinding
  <2>4. DOMAIN lb.pools = {} /\ DOMAIN lb.routes = {}
      BY <2>3
  <2>5. ValidLB(lb)
      BY <2>3, <2>4 DEF ValidLB
  <2> QED
      BY <2>2, <2>5
<1> QED
    BY <1>1, <1>2

(* What is in force is an accepted document, prepared. *)
IsPrepared ==
    live # NoDocument =>
        /\ sent \in Document
        /\ ~HasConflict(sent)
        /\ Loadable(sent)
        /\ live = Prepare(sent)

(* Applying the stored document again changes nothing (Manager.Apply on what       *)
(* CurrentConfig returns, manager.go).                                           *)
THEOREM TablesInvariance == Spec => []IsPrepared
<1>1. Init => IsPrepared
    BY DEF Init, IsPrepared
<1>2. IsPrepared /\ [Next]_vars => IsPrepared'
  <2> SUFFICES ASSUME IsPrepared, [Next]_vars
               PROVE  IsPrepared'
      OBVIOUS
  <2>1. CASE Reapply
    <3>1. /\ live # NoDocument /\ sent' = sent /\ live' = Prepare(live)
        BY <2>1 DEF Reapply
    <3>2. sent \in Document /\ ~HasConflict(sent) /\ Loadable(sent) /\ live = Prepare(sent)
        BY <3>1 DEF IsPrepared
    <3>3. Prepare(Prepare(sent)) = Prepare(sent)
        BY <3>2, PreparedOnce
    <3>4. live' = Prepare(sent)
        BY <3>1, <3>2, <3>3
    <3>5. sent' \in Document /\ ~HasConflict(sent') /\ Loadable(sent') /\ live' = Prepare(sent')
        BY <3>1, <3>2, <3>4
    <3> QED
        BY <3>5 DEF IsPrepared
  <2>2. ASSUME NEW doc \in Documents, Apply(doc)
        PROVE  IsPrepared'
    <3>1. sent' = doc /\ live' = Prepare(doc) /\ ~HasConflict(doc) /\ Loadable(doc)
        BY <2>2 DEF Apply
    <3>2. doc \in Document
        BY RouteTablesAssumption
    <3>3. sent' \in Document /\ ~HasConflict(sent') /\ Loadable(sent') /\ live' = Prepare(sent')
        BY <3>1, <3>2
    <3> QED
        BY <3>3 DEF IsPrepared
  <2>3. CASE UNCHANGED vars
    <3>1. sent' = sent /\ live' = live
        BY <2>3 DEF vars
    <3> QED
        BY <3>1 DEF IsPrepared
  <2> QED
      BY <2>1, <2>2, <2>3 DEF Next
<1> QED
    BY <1>1, <1>2, PTL DEF Spec

(* migrateRoutingToLoadBalancer (manager_lb.go) answers every host as the legacy    *)
(* tables would, for any number of rules and any names and upstreams.               *)
THEOREM MigrationSound == Spec => []MigrationPreservesRouting
<1>1. IsPrepared => MigrationPreservesRouting
    BY OutcomeKept DEF IsPrepared, MigrationPreservesRouting
<1> QED
    BY <1>1, TablesInvariance, PTL

(* prepareRoutingAndLoadBalancer settles a document: what is stored can be applied  *)
(* again, and a migrated one is valid.                                            *)
THEOREM PreparationStable == Spec => []PreparationIsStable
<1>1. IsPrepared => PreparationIsStable
    BY PreparedOnce, PreparedValid DEF IsPrepared, PreparationIsStable
<1> QED
    BY <1>1, TablesInvariance, PTL

(* checkRoutingLoadBalancerConflict refuses a mixed document in which a load-       *)
(* balancer rule would hide a legacy one.                                         *)
THEOREM RulesVisible == Spec => []NoRuleIsHidden
<1>1. ASSUME IsPrepared PROVE NoRuleIsHidden
  <2> SUFFICES ASSUME live # NoDocument, hasLoadBalancerBinding(sent.lb), sent.lb.default = None,
                      NEW i \in DOMAIN sent.legacy.domains,
                      sent.legacy.domains[i].domain \in Hosts,
                      \A j \in DOMAIN sent.legacy.domains :
                         sent.legacy.domains[j].domain = sent.legacy.domains[i].domain => j <= i
               PROVE  ResolveRoute(live, sent.legacy.domains[i].domain).target
                        = sent.legacy.domains[i].upstream
      BY DEF NoRuleIsHidden
  <2>1. PICK doc, host : doc = sent /\ host = sent.legacy.domains[i].domain
      OBVIOUS
  <2>2. doc \in Document /\ ~HasConflict(doc) /\ live = Prepare(doc)
      BY <1>1, <2>1 DEF IsPrepared
  <2>3. live = doc
    <3>1. ~Migrates(doc)
        BY <2>1 DEF Migrates
    <3> QED
        BY <2>2, <3>1, PrepareIs
  <2>4. doc.legacy.domains # <<>>
      BY <2>1
  <2>5. ~hasLoadBalancerRuleForDomain(doc.lb, host)
      BY <2>1, <2>2, <2>4 DEF HasConflict, hasLegacyRouting
  <2>6. ResolveRoute(doc, host).target = doc.legacy.domains[i].upstream
      BY <2>1, <2>2, <2>5, LegacyAnswers
  <2> QED
      BY <2>1, <2>3, <2>6
<1> QED
    BY <1>1, TablesInvariance, PTL

(* Every handshake gets the certificate that fits best (loadCertificates and        *)
(* GetCertificate), for any documents and names.                                  *)
THEOREM CertificatesFit == Spec => []CertificateFits
<1>1. ASSUME IsPrepared PROVE CertificateFits
  <2> SUFFICES ASSUME live # NoDocument, NEW host \in Hosts, NEW cert,
                      cert = GetCertificate(live, host)
               PROVE  /\ Naming(live, host) # {} => cert \in Naming(live, host)
                      /\ Naming(live, host) = {} /\ Naming(live, WildcardOf[host]) # {} =>
                            cert \in Naming(live, WildcardOf[host])
                      /\ live.certificates # <<>> => cert # None
      BY DEF CertificateFits
  <2>1. PICK doc : doc = sent
      OBVIOUS
  <2>2. doc \in Document /\ Loadable(doc) /\ live = Prepare(doc)
      BY <1>1, <2>1 DEF IsPrepared
  <2>3. /\ \A name : Naming(live, name) = Naming(doc, name)
        /\ cert = GetCertificate(doc, host)
        /\ live.certificates = doc.certificates
      BY <2>2, CertificatesKept
  <2>4. /\ Naming(doc, host) # {} => cert \in Naming(doc, host)
        /\ Naming(doc, host) = {} /\ Naming(doc, WildcardOf[host]) # {} =>
              cert \in Naming(doc, WildcardOf[host])
        /\ doc.certificates # <<>> => cert # None
      BY <2>2, <2>3, LookupFits
  <2> QED
      BY <2>3, <2>4
<1> QED
    BY <1>1, TablesInvariance, PTL

-----------------------------------------------------------------------------
(***************************************************************************)
(* What the gateway is given                                                *)
(***************************************************************************)

NodeType == [upstream : Upstreams \cup {None}, weight : Int, enabled : BOOLEAN]

LEMMA IdsInUse ==
    ASSUME NEW lb, NEW S, lb.pools \in Seq([id : S, nodes : Seq(NodeType)])
    PROVE  lb.pools \in Seq([id : UsedIDs(lb), nodes : Seq(NodeType)])
<1>1. PICK pools, R, T, Nodes : /\ pools = lb.pools
                                /\ Nodes = Seq(NodeType)
                                /\ R = [id : S, nodes : Nodes]
                                /\ T = [id : UsedIDs(lb), nodes : Nodes]
    OBVIOUS
<1>2. pools \in Seq(R)
    BY <1>1
<1>3. PICK n \in Nat : n = Len(pools) /\ DOMAIN pools = 1..n
    BY <1>2
<1>4. ASSUME NEW i \in 1..n PROVE pools[i] \in T
  <2>1. pools[i] \in R
      BY <1>2, <1>3
  <2>2. pools[i].id \in UsedIDs(lb)
      BY <1>1, <1>3 DEF UsedIDs
  <2> QED
      BY <1>1, <2>1, <2>2
<1>5. pools \in [1..n -> T]
    BY <1>2, <1>3, <1>4
<1>6. pools \in Seq(T)
    BY <1>5, SeqDef
<1> QED
    BY <1>1, <1>6

LEMMA RulesComplete ==
    ASSUME NEW rules \in Seq(Rule), \A i \in DOMAIN rules : rules[i].upstream # None
    PROVE  rules \in Seq([domain : Domains, upstream : Upstreams, force : BOOLEAN])
<1>1. PICK T : T = [domain : Domains, upstream : Upstreams, force : BOOLEAN]
    OBVIOUS
<1>2. PICK n \in Nat : n = Len(rules) /\ DOMAIN rules = 1..n
    OBVIOUS
<1>3. ASSUME NEW i \in 1..n PROVE rules[i] \in T
  <2>1. rules[i] \in Rule /\ rules[i].upstream # None
      BY <1>2
  <2> QED
      BY <1>1, <2>1 DEF Rule
<1>4. rules \in [1..n -> T]
    BY <1>2, <1>3
<1>5. rules \in Seq(T)
    BY <1>4, SeqDef
<1> QED
    BY <1>1, <1>5

LEMMA PreparedCompiled ==
    ASSUME NEW doc \in Document, Compiles(Prepare(doc))
    PROVE  Compiled(Prepare(doc))
<1>1. PICK made : made = Prepare(doc)
    OBVIOUS
<1>2. made.legacy.domains \in Seq(Rule)
  <2>1. CASE Migrates(doc)
    <3>1. made.legacy.domains = <<>>
        BY <1>1, <2>1, PrepareIs DEF NoLegacy
    <3> QED
        BY <3>1
  <2>2. CASE ~Migrates(doc)
      BY <1>1, <2>2, PrepareIs, LegacyType
  <2> QED
      BY <2>1, <2>2
<1>3. \E S : made.lb.pools \in Seq([id : S, nodes : Seq(NodeType)])
  <2>1. CASE Migrates(doc)
    <3>1. PICK legacy : /\ legacy = doc.legacy /\ legacy.domains \in Seq(Rule)
                        /\ legacy.default \in Upstreams \cup {None}
        BY LegacyType
    <3>2. PICK lb : lb = made.lb /\ lb = migrateRoutingToLoadBalancer(legacy)
        BY <1>1, <2>1, <3>1, PrepareIs
    <3>3. lb.pools \in Seq(MigratedPools)
        BY <3>1, <3>2, MigrationStands DEF Stands, Mirrors
    <3>4. MigratedPools \subseteq [id : MigratedIds, nodes : Seq(NodeType)]
      <4>1. ASSUME NEW u \in Upstreams
            PROVE  <<[upstream |-> u, weight |-> 1, enabled |-> TRUE]>> \in Seq(NodeType)
        <5>1. [upstream |-> u, weight |-> 1, enabled |-> TRUE] \in NodeType
            BY DEF NodeType
        <5> QED
            BY <5>1
      <4> QED
          BY <4>1 DEF MigratedPools
    <3>5. lb.pools \in Seq([id : MigratedIds, nodes : Seq(NodeType)])
      <4>1. PICK T : T = [id : MigratedIds, nodes : Seq(NodeType)]
          OBVIOUS
      <4>2. MigratedPools \subseteq T
          BY <3>4, <4>1
      <4>3. lb.pools \in Seq(T)
          BY <3>3, <4>2
      <4> QED
          BY <4>1, <4>3
    <3> QED
        BY <3>2, <3>5
  <2>2. CASE ~Migrates(doc)
    <3>1. made = doc
        BY <1>1, <2>2, PrepareIs
    <3>2. doc.lb.pools \in Seq([id : Ids, nodes : Seq(NodeType)])
        BY DEF Document, NodeType
    <3> QED
        BY <3>1, <3>2
  <2> QED
      BY <2>1, <2>2
<1>4. made.lb.pools \in Seq([id : UsedIDs(made.lb), nodes : Seq(NodeType)])
    BY <1>3, IdsInUse
<1>5. made.legacy.domains \in Seq([domain : Domains, upstream : Upstreams, force : BOOLEAN])
  <2>1. \A i \in DOMAIN made.legacy.domains : made.legacy.domains[i].upstream # None
      BY <1>1 DEF Compiles
  <2> QED
      BY <1>2, <2>1, RulesComplete
<1> QED
    BY <1>1, <1>4, <1>5 DEF Compiled, NodeType

(* What Manager.Apply stores is what GatewayAssumption asks of the documents that   *)
(* SwapDocument puts in force: the assumption of the one module is a theorem of the *)
(* other.                                                                         *)
THEOREM StoredIsCompiled == Spec => [](live # NoDocument => Compiled(live))
<1> DEFINE Stored == live # NoDocument => Compiles(live)
<1>1. Init => Stored
    BY DEF Init
<1>2. Stored /\ [Next]_vars => Stored'
  <2> SUFFICES ASSUME Stored, [Next]_vars PROVE Stored'
      OBVIOUS
  <2>1. CASE Reapply
    <3>1. Compiles(live')
        BY <2>1 DEF Reapply
    <3> QED
        BY <3>1
  <2>2. ASSUME NEW doc \in Documents, Apply(doc) PROVE Stored'
    <3>1. Compiles(live')
        BY <2>2 DEF Apply
    <3> QED
        BY <3>1
  <2>3. CASE UNCHANGED vars
      BY <2>3 DEF vars
  <2> QED
      BY <2>1, <2>2, <2>3 DEF Next
<1>3. IsPrepared /\ Stored => (live # NoDocument => Compiled(live))
    BY PreparedCompiled DEF IsPrepared
<1> QED
    BY <1>1, <1>2, <1>3, TablesInvariance, PTL DEF Spec

=============================================================================
